-------------------------- MODULE MCIntegrationUpload --------------------------
(* Two files of tenant A with rows in opposite order and a webhook of the same  *)
(* policy; a file of tenant B, for which A's field mapping is not meant; B's LMS. *)
EXTENDS IntegrationUpload, TLC
CONSTANTS A, B, fileA, backA, hookA, pasB, lmsB, a1, a2, b1, p1, v

MCDefaults ==
  [pas |-> [agent_id |-> "agent_code", policy_no |-> "policy_number", adm_code |-> "assigned_adm_id"],
   lms |-> [agent_id |-> "agent_code", completed_on |-> "completion_date", marks |-> "score"]]
MCOverrides ==
  (A :> [pas |-> [ref |-> "policy_number"], lms |-> <<>>])
  @@ (B :> [pas |-> <<>>, lms |-> [completed_on |-> "expiry_date", finished |-> "completion_date"]])
MCAgents0 == (A :> {a1}) @@ (B :> {b1})
MCRequest ==
  (fileA :> [tenant |-> A, source |-> "pas", event |-> None, rows |->
     <<[agent_id |-> a2, adm_code |-> ""], [agent_id |-> a1, ref |-> p1],
       [agent_id |-> a1, ref |-> "", adm_code |-> Bad]>>])
  @@ (backA :> [tenant |-> A, source |-> "pas", event |-> None, rows |->
     <<[agent_id |-> a1, policy_no |-> p1], [agent_id |-> a2], [agent_id |-> a1, license_expiry_date |-> Bad]>>])
  @@ (hookA :> [tenant |-> A, source |-> "pas", event |-> "policy", rows |->
     <<[agent_code |-> a1, policy_number |-> p1]>>])
  @@ (pasB :> [tenant |-> B, source |-> "pas", event |-> None, rows |->
     <<[agent_id |-> b1, ref |-> v]>>])
  @@ (lmsB :> [tenant |-> B, source |-> "lms", event |-> None, rows |->
     <<[agent_id |-> b1, training_name |-> v, finished |-> v, completed_on |-> v],
       [agent_id |-> b1, license_number |-> v, status |-> v, marks |-> ""],
       [agent_id |-> a1, training_name |-> v, finished |-> v, marks |-> ""]>>])
MCMaxTries == [u \in Requests |-> IF u = fileA THEN 2 ELSE 1]
=============================================================================
