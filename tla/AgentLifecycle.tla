--------------------------- MODULE AgentLifecycle ---------------------------
(***************************************************************************)
(* The agent life-cycle state machine of modules/agent/lifecycle.py, as    *)
(* pure operators.  A signal kind is its type and the one field of its     *)
(* payload that the code tests ("none" when it tests nothing).             *)
(***************************************************************************)
EXTENDS Naturals

AgentStates ==
  {"onboarded", "licensed", "first_sale", "active", "productive",
   "at_risk", "dormant", "lapsed", "terminated"}

\* compute_transition returns None when nothing changes.
NoChange == "none"

Kind(type, payload) == [type |-> type, payload |-> payload]

\* The signal kinds the code distinguishes; "other" stands for every type no
\* branch of the signal processing looks at.
SignalKinds ==
  [type : {"policy_sold", "whatsapp_agent_replied",
           "training_completed_external", "adm_agent_visit_logged",
           "adm_nudge_received", "other"}, payload : {"none"}]
  \cup [type : {"voice_call_outcome"}, payload : {"answered", "completed", "no_answer"}]
  \cup [type : {"whatsapp_training_interaction"},
        payload : {"QUIZ_COMPLETED", "over_half", "up_to_half"}]
  \cup [type : {"adm_agent_call_logged"},
        payload : {"CONNECTED", "DETAILED_DISCUSSION", "NOT_CONNECTED"}]
  \cup [type : {"license_status_changed"}, payload : {"ACTIVE", "EXPIRED", "EXPIRING_SOON"}]
  \cup [type : {"consent_changed"}, payload : {"revoked", "granted"}]

AlwaysPositive ==
  {"policy_sold", "whatsapp_agent_replied", "training_completed_external",
   "adm_agent_visit_logged"}

IsPositiveSignal(k) ==
  \/ k.type \in AlwaysPositive
  \/ k.type = "voice_call_outcome" /\ k.payload \in {"answered", "completed"}
  \/ k.type = "whatsapp_training_interaction" /\ k.payload \in {"QUIZ_COMPLETED", "over_half"}
  \/ k.type = "adm_agent_call_logged" /\ k.payload \in {"CONNECTED", "DETAILED_DISCUSSION"}

-----------------------------------------------------------------------------
(* The state-specific handlers.  `total` is total_policies_sold as the     *)
(* handler sees it, `engaged` is engagement_score > 60.                    *)

LicenseActive(k) == k = Kind("license_status_changed", "ACTIVE")
LicenseExpired(k) == k = Kind("license_status_changed", "EXPIRED")

\* The sale that promotes a first_sale agent.  Both callers have already
\* counted the sale when they ask, and the handler counts it once more.
CrossesActiveThreshold(total) == total + 1 >= 2

HandlerResult(state, k, total, engaged) ==
  LET sold == k.type = "policy_sold" IN
  CASE state \in {"onboarded", "lapsed"} /\ LicenseActive(k)              -> "licensed"
    [] state = "licensed" /\ sold                                         -> "first_sale"
    [] state = "first_sale" /\ sold /\ CrossesActiveThreshold(total)      -> "active"
    [] state = "at_risk" /\ (sold \/ (IsPositiveSignal(k) /\ engaged))    -> "active"
    [] state = "dormant" /\ sold                                          -> "active"
    [] state = "dormant" /\ ~sold /\ IsPositiveSignal(k)                  -> "licensed"
    [] OTHER                                                              -> NoChange

\* Faulty variant: the name of the state instead of its value.
ComputeTransitionByName(state, k, total, engaged) ==
  IF LicenseExpired(k) /\ state # "lapsed"
  THEN "LAPSED"
  ELSE HandlerResult(state, k, total, engaged)

\* The expiry of the license is looked at first, whatever the state.
ComputeTransition(state, k, total, engaged) ==
  IF LicenseExpired(k) /\ state # "lapsed"
  THEN "lapsed"
  ELSE HandlerResult(state, k, total, engaged)
=============================================================================
