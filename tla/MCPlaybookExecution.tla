------------------------- MODULE MCPlaybookExecution -------------------------
(* An instance of PlaybookExecution for TLC: step 1 leads to step 2 or closes *)
(* the playbook, step 2 leads back to step 1 or past the last step.           *)
EXTENDS PlaybookExecution, TLC

MCSteps == {1, 2}
MCDelay == (1 :> 0) @@ (2 :> 1)
MCFollow == (1 :> {2}) @@ (2 :> {1, 3})
MCClosing == {1}
=============================================================================
