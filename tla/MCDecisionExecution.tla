------------------------- MODULE MCDecisionExecution -------------------------
(* An instance of DecisionExecution for TLC: the hour of the batch on three    *)
(* days, and a late evening in India after the first.                         *)
EXTENDS DecisionExecution

CONSTANTS t1, a1, a2

Known(state, days) ==
  [state |-> state, since |-> 0 - days * Day, positive |-> None, contact |-> None,
   voice |-> "not_asked", whatsapp |-> "granted", contacts |-> 0, policies |-> 0,
   expiry |-> None, adm |-> TRUE]

Reviving == [Known("dormant", 200) EXCEPT !.positive = 0 - 2 * Day]
Uncontacted == Known("onboarded", 5)
MCFacts == {Reviving, Uncontacted}
MCInitially == {[a \in Agents |-> IF a = a1 THEN Uncontacted ELSE Reviving]}
MCTenantOf == [a \in Agents |-> t1]
MCMoments == {3, 32, Day + 3, 2 * Day + 3}

\* The batch starts on the hour; a decision of it can be half an hour later.
MCOnTheHour == {2, 3, Day + 2, Day + 3}
=============================================================================
