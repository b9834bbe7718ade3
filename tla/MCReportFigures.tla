---------------------------- MODULE MCReportFigures ----------------------------
(* Three agents of two managers, a signal of every kind the figures tell apart, *)
(* days of two halves with signals at the edges of every window, and thresholds *)
(* of activation and response with fractions between and beside them.  A signal *)
(* may name an agent that is in no list.                                        *)
EXTENDS ReportFigures
CONSTANTS a1, a2, a3, stranger, m1, m2, c1, c2, p1, r1, why, u1

MCOrders == {<<a1, a2, a3>>, <<a3, a1, a2>>}

Profile(state, adm) ==
  [state |-> state, adm |-> adm, region |-> None, reason |-> None, expiry |-> None,
   positive |-> None, deleted |-> FALSE]
Usual ==
  {[Profile("dormant", m1) EXCEPT !.positive = -13, !.region = r1, !.reason = why],
   [Profile("dormant", m1) EXCEPT !.expiry = 92, !.positive = -3],
   [Profile("at_risk", m1) EXCEPT !.expiry = 2], Profile("at_risk", m1), Profile("active", m1)}
Others == {Profile("terminated", m1), Profile("first_sale", m2),
           [Profile("active", None) EXCEPT !.deleted = TRUE], [Profile("dormant", m1) EXCEPT !.positive = -14],
           Profile("at_risk", m1)}
MCBooks ==
  {[a \in {a1, a2, a3} |-> IF a = a1 THEN x ELSE IF a = a2 THEN y ELSE z] :
     x \in Usual, y \in Usual, z \in Others}

Signal(type, agent, at) ==
  [type |-> type, agent |-> agent, adm |-> None, at |-> at, channel |-> c1, playbook |-> None,
   prev |-> None, next |-> None, what |-> None, pct |-> 0, module |-> None]
Moved(agent, at, prev, next) == [Signal("lifecycle", agent, at) EXCEPT !.prev = prev, !.next = next]
Nudge(type, n) == [Signal(type, a1, 0 - n) EXCEPT !.adm = m1]
MCSamples ==
  {Signal("message", a1, -4), [Signal("call", a2, -14) EXCEPT !.playbook = p1],
   [Signal("call_outcome", a1, -6) EXCEPT !.what = "answered", !.channel = c2],
   [Signal("call_outcome", a2, -8) EXCEPT !.what = "no_answer", !.playbook = p1],
   [Signal("adm_visit", a1, 1) EXCEPT !.channel = c2], [Signal("reply", a3, -62) EXCEPT !.channel = c2],
   [Signal("training", a1, -10) EXCEPT !.module = u1, !.pct = 60, !.playbook = p1],
   [Signal("training", a2, -12) EXCEPT !.module = u1, !.pct = 80],
   [Signal("training", a1, -13) EXCEPT !.module = u1, !.what = "QUIZ_COMPLETED"],
   [Signal("training", a3, -180) EXCEPT !.module = u1, !.what = "QUIZ_COMPLETED"],
   [Signal("training", stranger, -16) EXCEPT !.module = u1, !.pct = 90], Signal("training_external", a2, -14),
   [Signal("adm_call", a3, -12) EXCEPT !.adm = m1], [Signal("sold", a2, 0) EXCEPT !.channel = None],
   Signal("sold", a1, 3), [Signal("sold", a1, -1) EXCEPT !.playbook = p1],
   Moved(a1, -10, "dormant", "active"), Moved(a1, -60, "dormant", "licensed"),
   Moved(a2, -160, "dormant", "first_sale"), Moved(None, -1, "dormant", "active"),
   Moved(stranger, -4, "dormant", "active"), Moved(a2, -5, "dormant", None),
   Moved(a3, -14, "dormant", "at_risk"), Moved(a1, -20, "active", "at_risk"),
   [Moved(a3, -120, "at_risk", "dormant") EXCEPT !.what = why],
   [Moved(a2, -60, "active", "dormant") EXCEPT !.what = "unknown"]}
  \cup {Nudge("nudge_received", n) : n \in 1..5} \cup {Nudge("nudge_acted", n) : n \in 1..4}
=============================================================================
