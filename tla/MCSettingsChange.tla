-------------------------- MODULE MCSettingsChange --------------------------
(* An instance of SettingsChange for TLC: two sections; the two proposals for *)
(* the first are valid alone and not together, one for the second never is.   *)
EXTENDS SettingsChange

Pair(l, u) == [f \in Fields |-> IF f = "lower" THEN l ELSE u]
Lifecycle(l, u) == [section |-> "lifecycle_thresholds", values |-> Pair(l, u)]
Contact(l, u) == [section |-> "contact_rules", values |-> Pair(l, u)]

MCSections == {"lifecycle_thresholds", "contact_rules"}
MCValues == 1 .. 3
MCConfigs ==
  {[s \in MCSections |-> Pair(1, 3)],
   [s \in MCSections |-> IF s = "contact_rules" THEN Pair(Absent, Absent) ELSE Pair(Absent, 2)]}
MCProposals ==
  {Lifecycle(2, Absent), Lifecycle(Absent, 2), Contact(3, 2), Contact(Absent, 1)}

MCOneSection == {"lifecycle_thresholds"}
MCOneConfigs == {[s \in MCOneSection |-> Pair(1, 3)]}
MCOneProposals == {p \in MCProposals : p.section \in MCOneSection}
=============================================================================
