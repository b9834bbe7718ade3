\* Three callers for two slots, two callers may die; two senders to two agents, one death or lost answer;
\* two requests at a time on two rows of two names.
SPECIFICATION Spec
CONSTANTS
  c1 = c1
  c2 = c2
  c3 = c3
  s1 = s1
  s2 = s2
  a1 = a1
  a2 = a2
  Never = Never
  Nobody = Nobody
  Callers = {c1, c2, c3}
  MaxConcurrent = 2
  SlotTTL = 2
  MaxPerHour = 2
  Hour = 2
  HourTTL = 3
  MaxTime = 4
  MaxCrashes = 2
  Senders = {s1, s2}
  Agents = {a1, a2}
  Consenting = {a1}
  MaxPerSecond = 3
  SecondTTL = 1
  MaxPerDay = 2
  DayTTL = 2
  LastTime = 4
  MaxFailures = 1
  n1 = n1
  n2 = n2
  e1 = e1
  e2 = e2
  Names = {n1, n2}
  Editors = {e1, e2}
  MaxRows = 2
  NoName = NoName
SYMMETRY Symmetry
INVARIANTS
  CallsWithinSlots
  FullCounterExpires
  HourlyLimit
  DailyLimit
PROPERTIES
  WorkflowForward
CHECK_DEADLOCK FALSE
