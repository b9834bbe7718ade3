SPECIFICATION Spec
CONSTANTS
  a1 = a1
  a2 = a2
  a3 = a3
  stranger = stranger
  m1 = m1
  m2 = m2
  c1 = c1
  c2 = c2
  p1 = p1
  r1 = r1
  why = why
  u1 = u1
  None = None
  Everyone = {a1, a2, a3}
  Orders <- MCOrders
  Managers = {m1, m2}
  Books <- MCBooks
  Samples <- MCSamples
  DayLength = 2
  Weekdays = {0, 3}
  Grain = 4
  Low = 1
  High = 2
  Unresponsive = 1
  Supported = 2
  Responsive = 3
  MaxPriority = 2
  MaxSignals = 2
  MaxNudges = 9
INVARIANTS StoredIsLive ClassesAgree ReactivationsRelate TaskIsAbridged
CHECK_DEADLOCK FALSE
