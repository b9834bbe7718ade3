\* Two overlapping workers that read one signal at a time.
SPECIFICATION FairSpec
CONSTANTS
  a1 = a1
  w1 = w1
  w2 = w2
  r1 = r1
  None = None
  Agents = {a1}
  Workers = {w1, w2}
  Requests = {r1}
  Kinds <- MCSaleOnly
  WithAdm = {a1}
  Engaged = {}
  CreatedAs = {"licensed"}
  MaxSignals = 3
  BatchLimit = 1
  MaxFaults = 1
  RlsEnforced = FALSE
PROPERTIES
  EventuallyProcessed
CHECK_DEADLOCK FALSE
