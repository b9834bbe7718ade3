\* One slow-path worker, one request at a time, one failure.
SPECIFICATION Spec
CONSTANTS
  a1 = a1
  w1 = w1
  r1 = r1
  None = None
  Agents = {a1}
  Workers = {w1}
  Requests = {r1}
  Kinds <- MCReplyKinds
  WithAdm = {a1}
  Engaged = {a1}
  CreatedAs = {"onboarded", "dormant", "at_risk"}
  MaxSignals = 4
  BatchLimit = 2
  MaxFaults = 1
  RlsEnforced = FALSE
INVARIANTS
  TypeOK
  NoOvercount
  CountExactUnlessOverwritten
  AuditTailIsState
  AuditChainsUnlessOverwritten
  OneTransitionPerSignal
  NudgePerAlert
CHECK_DEADLOCK FALSE
