SPECIFICATION Spec
CONSTANTS
  A = A
  B = B
  fileA = fileA
  backA = backA
  hookA = hookA
  pasB = pasB
  lmsB = lmsB
  a1 = a1
  a2 = a2
  b1 = b1
  p1 = p1
  v = v
  Bad = Bad
  None = None
  Tenants = {A, B}
  Requests = {fileA, backA, hookA, pasB, lmsB}
  Request <- MCRequest
  Defaults <- MCDefaults
  Overrides <- MCOverrides
  Agents0 <- MCAgents0
  MaxTries <- MCMaxTries
  MaxFaults = 1
INVARIANTS MappedAsConfigured
CHECK_DEADLOCK FALSE
