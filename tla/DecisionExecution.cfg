\* Two agents of a tenant, one executor, one request at a time.
SPECIFICATION FairSpec
CONSTANTS
  None = None
  t1 = t1
  a1 = a1
  a2 = a2
  w1 = w1
  r1 = r1
  Agents = {a1, a2}
  Tenants = {t1}
  TenantOf <- MCTenantOf
  AgentFacts <- MCFacts
  Initially <- MCInitially
  Moments <- MCMoments
  Executors = {w1}
  Requests = {r1}
  Limit = 1
  MaxDecisions = 3
  MaxChanges = 1
  MaxFaults = 1
INVARIANTS
  TypeOK
  AlertedOnce
  BatchSpacing
  SkipBound
  CallsInHours
PROPERTIES
  DueAreExecuted
CHECK_DEADLOCK FALSE
