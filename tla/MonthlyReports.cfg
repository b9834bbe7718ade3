SPECIFICATION Spec
CONSTANTS
  m1 = m1
  m2 = m2
  t1 = t1
  t2 = t2
  None = None
  Managers <- MCManagers
  Tenants <- MCTenants
  Days <- MCDays
  Firsts <- MCFirsts
  MaxFaults = 2
  MaxRequests = 2
INVARIANTS MonthlyForAll
CHECK_DEADLOCK FALSE
