\* One handler of each kind in flight, two sections, two requests.
SPECIFICATION Spec
CONSTANTS
  None = None
  Absent = Absent
  r1 = r1
  v1 = v1
  c1 = c1
  Requesters = {r1}
  Verifiers = {v1}
  Cancellers = {c1}
  Sections <- MCSections
  Values <- MCValues
  Proposals <- MCProposals
  Configs <- MCConfigs
  Whole = 10
  MaxRequests = 2
INVARIANTS
  TypeOK
  GuessLimit
  OnePendingPerSection
PROPERTIES
  LedgerPromise
CHECK_DEADLOCK FALSE
