\* One polling task at a time, two requests, batches of two runs, one failure.
SPECIFICATION FairSpec
CONSTANTS
  a1 = a1
  a2 = a2
  p1 = p1
  w1 = w1
  w2 = w2
  r1 = r1
  r2 = r2
  None = None
  Playbooks = {p1}
  Agents = {a1, a2}
  Workers = {w1}
  Requests = {r1, r2}
  Steps <- MCSteps
  Delay <- MCDelay
  Follow <- MCFollow
  Closing <- MCClosing
  Durations = {1, 2}
  MaxRuns = 2
  LastStart = 0
  MaxDay = 3
  BatchLimit = 2
  MaxFaults = 1
INVARIANTS
  ExecutedCountsTrail
  ActiveIsScheduled
  OneActiveRun
  TimesExecutedCounts
PROPERTIES
  RunPromise
  RunsEnd
CHECK_DEADLOCK FALSE
