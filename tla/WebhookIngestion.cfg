\* Two deliveries at a time, one delivered once more, one failure.
SPECIFICATION FairSpec
CONSTANTS
  hi = hi
  again = again
  stop = stop
  halt = halt
  tap1 = tap1
  tap2 = tap2
  call = call
  p1 = p1
  p2 = p2
  x = x
  y = y
  bye = bye
  id = id
  h1 = h1
  h2 = h2
  None = None
  Messages = {hi, again, stop, halt, tap1, tap2, call}
  Form <- MCForm
  Words <- MCWords
  Text <- MCText
  Sender <- MCSender
  Known = {p1, p2}
  Assigned = {p1}
  Tap <- MCTap
  Batches <- MCBatches
  Hooks = {h1, h2}
  Questions = 2
  MaxDups = 1
  MaxFaults = 1
  MaxQuizzes = 1
INVARIANTS
  EffectsStored
  CompletionsEarned
PROPERTIES
  AllAcknowledged
CHECK_DEADLOCK FALSE
