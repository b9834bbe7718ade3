---------------------------- MODULE PlaybookProofs ----------------------------
(***************************************************************************)
(* Proofs about PlaybookExecution, for every set of playbooks, agents,     *)
(* tasks and requests, every table of steps and every bound.               *)
(***************************************************************************)
EXTENDS PlaybookExecution, FiniteSetTheorems, WellFoundedInduction, TLAPS

-----------------------------------------------------------------------------
(* What an execution makes of a row.                                       *)

LEMMA FirstIsStep == First \in Steps
<1> DEFINE R == OpToRel(<, Nat)
<1>1. Steps \subseteq Nat /\ Steps # {}
  BY ConstantsAssumption
<1>2. IsWellFoundedOn(R, Nat)
  BY NatLessThanWellFounded
<1>3. \E s \in Steps : \A x \in Steps : ~ (<<x, s>> \in R)
  <2> HIDE DEF R
  <2> QED
    BY <1>1, <1>2, WFMin
<1>4. PICK s \in Steps : \A x \in Steps : ~ (<<x, s>> \in R)
  BY <1>3
<1>5. ASSUME NEW x \in Steps PROVE s <= x
  <2>1. ASSUME x < s PROVE FALSE
    <3>1. <<x, s>> \in R
      BY <1>1, <2>1 DEF OpToRel
    <3>2. QED
      BY <1>4, <3>1
  <2>2. QED
    BY <1>1, <2>1
<1>6. QED
  BY <1>5 DEF First

Ending == {"completed", "expired"}

\* Row `from` became `to` by executing `step`, or no step if that is None.
Done(from, to, step) ==
  /\ to.playbook = from.playbook /\ to.agent = from.agent
  /\ \/ step = None /\ to.executed = from.executed /\ to.status \in Ending /\ to.due = None
     \/ /\ step = from.step /\ step \in Steps /\ to.executed = from.executed + 1
        /\ \/ to.status = from.status /\ to.step \in Follow[step] \cap Steps /\ to.due \in Nat
           \/ to.status \in Ending /\ to.due = None

LEMMA EndedRow ==
  ASSUME NEW row \in RunRow, NEW status \in Statuses
  PROVE  LET e == Ended(row, status)
         IN  /\ e \in RunRow /\ e.status = status /\ e.due = None /\ e.executed = row.executed
             /\ e.playbook = row.playbook /\ e.agent = row.agent
BY DEF Ended, RunRow

Counted(row) == [row EXCEPT !.executed = @ + 1]

LEMMA CountedRow ==
  ASSUME NEW row \in RunRow
  PROVE  LET c == Counted(row)
         IN  /\ c \in RunRow /\ c.status = row.status /\ c.executed = row.executed + 1
             /\ c.playbook = row.playbook /\ c.agent = row.agent
BY DEF Counted, RunRow

Moved(row, to, due) == [row EXCEPT !.step = to, !.due = due]

LEMMA MovedRow ==
  ASSUME NEW row \in RunRow, NEW to \in Steps, NEW due \in Nat
  PROVE  LET m == Moved(row, to, due)
         IN  /\ m \in RunRow /\ m.status = row.status /\ m.executed = row.executed
             /\ m.step = to /\ m.due = due /\ m.playbook = row.playbook /\ m.agent = row.agent
BY ConstantsAssumption DEF Moved, RunRow

\* The row after a step that leads to `to`.
LEMMA AdvancedRow ==
  ASSUME NEW t \in Task, NEW row \in RunRow, row.step \in Steps, NEW to \in Follow[row.step]
  PROVE  Advanced(t, row, to) \in RunRow /\ Done(row, Advanced(t, row, to), row.step)
<1> DEFINE c == Counted(row)
           due == t.now + Delay[to]
<1>1. /\ c \in RunRow /\ c.status = row.status /\ c.executed = row.executed + 1
      /\ c.playbook = row.playbook /\ c.agent = row.agent
  BY CountedRow
<1>2. Advanced(t, row, to) = IF to \in Steps THEN Moved(c, to, due) ELSE Ended(c, "completed")
  BY DEF Advanced, Counted, Moved
<1> HIDE DEF c
<1>3. CASE to \in Steps
  <2>1. due \in Nat
    <3>1. t.now \in Nat /\ Delay[to] \in Nat
      BY <1>3, ConstantsAssumption DEF Task
    <3>2. QED
      BY <3>1
  <2> HIDE DEF due
  <2>2. QED
    BY <1>1, <1>2, <1>3, <2>1, MovedRow DEF Done
<1>4. CASE to \notin Steps
  BY <1>1, <1>2, <1>4, EndedRow DEF Done, Ending, Statuses
<1>5. QED
  BY <1>3, <1>4

LEMMA OutcomeType ==
  ASSUME NEW t \in Task, NEW row \in RunRow, NEW o \in Outcomes(t, row)
  PROVE  o.row \in RunRow /\ o.step \in Steps \cup {None} /\ Done(row, o.row, o.step)
<1> DEFINE c == Counted(row)
<1>1. ASSUME NEW status \in Ending, o = [row |-> Ended(row, status), step |-> None]
      PROVE  o.row \in RunRow /\ o.step \in Steps \cup {None} /\ Done(row, o.row, o.step)
  BY <1>1, EndedRow DEF Done, Ending, Statuses
<1>2. ASSUME row.step \in Steps, NEW to \in Follow[row.step],
             o = [row |-> Advanced(t, row, to), step |-> row.step]
      PROVE  o.row \in RunRow /\ o.step \in Steps \cup {None} /\ Done(row, o.row, o.step)
  BY <1>2, AdvancedRow
<1>3. ASSUME row.step \in Steps, o = [row |-> Ended(c, "completed"), step |-> row.step]
      PROVE  o.row \in RunRow /\ o.step \in Steps \cup {None} /\ Done(row, o.row, o.step)
  <2>1. /\ c \in RunRow /\ c.executed = row.executed + 1
        /\ c.playbook = row.playbook /\ c.agent = row.agent
    BY CountedRow
  <2> HIDE DEF c
  <2>2. QED
    BY <1>3, <2>1, EndedRow DEF Done, Ending, Statuses
<1>4. QED
  BY <1>1, <1>2, <1>3 DEF Outcomes, Ending, Counted

\* The UPDATE of the changed columns.
LEMMA FlushedType ==
  ASSUME NEW m \in Move, NEW i, runs[i] \in RunRow, Done(m.from, m.to, m.step)
  PROVE  /\ FlushedRun(m, i) \in RunRow
         /\ FlushedRun(m, i).playbook = runs[i].playbook /\ FlushedRun(m, i).agent = runs[i].agent
         /\ FlushedRun(m, i).status \in {runs[i].status} \cup Ending
<1>1. /\ FlushedRun(m, i) \in RunRow
      /\ m.to.playbook = m.from.playbook => FlushedRun(m, i).playbook = runs[i].playbook
      /\ m.to.agent = m.from.agent => FlushedRun(m, i).agent = runs[i].agent
      /\ FlushedRun(m, i).status = IF m.to.status # m.from.status THEN m.to.status ELSE runs[i].status
  BY DEF FlushedRun, Move, RunRow
<1>2. QED
  BY <1>1 DEF Done

LEMMA FlushedCurrent == ASSUME NEW m \in Move, NEW i, runs[i] = m.from PROVE FlushedRun(m, i) = m.to
BY DEF FlushedRun, Move, RunRow
-----------------------------------------------------------------------------
(* Type correctness.                                                       *)

\* What a task has fetched or moved is stored.
TasksStored ==
  \A w \in Workers : \A i \in RunIds :
    i \in tasks[w].todo \/ tasks[w].moves[i] # None => runs[i] # None

MovesDone ==
  \A w \in Workers : \A i \in RunIds :
    LET m == tasks[w].moves[i] IN m # None => Done(m.from, m.to, m.step)

\* A run that is about to be stored has a number of its own.
StartsFresh ==
  /\ \A i \in RunIds : runs[i] # None => i < nextRun
  /\ \A r \in Requests : starts[r] # None => starts[r].id < nextRun /\ runs[starts[r].id] = None
  /\ \A q, r \in Requests : starts[q] # None /\ starts[r] # None /\ starts[q].id = starts[r].id => q = r

StartsFirst ==
  \A r \in Requests : starts[r] # None =>
    LET row == starts[r].row
    IN  row.status = "in_progress" /\ row.step = First /\ row.due \in Nat /\ row.executed = 0

TypeInv == TypeOK /\ TasksStored /\ MovesDone /\ StartsFresh /\ StartsFirst

LEMMA IdleType == Idle \in Task /\ Idle.todo = {} /\ Idle.moves = [i \in RunIds |-> None]
BY ConstantsAssumption DEF Idle, Task

LEMMA InitType == Init => TypeInv
<1> SUFFICES ASSUME Init PROVE TypeInv
  OBVIOUS
<1>1. PICK days \in [Playbooks -> Durations] :
        playbooks = [p \in Playbooks |-> [active |-> TRUE, deleted |-> FALSE,
                                          maxDays |-> days[p], times |-> 0]]
  BY DEF Init
<1>2. playbooks \in [Playbooks -> PlaybookRow]
  BY <1>1 DEF PlaybookRow
<1>3. /\ nextRun \in 1 .. MaxRuns + 1 /\ now \in 0 .. MaxDay /\ faults \in 0 .. MaxFaults
      /\ trail \in [RunIds -> Seq(Steps)] /\ announced \in [RunIds -> Nat]
      /\ runs \in [RunIds -> RunRow \cup {None}] /\ starts \in [Requests -> Start \cup {None}]
      /\ overlap \in [RunIds -> SUBSET RunIds]
  BY ConstantsAssumption DEF Init
<1>4. tasks \in [Workers -> Task] /\ \A w \in Workers : tasks[w] = Idle
  BY IdleType DEF Init
<1>5. TasksStored /\ MovesDone
  BY <1>4, IdleType DEF TasksStored, MovesDone
<1>6. StartsFresh /\ StartsFirst
  BY DEF Init, StartsFresh, StartsFirst
<1>7. QED
  BY <1>2, <1>3, <1>4, <1>5, <1>6 DEF TypeInv, TypeOK

\* One execution, with the row it found and what it made of it.
Stepped(t, i, m, days) ==
  [t EXCEPT !.todo = @ \ {i}, !.rows[i] = m.from, !.days[m.from.playbook] = days, !.moves[i] = m]

LEMMA SteppedType ==
  ASSUME NEW t \in Task, NEW i \in RunIds, NEW m \in Move, NEW days \in Durations \cup {None}
  PROVE  /\ Stepped(t, i, m, days) \in Task
         /\ Stepped(t, i, m, days).todo = t.todo \ {i}
         /\ \A j \in RunIds : Stepped(t, i, m, days).rows[j] = IF j = i THEN m.from ELSE t.rows[j]
         /\ \A j \in RunIds : Stepped(t, i, m, days).moves[j] = IF j = i THEN m ELSE t.moves[j]
         /\ Stepped(t, i, m, days).open = t.open /\ Stepped(t, i, m, days).now = t.now
BY DEF Stepped, Task, Move

LEMMA ExecutedOne ==
  ASSUME TypeInv, NEW w \in Workers, ExecuteRun(w)
  PROVE  \E i \in tasks[w].todo, m \in Move, days \in Durations \cup {None} :
           /\ m.from = LoadedRun(tasks[w], i) /\ Done(m.from, m.to, m.step)
           /\ tasks' = [tasks EXCEPT ![w] = Stepped(tasks[w], i, m, days)]
<1> DEFINE t == tasks[w]
<1>1. t \in Task
  BY DEF TypeInv, TypeOK
<1>2. PICK i \in t.todo : \E o \in Outcomes(t, LoadedRun(t, i)) :
        LET row == LoadedRun(t, i)
        IN  tasks' = [tasks EXCEPT
              ![w].todo = @ \ {i},
              ![w].rows[i] = row,
              ![w].days[row.playbook] = MaxDuration(t, row.playbook),
              ![w].moves[i] = [from |-> row, to |-> o.row, step |-> o.step]]
  BY DEF ExecuteRun
<1>3. PICK o \in Outcomes(t, LoadedRun(t, i)) :
        LET row == LoadedRun(t, i)
        IN  tasks' = [tasks EXCEPT
              ![w].todo = @ \ {i},
              ![w].rows[i] = row,
              ![w].days[row.playbook] = MaxDuration(t, row.playbook),
              ![w].moves[i] = [from |-> row, to |-> o.row, step |-> o.step]]
  BY <1>2
<1> DEFINE row == LoadedRun(t, i)
           m == [from |-> row, to |-> o.row, step |-> o.step]
           days == MaxDuration(t, row.playbook)
<1>4. i \in RunIds /\ runs[i] \in RunRow
  BY <1>1 DEF TypeInv, TypeOK, TasksStored, Task
<1>5. row \in RunRow
  BY <1>1, <1>4 DEF LoadedRun, Task
<1>6. o.row \in RunRow /\ o.step \in Steps \cup {None} /\ Done(row, o.row, o.step)
  BY <1>1, <1>5, OutcomeType
<1>7. days \in Durations \cup {None}
  <2>1. row.playbook \in Playbooks
    BY <1>5 DEF RunRow
  <2>2. playbooks[row.playbook].maxDays \in Durations /\ t.days[row.playbook] \in Durations \cup {None}
    BY <1>1, <2>1 DEF TypeInv, TypeOK, PlaybookRow, Task
  <2>3. QED
    BY <2>2 DEF MaxDuration
<1> HIDE DEF row, days
<1>8. m \in Move /\ m.from = row /\ m.to = o.row /\ m.step = o.step
  BY <1>5, <1>6 DEF Move
<1>9. tasks' = [tasks EXCEPT ![w] = Stepped(t, i, m, days)]
  <2>1. tasks \in [Workers -> Task]
    BY DEF TypeInv, TypeOK
  <2>2. tasks' = [tasks EXCEPT ![w].todo = @ \ {i}, ![w].rows[i] = row,
                               ![w].days[row.playbook] = days, ![w].moves[i] = m]
    BY <1>3 DEF row, days
  <2>3. m.from = row
    BY <1>8
  <2> HIDE DEF m
  <2>4. QED
    BY <1>1, <2>1, <2>2, <2>3 DEF Stepped, Task
<1>10. QED
  BY <1>6, <1>7, <1>8, <1>9 DEF row

\* A step of one task that writes nothing.
LEMMA TaskStep ==
  ASSUME TypeInv, NEW w \in Workers, NEW t \in Task, tasks' = [tasks EXCEPT ![w] = t],
         UNCHANGED <<dbVars, nextRun, overlap, now, starts>>, faults' \in 0 .. MaxFaults,
         \A i \in RunIds : i \in t.todo \/ t.moves[i] # None => runs[i] # None,
         \A i \in RunIds : LET m == t.moves[i] IN m # None => Done(m.from, m.to, m.step)
  PROVE  TypeInv'
<1>1. \A v \in Workers : tasks'[v] = IF v = w THEN t ELSE tasks[v]
  BY DEF TypeInv, TypeOK
<1>2. runs' = runs /\ nextRun' = nextRun /\ starts' = starts
  BY DEF dbVars
<1>3. TypeOK'
  BY DEF TypeInv, TypeOK, dbVars
<1>4. TasksStored' /\ MovesDone'
  BY <1>1, <1>2 DEF TypeInv, TasksStored, MovesDone
<1>5. StartsFresh' /\ StartsFirst'
  BY <1>2 DEF TypeInv, StartsFresh, StartsFirst
<1>6. QED
  BY <1>3, <1>4, <1>5 DEF TypeInv

\* A step that leaves the runs, their tasks and their requests alone.
LEMMA OtherStep ==
  ASSUME TypeInv, UNCHANGED <<runs, trail, announced, nextRun, overlap, tasks, starts, faults>>,
         playbooks' \in [Playbooks -> PlaybookRow], now' \in 0 .. MaxDay
  PROVE  TypeInv'
BY DEF TypeInv, TypeOK, TasksStored, MovesDone, StartsFresh, StartsFirst

\* What is left of a request that ends.
LEMMA StartEnds ==
  ASSUME TypeInv, NEW r \in Requests, starts' = [starts EXCEPT ![r] = None]
  PROVE  /\ starts' \in [Requests -> Start \cup {None}] /\ starts'[r] = None
         /\ \A q \in Requests \ {r} : starts'[q] = starts[q]
BY DEF TypeInv, TypeOK

LEMMA TriggeredRow ==
  ASSUME TypeInv, NEW p \in Playbooks, NEW a \in Agents, now <= LastStart,
         NEW row, row = [playbook |-> p, agent |-> a, status |-> "in_progress", step |-> First,
                         started |-> now, due |-> now + Delay[First], executed |-> 0]
  PROVE  row \in RunRow /\ row.due \in Nat
<1>1. First \in Nat /\ Delay[First] \in Nat /\ now \in 0 .. MaxDay
  BY FirstIsStep, ConstantsAssumption DEF TypeInv, TypeOK
<1>2. now \in Nat /\ now + Delay[First] \in Nat
  BY <1>1
<1>3. QED
  BY <1>1, <1>2 DEF RunRow, Statuses

\* What a request holds once it has looked.
LEMMA TriggerStarts ==
  ASSUME TypeInv, NEW r \in Requests, NEW p \in Playbooks, NEW a \in Agents, TriggerPlaybook(r, p, a)
  PROVE  /\ starts' \in [Requests -> Start \cup {None}] /\ starts'[r] # None
         /\ starts'[r].id = nextRun /\ starts'[r].times = playbooks[p].times + 1
         /\ starts'[r].row.playbook = p /\ starts'[r].row.agent = a
         /\ starts'[r].row.status = "in_progress" /\ starts'[r].row.step = First
         /\ starts'[r].row.due \in Nat /\ starts'[r].row.executed = 0
         /\ \A q \in Requests \ {r} : starts'[q] = starts[q]
<1> DEFINE row == [playbook |-> p, agent |-> a, status |-> "in_progress", step |-> First,
                   started |-> now, due |-> now + Delay[First], executed |-> 0]
           start == [id |-> nextRun, times |-> playbooks[p].times + 1, row |-> row]
<1>1. row \in RunRow /\ row.due \in Nat
  BY TriggeredRow DEF TriggerPlaybook
<1>2. row.status = "in_progress" /\ row.step = First /\ row.executed = 0
      /\ row.playbook = p /\ row.agent = a
  OBVIOUS
<1>3. starts' = [starts EXCEPT ![r] = start] /\ nextRun \in RunIds
  BY DEF TriggerPlaybook
<1> HIDE DEF row
<1>4. playbooks[p].times + 1 \in Nat
  <2>1. playbooks[p] \in PlaybookRow
    BY DEF TypeInv, TypeOK
  <2>2. playbooks[p].times \in Nat
    BY <2>1 DEF PlaybookRow
  <2>3. QED
    BY <2>2
<1>5. start \in Start /\ start # None /\ start.id = nextRun /\ start.row = row
      /\ start.times = playbooks[p].times + 1
  BY <1>1, <1>3, <1>4, NoneAssumption DEF Start
<1> HIDE DEF start
<1>6. starts' \in [Requests -> Start \cup {None}] /\ starts'[r] = start
      /\ \A q \in Requests \ {r} : starts'[q] = starts[q]
  BY <1>3, <1>5 DEF TypeInv, TypeOK
<1>7. QED
  BY <1>1, <1>2, <1>5, <1>6

LEMMA TriggerType ==
  ASSUME TypeInv, NEW r \in Requests, NEW p \in Playbooks, NEW a \in Agents, TriggerPlaybook(r, p, a)
  PROVE  TypeInv'
<1>1. /\ starts' \in [Requests -> Start \cup {None}] /\ starts'[r].id = nextRun
      /\ \A q \in Requests \ {r} : starts'[q] = starts[q]
  BY TriggerStarts
<1>2. /\ nextRun \in RunIds /\ nextRun' = nextRun + 1
      /\ overlap' = [overlap EXCEPT ![nextRun] = Uncommitted]
      /\ UNCHANGED <<dbVars, now, tasks, faults>>
  BY DEF TriggerPlaybook
<1>3. nextRun \in Nat /\ nextRun' \in 1 .. MaxRuns + 1
  BY <1>2, ConstantsAssumption DEF RunIds
<1>4. TypeOK'
  <2>1. overlap' \in [RunIds -> SUBSET RunIds]
    <3>1. Uncommitted \subseteq RunIds
      BY DEF TypeInv, TypeOK, Start, Uncommitted
    <3>2. QED
      BY <1>2, <3>1 DEF TypeInv, TypeOK
  <2>2. QED
    BY <1>1, <1>2, <1>3, <2>1 DEF TypeInv, TypeOK, dbVars
<1>5. TasksStored' /\ MovesDone'
  BY <1>2 DEF TypeInv, TasksStored, MovesDone, dbVars
<1>6. StartsFresh'
  <2>1. runs' = runs /\ runs[nextRun] = None
    BY <1>2, <1>3 DEF TypeInv, StartsFresh, dbVars
  <2>2. \A i \in RunIds : i \in Nat
    BY DEF RunIds
  <2>3. \A i \in RunIds : runs'[i] # None => i < nextRun'
    BY <1>2, <1>3, <2>1, <2>2 DEF TypeInv, StartsFresh
  <2>4. \A q \in Requests : starts'[q] # None => starts'[q].id < nextRun' /\ runs'[starts'[q].id] = None
    <3>1. \A q \in Requests : starts[q] # None => starts[q].id \in Nat
      BY <2>2 DEF TypeInv, TypeOK, Start
    <3>2. QED
      BY <1>1, <1>2, <1>3, <2>1, <3>1 DEF TypeInv, StartsFresh
  <2>5. \A q \in Requests \ {r} : starts'[q] # None => starts'[q].id # nextRun
    BY <1>1, <1>3 DEF TypeInv, StartsFresh
  <2>6. ASSUME NEW q \in Requests, NEW s \in Requests, starts'[q] # None, starts'[s] # None,
               starts'[q].id = starts'[s].id
        PROVE  q = s
    BY <1>1, <2>5, <2>6 DEF TypeInv, StartsFresh
  <2>7. QED
    BY <2>3, <2>4, <2>6 DEF StartsFresh
<1>7. StartsFirst'
  BY TriggerStarts DEF TypeInv, StartsFirst
<1>8. QED
  BY <1>4, <1>5, <1>6, <1>7 DEF TypeInv

\* What the commit of a request does to the rows.
LEMMA TriggerCommits ==
  ASSUME TypeInv, NEW r \in Requests, CommitTrigger(r)
  PROVE  LET i == starts[r].id
             row == starts[r].row
         IN  /\ starts[r] \in Start /\ i \in RunIds /\ row \in RunRow /\ row # None
             /\ runs[i] = None /\ runs' = [runs EXCEPT ![i] = row]
             /\ \A p \in Playbooks : playbooks'[p] =
                  IF p = row.playbook THEN [playbooks[p] EXCEPT !.times = starts[r].times]
                  ELSE playbooks[p]
<1>1. starts[r] \in Start
  BY DEF TypeInv, TypeOK, CommitTrigger
<1>2. starts[r].id \in RunIds /\ starts[r].row \in RunRow
  BY <1>1 DEF Start
<1>3. runs[starts[r].id] = None
  BY DEF TypeInv, StartsFresh, CommitTrigger
<1>4. playbooks' = [playbooks EXCEPT ![starts[r].row.playbook].times = starts[r].times]
      /\ runs' = [runs EXCEPT ![starts[r].id] = starts[r].row]
  BY DEF CommitTrigger
<1>5. \A p \in Playbooks : playbooks'[p] =
        IF p = starts[r].row.playbook THEN [playbooks[p] EXCEPT !.times = starts[r].times]
        ELSE playbooks[p]
  BY <1>4 DEF TypeInv, TypeOK
<1>6. QED
  BY <1>1, <1>2, <1>3, <1>4, <1>5, NoneAssumption

LEMMA CommitTriggerType == ASSUME TypeInv, NEW r \in Requests, CommitTrigger(r) PROVE TypeInv'
<1> DEFINE i == starts[r].id
           row == starts[r].row
<1>1. /\ starts[r] \in Start /\ i \in RunIds /\ row \in RunRow /\ row # None
      /\ runs[i] = None /\ runs' = [runs EXCEPT ![i] = row]
      /\ \A p \in Playbooks : playbooks'[p] =
           IF p = row.playbook THEN [playbooks[p] EXCEPT !.times = starts[r].times] ELSE playbooks[p]
  BY TriggerCommits
<1>2. starts' \in [Requests -> Start \cup {None}] /\ starts'[r] = None
      /\ \A q \in Requests \ {r} : starts'[q] = starts[q]
  BY StartEnds DEF CommitTrigger
<1>3. UNCHANGED <<trail, announced, nextRun, overlap, now, tasks, faults>>
      /\ starts[r] # None
  BY DEF CommitTrigger
<1> HIDE DEF row
<1>4. playbooks' \in [Playbooks -> PlaybookRow]
  <2>1. \A p \in Playbooks : [playbooks[p] EXCEPT !.times = starts[r].times] \in PlaybookRow
    <3>1. starts[r].times \in Nat
      BY <1>1 DEF Start
    <3>2. \A p \in Playbooks : playbooks[p] \in PlaybookRow
      BY DEF TypeInv, TypeOK
    <3>3. QED
      BY <3>1, <3>2 DEF PlaybookRow
  <2>2. playbooks' = [p \in Playbooks |-> playbooks'[p]]
    BY DEF CommitTrigger, TypeInv, TypeOK
  <2>3. \A p \in Playbooks : playbooks'[p] \in PlaybookRow
    BY <1>1, <2>1 DEF TypeInv, TypeOK
  <2>4. QED
    BY <2>2, <2>3
<1>5. TypeOK'
  BY <1>1, <1>2, <1>3, <1>4 DEF TypeInv, TypeOK
<1>6. \A j \in RunIds : runs'[j] = IF j = i THEN row ELSE runs[j]
  BY <1>1 DEF TypeInv, TypeOK
<1>7. TasksStored' /\ MovesDone'
  BY <1>1, <1>3, <1>6 DEF TypeInv, TasksStored, MovesDone
<1>8. StartsFresh'
  <2>1. \A j \in RunIds : runs'[j] # None => j < nextRun'
    BY <1>3, <1>6 DEF TypeInv, StartsFresh
  <2>2. ASSUME NEW q \in Requests, starts'[q] # None
        PROVE  starts'[q].id < nextRun' /\ runs'[starts'[q].id] = None
    <3>1. q # r /\ starts'[q] = starts[q] /\ starts[q] \in Start
      BY <1>2, <2>2 DEF TypeInv, TypeOK
    <3>2. starts[q].id # i /\ starts[q].id \in RunIds
      BY <1>3, <2>2, <3>1 DEF TypeInv, StartsFresh, Start
    <3>3. QED
      BY <1>3, <1>6, <2>2, <3>1, <3>2 DEF TypeInv, StartsFresh
  <2>3. \A q, s \in Requests : starts'[q] # None /\ starts'[s] # None /\ starts'[q].id = starts'[s].id => q = s
    BY <1>2 DEF TypeInv, StartsFresh
  <2>4. QED
    BY <2>1, <2>2, <2>3 DEF StartsFresh
<1>9. StartsFirst'
  BY <1>2 DEF TypeInv, StartsFirst
<1>10. QED
  BY <1>5, <1>7, <1>8, <1>9 DEF TypeInv

LEMMA AbortTriggerType == ASSUME TypeInv, NEW r \in Requests, AbortTrigger(r) PROVE TypeInv'
<1>1. starts' \in [Requests -> Start \cup {None}] /\ starts'[r] = None
      /\ \A q \in Requests \ {r} : starts'[q] = starts[q]
  BY StartEnds DEF AbortTrigger
<1>2. UNCHANGED <<dbVars, nextRun, overlap, now, tasks, faults>>
  BY DEF AbortTrigger
<1>3. TypeOK'
  BY <1>1, <1>2 DEF TypeInv, TypeOK, dbVars
<1>4. TasksStored' /\ MovesDone'
  BY <1>2 DEF TypeInv, TasksStored, MovesDone, dbVars
<1>5. StartsFresh' /\ StartsFirst'
  BY <1>1, <1>2 DEF TypeInv, StartsFresh, StartsFirst, dbVars
<1>6. QED
  BY <1>3, <1>4, <1>5 DEF TypeInv

\* What the commit of a batch does to a run.
LEMMA BatchCommits ==
  ASSUME TypeInv, NEW w \in Workers, CommitBatch(w), NEW i \in RunIds
  PROVE  LET m == tasks[w].moves[i] IN
         /\ m = None => UNCHANGED <<runs[i], trail[i], announced[i]>>
         /\ m # None =>
              /\ m \in Move /\ Done(m.from, m.to, m.step) /\ runs[i] \in RunRow
              /\ runs'[i] = FlushedRun(m, i)
              /\ trail'[i] = IF m.step = None THEN trail[i] ELSE Append(trail[i], m.step)
              /\ announced'[i] = IF m.to.status # "in_progress" THEN announced[i] + 1 ELSE announced[i]
<1> DEFINE m == tasks[w].moves[i]
<1>1. /\ runs'[i] = IF m = None THEN runs[i] ELSE FlushedRun(m, i)
      /\ trail'[i] = IF m = None \/ m.step = None THEN trail[i] ELSE Append(trail[i], m.step)
      /\ announced'[i] = IF m # None /\ m.to.status # "in_progress" THEN announced[i] + 1 ELSE announced[i]
  BY DEF CommitBatch
<1>2. tasks[w] \in Task
  BY DEF TypeInv, TypeOK
<1>3. m # None => m \in Move /\ runs[i] \in RunRow /\ Done(m.from, m.to, m.step)
  BY <1>2 DEF TypeInv, TypeOK, TasksStored, MovesDone, Task
<1> HIDE DEF m
<1>4. QED
  BY <1>1, <1>3 DEF m

LEMMA CommitBatchType == ASSUME TypeInv, NEW w \in Workers, CommitBatch(w) PROVE TypeInv'
<1>1. ASSUME NEW i \in RunIds
      PROVE  /\ runs'[i] \in RunRow \cup {None} /\ (runs'[i] # None <=> runs[i] # None)
             /\ trail'[i] \in Seq(Steps) /\ announced'[i] \in Nat
  <2> DEFINE m == tasks[w].moves[i]
  <2>1. /\ runs[i] \in RunRow \cup {None} /\ trail[i] \in Seq(Steps) /\ announced[i] \in Nat
    BY DEF TypeInv, TypeOK
  <2>2. CASE m = None
    BY <2>1, <2>2, BatchCommits
  <2>3. CASE m # None
    <3>1. /\ m \in Move /\ Done(m.from, m.to, m.step) /\ runs[i] \in RunRow
          /\ runs'[i] = FlushedRun(m, i)
          /\ trail'[i] = IF m.step = None THEN trail[i] ELSE Append(trail[i], m.step)
          /\ announced'[i] = IF m.to.status # "in_progress" THEN announced[i] + 1 ELSE announced[i]
      BY <2>3, BatchCommits
    <3> HIDE DEF m
    <3>2. runs'[i] \in RunRow
      BY <3>1, FlushedType
    <3>3. m.step \in Steps \cup {None}
      BY <3>1 DEF Move
    <3>4. QED
      BY <2>1, <3>1, <3>2, <3>3, NoneAssumption
  <2>4. QED
    BY <2>2, <2>3
<1>2. /\ runs' \in [RunIds -> RunRow \cup {None}] /\ trail' \in [RunIds -> Seq(Steps)]
      /\ announced' \in [RunIds -> Nat]
  BY <1>1 DEF CommitBatch
<1>3. tasks' = [tasks EXCEPT ![w] = Idle] /\ UNCHANGED <<playbooks, nextRun, overlap, now, starts, faults>>
  BY DEF CommitBatch
<1>4. TypeOK'
  BY <1>2, <1>3, IdleType DEF TypeInv, TypeOK
<1>5. \A v \in Workers : tasks'[v] = IF v = w THEN Idle ELSE tasks[v]
  BY <1>3 DEF TypeInv, TypeOK
<1>6. TasksStored' /\ MovesDone'
  BY <1>1, <1>5, IdleType DEF TypeInv, TasksStored, MovesDone
<1>7. StartsFresh'
  <2>1. \A r \in Requests : starts[r] # None => starts[r].id \in RunIds
    BY DEF TypeInv, TypeOK, Start
  <2>2. QED
    BY <1>1, <1>3, <2>1 DEF TypeInv, StartsFresh
<1>8. StartsFirst'
  BY <1>3 DEF TypeInv, StartsFirst
<1>9. QED
  BY <1>4, <1>6, <1>7, <1>8 DEF TypeInv

\* A task that has just begun, with the runs S to execute.
Begun(S, day, rows, days) ==
  [Idle EXCEPT !.open = TRUE, !.now = day, !.todo = S, !.rows = rows, !.days = days]

LEMMA BegunType ==
  ASSUME NEW S \in SUBSET RunIds, NEW day \in 0 .. MaxDay, NEW rows \in [RunIds -> RunRow \cup {None}],
         NEW days \in [Playbooks -> Durations \cup {None}]
  PROVE  /\ Begun(S, day, rows, days) \in Task /\ Begun(S, day, rows, days).todo = S
         /\ Begun(S, day, rows, days).rows = rows
         /\ Begun(S, day, rows, days).moves = [i \in RunIds |-> None]
BY IdleType DEF Begun, Task

LEMMA Fetched ==
  ASSUME TypeInv, NEW w \in Workers, FetchDue(w)
  PROVE  \E S \in SUBSET Due, rows \in [RunIds -> RunRow \cup {None}], days \in [Playbooks -> Durations \cup {None}] :
           /\ \A i \in S : rows[i] = runs[i]
           /\ tasks' = [tasks EXCEPT ![w] = Begun(S, now, rows, days)]
<1>1. PICK S \in SUBSET Due : tasks' = [tasks EXCEPT ![w] =
            [Idle EXCEPT !.open = TRUE, !.now = now, !.todo = S,
                         !.rows = [i \in RunIds |-> IF i \in S THEN runs[i] ELSE None],
                         !.days = [p \in Playbooks |-> playbooks[p].maxDays]]]
  BY DEF FetchDue
<1> DEFINE rows == [i \in RunIds |-> IF i \in S THEN runs[i] ELSE None]
           days == [p \in Playbooks |-> playbooks[p].maxDays]
<1>2. rows \in [RunIds -> RunRow \cup {None}] /\ \A i \in S : rows[i] = runs[i]
  BY DEF TypeInv, TypeOK, Due
<1>3. days \in [Playbooks -> Durations \cup {None}]
  BY DEF TypeInv, TypeOK, PlaybookRow
<1>4. tasks' = [tasks EXCEPT ![w] = Begun(S, now, rows, days)]
  BY <1>1 DEF Begun
<1>5. QED
  BY <1>2, <1>3, <1>4

LEMMA FailedOne ==
  ASSUME TypeInv, NEW w \in Workers, ExecutionFails(w)
  PROVE  /\ \E i \in tasks[w].todo : tasks' = [tasks EXCEPT ![w] =
              Begun(tasks[w].todo \ {i}, tasks[w].now, Idle.rows, Idle.days)]
         /\ Idle.rows = [i \in RunIds |-> None]
         /\ Idle.rows \in [RunIds -> RunRow \cup {None}] /\ Idle.days \in [Playbooks -> Durations \cup {None}]
         /\ tasks[w] \in Task
<1>1. Idle \in Task
  BY IdleType
<1>2. \A S, day : [Idle EXCEPT !.open = TRUE, !.now = day, !.todo = S] = Begun(S, day, Idle.rows, Idle.days)
  BY <1>1 DEF Begun, Task
<1>3. PICK i \in tasks[w].todo : tasks' = [tasks EXCEPT ![w] =
        [Idle EXCEPT !.open = TRUE, !.now = tasks[w].now, !.todo = tasks[w].todo \ {i}]]
  BY DEF ExecutionFails
<1>4. tasks' = [tasks EXCEPT ![w] = Begun(tasks[w].todo \ {i}, tasks[w].now, Idle.rows, Idle.days)]
  BY <1>2, <1>3
<1>5. /\ Idle.rows = [j \in RunIds |-> None]
      /\ Idle.rows \in [RunIds -> RunRow \cup {None}] /\ Idle.days \in [Playbooks -> Durations \cup {None}]
  BY DEF Idle
<1>6. QED
  BY <1>4, <1>5 DEF TypeInv, TypeOK

\* Editing or deleting a playbook does not count runs.
LEMMA PlaybookEdited ==
  ASSUME TypeInv, NEW p \in Playbooks, NEW active \in BOOLEAN, NEW days \in Durations,
         UpdatePlaybook(p, active, days) \/ DeletePlaybook(p)
  PROVE  /\ playbooks' \in [Playbooks -> PlaybookRow]
         /\ \A q \in Playbooks : playbooks'[q].times = playbooks[q].times
<1>1. playbooks \in [Playbooks -> PlaybookRow]
  BY DEF TypeInv, TypeOK
<1>2. ASSUME NEW row \in PlaybookRow
      PROVE  /\ [row EXCEPT !.active = active, !.maxDays = days] \in PlaybookRow
             /\ [row EXCEPT !.active = active, !.maxDays = days].times = row.times
             /\ [row EXCEPT !.deleted = TRUE] \in PlaybookRow
             /\ [row EXCEPT !.deleted = TRUE].times = row.times
  BY DEF PlaybookRow
<1>3. CASE UpdatePlaybook(p, active, days)
  <2>1. playbooks' = [playbooks EXCEPT ![p] = [playbooks[p] EXCEPT !.active = active, !.maxDays = days]]
    BY <1>1, <1>3 DEF UpdatePlaybook, PlaybookRow
  <2>2. QED
    BY <1>1, <1>2, <2>1
<1>4. CASE DeletePlaybook(p)
  <2>1. playbooks' = [playbooks EXCEPT ![p] = [playbooks[p] EXCEPT !.deleted = TRUE]]
    BY <1>1, <1>4 DEF DeletePlaybook, PlaybookRow
  <2>2. QED
    BY <1>1, <1>2, <2>1
<1>5. QED
  BY <1>3, <1>4

\* A failure is counted up to its bound.
LEMMA FaultsBounded ==
  ASSUME TypeInv, faults' = faults \/ (faults < MaxFaults /\ faults' = faults + 1)
  PROVE  faults' \in 0 .. MaxFaults
<1>1. MaxFaults \in Nat /\ faults \in 0 .. MaxFaults
  BY ConstantsAssumption DEF TypeInv, TypeOK
<1>2. QED
  BY <1>1

LEMMA TypeStep == TypeInv /\ [Next]_vars => TypeInv'
<1> SUFFICES ASSUME TypeInv, [Next]_vars PROVE TypeInv'
  OBVIOUS
<1>1. ASSUME NEW r \in Requests, NEW p \in Playbooks, NEW a \in Agents, TriggerPlaybook(r, p, a)
      PROVE  TypeInv'
  BY <1>1, TriggerType
<1>2. ASSUME NEW r \in Requests, CommitTrigger(r) \/ AbortTrigger(r) PROVE TypeInv'
  BY <1>2, CommitTriggerType, AbortTriggerType
<1>3. ASSUME NEW p \in Playbooks, NEW active \in BOOLEAN, NEW days \in Durations,
             UpdatePlaybook(p, active, days) \/ DeletePlaybook(p)
      PROVE  TypeInv'
  <2>1. playbooks' \in [Playbooks -> PlaybookRow]
    BY <1>3, PlaybookEdited
  <2>2. UNCHANGED <<runs, trail, announced, nextRun, overlap, now, tasks, starts, faults>>
    BY <1>3 DEF UpdatePlaybook, DeletePlaybook
  <2>3. QED
    BY <2>1, <2>2, OtherStep DEF TypeInv, TypeOK
<1>4. ASSUME NEW w \in Workers, FetchDue(w) PROVE TypeInv'
  <2>1. PICK S \in SUBSET Due, rows \in [RunIds -> RunRow \cup {None}],
             days \in [Playbooks -> Durations \cup {None}] :
               tasks' = [tasks EXCEPT ![w] = Begun(S, now, rows, days)]
    BY <1>4, Fetched
  <2>2. S \in SUBSET RunIds /\ \A i \in S : runs[i] # None
    BY DEF Due, InProgress
  <2>3. Begun(S, now, rows, days) \in Task /\ Begun(S, now, rows, days).todo = S
        /\ Begun(S, now, rows, days).moves = [i \in RunIds |-> None]
    <3>1. now \in 0 .. MaxDay
      BY DEF TypeInv, TypeOK
    <3>2. QED
      BY <2>2, <3>1, BegunType
  <2>4. UNCHANGED <<dbVars, nextRun, overlap, now, starts>> /\ faults' \in 0 .. MaxFaults
    BY <1>4, FaultsBounded DEF FetchDue
  <2>5. QED
    BY <2>1, <2>2, <2>3, <2>4, TaskStep
<1>5. ASSUME NEW w \in Workers, ExecuteRun(w) PROVE TypeInv'
  <2>1. PICK i \in tasks[w].todo, m \in Move, days \in Durations \cup {None} :
          /\ Done(m.from, m.to, m.step)
          /\ tasks' = [tasks EXCEPT ![w] = Stepped(tasks[w], i, m, days)]
    BY <1>5, ExecutedOne
  <2>2. tasks[w] \in Task /\ i \in RunIds
    BY DEF TypeInv, TypeOK, Task
  <2> DEFINE t == Stepped(tasks[w], i, m, days)
  <2>3. t \in Task /\ t.todo = tasks[w].todo \ {i}
        /\ \A j \in RunIds : t.moves[j] = IF j = i THEN m ELSE tasks[w].moves[j]
    BY <2>2, SteppedType
  <2>4. UNCHANGED <<dbVars, nextRun, overlap, now, starts>> /\ faults' \in 0 .. MaxFaults
    BY <1>5, FaultsBounded DEF ExecuteRun
  <2> HIDE DEF t
  <2>6. \A j \in RunIds : j \in t.todo \/ t.moves[j] # None => runs[j] # None
    BY <2>2, <2>3 DEF TypeInv, TasksStored
  <2>7. \A j \in RunIds : t.moves[j] # None => Done(t.moves[j].from, t.moves[j].to, t.moves[j].step)
    BY <2>1, <2>3 DEF TypeInv, MovesDone
  <2>8. QED
    BY <2>1, <2>3, <2>4, <2>6, <2>7, TaskStep DEF t
<1>6. ASSUME NEW w \in Workers, ExecutionFails(w) PROVE TypeInv'
  <2>1. PICK i \in tasks[w].todo : tasks' = [tasks EXCEPT ![w] =
          Begun(tasks[w].todo \ {i}, tasks[w].now, Idle.rows, Idle.days)]
    BY <1>6, FailedOne
  <2> DEFINE t == Begun(tasks[w].todo \ {i}, tasks[w].now, Idle.rows, Idle.days)
  <2>2. tasks[w] \in Task
    BY <1>6, FailedOne
  <2>3. tasks[w].todo \ {i} \in SUBSET RunIds /\ tasks[w].now \in 0 .. MaxDay
    BY <2>2 DEF Task
  <2>4. t \in Task /\ t.todo = tasks[w].todo \ {i} /\ t.moves = [j \in RunIds |-> None]
    BY <1>6, <2>3, FailedOne, BegunType
  <2>5. UNCHANGED <<dbVars, nextRun, overlap, now, starts>> /\ faults' \in 0 .. MaxFaults
    BY <1>6, FaultsBounded DEF ExecutionFails
  <2> HIDE DEF t
  <2>6. QED
    BY <2>1, <2>4, <2>5, TaskStep DEF t, TypeInv, TasksStored
<1>7. ASSUME NEW w \in Workers, CommitBatch(w) PROVE TypeInv'
  BY <1>7, CommitBatchType
<1>8. ASSUME NEW w \in Workers, CrashTask(w) PROVE TypeInv'
  <2>1. UNCHANGED <<dbVars, nextRun, overlap, now, starts>> /\ faults' \in 0 .. MaxFaults
        /\ tasks' = [tasks EXCEPT ![w] = Idle]
    BY <1>8, FaultsBounded DEF CrashTask
  <2>2. QED
    BY <2>1, IdleType, TaskStep
<1>9. CASE Tick
  <2>1. MaxDay \in Nat /\ now \in 0 .. MaxDay
    BY ConstantsAssumption DEF TypeInv, TypeOK
  <2>2. now' \in 0 .. MaxDay
    BY <1>9, <2>1 DEF Tick
  <2>3. QED
    BY <1>9, <2>2, OtherStep DEF Tick, dbVars, TypeInv, TypeOK
<1>10. CASE UNCHANGED vars
  BY <1>10, OtherStep DEF vars, dbVars, TypeInv, TypeOK
<1>11. ASSUME NEW w \in Workers,
              FetchDue(w) \/ ExecuteRun(w) \/ ExecutionFails(w) \/ CommitBatch(w) \/ CrashTask(w)
       PROVE  TypeInv'
  BY <1>4, <1>5, <1>6, <1>7, <1>8, <1>11
<1>12. ASSUME NEW p \in Playbooks, DeletePlaybook(p) PROVE TypeInv'
  <2>1. PICK days \in Durations : TRUE
    BY <1>12 DEF TypeInv, TypeOK, PlaybookRow
  <2>2. QED
    BY <1>3, <1>12, <2>1
<1>13. QED
  BY <1>1, <1>2, <1>3, <1>9, <1>10, <1>11, <1>12 DEF Next

\* The rows of playbooks and runs, the copies of the sessions and what they are about to write
\* keep the types of their columns, with any number of tasks and requests (execute_playbook_step,
\* trigger_playbook).
THEOREM PlaybookTypeCorrect == Spec => []TypeOK
<1>1. TypeInv => TypeOK
  BY DEF TypeInv
<1>2. QED
  BY <1>1, InitType, TypeStep, PTL DEF Spec
-----------------------------------------------------------------------------
(* Starting runs.  Any number of requests and tasks.                       *)

\* A commit of a batch ends runs or leaves them in progress, for the same playbook and agent.
LEMMA BatchOnlyEnds ==
  ASSUME TypeInv, NEW w \in Workers, CommitBatch(w), NEW i \in RunIds
  PROVE  /\ runs'[i] # None <=> runs[i] # None
         /\ runs[i] # None => runs'[i].playbook = runs[i].playbook /\ runs'[i].agent = runs[i].agent
         /\ InProgress(i)' => InProgress(i)
<1> DEFINE m == tasks[w].moves[i]
<1>1. CASE m = None
  BY <1>1, BatchCommits DEF InProgress
<1>2. CASE m # None
  <2>1. m \in Move /\ Done(m.from, m.to, m.step) /\ runs[i] \in RunRow /\ runs'[i] = FlushedRun(m, i)
    BY <1>2, BatchCommits
  <2> HIDE DEF m
  <2>2. QED
    BY <2>1, FlushedType, NoneAssumption DEF InProgress, Ending
<1>3. QED
  BY <1>1, <1>2

\* A step that is not about runs that start or end.
Quiet ==
  /\ UNCHANGED <<runs, trail, announced, starts, overlap>>
  /\ \A p \in Playbooks : playbooks'[p].times = playbooks[p].times

LEMMA QuietStep ==
  ASSUME TypeInv, [Next]_vars
  PROVE  \/ Quiet
         \/ \E r \in Requests : \/ \E p \in Playbooks, a \in Agents : TriggerPlaybook(r, p, a)
                                \/ CommitTrigger(r) \/ AbortTrigger(r)
         \/ \E w \in Workers : CommitBatch(w)
<1>1. ASSUME NEW p \in Playbooks, NEW active \in BOOLEAN, NEW days \in Durations,
             UpdatePlaybook(p, active, days) \/ DeletePlaybook(p)
      PROVE  Quiet
  BY <1>1, PlaybookEdited DEF UpdatePlaybook, DeletePlaybook, Quiet
<1>2. ASSUME NEW w \in Workers, FetchDue(w) \/ ExecuteRun(w) \/ ExecutionFails(w) \/ CrashTask(w)
      PROVE  Quiet
  BY <1>2 DEF FetchDue, ExecuteRun, ExecutionFails, CrashTask, dbVars, Quiet
<1>3. CASE Tick
  BY <1>3 DEF Tick, dbVars, Quiet
<1>4. CASE UNCHANGED vars
  BY <1>4 DEF vars, dbVars, Quiet
<1>5. ASSUME NEW p \in Playbooks, DeletePlaybook(p) PROVE Quiet
  <2>1. PICK days \in Durations : TRUE
    BY DEF TypeInv, TypeOK, PlaybookRow
  <2>2. QED
    BY <1>1, <1>5, <2>1
<1>6. QED
  BY <1>1, <1>2, <1>3, <1>4, <1>5 DEF Next

LEMMA OverlapSymmetric == \A i, j : Overlapped(i, j) <=> Overlapped(j, i)
BY DEF Overlapped

\* Two requests under way have overlapped.
OverlapInv ==
  \A q, r \in Requests : q # r /\ starts[q] # None /\ starts[r] # None => Overlapped(starts[q].id, starts[r].id)

\* A request that looks overlaps those under way, and leaves what overlapped before it.
LEMMA TriggerOverlaps ==
  ASSUME TypeInv, NEW r \in Requests, NEW p \in Playbooks, NEW a \in Agents, TriggerPlaybook(r, p, a)
  PROVE  /\ nextRun \in RunIds
         /\ \A q \in Requests : starts[q] # None =>
              starts[q].id \in RunIds \ {nextRun} /\ starts[q].id \in overlap'[nextRun]
         /\ \A i, j \in RunIds \ {nextRun} : Overlapped(i, j)' <=> Overlapped(i, j)
         /\ \A i \in RunIds : runs[i] # None => i # nextRun
<1>1. nextRun \in RunIds /\ overlap' = [overlap EXCEPT ![nextRun] = Uncommitted]
  BY DEF TriggerPlaybook
<1>2. \A i \in RunIds : overlap'[i] = IF i = nextRun THEN Uncommitted ELSE overlap[i]
  BY <1>1 DEF TypeInv, TypeOK
<1>3. nextRun \in Nat /\ \A i \in RunIds : i \in Nat
  BY <1>1 DEF RunIds
<1>4. \A i \in RunIds : runs[i] # None => i # nextRun
  BY <1>3 DEF TypeInv, StartsFresh
<1>5. ASSUME NEW q \in Requests, starts[q] # None
      PROVE  starts[q].id \in RunIds \ {nextRun} /\ starts[q].id \in Uncommitted
  BY <1>3, <1>5 DEF TypeInv, TypeOK, StartsFresh, Start, Uncommitted
<1>6. ASSUME NEW i \in RunIds \ {nextRun}, NEW j \in RunIds \ {nextRun}
      PROVE  Overlapped(i, j)' <=> Overlapped(i, j)
  BY <1>2 DEF Overlapped
<1>7. QED
  BY <1>1, <1>2, <1>4, <1>5, <1>6

\* Whoever is under way together has overlapped.
LEMMA OverlapStep == TypeInv /\ OverlapInv /\ [Next]_vars => OverlapInv'
<1> SUFFICES ASSUME TypeInv, OverlapInv, [Next]_vars PROVE OverlapInv'
  OBVIOUS
<1>1. CASE Quiet
  BY <1>1 DEF Quiet, OverlapInv, Overlapped
<1>2. ASSUME NEW r \in Requests, NEW p \in Playbooks, NEW a \in Agents, TriggerPlaybook(r, p, a)
      PROVE  OverlapInv'
  <2>1. starts'[r].id = nextRun /\ \A q \in Requests \ {r} : starts'[q] = starts[q]
    BY <1>2, TriggerStarts
  <2>2. /\ \A q \in Requests : starts[q] # None =>
             starts[q].id \in RunIds \ {nextRun} /\ starts[q].id \in overlap'[nextRun]
        /\ \A i, j \in RunIds \ {nextRun} : Overlapped(i, j)' <=> Overlapped(i, j)
    BY <1>2, TriggerOverlaps
  <2>3. ASSUME NEW q \in Requests, NEW s \in Requests, q # s, starts'[q] # None, starts'[s] # None
        PROVE  Overlapped(starts[q].id, starts[s].id)'
    <3>1. CASE q # r /\ s # r
      <4>1. PICK i, k : i = starts[q].id /\ k = starts[s].id
        OBVIOUS
      <4>2. Overlapped(i, k) /\ i \in RunIds \ {nextRun} /\ k \in RunIds \ {nextRun}
        BY <2>1, <2>2, <2>3, <3>1, <4>1 DEF OverlapInv
      <4>3. Overlapped(i, k)'
        BY <2>2, <4>2
      <4>4. QED
        BY <2>1, <2>3, <3>1, <4>1, <4>3 DEF Overlapped
    <3>2. CASE s = r
      BY <2>1, <2>2, <2>3, <3>2 DEF Overlapped
    <3>3. CASE q = r
      BY <2>1, <2>2, <2>3, <3>3 DEF Overlapped
    <3>4. QED
      BY <3>1, <3>2, <3>3
  <2>4. QED
    BY <2>3 DEF OverlapInv, Overlapped
<1>3. ASSUME NEW r \in Requests, CommitTrigger(r) \/ AbortTrigger(r) PROVE OverlapInv'
  <2>1. /\ overlap' = overlap /\ starts'[r] = None
        /\ \A q \in Requests \ {r} : starts'[q] = starts[q]
    BY <1>3, StartEnds DEF CommitTrigger, AbortTrigger
  <2>2. QED
    BY <2>1 DEF OverlapInv, Overlapped
<1>4. ASSUME NEW w \in Workers, CommitBatch(w) PROVE OverlapInv'
  BY <1>4 DEF CommitBatch, OverlapInv, Overlapped
<1>5. QED
  BY <1>1, <1>2, <1>3, <1>4, QuietStep

\* A run in progress overlapped every request under way for its playbook and agent.
ActiveInv ==
  /\ OneActiveRun
  /\ \A r \in Requests : starts[r] # None => \A i \in RunIds :
       /\ InProgress(i) /\ runs[i].playbook = starts[r].row.playbook
       /\ runs[i].agent = starts[r].row.agent
       => Overlapped(i, starts[r].id)

LEMMA ActiveStep == TypeInv /\ OverlapInv /\ ActiveInv /\ [Next]_vars => ActiveInv'
<1> SUFFICES ASSUME TypeInv, OverlapInv, ActiveInv, [Next]_vars PROVE ActiveInv'
  OBVIOUS
<1>1. CASE Quiet
  BY <1>1 DEF Quiet, ActiveInv, OneActiveRun, InProgress, Overlapped
<1>2. ASSUME NEW r \in Requests, NEW p \in Playbooks, NEW a \in Agents, TriggerPlaybook(r, p, a)
      PROVE  ActiveInv'
  <2>1. /\ starts'[r].row.playbook = p /\ starts'[r].row.agent = a
        /\ \A q \in Requests \ {r} : starts'[q] = starts[q]
    BY <1>2, TriggerStarts
  <2>2. runs' = runs /\ ~AlreadyRunning(p, a)
    BY <1>2 DEF TriggerPlaybook, dbVars
  <2>3. /\ \A q \in Requests : starts[q] # None => starts[q].id \in RunIds \ {nextRun}
        /\ \A i, j \in RunIds \ {nextRun} : Overlapped(i, j)' <=> Overlapped(i, j)
        /\ \A i \in RunIds : InProgress(i) => i # nextRun
    BY <1>2, TriggerOverlaps DEF InProgress
  <2>4. \A i \in RunIds : InProgress(i)' <=> InProgress(i)
    BY <2>2 DEF InProgress
  <2>5. OneActiveRun'
    BY <2>2, <2>3, <2>4 DEF ActiveInv, OneActiveRun
  <2>6. ASSUME NEW q \in Requests, starts'[q] # None, NEW i \in RunIds, InProgress(i),
               runs[i].playbook = starts'[q].row.playbook, runs[i].agent = starts'[q].row.agent
        PROVE  Overlapped(i, starts[q].id)'
    <3>1. q # r
      BY <2>1, <2>2, <2>6 DEF AlreadyRunning
    <3>2. starts'[q] = starts[q] /\ starts[q].id \in RunIds \ {nextRun} /\ i \in RunIds \ {nextRun}
      BY <2>1, <2>3, <2>6, <3>1
    <3>3. PICK k \in RunIds \ {nextRun} : k = starts[q].id
      BY <3>2
    <3>4. Overlapped(i, k)
      BY <2>6, <3>2, <3>3 DEF ActiveInv
    <3>5. Overlapped(i, k)'
      BY <2>3, <3>2, <3>4
    <3>6. QED
      BY <3>2, <3>3, <3>5 DEF Overlapped
  <2>7. QED
    BY <2>2, <2>4, <2>5, <2>6 DEF ActiveInv, Overlapped
<1>3. ASSUME NEW r \in Requests, CommitTrigger(r) PROVE ActiveInv'
  <2> DEFINE i == starts[r].id
             row == starts[r].row
  <2>1. i \in RunIds /\ row \in RunRow /\ runs' = [runs EXCEPT ![i] = row]
    BY <1>3, TriggerCommits
  <2>2. /\ starts[r] # None /\ starts'[r] = None /\ overlap' = overlap
        /\ \A q \in Requests \ {r} : starts'[q] = starts[q]
    BY <1>3, StartEnds DEF CommitTrigger
  <2>3. \A j \in RunIds : runs'[j] = IF j = i THEN row ELSE runs[j]
    BY <2>1 DEF TypeInv, TypeOK
  <2>4. \A j \in RunIds \ {i} : InProgress(j)' <=> InProgress(j)
    BY <2>3 DEF InProgress
  <2>5. \A j \in RunIds : InProgress(j) /\ runs[j].playbook = row.playbook /\ runs[j].agent = row.agent =>
          Overlapped(j, i)
    BY <2>2 DEF ActiveInv
  <2>6. \A q \in Requests \ {r} : starts[q] # None => Overlapped(i, starts[q].id)
    BY <2>2 DEF OverlapInv
  <2>7. \A j, k : Overlapped(j, k)' <=> Overlapped(j, k)
    BY <2>2 DEF Overlapped
  <2> HIDE DEF row, i
  <2>8. OneActiveRun'
    <3>1. SUFFICES ASSUME NEW j \in RunIds, NEW k \in RunIds, j # k, InProgress(j)', InProgress(k)',
                          runs'[j].playbook = runs'[k].playbook, runs'[j].agent = runs'[k].agent
                   PROVE  Overlapped(j, k)
      BY <2>7 DEF OneActiveRun
    <3>2. CASE j = i
      BY <2>3, <2>4, <2>5, <3>1, <3>2, OverlapSymmetric
    <3>3. CASE k = i
      BY <2>3, <2>4, <2>5, <3>1, <3>3
    <3>4. CASE j # i /\ k # i
      BY <2>3, <2>4, <3>1, <3>4 DEF ActiveInv, OneActiveRun
    <3>5. QED
      BY <3>2, <3>3, <3>4
  <2>9. ASSUME NEW q \in Requests, starts'[q] # None, NEW j \in RunIds, InProgress(j)',
               runs'[j].playbook = starts'[q].row.playbook, runs'[j].agent = starts'[q].row.agent
        PROVE  Overlapped(j, starts'[q].id)
    <3>1. q # r /\ starts'[q] = starts[q]
      BY <2>2, <2>9
    <3>2. CASE j = i
      BY <2>6, <2>9, <3>1, <3>2
    <3>3. CASE j # i
      BY <2>3, <2>4, <2>9, <3>1, <3>3 DEF ActiveInv
    <3>4. QED
      BY <3>2, <3>3
  <2>10. QED
    BY <2>2, <2>8, <2>9 DEF ActiveInv, Overlapped
<1>4. ASSUME NEW r \in Requests, AbortTrigger(r) PROVE ActiveInv'
  <2>1. /\ starts'[r] = None /\ runs' = runs /\ overlap' = overlap
        /\ \A q \in Requests \ {r} : starts'[q] = starts[q]
    BY <1>4, StartEnds DEF AbortTrigger, dbVars
  <2>2. QED
    BY <2>1 DEF ActiveInv, OneActiveRun, InProgress, Overlapped
<1>5. ASSUME NEW w \in Workers, CommitBatch(w) PROVE ActiveInv'
  <2>1. \A i \in RunIds : InProgress(i)' => /\ InProgress(i) /\ runs'[i].playbook = runs[i].playbook
                                            /\ runs'[i].agent = runs[i].agent
    BY <1>5, BatchOnlyEnds DEF InProgress
  <2>2. starts' = starts /\ overlap' = overlap
    BY <1>5 DEF CommitBatch
  <2>3. QED
    BY <2>1, <2>2 DEF ActiveInv, OneActiveRun, Overlapped
<1>6. QED
  BY <1>1, <1>2, <1>3, <1>4, <1>5, QuietStep

\* With any number of requests and tasks, a playbook runs twice at a time for an agent only when
\* two requests overlapped, neither seeing the other's run (trigger_playbook).
THEOREM RunsAreSingle == Spec => []OneActiveRun
<1>1. Init => OverlapInv /\ ActiveInv
  BY DEF Init, OverlapInv, ActiveInv, OneActiveRun, InProgress
<1>2. ActiveInv => OneActiveRun
  BY DEF ActiveInv
<1>3. QED
  BY <1>1, <1>2, InitType, TypeStep, OverlapStep, ActiveStep, PTL DEF Spec

\* No two of these runs overlapped.
Apart(S) == \A i, j \in S : i # j => ~Overlapped(i, j)

\* A counter against the number of runs it should be.
Counts(times, S) == times <= Cardinality(S) /\ (Apart(S) => times = Cardinality(S))

\* A request under way holds the counter that is right once its run is stored.
TimesInv ==
  /\ \A p \in Playbooks : Counts(playbooks[p].times, RunsOf(p))
  /\ \A r \in Requests : starts[r] # None =>
       Counts(starts[r].times, RunsOf(starts[r].row.playbook) \cup {starts[r].id})

LEMMA RunsFinite == \A p : IsFiniteSet(RunsOf(p)) /\ Cardinality(RunsOf(p)) \in Nat
<1>1. IsFiniteSet(RunIds)
  <2>1. MaxRuns \in Int
    BY ConstantsAssumption
  <2>2. QED
    BY <2>1, FS_Interval DEF RunIds
<1>2. QED
  BY <1>1, FS_Subset, FS_CardinalityType DEF RunsOf

\* One run more.
LEMMA OneRunMore ==
  ASSUME NEW p, NEW i, i \notin RunsOf(p)
  PROVE  Cardinality(RunsOf(p) \cup {i}) = Cardinality(RunsOf(p)) + 1
BY RunsFinite, FS_AddElement

\* The requests that are left have one more run to count, which overlapped theirs.
LEMMA RunBesideRequest ==
  ASSUME NEW p, NEW i, NEW k, i # k, i \notin RunsOf(p), k \notin RunsOf(p), NEW times \in Nat,
         Counts(times, RunsOf(p) \cup {k}), Overlapped(i, k)
  PROVE  Counts(times, (RunsOf(p) \cup {i}) \cup {k})
<1>1. Cardinality(RunsOf(p) \cup {k}) = Cardinality(RunsOf(p)) + 1
  BY OneRunMore
<1>2. Cardinality((RunsOf(p) \cup {i}) \cup {k}) = Cardinality(RunsOf(p)) + 2
  <2>1. Cardinality(RunsOf(p) \cup {i}) = Cardinality(RunsOf(p)) + 1 /\ IsFiniteSet(RunsOf(p) \cup {i})
    BY OneRunMore, RunsFinite, FS_AddElement
  <2>2. k \notin RunsOf(p) \cup {i}
    OBVIOUS
  <2>3. Cardinality((RunsOf(p) \cup {i}) \cup {k}) = Cardinality(RunsOf(p) \cup {i}) + 1
    BY <2>1, <2>2, FS_AddElement
  <2>4. QED
    BY <2>1, <2>3, RunsFinite
<1>3. ~Apart((RunsOf(p) \cup {i}) \cup {k})
  BY DEF Apart
<1>4. QED
  BY <1>1, <1>2, <1>3, RunsFinite DEF Counts

LEMMA TimesStep == TypeInv /\ OverlapInv /\ TimesInv /\ [Next]_vars => TimesInv'
<1> SUFFICES ASSUME TypeInv, OverlapInv, TimesInv, [Next]_vars PROVE TimesInv'
  OBVIOUS
<1>1. \A r \in Requests : starts[r] # None =>
        /\ starts[r] \in Start /\ starts[r].row.playbook \in Playbooks /\ starts[r].id \in RunIds
        /\ \A p : starts[r].id \notin RunsOf(p)
  BY DEF TypeInv, TypeOK, StartsFresh, Start, RunRow, RunsOf
<1>2. ASSUME overlap' = overlap, \A p : RunsOf(p)' = RunsOf(p),
             \A p \in Playbooks : playbooks'[p].times = playbooks[p].times,
             \A r \in Requests : starts'[r] \in {starts[r], None}
      PROVE  TimesInv'
  BY <1>1, <1>2 DEF TimesInv, Counts, Apart, Overlapped
<1>3. CASE Quiet
  BY <1>2, <1>3 DEF RunsOf, Quiet
<1>4. ASSUME NEW r \in Requests, NEW p \in Playbooks, NEW a \in Agents, TriggerPlaybook(r, p, a)
      PROVE  TimesInv'
  <2>1. /\ starts'[r].times = playbooks[p].times + 1 /\ starts'[r].row.playbook = p
        /\ starts'[r].id = nextRun /\ \A q \in Requests \ {r} : starts'[q] = starts[q]
    BY <1>4, TriggerStarts
  <2>2. runs' = runs /\ playbooks' = playbooks /\ \A q : RunsOf(q)' = RunsOf(q)
    BY <1>4 DEF TriggerPlaybook, dbVars, RunsOf
  <2>3. /\ \A i, j \in RunIds \ {nextRun} : Overlapped(i, j)' <=> Overlapped(i, j)
        /\ \A q \in Requests : starts[q] # None => starts[q].id \in RunIds \ {nextRun}
        /\ \A q : RunsOf(q) \subseteq RunIds \ {nextRun}
    BY <1>4, TriggerOverlaps DEF RunsOf
  <2>4. ASSUME NEW S \in SUBSET (RunIds \ {nextRun}) PROVE Apart(S)' <=> Apart(S)
    <3>1. \A i, j \in S : Overlapped(i, j)' <=> Overlapped(i, j)
      BY <2>3
    <3>2. QED
      BY <3>1 DEF Apart
  <2>5. ASSUME NEW q \in Playbooks PROVE Counts(playbooks[q].times, RunsOf(q))'
    <3>1. Counts(playbooks[q].times, RunsOf(q))
      BY DEF TimesInv
    <3>2. PICK S \in SUBSET (RunIds \ {nextRun}) : S = RunsOf(q)
      BY <2>3
    <3>3. QED
      BY <2>2, <2>4, <3>1, <3>2 DEF Counts, Apart, Overlapped
  <2>6. ASSUME NEW q \in Requests \ {r}, starts'[q] # None
        PROVE  Counts(starts[q].times, RunsOf(starts[q].row.playbook) \cup {starts[q].id})'
    <3>1. Counts(starts[q].times, RunsOf(starts[q].row.playbook) \cup {starts[q].id})
      BY <2>1, <2>6 DEF TimesInv
    <3>2. PICK S \in SUBSET (RunIds \ {nextRun}) : S = RunsOf(starts[q].row.playbook) \cup {starts[q].id}
      BY <2>1, <2>3, <2>6
    <3>3. QED
      BY <2>1, <2>2, <2>4, <2>6, <3>1, <3>2 DEF Counts, Apart, Overlapped
  <2>7. Counts(starts[r].times, RunsOf(starts[r].row.playbook) \cup {starts[r].id})'
    <3>1. playbooks[p].times \in Nat
      <4>1. playbooks[p] \in PlaybookRow
        BY DEF TypeInv, TypeOK
      <4>2. QED
        BY <4>1 DEF PlaybookRow
    <3>2. Counts(playbooks[p].times, RunsOf(p))
      BY DEF TimesInv
    <3>3. Cardinality(RunsOf(p) \cup {nextRun}) = Cardinality(RunsOf(p)) + 1
      BY <2>3, OneRunMore
    <3>4. PICK S \in SUBSET (RunIds \ {nextRun}) : S = RunsOf(p)
      BY <2>3
    <3>5. PICK k \in RunIds : k = nextRun
      BY <2>3, <1>4 DEF TriggerPlaybook
    <3>6. Apart(S \cup {k})' => Apart(S)'
      BY DEF Apart
    <3>7. Apart(S \cup {k})' => Apart(RunsOf(p))
      BY <2>4, <3>4, <3>6
    <3>8. Counts(playbooks[p].times + 1, RunsOf(p) \cup {k})'
      BY <2>2, <3>1, <3>2, <3>3, <3>4, <3>5, <3>7, RunsFinite DEF Counts
    <3>9. (RunsOf(starts[r].row.playbook) \cup {starts[r].id})' = (RunsOf(p) \cup {k})'
      BY <2>1, <3>5 DEF RunsOf
    <3>10. QED
      BY <2>1, <2>2, <3>8, <3>9 DEF Counts
  <2>8. QED
    BY <2>5, <2>6, <2>7 DEF TimesInv, Counts, Apart, Overlapped, RunsOf
<1>5. ASSUME NEW r \in Requests, CommitTrigger(r) PROVE TimesInv'
  <2> DEFINE i == starts[r].id
             row == starts[r].row
             times == starts[r].times
  <2>1. i \in RunIds /\ row \in RunRow /\ row # None /\ runs[i] = None /\ runs' = [runs EXCEPT ![i] = row]
        /\ \A p \in Playbooks : playbooks'[p] =
             IF p = row.playbook THEN [playbooks[p] EXCEPT !.times = times] ELSE playbooks[p]
    BY <1>5, TriggerCommits
  <2>2. /\ starts[r] # None /\ starts'[r] = None /\ overlap' = overlap
        /\ \A q \in Requests \ {r} : starts'[q] = starts[q]
    BY <1>5, StartEnds DEF CommitTrigger
  <2>3. \A j \in RunIds : runs'[j] = IF j = i THEN row ELSE runs[j]
    BY <2>1 DEF TypeInv, TypeOK
  <2>4. Counts(times, RunsOf(row.playbook) \cup {i}) /\ \A p : i \notin RunsOf(p)
    BY <1>1, <2>2 DEF TimesInv
  <2>5. ASSUME NEW q \in Requests \ {r}, starts[q] # None
        PROVE  Overlapped(i, starts[q].id) /\ i # starts[q].id
    BY <2>2, <2>5 DEF OverlapInv, TypeInv, StartsFresh
  <2> HIDE DEF i, row, times
  <2>6. \A p : RunsOf(p)' = IF p = row.playbook THEN RunsOf(p) \cup {i} ELSE RunsOf(p)
    BY <2>1, <2>3 DEF RunsOf
  <2>7. \A S, n : Counts(n, S)' <=> Counts(n, S)
    BY <2>2 DEF Counts, Apart, Overlapped
  <2>8. ASSUME NEW p \in Playbooks PROVE Counts(playbooks'[p].times, RunsOf(p)')
    <3>1. CASE p = row.playbook
      <4>1. playbooks'[p].times = times
        <5>1. playbooks[p] \in PlaybookRow
          BY DEF TypeInv, TypeOK
        <5>2. QED
          BY <2>1, <3>1, <5>1 DEF PlaybookRow
      <4>2. QED
        BY <2>4, <2>6, <3>1, <4>1
    <3>2. CASE p # row.playbook
      BY <2>1, <2>6, <3>2 DEF TimesInv
    <3>3. QED
      BY <3>1, <3>2
  <2>9. ASSUME NEW q \in Requests, starts'[q] # None
        PROVE  Counts(starts'[q].times, (RunsOf(starts[q].row.playbook) \cup {starts[q].id})')
    <3>1. q # r /\ starts'[q] = starts[q]
      BY <2>2, <2>9
    <3>2. PICK p, k : p = starts[q].row.playbook /\ k = starts[q].id
      OBVIOUS
    <3>3. /\ starts[q].times \in Nat /\ k \notin RunsOf(p)
          /\ Counts(starts[q].times, RunsOf(p) \cup {k}) /\ Overlapped(i, k) /\ i # k
      BY <1>1, <2>5, <2>9, <3>1, <3>2 DEF TimesInv, Start
    <3>4. Counts(starts[q].times, RunsOf(p)' \cup {k})
      BY <2>4, <2>6, <3>3, RunBesideRequest
    <3>5. (RunsOf(starts[q].row.playbook) \cup {starts[q].id})' = RunsOf(p)' \cup {k}
      BY <3>1, <3>2 DEF RunsOf
    <3>6. QED
      BY <3>1, <3>4, <3>5
  <2>10. QED
    BY <2>7, <2>8, <2>9 DEF TimesInv, RunsOf
<1>6. ASSUME NEW r \in Requests, AbortTrigger(r) PROVE TimesInv'
  <2>1. /\ starts'[r] = None /\ runs' = runs /\ playbooks' = playbooks /\ overlap' = overlap
        /\ \A q \in Requests \ {r} : starts'[q] = starts[q]
    BY <1>6, StartEnds DEF AbortTrigger, dbVars
  <2>2. QED
    BY <1>2, <2>1 DEF RunsOf
<1>7. ASSUME NEW w \in Workers, CommitBatch(w) PROVE TimesInv'
  <2>1. \A p : RunsOf(p)' = RunsOf(p)
    BY <1>7, BatchOnlyEnds DEF RunsOf
  <2>2. starts' = starts /\ playbooks' = playbooks /\ overlap' = overlap
    BY <1>7 DEF CommitBatch
  <2>3. QED
    BY <1>2, <2>1, <2>2
<1>8. QED
  BY <1>3, <1>4, <1>5, <1>6, <1>7, QuietStep

\* With any number of requests, times_executed never exceeds the number of stored runs of the
\* playbook, and falls short of it only when two of these runs' requests overlapped, whatever is
\* rolled back and however the playbook is edited (trigger_playbook).
THEOREM TimesCountRuns == Spec => []TimesExecutedCounts
<1>1. Init => OverlapInv /\ TimesInv
  <2> SUFFICES ASSUME Init PROVE OverlapInv /\ TimesInv
    OBVIOUS
  <2>1. \A p \in Playbooks : playbooks[p].times = 0
    BY DEF Init
  <2>2. \A p : RunsOf(p) = {}
    BY DEF Init, RunsOf
  <2>3. QED
    <3>1. Counts(0, {})
      BY FS_EmptySet DEF Counts
    <3>2. QED
      BY <2>1, <2>2, <3>1 DEF Init, OverlapInv, TimesInv
<1>2. TypeInv /\ TimesInv => TimesExecutedCounts
  <2> SUFFICES ASSUME TypeInv, TimesInv, NEW p \in Playbooks
               PROVE  /\ playbooks[p].times <= Cardinality(RunsOf(p))
                      /\ playbooks[p].times < Cardinality(RunsOf(p)) =>
                           \E i, j \in RunsOf(p) : i # j /\ Overlapped(i, j)
    BY DEF TimesExecutedCounts
  <2>1. Counts(playbooks[p].times, RunsOf(p))
    BY DEF TimesInv
  <2>2. Apart(RunsOf(p)) \/ \E i, j \in RunsOf(p) : i # j /\ Overlapped(i, j)
    BY DEF Apart
  <2>3. QED
    BY <2>1, <2>2, RunsFinite DEF Counts
<1>3. QED
  BY <1>1, <1>2, InitType, TypeStep, OverlapStep, TimesStep, PTL DEF Spec
-----------------------------------------------------------------------------
(* Executing runs.  One task at a time; any number of requests.            *)

OneWorker == \A v, w \in Workers : v = w

\* The task at work holds runs that are in progress and as it loaded them: nobody else moves a
\* run that has started.
TaskCurrent ==
  \A w \in Workers : \A i \in RunIds :
    /\ i \in tasks[w].todo =>
         InProgress(i) /\ tasks[w].rows[i] \in {None, runs[i]} /\ tasks[w].moves[i] = None
    /\ tasks[w].moves[i] # None => tasks[w].moves[i].from = runs[i] /\ InProgress(i)

\* No steps before the run, then one row for each step counted.
TrailsCounted ==
  \A i \in RunIds : Len(trail[i]) = IF runs[i] = None THEN 0 ELSE runs[i].executed

RunInv == TaskCurrent /\ TrailsCounted /\ ActiveIsScheduled

\* A step of one task that writes nothing.
LEMMA TaskCurrentStep ==
  ASSUME TypeInv, RunInv, NEW w \in Workers, NEW t \in Task, tasks' = [tasks EXCEPT ![w] = t],
         UNCHANGED <<runs, trail>>,
         \A i \in RunIds :
           /\ i \in t.todo => InProgress(i) /\ t.rows[i] \in {None, runs[i]} /\ t.moves[i] = None
           /\ t.moves[i] # None => t.moves[i].from = runs[i] /\ InProgress(i)
  PROVE  RunInv'
<1>1. \A v \in Workers : tasks'[v] = IF v = w THEN t ELSE tasks[v]
  BY DEF TypeInv, TypeOK
<1>2. TaskCurrent'
  BY <1>1 DEF RunInv, TaskCurrent, InProgress
<1>3. TrailsCounted' /\ ActiveIsScheduled'
  BY DEF RunInv, TrailsCounted, ActiveIsScheduled, InProgress
<1>4. QED
  BY <1>2, <1>3 DEF RunInv

\* Execution moves the run on from the row that is stored.
LEMMA ExecuteCurrent ==
  ASSUME TypeInv, RunInv, NEW w \in Workers, ExecuteRun(w) PROVE RunInv'
<1>1. PICK i \in tasks[w].todo, m \in Move, days \in Durations \cup {None} :
        /\ m.from = LoadedRun(tasks[w], i)
        /\ tasks' = [tasks EXCEPT ![w] = Stepped(tasks[w], i, m, days)]
  BY ExecutedOne
<1> DEFINE t == Stepped(tasks[w], i, m, days)
<1>2. tasks[w] \in Task /\ i \in RunIds
  BY DEF TypeInv, TypeOK, Task
<1>3. /\ t \in Task /\ t.todo = tasks[w].todo \ {i}
      /\ \A j \in RunIds : t.rows[j] = IF j = i THEN m.from ELSE tasks[w].rows[j]
      /\ \A j \in RunIds : t.moves[j] = IF j = i THEN m ELSE tasks[w].moves[j]
  BY <1>2, SteppedType
<1>4. m.from = runs[i] /\ InProgress(i)
  BY <1>1, <1>2 DEF RunInv, TaskCurrent, LoadedRun
<1>5. UNCHANGED <<runs, trail>>
  BY DEF ExecuteRun, dbVars
<1>6. tasks' = [tasks EXCEPT ![w] = t]
  BY <1>1
<1> HIDE DEF t
<1>7. \A j \in RunIds :
        /\ j \in t.todo => InProgress(j) /\ t.rows[j] \in {None, runs[j]} /\ t.moves[j] = None
        /\ t.moves[j] # None => t.moves[j].from = runs[j] /\ InProgress(j)
  BY <1>3, <1>4 DEF RunInv, TaskCurrent
<1>8. QED
  BY <1>3, <1>5, <1>6, <1>7, TaskCurrentStep

\* What the commit of the only task makes of a run it moved.
LEMMA MovedRun ==
  ASSUME TypeInv, RunInv, NEW w \in Workers, CommitBatch(w), NEW i \in RunIds, tasks[w].moves[i] # None
  PROVE  LET m == tasks[w].moves[i]
         IN  /\ m \in Move /\ Done(runs[i], runs'[i], m.step) /\ runs[i] \in RunRow /\ runs'[i] \in RunRow
             /\ InProgress(i) /\ runs[i].due # None /\ runs[i].step \in Steps
             /\ trail'[i] = IF m.step = None THEN trail[i] ELSE Append(trail[i], m.step)
             /\ announced'[i] = IF runs'[i].status # "in_progress" THEN announced[i] + 1 ELSE announced[i]
<1> DEFINE m == tasks[w].moves[i]
<1>1. /\ m \in Move /\ Done(m.from, m.to, m.step) /\ runs[i] \in RunRow /\ runs'[i] = FlushedRun(m, i)
      /\ trail'[i] = IF m.step = None THEN trail[i] ELSE Append(trail[i], m.step)
      /\ announced'[i] = IF m.to.status # "in_progress" THEN announced[i] + 1 ELSE announced[i]
  BY BatchCommits
<1>2. m.from = runs[i] /\ InProgress(i)
  BY DEF RunInv, TaskCurrent
<1>3. runs[i].due # None /\ runs[i].step \in Steps
  BY <1>2 DEF RunInv, ActiveIsScheduled, InProgress
<1> HIDE DEF m
<1>4. runs'[i] = m.to /\ m.to \in RunRow
  BY <1>1, <1>2, FlushedCurrent DEF Move
<1>5. QED
  BY <1>1, <1>2, <1>3, <1>4 DEF m

LEMMA CommitBatchCurrent ==
  ASSUME OneWorker, TypeInv, RunInv, NEW w \in Workers, CommitBatch(w) PROVE RunInv'
<1>1. TaskCurrent'
  <2>1. \A v \in Workers : tasks'[v] = Idle
    BY DEF OneWorker, CommitBatch, TypeInv, TypeOK
  <2>2. QED
    BY <2>1, IdleType DEF TaskCurrent
<1>2. ASSUME NEW i \in RunIds
      PROVE  /\ Len(trail'[i]) = IF runs'[i] = None THEN 0 ELSE runs'[i].executed
             /\ runs'[i] # None =>
                  IF InProgress(i)' THEN runs'[i].due # None /\ runs'[i].step \in Steps
                  ELSE runs'[i].due = None
  <2>1. Len(trail[i]) = (IF runs[i] = None THEN 0 ELSE runs[i].executed) /\ trail[i] \in Seq(Steps)
    BY DEF RunInv, TrailsCounted, TypeInv, TypeOK
  <2>2. CASE tasks[w].moves[i] = None
    <3>1. runs'[i] = runs[i] /\ trail'[i] = trail[i]
      BY <2>2, BatchCommits
    <3>2. QED
      BY <2>1, <3>1 DEF RunInv, ActiveIsScheduled, InProgress
  <2>3. CASE tasks[w].moves[i] # None
    <3> DEFINE m == tasks[w].moves[i]
    <3>1. /\ Done(runs[i], runs'[i], m.step) /\ runs[i] \in RunRow /\ runs'[i] \in RunRow
          /\ InProgress(i) /\ m \in Move
          /\ trail'[i] = IF m.step = None THEN trail[i] ELSE Append(trail[i], m.step)
      BY <2>3, MovedRun
    <3> HIDE DEF m
    <3>2. runs[i] # None /\ runs'[i] # None /\ None \notin Steps
      BY <3>1, NoneAssumption, ConstantsAssumption
    <3>3. Len(trail'[i]) = runs'[i].executed
      BY <2>1, <3>1, <3>2 DEF Done
    <3>4. IF InProgress(i)' THEN runs'[i].due # None /\ runs'[i].step \in Steps ELSE runs'[i].due = None
      BY <3>1, <3>2, NoneAssumption DEF Done, InProgress, Ending
    <3>5. QED
      BY <3>2, <3>3, <3>4
  <2>4. QED
    BY <2>2, <2>3
<1>3. TrailsCounted' /\ ActiveIsScheduled'
  BY <1>2 DEF TrailsCounted, ActiveIsScheduled
<1>4. QED
  BY <1>1, <1>3 DEF RunInv

LEMMA CommitTriggerCurrent ==
  ASSUME TypeInv, RunInv, NEW r \in Requests, CommitTrigger(r) PROVE RunInv'
<1> DEFINE i == starts[r].id
           row == starts[r].row
<1>1. /\ i \in RunIds /\ row \in RunRow /\ row # None
      /\ runs[i] = None /\ runs' = [runs EXCEPT ![i] = row]
  BY TriggerCommits
<1>2. row.status = "in_progress" /\ row.step \in Steps /\ row.due # None /\ row.executed = 0
  BY FirstIsStep, NoneAssumption DEF CommitTrigger, TypeInv, StartsFirst
<1>3. UNCHANGED <<trail, tasks>>
  BY DEF CommitTrigger
<1> HIDE DEF i, row
<1>4. \A j \in RunIds : runs'[j] = IF j = i THEN row ELSE runs[j]
  BY <1>1 DEF TypeInv, TypeOK
<1>5. TaskCurrent'
  <2>1. \A j \in RunIds : InProgress(j) => InProgress(j)' /\ runs'[j] = runs[j]
    BY <1>1, <1>4 DEF InProgress
  <2>2. QED
    BY <1>3, <2>1 DEF RunInv, TaskCurrent
<1>6. TrailsCounted'
  BY <1>1, <1>2, <1>3, <1>4 DEF RunInv, TrailsCounted
<1>7. ActiveIsScheduled'
  BY <1>1, <1>2, <1>4 DEF RunInv, ActiveIsScheduled, InProgress
<1>8. QED
  BY <1>5, <1>6, <1>7 DEF RunInv

LEMMA RunStep == OneWorker /\ TypeInv /\ RunInv /\ [Next]_vars => RunInv'
<1> SUFFICES ASSUME OneWorker, TypeInv, RunInv, [Next]_vars PROVE RunInv'
  OBVIOUS
<1>1. ASSUME UNCHANGED <<runs, trail, tasks>> PROVE RunInv'
  BY <1>1 DEF RunInv, TaskCurrent, TrailsCounted, ActiveIsScheduled, InProgress
<1>2. ASSUME NEW r \in Requests, NEW p \in Playbooks, NEW a \in Agents, TriggerPlaybook(r, p, a)
      PROVE  RunInv'
  BY <1>1, <1>2 DEF TriggerPlaybook, dbVars
<1>3. ASSUME NEW r \in Requests, CommitTrigger(r) \/ AbortTrigger(r) PROVE RunInv'
  BY <1>1, <1>3, CommitTriggerCurrent DEF AbortTrigger, dbVars
<1>4. ASSUME NEW p \in Playbooks, NEW active \in BOOLEAN, NEW days \in Durations,
             UpdatePlaybook(p, active, days)
      PROVE  RunInv'
  BY <1>1, <1>4 DEF UpdatePlaybook
<1>5. ASSUME NEW p \in Playbooks, DeletePlaybook(p) PROVE RunInv'
  BY <1>1, <1>5 DEF DeletePlaybook
<1>6. ASSUME NEW w \in Workers, FetchDue(w) PROVE RunInv'
  <2>1. PICK S \in SUBSET Due, rows \in [RunIds -> RunRow \cup {None}],
             days \in [Playbooks -> Durations \cup {None}] :
               /\ \A i \in S : rows[i] = runs[i]
               /\ tasks' = [tasks EXCEPT ![w] = Begun(S, now, rows, days)]
    BY <1>6, Fetched
  <2> DEFINE t == Begun(S, now, rows, days)
  <2>2. S \in SUBSET RunIds /\ \A i \in S : InProgress(i)
    BY DEF Due
  <2>3. t \in Task /\ t.todo = S /\ t.rows = rows /\ t.moves = [i \in RunIds |-> None]
    <3>1. now \in 0 .. MaxDay
      BY DEF TypeInv, TypeOK
    <3>2. QED
      BY <2>2, <3>1, BegunType
  <2>4. UNCHANGED <<runs, trail>>
    BY <1>6 DEF FetchDue, dbVars
  <2> HIDE DEF t
  <2>5. \A i \in RunIds :
          /\ i \in t.todo => InProgress(i) /\ t.rows[i] \in {None, runs[i]} /\ t.moves[i] = None
          /\ t.moves[i] # None => t.moves[i].from = runs[i] /\ InProgress(i)
    BY <2>1, <2>2, <2>3
  <2>6. QED
    BY <2>1, <2>3, <2>4, <2>5, TaskCurrentStep DEF t
<1>7. ASSUME NEW w \in Workers, ExecutionFails(w) PROVE RunInv'
  <2>1. PICK i \in tasks[w].todo : tasks' = [tasks EXCEPT ![w] =
          Begun(tasks[w].todo \ {i}, tasks[w].now, Idle.rows, Idle.days)]
    BY <1>7, FailedOne
  <2> DEFINE t == Begun(tasks[w].todo \ {i}, tasks[w].now, Idle.rows, Idle.days)
  <2>2. tasks[w] \in Task /\ Idle.rows = [j \in RunIds |-> None]
    BY <1>7, FailedOne
  <2>3. tasks[w].todo \ {i} \in SUBSET RunIds /\ tasks[w].now \in 0 .. MaxDay
    BY <2>2 DEF Task
  <2>4. t \in Task /\ t.todo = tasks[w].todo \ {i} /\ t.rows = Idle.rows /\ t.moves = [j \in RunIds |-> None]
    BY <1>7, <2>3, FailedOne, BegunType
  <2>5. UNCHANGED <<runs, trail>>
    BY <1>7 DEF ExecutionFails, dbVars
  <2> HIDE DEF t
  <2>6. \A j \in RunIds :
          /\ j \in t.todo => InProgress(j) /\ t.rows[j] \in {None, runs[j]} /\ t.moves[j] = None
          /\ t.moves[j] # None => t.moves[j].from = runs[j] /\ InProgress(j)
    BY <2>2, <2>4 DEF RunInv, TaskCurrent
  <2>7. QED
    BY <2>1, <2>4, <2>5, <2>6, TaskCurrentStep DEF t
<1>8. ASSUME NEW w \in Workers, CrashTask(w) PROVE RunInv'
  <2>1. UNCHANGED <<runs, trail>> /\ tasks' = [tasks EXCEPT ![w] = Idle]
    BY <1>8 DEF CrashTask, dbVars
  <2>2. QED
    BY <2>1, IdleType, TaskCurrentStep
<1>9. CASE Tick
  BY <1>1, <1>9 DEF Tick, dbVars
<1>10. CASE UNCHANGED vars
  BY <1>1, <1>10 DEF vars, dbVars
<1>11. ASSUME NEW w \in Workers,
              FetchDue(w) \/ ExecuteRun(w) \/ ExecutionFails(w) \/ CommitBatch(w) \/ CrashTask(w)
       PROVE  RunInv'
  BY <1>6, <1>7, <1>8, <1>11, ExecuteCurrent, CommitBatchCurrent
<1>12. QED
  BY <1>2, <1>3, <1>4, <1>5, <1>9, <1>10, <1>11 DEF Next

LEMMA RunInit == Init => RunInv
<1> SUFFICES ASSUME Init PROVE RunInv
  OBVIOUS
<1>1. \A w \in Workers : tasks[w] = Idle
  BY DEF Init
<1>2. \A i \in RunIds : runs[i] = None /\ trail[i] = <<>>
  BY DEF Init
<1>3. TaskCurrent
  BY <1>1, IdleType DEF TaskCurrent
<1>4. QED
  BY <1>2, <1>3 DEF RunInv, TrailsCounted, ActiveIsScheduled

LEMMA RunAlways == OneWorker => (Spec => [](TypeInv /\ RunInv))
<1>1. ASSUME OneWorker PROVE Spec => [](TypeInv /\ RunInv)
  <2>1. TypeInv /\ RunInv /\ [Next]_vars => RunInv'
    BY <1>1, RunStep
  <2>2. QED
    BY <2>1, InitType, RunInit, TypeStep, PTL DEF Spec
<1>2. QED
  BY <1>1

\* With one task at a time, steps_executed of a run is the number of its committed
\* playbook_step_runs rows, through rollbacks, crashes and overlapping requests
\* (execute_playbook_step, execute_due_playbook_steps).
THEOREM CountIsTrail == OneWorker => (Spec => []ExecutedCountsTrail)
<1>1. RunInv => ExecutedCountsTrail
  BY DEF RunInv, TrailsCounted, ExecutedCountsTrail
<1>2. ASSUME OneWorker PROVE Spec => []ExecutedCountsTrail
  BY <1>1, <1>2, RunAlways, PTL
<1>3. QED
  BY <1>2

\* With one task at a time, a run in progress has a due date and a step of its playbook, so the
\* poll finds it, and a run that ended is never due again (get_due_playbook_runs).
THEOREM RunsAreScheduled == OneWorker => (Spec => []ActiveIsScheduled)
<1>1. RunInv => ActiveIsScheduled
  BY DEF RunInv
<1>2. ASSUME OneWorker PROVE Spec => []ActiveIsScheduled
  BY <1>1, <1>2, RunAlways, PTL
<1>3. QED
  BY <1>2
-----------------------------------------------------------------------------
(* The promise of a run.                                                   *)

LEMMA PromiseInit == Init => Run!AbsInit
<1> SUFFICES ASSUME Init PROVE Run!AbsInit
  OBVIOUS
<1>1. \A i \in RunIds : runs[i] = None
  BY DEF Init
<1>2. Phase = [i \in RunIds |-> "absent"] /\ At = [i \in RunIds |-> 0]
  BY <1>1 DEF Phase, At, InProgress
<1>3. QED
  BY <1>2 DEF Init, Run!AbsInit

\* A run that was moved, as the promise sees it.
LEMMA MovedPromise ==
  ASSUME TypeInv, RunInv, NEW w \in Workers, CommitBatch(w), NEW i \in RunIds, tasks[w].moves[i] # None
  PROVE  Run!Executes(i) \/ Run!Expires(i)
<1> DEFINE m == tasks[w].moves[i]
<1>1. /\ m \in Move /\ Done(runs[i], runs'[i], m.step) /\ runs[i] \in RunRow /\ runs'[i] \in RunRow
      /\ InProgress(i)
      /\ trail'[i] = IF m.step = None THEN trail[i] ELSE Append(trail[i], m.step)
      /\ announced'[i] = IF runs'[i].status # "in_progress" THEN announced[i] + 1 ELSE announced[i]
  BY MovedRun
<1> HIDE DEF m
<1>2. runs[i] # None /\ runs'[i] # None /\ None \notin Steps
  BY <1>1, NoneAssumption, ConstantsAssumption
<1>3. Phase[i] = "running" /\ At[i] = runs[i].step
  BY <1>1, <1>2 DEF Phase, At, InProgress
<1>4. /\ Phase'[i] = IF runs'[i].status = "in_progress" THEN "running" ELSE "ended"
      /\ At'[i] = IF runs'[i].status = "in_progress" THEN runs'[i].step ELSE 0
  BY <1>2 DEF Phase, At, InProgress
<1>5. CASE m.step = None
  <2>1. runs'[i].status # "in_progress"
    BY <1>1, <1>2, <1>5 DEF Done, Ending
  <2>2. Run!Expires(i)
    BY <1>1, <1>3, <1>4, <1>5, <2>1 DEF Run!Expires
  <2>3. QED
    BY <2>2
<1>6. CASE m.step # None
  <2>1. m.step = At[i] /\ trail'[i] = Append(trail[i], At[i])
    BY <1>1, <1>3, <1>6 DEF Done
  <2>2. CASE runs'[i].status = "in_progress"
    <3>1. runs'[i].step \in Follow[At[i]] \cap Steps
      BY <1>1, <1>6, <2>1, <2>2 DEF Done, Ending
    <3>2. QED
      BY <1>1, <1>3, <1>4, <2>1, <2>2, <3>1 DEF Run!Executes
  <2>3. CASE runs'[i].status # "in_progress"
    BY <1>1, <1>3, <1>4, <2>1, <2>3 DEF Run!Executes
  <2>4. QED
    BY <2>2, <2>3
<1>7. QED
  BY <1>5, <1>6

LEMMA PromiseStep == TypeInv /\ RunInv /\ [Next]_vars => [Run!AbsNext]_(Run!absVars)
<1> SUFFICES ASSUME TypeInv, RunInv, [Next]_vars PROVE [Run!AbsNext]_(Run!absVars)
  OBVIOUS
<1>1. ASSUME UNCHANGED <<runs, trail, announced>> PROVE UNCHANGED Run!absVars
  BY <1>1 DEF Run!absVars, Phase, At, InProgress
<1>2. CASE Quiet
  BY <1>1, <1>2 DEF Quiet
<1>3. ASSUME NEW r \in Requests, NEW p \in Playbooks, NEW a \in Agents, TriggerPlaybook(r, p, a)
      PROVE  UNCHANGED Run!absVars
  BY <1>1, <1>3 DEF TriggerPlaybook, dbVars
<1>4. ASSUME NEW r \in Requests, AbortTrigger(r) PROVE UNCHANGED Run!absVars
  BY <1>1, <1>4 DEF AbortTrigger, dbVars
<1>5. ASSUME NEW r \in Requests, CommitTrigger(r) PROVE Run!AbsNext
  <2> DEFINE i == starts[r].id
             row == starts[r].row
  <2>1. i \in RunIds /\ row # None /\ runs[i] = None /\ runs' = [runs EXCEPT ![i] = row]
    BY <1>5, TriggerCommits
  <2>2. row.status = "in_progress" /\ row.step = First
    BY <1>5 DEF CommitTrigger, TypeInv, StartsFirst
  <2>3. UNCHANGED <<trail, announced>>
    BY <1>5 DEF CommitTrigger
  <2> HIDE DEF i, row
  <2>4. \A j \in RunIds : runs'[j] = IF j = i THEN row ELSE runs[j]
    BY <2>1 DEF TypeInv, TypeOK
  <2>5. Run!Starts(i)
    BY <2>1, <2>2, <2>3, <2>4 DEF Run!Starts, Phase, At, InProgress
  <2>6. \A j \in RunIds \ {i} : Run!Rests(j)
    BY <2>3, <2>4 DEF Run!Rests, Phase, At, InProgress
  <2>7. QED
    BY <2>5, <2>6 DEF Run!AbsNext
<1>6. ASSUME NEW w \in Workers, CommitBatch(w) PROVE Run!AbsNext
  <2>1. ASSUME NEW i \in RunIds PROVE Run!Rests(i) \/ Run!Executes(i) \/ Run!Expires(i)
    <3>1. CASE tasks[w].moves[i] = None
      <4>1. UNCHANGED <<runs[i], trail[i], announced[i]>>
        BY <1>6, <3>1, BatchCommits
      <4>2. QED
        BY <4>1 DEF Run!Rests, Phase, At, InProgress
    <3>2. CASE tasks[w].moves[i] # None
      BY <1>6, <3>2, MovedPromise
    <3>3. QED
      BY <3>1, <3>2
  <2>2. QED
    BY <2>1 DEF Run!AbsNext
<1>7. QED
  BY <1>2, <1>3, <1>4, <1>5, <1>6, QuietStep

\* With one task at a time, whatever is rolled back or crashes and however playbooks are edited
\* meanwhile, runs do what PlaybookRun promises: each commit moves a run by at most one step, from
\* the step it is at, where that step's rules lead, and a run ends once, with one signal.
THEOREM RunKeepsPromise == OneWorker => (Spec => RunPromise)
<1>1. ASSUME OneWorker PROVE Spec => RunPromise
  <2>1. Spec => [](TypeInv /\ RunInv)
    BY <1>1, RunAlways
  <2>2. QED
    BY <2>1, PromiseInit, PromiseStep, PTL DEF Spec, RunPromise, Run!AbsSpec
<1>2. QED
  BY <1>1
-----------------------------------------------------------------------------
(* What the promise entails.                                               *)

\* What TrailIsWalk says of a run with these values.
Walks(phase, at, steps, count) ==
  LET n == Len(steps) IN
  /\ phase = "absent" => n = 0
  /\ n > 0 => steps[1] = First
  /\ \A k \in 1 .. n - 1 : steps[k + 1] \in Follow[steps[k]]
  /\ phase = "running" => IF n = 0 THEN at = First ELSE at \in Follow[steps[n]]
  /\ count = IF phase = "ended" THEN 1 ELSE 0

LEMMA TrailWalks ==
  /\ Run!TrailIsWalk <=> \A i \in RunIds : Walks(Phase[i], At[i], trail[i], announced[i])
  /\ Run!TrailIsWalk' <=> \A i \in RunIds : Walks(Phase'[i], At'[i], trail'[i], announced'[i])
BY DEF Run!TrailIsWalk, Walks

\* The step executed extends the walk.
LEMMA StepWalks ==
  ASSUME NEW steps \in Seq(Steps), NEW at, NEW count \in Nat, Walks("running", at, steps, count),
         NEW to, NEW phase, NEW more,
         \/ phase = "running" /\ to \in Follow[at] /\ more = count
         \/ phase = "ended" /\ more = count + 1
  PROVE  Walks(phase, to, Append(steps, at), more)
<1> DEFINE n == Len(steps)
           longer == Append(steps, at)
<1>1. /\ n \in Nat /\ Len(longer) = n + 1 /\ longer[n + 1] = at
      /\ \A k \in 1 .. n : longer[k] = steps[k]
  OBVIOUS
<1>2. /\ n > 0 => steps[1] = First
      /\ \A k \in 1 .. n - 1 : steps[k + 1] \in Follow[steps[k]]
      /\ IF n = 0 THEN at = First ELSE at \in Follow[steps[n]]
      /\ count = 0
  BY DEF Walks
<1> HIDE DEF n, longer
<1>3. longer[1] = First
  <2>1. CASE n = 0
    BY <1>1, <1>2, <2>1
  <2>2. CASE n > 0
    BY <1>1, <1>2, <2>2
  <2>3. QED
    BY <1>1, <2>1, <2>2
<1>4. ASSUME NEW k \in 1 .. n PROVE longer[k + 1] \in Follow[longer[k]]
  <2>1. CASE k = n
    BY <1>1, <1>2, <2>1
  <2>2. CASE k < n
    <3>1. k \in 1 .. n - 1 /\ k + 1 \in 1 .. n
      BY <1>1, <2>2
    <3>2. QED
      BY <1>1, <1>2, <3>1
  <2>3. QED
    BY <1>1, <2>1, <2>2
<1>5. QED
  BY <1>1, <1>2, <1>3, <1>4 DEF Walks, longer

LEMMA WalkStep ==
  ASSUME TypeInv, Run!TrailIsWalk, [Run!AbsNext]_(Run!absVars)
  PROVE  Run!TrailIsWalk'
<1> SUFFICES ASSUME NEW i \in RunIds
             PROVE  Walks(Phase'[i], At'[i], trail'[i], announced'[i])
  BY TrailWalks
<1>1. Walks(Phase[i], At[i], trail[i], announced[i]) /\ trail[i] \in Seq(Steps) /\ announced[i] \in Nat
  BY TrailWalks DEF TypeInv, TypeOK
<1>2. CASE Run!Rests(i)
  BY <1>1, <1>2 DEF Run!Rests
<1>3. CASE Run!Starts(i)
  <2>1. /\ Phase[i] = "absent" /\ Phase'[i] = "running" /\ At'[i] = First
        /\ trail'[i] = trail[i] /\ announced'[i] = announced[i]
    BY <1>3 DEF Run!Starts
  <2>2. QED
    BY <1>1, <2>1 DEF Walks
<1>4. CASE Run!Executes(i)
  <2>1. /\ Phase[i] = "running" /\ trail'[i] = Append(trail[i], At[i])
        /\ \/ Phase'[i] = "running" /\ At'[i] \in Follow[At[i]] /\ announced'[i] = announced[i]
           \/ Phase'[i] = "ended" /\ announced'[i] = announced[i] + 1
    BY <1>4 DEF Run!Executes
  <2>2. QED
    BY <1>1, <2>1, StepWalks
<1>5. CASE Run!Expires(i)
  <2>1. /\ Phase[i] = "running" /\ Phase'[i] = "ended"
        /\ trail'[i] = trail[i] /\ announced'[i] = announced[i] + 1
    BY <1>5 DEF Run!Expires
  <2>2. QED
    BY <1>1, <2>1 DEF Walks
<1>6. CASE UNCHANGED Run!absVars
  BY <1>1, <1>6 DEF Run!absVars
<1>7. QED
  BY <1>2, <1>3, <1>4, <1>5, <1>6 DEF Run!AbsNext

\* With one task at a time, the step runs of a playbook run can be read as its story: they begin at
\* the first step, each was named by the rules of the one before it, none is missing or repeated by
\* a batch that was rolled back and taken up again, and PLAYBOOK_COMPLETED is emitted once, when
\* the run has ended (execute_due_playbook_steps, _execute_run_step_sync).
THEOREM TrailsFollowRules == OneWorker => (Spec => []Run!TrailIsWalk)
<1>1. ASSUME OneWorker PROVE Spec => []Run!TrailIsWalk
  <2>1. Spec => [](TypeInv /\ RunInv)
    BY <1>1, RunAlways
  <2>2. Init => Run!TrailIsWalk
    <3>1. Init => Run!AbsInit
      BY PromiseInit
    <3>2. ASSUME Run!AbsInit, NEW i \in RunIds PROVE Walks(Phase[i], At[i], trail[i], announced[i])
      BY <3>2 DEF Run!AbsInit, Walks
    <3>3. QED
      BY <3>1, <3>2, TrailWalks
  <2>3. TypeInv /\ RunInv /\ Run!TrailIsWalk /\ [Next]_vars => Run!TrailIsWalk'
    BY PromiseStep, WalkStep
  <2>4. QED
    BY <2>1, <2>2, <2>3, PTL DEF Spec
<1>2. QED
  BY <1>1
=============================================================================
