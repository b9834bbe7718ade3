-------------------------- MODULE PlaybookExecution --------------------------
(***************************************************************************)
(* Playbook runs.  API requests start runs; a Celery task polls for the    *)
(* runs whose next step is due, executes one step of each and commits them *)
(* together.  Sessions hold copies of the run rows they loaded and write   *)
(* back the columns they changed; no row is locked in between.             *)
(*                                                                         *)
(* Time is counted in days, the unit of delay_days and max_duration_days.  *)
(* A playbook row cannot vanish under its runs (they are deleted with it), *)
(* so the branch for a missing playbook is not modelled.                   *)
(***************************************************************************)
EXTENDS Naturals, FiniteSets, Sequences

CONSTANTS
  Playbooks, Agents,
  Workers,       \* polling tasks that may run at the same time
  Requests,      \* API requests that may run at the same time
  Steps,         \* step numbers, the same for every playbook
  Delay,         \* Delay[s]: delay_days of step s
  Follow,        \* Follow[s]: step numbers the rules of s, or s + 1, may name
  Closing,       \* steps with a rule that closes the playbook
  Durations,     \* values of max_duration_days
  MaxRuns,       \* bound on runs
  LastStart,     \* the last day a run is started on
  MaxDay,        \* the day the clock stops
  BatchLimit,    \* LIMIT of the poll
  MaxFaults,     \* bound on failures
  None           \* an absent value

ASSUME ConstantsAssumption ==
  /\ Steps \subseteq Nat \ {0} /\ IsFiniteSet(Steps) /\ Steps # {}
  /\ Delay \in [Steps -> Nat] /\ Follow \in [Steps -> SUBSET Nat] /\ Closing \subseteq Steps
  /\ Durations \subseteq Nat \ {0}
  /\ {MaxRuns, LastStart, MaxDay, MaxFaults} \subseteq Nat /\ BatchLimit \in Nat \ {0}
  /\ Workers \cap Requests = {}

RunIds == 1 .. MaxRuns
First == CHOOSE s \in Steps : \A x \in Steps : s <= x
Statuses == {"in_progress", "completed", "expired"}

VARIABLES
  playbooks,  \* playbook rows
  runs,       \* playbook_runs rows; None if absent
  trail,      \* per run, its committed playbook_step_runs rows
  announced,  \* per run, its committed PLAYBOOK_COMPLETED signals
  nextRun,    \* the first run number nobody has taken
  overlap,    \* history: overlap[i], the runs whose requests had not committed when that of i looked
  now,        \* the day
  tasks,      \* the polling tasks' sessions
  starts,     \* the requests' sessions
  faults      \* failures so far

dbVars == <<playbooks, runs, trail, announced>>
vars == <<dbVars, nextRun, overlap, now, tasks, starts, faults>>

\* A task without a transaction.
Idle ==
  [open  |-> FALSE,
   now   |-> 0,                                  \* taken when the task began
   todo  |-> {},                                 \* runs fetched and not handled yet
   rows  |-> [i \in RunIds |-> None],            \* run rows as loaded
   days  |-> [p \in Playbooks |-> None],         \* max_duration_days as loaded
   moves |-> [i \in RunIds |-> None]]            \* what the task did to a run

Init ==
  /\ \E days \in [Playbooks -> Durations] :
       playbooks = [p \in Playbooks |-> [active |-> TRUE, deleted |-> FALSE,
                                         maxDays |-> days[p], times |-> 0]]
  /\ runs = [i \in RunIds |-> None]
  /\ trail = [i \in RunIds |-> <<>>]
  /\ announced = [i \in RunIds |-> 0]
  /\ nextRun = 1 /\ overlap = [i \in RunIds |-> {}] /\ now = 0
  /\ tasks = [w \in Workers |-> Idle]
  /\ starts = [r \in Requests |-> None]
  /\ faults = 0
-----------------------------------------------------------------------------
(* The API.                                                                *)

InProgress(i) == runs[i] # None /\ runs[i].status = "in_progress"

\* Faulty variant: only a run that is due counts as running.
AlreadyRunningDue(p, a) ==
  \E i \in RunIds : InProgress(i) /\ runs[i].playbook = p /\ runs[i].agent = a /\ runs[i].due <= now

AlreadyRunning(p, a) == \E i \in RunIds : InProgress(i) /\ runs[i].playbook = p /\ runs[i].agent = a

\* The runs of the requests under way.
Uncommitted == {starts[r].id : r \in {x \in Requests : starts[x] # None}}

\* trigger_playbook, up to the commit: a read that finds no run in progress,
\* then the new row and the incremented counter.  Where there are two, the
\* read raises: the request is refused as well.
TriggerPlaybook(r, p, a) ==
  /\ starts[r] = None
  /\ nextRun \in RunIds /\ now <= LastStart
  /\ ~playbooks[p].deleted /\ playbooks[p].active
  /\ ~AlreadyRunning(p, a)
  /\ starts' = [starts EXCEPT ![r] =
       [id |-> nextRun, times |-> playbooks[p].times + 1,
        row |-> [playbook |-> p, agent |-> a, status |-> "in_progress", step |-> First,
                 started |-> now, due |-> now + Delay[First], executed |-> 0]]]
  /\ nextRun' = nextRun + 1
  /\ overlap' = [overlap EXCEPT ![nextRun] = Uncommitted]
  /\ UNCHANGED <<dbVars, now, tasks, faults>>

CommitTrigger(r) ==
  /\ starts[r] # None
  /\ runs' = [runs EXCEPT ![starts[r].id] = starts[r].row]
  /\ playbooks' = [playbooks EXCEPT ![starts[r].row.playbook].times = starts[r].times]
  /\ starts' = [starts EXCEPT ![r] = None]
  /\ UNCHANGED <<trail, announced, nextRun, overlap, now, tasks, faults>>

\* Faulty variant: the counter is kept although the run is rolled back.
AbortTriggerCounting(r) ==
  /\ starts[r] # None
  /\ playbooks' = [playbooks EXCEPT ![starts[r].row.playbook].times = starts[r].times]
  /\ starts' = [starts EXCEPT ![r] = None]
  /\ UNCHANGED <<runs, trail, announced, nextRun, overlap, now, tasks, faults>>

AbortTrigger(r) ==
  /\ starts[r] # None
  /\ starts' = [starts EXCEPT ![r] = None]
  /\ UNCHANGED <<dbVars, nextRun, overlap, now, tasks, faults>>

\* The fields a PUT sets; the playbook's steps cannot be changed.
UpdatePlaybook(p, active, days) ==
  /\ ~playbooks[p].deleted
  /\ playbooks' = [playbooks EXCEPT ![p].active = active, ![p].maxDays = days]
  /\ UNCHANGED <<runs, trail, announced, nextRun, overlap, now, tasks, starts, faults>>

\* Soft delete: the runs go on.
DeletePlaybook(p) ==
  /\ ~playbooks[p].deleted
  /\ playbooks' = [playbooks EXCEPT ![p].deleted = TRUE]
  /\ UNCHANGED <<runs, trail, announced, nextRun, overlap, now, tasks, starts, faults>>
-----------------------------------------------------------------------------
(* execute_due_playbook_steps.                                             *)

Due == {i \in RunIds : InProgress(i) /\ runs[i].due <= now}

\* The poll names no order: any BatchLimit of the due runs.
FetchDue(w) ==
  /\ ~tasks[w].open
  /\ \E S \in SUBSET Due :
       /\ S # {}
       /\ Cardinality(S) = BatchLimit \/ (S = Due /\ Cardinality(Due) < BatchLimit)
       /\ tasks' = [tasks EXCEPT ![w] =
            [Idle EXCEPT !.open = TRUE, !.now = now, !.todo = S,
                         !.rows = [i \in RunIds |-> IF i \in S THEN runs[i] ELSE None],
                         !.days = [p \in Playbooks |-> playbooks[p].maxDays]]]
  /\ UNCHANGED <<dbVars, nextRun, overlap, now, starts, faults>>

\* A copy expired by a rollback is read again.
LoadedRun(t, i) == IF t.rows[i] = None THEN runs[i] ELSE t.rows[i]
MaxDuration(t, p) == IF t.days[p] = None THEN playbooks[p].maxDays ELSE t.days[p]

\* Faulty variant: the age of the step instead of the age of the run.
ExpiredStep(t, row) == t.now - row.due > MaxDuration(t, row.playbook)

Expired(t, row) == t.now - row.started > MaxDuration(t, row.playbook)

\* Faulty variant: the due date stays.
EndedKeepingDue(row, status) == [row EXCEPT !.status = status]

Ended(row, status) == [row EXCEPT !.status = status, !.due = None]

\* Faulty variant: the next due date without the next step.
AdvancedInPlace(t, row, to) ==
  LET done == [row EXCEPT !.executed = @ + 1] IN
  IF to \in Steps THEN [done EXCEPT !.due = t.now + Delay[to]]
  ELSE Ended(done, "completed")

\* The row after its current step executed and the rules named step `to`.
Advanced(t, row, to) ==
  LET done == [row EXCEPT !.executed = @ + 1] IN
  IF to \in Steps THEN [done EXCEPT !.step = to, !.due = t.now + Delay[to]]
  ELSE Ended(done, "completed")

\* Faulty variant: the step that closes the playbook is not counted.
OutcomesCloseUncounted(t, row) ==
  IF Expired(t, row) THEN {[row |-> Ended(row, "expired"), step |-> None]}
  ELSE IF row.step \notin Steps THEN {[row |-> Ended(row, "completed"), step |-> None]}
  ELSE {[row |-> Advanced(t, row, to), step |-> row.step] : to \in Follow[row.step]}
       \cup {[row |-> Ended(row, "completed"), step |-> row.step] : c \in {row.step} \cap Closing}

\* What one execution may make of a run: [row, step], with the step executed,
\* None if there was none.  Expiry is looked at first.
Outcomes(t, row) ==
  IF Expired(t, row) THEN {[row |-> Ended(row, "expired"), step |-> None]}
  ELSE IF row.step \notin Steps THEN {[row |-> Ended(row, "completed"), step |-> None]}
  ELSE {[row |-> Advanced(t, row, to), step |-> row.step] : to \in Follow[row.step]}
       \cup {[row |-> Ended([row EXCEPT !.executed = @ + 1], "completed"), step |-> row.step] :
               c \in {row.step} \cap Closing}

ExecuteRun(w) ==
  \E i \in tasks[w].todo :
    LET t == tasks[w]
        row == LoadedRun(t, i)
    IN \E o \in Outcomes(t, row) :
         /\ tasks' = [tasks EXCEPT
              ![w].todo = @ \ {i},
              ![w].rows[i] = row,
              ![w].days[row.playbook] = MaxDuration(t, row.playbook),
              ![w].moves[i] = [from |-> row, to |-> o.row, step |-> o.step]]
         /\ UNCHANGED <<dbVars, nextRun, overlap, now, starts, faults>>

\* An exception: everything the batch did so far is rolled back, the rest of
\* the list goes on.
ExecutionFails(w) ==
  /\ faults < MaxFaults
  /\ \E i \in tasks[w].todo :
       tasks' = [tasks EXCEPT ![w] = [Idle EXCEPT !.open = TRUE, !.now = tasks[w].now,
                                                  !.todo = tasks[w].todo \ {i}]]
  /\ faults' = faults + 1
  /\ UNCHANGED <<dbVars, nextRun, overlap, now, starts>>

\* UPDATE playbook_runs: only the columns that changed.
FlushedRun(m, i) ==
  [c \in DOMAIN m.to |-> IF m.to[c] # m.from[c] THEN m.to[c] ELSE runs[i][c]]

CommitBatch(w) ==
  LET moves == tasks[w].moves IN
  /\ tasks[w].open /\ tasks[w].todo = {}
  /\ runs' = [i \in RunIds |-> IF moves[i] = None THEN runs[i] ELSE FlushedRun(moves[i], i)]
  /\ trail' = [i \in RunIds |-> IF moves[i] = None \/ moves[i].step = None THEN trail[i]
                                ELSE Append(trail[i], moves[i].step)]
  /\ announced' = [i \in RunIds |->
       IF moves[i] # None /\ moves[i].to.status # "in_progress" THEN announced[i] + 1
       ELSE announced[i]]
  /\ tasks' = [tasks EXCEPT ![w] = Idle]
  /\ UNCHANGED <<playbooks, nextRun, overlap, now, starts, faults>>

\* The worker dies; the task is delivered again or beat starts the next one.
CrashTask(w) ==
  /\ tasks[w].open
  /\ faults < MaxFaults
  /\ tasks' = [tasks EXCEPT ![w] = Idle]
  /\ faults' = faults + 1
  /\ UNCHANGED <<dbVars, nextRun, overlap, now, starts>>

Tick ==
  /\ now < MaxDay
  /\ now' = now + 1
  /\ UNCHANGED <<dbVars, nextRun, overlap, tasks, starts, faults>>
-----------------------------------------------------------------------------
Next ==
  \/ \E r \in Requests, p \in Playbooks, a \in Agents : TriggerPlaybook(r, p, a)
  \/ \E r \in Requests : CommitTrigger(r) \/ AbortTrigger(r)
  \/ \E p \in Playbooks, active \in BOOLEAN, days \in Durations : UpdatePlaybook(p, active, days)
  \/ \E p \in Playbooks : DeletePlaybook(p)
  \/ \E w \in Workers :
       FetchDue(w) \/ ExecuteRun(w) \/ ExecutionFails(w) \/ CommitBatch(w) \/ CrashTask(w)
  \/ Tick

Spec == Init /\ [][Next]_vars

\* Days pass, beat starts the task every minute, a started task runs to its end.
Fairness ==
  /\ WF_vars(Tick)
  /\ \A w \in Workers :
       WF_vars(FetchDue(w)) /\ WF_vars(ExecuteRun(w)) /\ WF_vars(CommitBatch(w))

FairSpec == Spec /\ Fairness
-----------------------------------------------------------------------------
(* Properties.                                                             *)

RunRow ==
  [playbook : Playbooks, agent : Agents, status : Statuses, step : Nat,
   started : 0 .. MaxDay, due : Nat \cup {None}, executed : Nat]
PlaybookRow ==
  [active : BOOLEAN, deleted : BOOLEAN, maxDays : Durations, times : Nat]
Move == [from : RunRow, to : RunRow, step : Steps \cup {None}]
Task ==
  [open : BOOLEAN, now : 0 .. MaxDay, todo : SUBSET RunIds,
   rows : [RunIds -> RunRow \cup {None}], days : [Playbooks -> Durations \cup {None}],
   moves : [RunIds -> Move \cup {None}]]
Start == [id : RunIds, times : Nat, row : RunRow]

ASSUME NoneAssumption == None \notin Nat /\ None \notin RunRow \cup Move \cup Start

\* Every row, session and counter has the type of its columns.
TypeOK ==
  /\ playbooks \in [Playbooks -> PlaybookRow]
  /\ runs \in [RunIds -> RunRow \cup {None}]
  /\ trail \in [RunIds -> Seq(Steps)]
  /\ announced \in [RunIds -> Nat]
  /\ nextRun \in 1 .. MaxRuns + 1
  /\ overlap \in [RunIds -> SUBSET RunIds]
  /\ now \in 0 .. MaxDay
  /\ tasks \in [Workers -> Task]
  /\ starts \in [Requests -> Start \cup {None}]
  /\ faults \in 0 .. MaxFaults

\* The promise of a run, read off its row.
Phase == [i \in RunIds |-> IF runs[i] = None THEN "absent" ELSE IF InProgress(i) THEN "running" ELSE "ended"]
At == [i \in RunIds |-> IF InProgress(i) THEN runs[i].step ELSE 0]
Run == INSTANCE PlaybookRun WITH Runs <- RunIds, phase <- Phase, at <- At

\* With one polling task at a time, whatever is rolled back or crashes and
\* however playbooks are edited meanwhile, each commit moves a run by at most
\* one step, from the step it is at, and a run ends once.
RunPromise == Run!AbsSpec

\* steps_executed counts the playbook_step_runs rows of the run.
ExecutedCountsTrail ==
  \A i \in RunIds : runs[i] # None => runs[i].executed = Len(trail[i])

\* A run in progress has a due date and a step of its playbook, so the poll
\* finds it and has something to execute; an ended one is never due.
ActiveIsScheduled ==
  \A i \in RunIds : runs[i] # None =>
    IF InProgress(i) THEN runs[i].due # None /\ runs[i].step \in Steps ELSE runs[i].due = None

\* The requests of two runs overlapped: one had not committed when the other
\* looked for a run in progress and read the playbook's counter.
Overlapped(i, j) == i \in overlap[j] \/ j \in overlap[i]

\* Two runs of a playbook are in progress for one agent only if their requests
\* overlapped: trigger_playbook looks before it inserts, and nothing else
\* starts a run or revives an ended one.
OneActiveRun ==
  \A i, j \in RunIds :
    /\ i # j /\ InProgress(i) /\ InProgress(j)
    /\ runs[i].playbook = runs[j].playbook /\ runs[i].agent = runs[j].agent
    => Overlapped(i, j)

RunsOf(p) == {i \in RunIds : runs[i] # None /\ runs[i].playbook = p}

\* times_executed never exceeds the number of runs of the playbook, and falls
\* short of it only if the requests of two of these runs overlapped: the
\* counter is incremented in the copy each request read.
TimesExecutedCounts ==
  \A p \in Playbooks :
    /\ playbooks[p].times <= Cardinality(RunsOf(p))
    /\ playbooks[p].times < Cardinality(RunsOf(p)) =>
         \E i, j \in RunsOf(p) : i # j /\ Overlapped(i, j)

\* Every run ends, even one whose rules lead back to an earlier step for ever,
\* as max_duration_days passes.
RunsEnd == \A i \in RunIds : InProgress(i) ~> (runs[i] # None /\ ~InProgress(i))
=============================================================================
