---------------------------- MODULE PeriodicReports ----------------------------
(***************************************************************************)
(* The stored reports: morning briefings and weekly summaries of managers, *)
(* weekly and monthly analytics of tenants.  Celery beat starts a task per *)
(* kind; a task writes the rows of all owners in one transaction.  A       *)
(* request of a manager for a briefing or a summary writes the same row.   *)
(* All rows are plain inserts under unique indexes.                        *)
(*                                                                         *)
(* A row is [table, owner, date]; dates are days since a Monday.  A day    *)
(* ends when its tasks have.  What is in a row is module ReportFigures.    *)
(***************************************************************************)
EXTENDS Integers, Sequences

CONSTANTS
  Managers, Tenants,   \* sequences: the order in which the queries return them
  Days,                \* the dates looked at, in order
  Firsts,              \* the dates that are the first of a month
  MaxFaults, MaxRequests,   \* bounds
  None

Follows(d, f) == f < d /\ \A g \in Firsts : g < d => g <= f   \* f is the last first before d

ASSUME ReportsAssumption ==
  /\ Managers \in Seq({Managers[i] : i \in DOMAIN Managers})
  /\ Tenants \in Seq({Tenants[i] : i \in DOMAIN Tenants})
  /\ Days \in Seq(Int) /\ Days # <<>> /\ \A i \in 2..Len(Days) : Days[i - 1] < Days[i]
  /\ Firsts \subseteq Int
  /\ \A i \in DOMAIN Days : Days[i] \in Firsts => \E f \in Firsts : Follows(Days[i], f)
  /\ {MaxFaults, MaxRequests} \subseteq Nat

VARIABLES
  today,     \* index into Days
  due,       \* the tasks of the day that have not run
  run,       \* the task under way, or None
  asked,     \* per manager, the row its open request has inserted, or None
  stored,    \* committed rows
  ended,     \* history: the runs that returned, [task, day, generated, errors]
  lost,      \* history: the runs whose commit raised, [task, day]
  requests, faults

vars == <<today, due, run, asked, stored, ended, lost, requests, faults>>

Day == Days[today]
Tasks == {"morning", "weekly", "aggregation", "monthly"}
Row(table, owner, date) == [table |-> table, owner |-> owner, date |-> date]
Members(s) == {s[i] : i \in DOMAIN s}
-----------------------------------------------------------------------------
Monday(d) == d % 7 = 0
LastWeek(d) == d - (d % 7) - 7
LastMonth(d) == CHOOSE f \in Firsts : Follows(d, f)

\* beat_schedule, in the order of the hours.
Due(d) ==
  <<"morning">> \o (IF Monday(d) THEN <<"weekly", "aggregation">> ELSE <<>>)
                \o (IF d \in Firsts THEN <<"monthly">> ELSE <<>>)

Owners(task) == IF task \in {"morning", "weekly"} THEN Managers ELSE Tenants

\* The rows a task adds for an owner, in order.  The first is the one it looks for.
Rows(task, o, d) ==
  CASE task = "morning" -> <<Row("briefing", o, d)>>
    [] task = "weekly" -> <<Row("summary", o, LastWeek(d))>>
    [] task = "aggregation" -> <<Row("funnel", o, d - 7), Row("dormancy", o, d)>>
    [] task = "monthly" -> <<Row("snapshot", o, d), Row("funnel", o, LastMonth(d)), Row("dormancy", o, d)>>

\* How many of them can have been added when their computation raises: the percentage of a
\* training signal that is no number may pass the snapshot and stop the funnel.
AddedBeforeError(task) == IF task = "monthly" THEN {0, 1} ELSE {0}

Started(task) ==
  [task |-> task, todo |-> Owners(task), adding |-> <<>>, added |-> {}, dead |-> FALSE,
   generated |-> {}, errors |-> {}]

AllOwners == Members(Managers) \cup Members(Tenants)
RowSet ==
  [table : {"briefing", "summary", "funnel", "dormancy", "snapshot"}, owner : AllOwners, date : Int]
Run ==
  [task : Tasks, todo : Seq(AllOwners), adding : Seq(RowSet), added : SUBSET RowSet, dead : BOOLEAN,
   generated : SUBSET AllOwners, errors : SUBSET AllOwners]

ASSUME NoneAssumption == None \notin Run

Init ==
  /\ today = 1 /\ due = Due(Days[1]) /\ run = None
  /\ asked = [m \in Members(Managers) |-> None]
  /\ stored = {} /\ ended = {} /\ lost = {} /\ requests = 0 /\ faults = 0
-----------------------------------------------------------------------------
StartTask ==
  /\ run = None /\ due # <<>>
  /\ run' = Started(Head(due)) /\ due' = Tail(due)
  /\ UNCHANGED <<today, asked, stored, ended, lost, requests, faults>>

Step(r) == run' = r /\ UNCHANGED <<today, due, asked, stored, ended, lost, requests>>
Failed(r, o) == [r EXCEPT !.todo = Tail(@), !.errors = @ \cup {o}]

\* Faulty variant: the row is not looked for.
NextOwnerUnchecked ==
  /\ run # None /\ run.adding = <<>> /\ run.todo # <<>> /\ UNCHANGED faults
  /\ LET o == Head(run.todo)
     IN  IF run.dead THEN Step(Failed(run, o))
         ELSE Step([run EXCEPT !.todo = Tail(@), !.adding = Rows(run.task, o, Day),
                               !.generated = @ \cup {o}])

\* The loop's body: an owner whose row exists is skipped; a session that broke fails here.
NextOwner ==
  /\ run # None /\ run.adding = <<>> /\ run.todo # <<>> /\ UNCHANGED faults
  /\ LET o == Head(run.todo)
         rows == Rows(run.task, o, Day)
     IN  IF run.dead THEN Step(Failed(run, o))
         ELSE IF rows[1] \in stored \cup run.added THEN Step([run EXCEPT !.todo = Tail(@)])
         ELSE Step([run EXCEPT !.todo = Tail(@), !.adding = rows, !.generated = @ \cup {o}])

\* The computation of an owner's rows raises: the rows added before stay in the session.
OwnerFails ==
  /\ run # None /\ run.adding = <<>> /\ run.todo # <<>> /\ ~run.dead
  /\ faults < MaxFaults /\ faults' = faults + 1
  /\ LET o == Head(run.todo)
         rows == Rows(run.task, o, Day)
     IN  /\ rows[1] \notin stored \cup run.added
         /\ \E n \in AddedBeforeError(run.task) :
              Step([Failed(run, o) EXCEPT !.adding = SubSeq(rows, 1, n)])

\* Faulty variant: the failed rows are rolled back and the loop goes on.
BrokenGoingOn(r) == [r EXCEPT !.adding = <<>>, !.added = {}]
\* A failed insert undoes the transaction; the session is not used again.
Broken(r) == [r EXCEPT !.adding = <<>>, !.added = {}, !.dead = TRUE]

\* An added row reaches the database with the next query or the commit; it waits for a request
\* that has inserted the same row.
FlushRow ==
  /\ run # None /\ run.adding # <<>> /\ UNCHANGED faults
  /\ LET row == Head(run.adding)
     IN  /\ \A m \in DOMAIN asked : asked[m] # row
         /\ IF row \in stored THEN Step(Broken(run))
            ELSE Step([run EXCEPT !.adding = Tail(@), !.added = @ \cup {row}])

\* The commit: it raises in a session that broke, and the task is not tried again.
EndTask ==
  /\ run # None /\ run.adding = <<>> /\ run.todo = <<>> /\ run' = None
  /\ IF run.dead
     THEN lost' = lost \cup {[task |-> run.task, day |-> Day]} /\ UNCHANGED <<stored, ended>>
     ELSE /\ stored' = stored \cup run.added
          /\ ended' = ended \cup {[task |-> run.task, day |-> Day, generated |-> run.generated,
                                   errors |-> run.errors]}
          /\ UNCHANGED lost
  /\ UNCHANGED <<today, due, asked, requests, faults>>

\* acks_late: a task whose worker died, before or after the commit, is delivered again that day.
Redelivered ==
  /\ faults < MaxFaults /\ faults' = faults + 1
  /\ \/ run # None /\ run' = Started(run.task)
     \/ run = None /\ \E e \in ended : e.day = Day /\ run' = Started(e.task)
  /\ UNCHANGED <<today, due, asked, stored, ended, lost, requests>>

\* GET /adm/briefing and /adm/briefing/weekly insert without looking; a row that is stored, or
\* is stored while they wait for the task, makes the request fail, which changes nothing.
Ask(m) ==
  /\ asked[m] = None /\ requests < MaxRequests /\ requests' = requests + 1
  /\ \E row \in {Row("briefing", m, Day), Row("summary", m, LastWeek(Day))} :
       /\ row \notin stored /\ (run # None => row \notin run.added)
       /\ asked' = [asked EXCEPT ![m] = row]
  /\ UNCHANGED <<today, due, run, stored, ended, lost, faults>>

\* The request commits, or fails and takes its row back.
Answer(m) ==
  /\ asked[m] # None /\ asked' = [asked EXCEPT ![m] = None]
  /\ stored' \in {stored, stored \cup {asked[m]}}
  /\ UNCHANGED <<today, due, run, ended, lost, requests, faults>>

NextDay ==
  /\ run = None /\ due = <<>> /\ today < Len(Days) /\ \A m \in DOMAIN asked : asked[m] = None
  /\ today' = today + 1 /\ due' = Due(Days[today + 1])
  /\ UNCHANGED <<run, asked, stored, ended, lost, requests, faults>>

Next ==
  \/ StartTask \/ NextOwner \/ OwnerFails \/ FlushRow \/ EndTask \/ Redelivered \/ NextDay
  \/ \E m \in DOMAIN asked : Ask(m) \/ Answer(m)
Spec == Init /\ [][Next]_vars
-----------------------------------------------------------------------------
\* A run that returned tells the truth: an owner it counts as generated has all the rows, and
\* one that is neither counted nor an error had the row before (generate_morning_briefings,
\* generate_weekly_summaries, weekly_aggregation, monthly_reports).
ReturnedIsStored ==
  \A e \in ended :
    /\ \A o \in e.generated : Members(Rows(e.task, o, e.day)) \subseteq stored
    /\ \A o \in Members(Owners(e.task)) \ e.errors : Rows(e.task, o, e.day)[1] \in stored

\* The run of a task had its rows taken from under its check: those of the morning and the
\* weekly summary by a request, those of the weekly aggregation by the monthly reports of the
\* day, and those of the monthly reports by a weekly aggregation, when this or the preceding
\* first of a month is a Monday.
Taken(task, d) ==
  \/ task \in {"morning", "weekly"} /\ requests > 0
  \/ task = "aggregation" /\ \E e \in ended : e.task = "monthly" /\ e.day = d
  \/ task = "monthly" /\ (Monday(d) \/ Monday(LastMonth(d)))

\* A task loses the rows of all owners only if some of them were stored behind its check, with
\* tasks that fail for some owners and tasks delivered twice.
LostOnlyIfTaken == \A l \in lost : Taken(l.task, l.day)

\* "Generate monthly analytics reports for all tenants.  Runs on 1st of each month"
\* (monthly_reports): when nothing fails, the run of a first leaves every tenant a snapshot.
MonthlyForAll ==
  faults = 0 /\ run = None /\ due = <<>> /\ Day \in Firsts =>
    \A t \in Members(Tenants) : Row("snapshot", t, Day) \in stored
=============================================================================
