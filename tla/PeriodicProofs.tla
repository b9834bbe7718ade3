---------------------------- MODULE PeriodicProofs ----------------------------
(***************************************************************************)
(* Proofs about PeriodicReports, for any managers, tenants and calendar,   *)
(* and any number of failures, deliveries and requests.                    *)
(***************************************************************************)
EXTENDS PeriodicReports, SequenceTheorems, TLAPS

-----------------------------------------------------------------------------
(* Sequences.                                                              *)

LEMMA MembersType ==
  ASSUME NEW S, NEW s \in Seq(S)
  PROVE  Members(s) \subseteq S
BY LenProperties, ElementOfSeq DEF Members

LEMMA MembersTail ==
  ASSUME NEW S, NEW s \in Seq(S), s # <<>>
  PROVE  /\ Head(s) \in S /\ Tail(s) \in Seq(S)
         /\ Members(s) = {Head(s)} \cup Members(Tail(s))
<1>1. /\ Len(s) \in Nat \ {0} /\ DOMAIN s = 1 .. Len(s) /\ Head(s) = s[1]
      /\ Tail(s) \in Seq(S) /\ DOMAIN Tail(s) = 1 .. Len(s) - 1
      /\ \A i \in 1 .. Len(s) - 1 : Tail(s)[i] = s[i + 1]
  BY HeadTailProperties, LenProperties, EmptySeq
<1>2. Head(s) \in S
  BY <1>1, ElementOfSeq
<1>3. \A i \in 1 .. Len(s) : i = 1 \/ i - 1 \in 1 .. Len(s) - 1
  BY <1>1
<1>4. ASSUME NEW i \in 1 .. Len(s) PROVE s[i] \in {Head(s)} \cup Members(Tail(s))
  <2>1. CASE i = 1
    BY <1>1, <2>1
  <2>2. CASE i - 1 \in 1 .. Len(s) - 1
    <3>1. Tail(s)[i - 1] = s[i]
      <4>1. Tail(s)[i - 1] = s[(i - 1) + 1] /\ (i - 1) + 1 = i
        BY <1>1, <2>2
      <4>2. QED
        BY <4>1
    <3>2. QED
      BY <1>1, <2>2, <3>1 DEF Members
  <2>3. QED
    BY <1>3, <2>1, <2>2
<1>5. ASSUME NEW i \in 1 .. Len(s) - 1 PROVE Tail(s)[i] \in Members(s)
  <2>1. i + 1 \in 1 .. Len(s)
    BY <1>1
  <2>2. QED
    BY <1>1, <2>1 DEF Members
<1>6. s[1] \in Members(s)
  BY <1>1 DEF Members
<1>7. QED
  BY <1>1, <1>2, <1>4, <1>5, <1>6 DEF Members

LEMMA OwnersType ==
  /\ Managers \in Seq(AllOwners) /\ Tenants \in Seq(AllOwners)
  /\ \A task : Owners(task) \in Seq(AllOwners)
<1>1. \A S, T : S \subseteq T => Seq(S) \subseteq Seq(T)
  OBVIOUS
<1>2. Managers \in Seq(AllOwners)
  BY <1>1, ReportsAssumption DEF AllOwners, Members
<1>3. Tenants \in Seq(AllOwners)
  BY <1>1, ReportsAssumption DEF AllOwners, Members
<1>4. QED
  BY <1>2, <1>3 DEF Owners

-----------------------------------------------------------------------------
(* The calendar and the rows of the tasks.                                 *)

\* A first of a month that is looked at has one before it, its own.
LEMMA LastMonthType ==
  ASSUME NEW i \in DOMAIN Days, Days[i] \in Firsts
  PROVE  LastMonth(Days[i]) \in Firsts /\ Follows(Days[i], LastMonth(Days[i]))
BY ReportsAssumption DEF LastMonth

LEMMA LastMonthsDiffer ==
  ASSUME NEW i \in DOMAIN Days, NEW j \in DOMAIN Days, Days[i] \in Firsts, Days[j] \in Firsts,
         LastMonth(Days[i]) = LastMonth(Days[j])
  PROVE  Days[i] = Days[j]
<1>1. Days[i] \in Int /\ Days[j] \in Int /\ LastMonth(Days[i]) \in Int
  BY LastMonthType, ReportsAssumption
<1>2. Follows(Days[i], LastMonth(Days[i])) /\ Follows(Days[j], LastMonth(Days[i]))
  BY LastMonthType
<1>3. ~(Days[i] < Days[j]) /\ ~(Days[j] < Days[i])
  BY <1>1, <1>2 DEF Follows
<1>4. QED
  BY <1>1, <1>3

LEMMA MembersConcat ==
  ASSUME NEW S, NEW s \in Seq(S), NEW t \in Seq(S)
  PROVE  s \o t \in Seq(S) /\ Members(s \o t) \subseteq Members(s) \cup Members(t)
<1> DEFINE u == s \o t
<1>1. /\ u \in Seq(S) /\ Len(u) = Len(s) + Len(t)
      /\ \A i \in 1 .. Len(s) + Len(t) : u[i] = IF i <= Len(s) THEN s[i] ELSE t[i - Len(s)]
  BY ConcatProperties
<1> HIDE DEF u
<1>2. /\ Len(s) \in Nat /\ Len(t) \in Nat /\ DOMAIN u = 1 .. Len(s) + Len(t)
      /\ DOMAIN s = 1 .. Len(s) /\ DOMAIN t = 1 .. Len(t)
  BY <1>1, LenProperties
<1>3. ASSUME NEW i \in DOMAIN u PROVE u[i] \in Members(s) \cup Members(t)
  <2>1. CASE i <= Len(s)
    BY <1>1, <1>2, <2>1 DEF Members
  <2>2. CASE ~(i <= Len(s))
    <3>1. i - Len(s) \in DOMAIN t /\ u[i] = t[i - Len(s)]
      BY <1>1, <1>2, <2>2
    <3>2. QED
      BY <3>1 DEF Members
  <2>3. QED
    BY <2>1, <2>2
<1>4. QED
  BY <1>1, <1>3 DEF Members, u

LEMMA DuePlan ==
  ASSUME NEW d
  PROVE  /\ Due(d) \in Seq(Tasks)
         /\ "aggregation" \in Members(Due(d)) => Monday(d)
         /\ "monthly" \in Members(Due(d)) => d \in Firsts
<1> DEFINE morning == <<"morning">>
           week == IF Monday(d) THEN <<"weekly", "aggregation">> ELSE <<>>
           month == IF d \in Firsts THEN <<"monthly">> ELSE <<>>
<1>1. morning \in Seq(Tasks) /\ week \in Seq(Tasks) /\ month \in Seq(Tasks)
  <2>1. <<"weekly", "aggregation">> \in Seq(Tasks) /\ morning \in Seq(Tasks)
    BY DEF Tasks
  <2>2. <<"monthly">> \in Seq(Tasks) /\ <<>> \in Seq(Tasks)
    BY DEF Tasks
  <2>3. QED
    BY <2>1, <2>2
<1>2. /\ Members(morning) = {"morning"}
      /\ Members(week) \subseteq {"weekly", "aggregation"} /\ (~Monday(d) => Members(week) = {})
      /\ Members(month) \subseteq {"monthly"} /\ (d \notin Firsts => Members(month) = {})
  <2>1. \A a, b : Members(<<a>>) = {a} /\ Members(<<a, b>>) = {a, b}
    BY DEF Members
  <2>2. Members(<<>>) = {}
    BY DEF Members
  <2>3. QED
    BY <2>1, <2>2
<1>3. Due(d) = morning \o week \o month
  BY DEF Due
<1> HIDE DEF morning, week, month
<1>4. morning \o week \in Seq(Tasks)
      /\ Members(morning \o week) \subseteq Members(morning) \cup Members(week)
  BY <1>1, MembersConcat
<1>5. Due(d) \in Seq(Tasks)
      /\ Members(Due(d)) \subseteq Members(morning \o week) \cup Members(month)
  BY <1>1, <1>3, <1>4, MembersConcat
<1>6. QED
  BY <1>2, <1>4, <1>5

\* The rows of an owner, the first and all.
LEMMA RowsOf ==
  ASSUME NEW o, NEW d
  PROVE  /\ Rows("morning", o, d)[1] = Row("briefing", o, d)
         /\ Members(Rows("morning", o, d)) = {Row("briefing", o, d)}
         /\ Rows("weekly", o, d)[1] = Row("summary", o, LastWeek(d))
         /\ Members(Rows("weekly", o, d)) = {Row("summary", o, LastWeek(d))}
         /\ Rows("aggregation", o, d)[1] = Row("funnel", o, d - 7)
         /\ Members(Rows("aggregation", o, d)) = {Row("funnel", o, d - 7), Row("dormancy", o, d)}
         /\ Rows("monthly", o, d)[1] = Row("snapshot", o, d)
         /\ Members(Rows("monthly", o, d)) =
              {Row("snapshot", o, d), Row("funnel", o, LastMonth(d)), Row("dormancy", o, d)}
<1>1. \A a, b, c : /\ Members(<<a>>) = {a} /\ <<a>>[1] = a
                   /\ Members(<<a, b>>) = {a, b} /\ <<a, b>>[1] = a
                   /\ Members(<<a, b, c>>) = {a, b, c} /\ <<a, b, c>>[1] = a
  BY DEF Members
<1>2. /\ Rows("morning", o, d) = <<Row("briefing", o, d)>>
      /\ Rows("weekly", o, d) = <<Row("summary", o, LastWeek(d))>>
      /\ Rows("aggregation", o, d) = <<Row("funnel", o, d - 7), Row("dormancy", o, d)>>
      /\ Rows("monthly", o, d) =
           <<Row("snapshot", o, d), Row("funnel", o, LastMonth(d)), Row("dormancy", o, d)>>
  BY DEF Rows
<1>3. QED
  BY <1>1, <1>2

LEMMA RowsType ==
  ASSUME NEW task \in Tasks, NEW o \in AllOwners, NEW i \in DOMAIN Days,
         task = "monthly" => Days[i] \in Firsts
  PROVE  LET rows == Rows(task, o, Days[i]) IN
         /\ rows \in Seq(RowSet) /\ rows # <<>> /\ rows[1] \in Members(rows)
         /\ \A n \in AddedBeforeError(task) :
              SubSeq(rows, 1, n) \in Seq(RowSet) /\ Members(SubSeq(rows, 1, n)) \subseteq {rows[1]}
<1> DEFINE d == Days[i]
           rows == Rows(task, o, d)
<1>1. d \in Int /\ d - 7 \in Int /\ LastWeek(d) \in Int
  BY ReportsAssumption DEF LastWeek
<1>2. task = "monthly" => LastMonth(d) \in Int
  BY LastMonthType, ReportsAssumption
<1>3. \A date \in Int : \A table \in {"briefing", "summary", "funnel", "dormancy", "snapshot"} :
        Row(table, o, date) \in RowSet
  BY DEF Row, RowSet
<1> HIDE DEF d
<1>4. rows \in Seq(RowSet) /\ rows # <<>>
  <2>1. CASE task = "morning"
    BY <1>1, <1>3, <2>1 DEF Rows
  <2>2. CASE task = "weekly"
    BY <1>1, <1>3, <2>2 DEF Rows
  <2>3. CASE task = "aggregation"
    BY <1>1, <1>3, <2>3 DEF Rows
  <2>4. CASE task = "monthly"
    BY <1>1, <1>2, <1>3, <2>4 DEF Rows
  <2>5. QED
    BY <2>1, <2>2, <2>3, <2>4 DEF Tasks
<1> HIDE DEF rows
<1>5. Len(rows) \in Nat \ {0} /\ DOMAIN rows = 1 .. Len(rows)
  BY <1>4, LenProperties, EmptySeq
<1>6. rows[1] \in Members(rows)
  BY <1>5 DEF Members
<1>7. ASSUME NEW n \in {0, 1}
      PROVE  SubSeq(rows, 1, n) \in Seq(RowSet) /\ Members(SubSeq(rows, 1, n)) \subseteq {rows[1]}
  <2>1. SubSeq(rows, 1, n) \in Seq(RowSet) /\ Len(SubSeq(rows, 1, n)) = n
        /\ \A k \in 1 .. n : SubSeq(rows, 1, n)[k] = rows[k]
    BY <1>4, <1>5
  <2>2. DOMAIN SubSeq(rows, 1, n) = 1 .. n /\ \A k \in 1 .. n : k = 1
    BY <2>1, LenProperties
  <2>3. QED
    BY <2>1, <2>2 DEF Members
<1>8. AddedBeforeError(task) \subseteq {0, 1}
  BY DEF AddedBeforeError
<1>9. QED
  BY <1>4, <1>6, <1>7, <1>8 DEF rows, d
-----------------------------------------------------------------------------
(* Types, and the steps of a run by what they change.                      *)

TypeInv ==
  /\ today \in DOMAIN Days
  /\ due \in Seq(Tasks) /\ Members(due) \subseteq Members(Due(Day))
  /\ run = None \/ (run \in Run /\ run.task \in Members(Due(Day)))
  /\ \A e \in ended : e.task \in Tasks
  /\ requests \in Nat

\* The run takes the next owner, o, from its list.
Takes(o) ==
  /\ run.adding = <<>> /\ Members(run.todo) \subseteq {o} \cup Members(run'.todo)
  /\ run'.dead = run.dead /\ run'.added = run.added

\* It counts o as an error; it may have added the first of the rows.
Errs(o) ==
  /\ Takes(o)
  /\ run'.errors = run.errors \cup {o} /\ run'.generated = run.generated
  /\ \/ Members(run'.adding) = {}
     \/ ~run.dead /\ LET first == Rows(run.task, o, Day)[1]
                     IN  Members(run'.adding) \subseteq {first} /\ first \notin stored \cup run.added

\* It finds the first row of o.
Skips(o) ==
  /\ Takes(o)
  /\ run'.errors = run.errors /\ run'.generated = run.generated
  /\ Members(run'.adding) = {} /\ Rows(run.task, o, Day)[1] \in stored \cup run.added

\* It adds the rows of o.
Adds(o) ==
  /\ Takes(o)
  /\ run'.errors = run.errors /\ run'.generated = run.generated \cup {o} /\ ~run.dead
  /\ Members(run'.adding) = Members(Rows(run.task, o, Day))
  /\ Rows(run.task, o, Day)[1] \notin stored \cup run.added

\* A row it added is inserted, or takes the session with it.
Counts == <<run.todo, run.generated, run.errors>>
Inserts(row) ==
  /\ UNCHANGED Counts /\ run'.dead = run.dead
  /\ row \notin stored /\ run'.added = run.added \cup {row}
  /\ Members(run.adding) = {row} \cup Members(run'.adding)
Breaks(row) ==
  /\ UNCHANGED Counts /\ run'.dead /\ run'.added = {} /\ Members(run'.adding) = {}
  /\ row \in Members(run.adding) /\ row \in stored

Owner(o) == Errs(o) \/ Skips(o) \/ Adds(o)

\* What the run has written, or will with its next queries.
Pending == run.added \cup Members(run.adding)

LEMMA MembersEmpty == Members(<<>>) = {}
BY DEF Members

LEMMA RunMoves ==
  ASSUME TypeInv, NextOwner \/ OwnerFails \/ FlushRow
  PROVE  /\ run # None /\ run \in Run /\ run' \in Run /\ run' # None /\ run'.task = run.task
         /\ UNCHANGED <<today, due, asked, stored, ended, lost, requests>>
         /\ (\E o \in AllOwners : Owner(o)) \/ (\E row \in RowSet : Inserts(row) \/ Breaks(row))
<1>1. run # None /\ run \in Run /\ run.task \in Members(Due(Day)) /\ run.task \in Tasks
  BY DEF TypeInv, NextOwner, OwnerFails, FlushRow, Run
<1>2. UNCHANGED <<today, due, asked, stored, ended, lost, requests>>
  BY DEF NextOwner, OwnerFails, FlushRow, Step
<1> DEFINE Goal == /\ run' \in Run /\ run'.task = run.task
                   /\ \/ \E o \in AllOwners : Owner(o)
                      \/ \E row \in RowSet : Inserts(row) \/ Breaks(row)
<1>3. /\ run.todo \in Seq(AllOwners) /\ run.adding \in Seq(RowSet) /\ run.added \subseteq RowSet
      /\ run.dead \in BOOLEAN /\ run.generated \subseteq AllOwners /\ run.errors \subseteq AllOwners
  BY <1>1 DEF Run
<1>4. <<>> \in Seq(RowSet) /\ Members(<<>>) = {}
  BY MembersEmpty, EmptySeq
<1>5. ASSUME NextOwner \/ OwnerFails PROVE Goal
  <2> DEFINE o == Head(run.todo)
             rows == Rows(run.task, o, Day)
             failed == [run EXCEPT !.todo = Tail(@), !.errors = @ \cup {o}]
  <2>1. run.todo # <<>> /\ run.adding = <<>>
    BY <1>5 DEF NextOwner, OwnerFails
  <2>2. /\ o \in AllOwners /\ Tail(run.todo) \in Seq(AllOwners)
        /\ Members(run.todo) = {o} \cup Members(Tail(run.todo))
    BY <1>3, <2>1, MembersTail
  <2>3. rows \in Seq(RowSet)
        /\ \A n \in AddedBeforeError(run.task) :
             SubSeq(rows, 1, n) \in Seq(RowSet) /\ Members(SubSeq(rows, 1, n)) \subseteq {rows[1]}
    BY <1>1, <2>2, RowsType, DuePlan DEF TypeInv, Day
  <2> DEFINE Dead == run.dead /\ run' = failed
             Found == /\ ~run.dead /\ rows[1] \in stored \cup run.added
                      /\ run' = [run EXCEPT !.todo = Tail(@)]
             New == /\ ~run.dead /\ rows[1] \notin stored \cup run.added
                    /\ run' = [run EXCEPT !.todo = Tail(@), !.adding = rows,
                                          !.generated = @ \cup {o}]
             Raises == /\ ~run.dead /\ rows[1] \notin stored \cup run.added
                       /\ \E n \in AddedBeforeError(run.task) :
                            run' = [failed EXCEPT !.adding = SubSeq(rows, 1, n)]
  <2>4. Dead \/ Found \/ New \/ Raises
    <3>1. ASSUME NextOwner PROVE Dead \/ Found \/ New
      BY <3>1 DEF NextOwner, Step, Failed
    <3>2. ASSUME OwnerFails PROVE Raises
      BY <3>2 DEF OwnerFails, Step, Failed
    <3>3. QED
      BY <1>5, <3>1, <3>2
  <2> HIDE DEF o, rows
  <2>5. CASE Dead
    <3>1. /\ run' \in Run /\ run'.task = run.task /\ run'.todo = Tail(run.todo)
          /\ run'.dead = run.dead /\ run'.added = run.added /\ run'.adding = run.adding
          /\ run'.errors = run.errors \cup {o} /\ run'.generated = run.generated
      BY <1>1, <1>3, <2>2, <2>5 DEF Run
    <3>2. QED
      BY <1>4, <2>1, <2>2, <3>1 DEF Owner, Errs, Takes
  <2>6. CASE Found
    <3>1. /\ run' \in Run /\ run'.task = run.task /\ run'.todo = Tail(run.todo)
          /\ run'.dead = run.dead /\ run'.added = run.added /\ run'.adding = run.adding
          /\ run'.errors = run.errors /\ run'.generated = run.generated
      BY <1>1, <1>3, <2>2, <2>6 DEF Run
    <3>2. QED
      BY <1>4, <2>1, <2>2, <2>6, <3>1 DEF Owner, Skips, Takes, rows
  <2>7. CASE New
    <3>1. /\ run' \in Run /\ run'.task = run.task /\ run'.todo = Tail(run.todo)
          /\ run'.dead = run.dead /\ run'.added = run.added /\ run'.adding = rows
          /\ run'.errors = run.errors /\ run'.generated = run.generated \cup {o}
      BY <1>1, <1>3, <2>2, <2>3, <2>7 DEF Run
    <3>2. QED
      BY <2>1, <2>2, <2>7, <3>1 DEF Owner, Adds, Takes, rows
  <2>8. CASE Raises
    <3>1. PICK n \in AddedBeforeError(run.task) : run' = [failed EXCEPT !.adding = SubSeq(rows, 1, n)]
      BY <2>8
    <3>2. /\ run' \in Run /\ run'.task = run.task /\ run'.todo = Tail(run.todo)
          /\ run'.dead = run.dead /\ run'.added = run.added /\ run'.adding = SubSeq(rows, 1, n)
          /\ run'.errors = run.errors \cup {o} /\ run'.generated = run.generated
      <4>1. /\ failed \in Run /\ failed.task = run.task /\ failed.todo = Tail(run.todo)
            /\ failed.dead = run.dead /\ failed.added = run.added
            /\ failed.errors = run.errors \cup {o} /\ failed.generated = run.generated
        BY <1>1, <1>3, <2>2 DEF Run
      <4>2. SubSeq(rows, 1, n) \in Seq(RowSet)
        BY <2>3
      <4> HIDE DEF failed
      <4>3. QED
        BY <3>1, <4>1, <4>2 DEF Run
    <3>3. Members(run'.adding) \subseteq {rows[1]}
      BY <2>3, <3>2
    <3>4. QED
      BY <2>1, <2>2, <2>8, <3>2, <3>3 DEF Owner, Errs, Takes, rows
  <2> HIDE DEF Dead, Found, New, Raises
  <2>9. QED
    BY <2>4, <2>5, <2>6, <2>7, <2>8
<1>6. ASSUME FlushRow PROVE Goal
  <2> DEFINE row == Head(run.adding)
  <2>1. run.adding # <<>>
    BY <1>6 DEF FlushRow
  <2>2. /\ row \in RowSet /\ Tail(run.adding) \in Seq(RowSet)
        /\ Members(run.adding) = {row} \cup Members(Tail(run.adding))
    BY <1>3, <2>1, MembersTail
  <2>3. \/ row \in stored /\ run' = [run EXCEPT !.adding = <<>>, !.added = {}, !.dead = TRUE]
        \/ row \notin stored /\ run' = [run EXCEPT !.adding = Tail(@), !.added = @ \cup {row}]
    BY <1>6 DEF FlushRow, Step, Broken
  <2> HIDE DEF row
  <2>4. CASE row \in stored /\ run' = [run EXCEPT !.adding = <<>>, !.added = {}, !.dead = TRUE]
    <3>1. /\ run' \in Run /\ run'.task = run.task /\ run'.todo = run.todo
          /\ run'.dead /\ run'.added = {} /\ run'.adding = <<>>
          /\ run'.errors = run.errors /\ run'.generated = run.generated
      BY <1>1, <1>3, <1>4, <2>4 DEF Run
    <3>2. QED
      BY <1>4, <2>2, <2>4, <3>1 DEF Breaks, Counts
  <2>5. CASE row \notin stored /\ run' = [run EXCEPT !.adding = Tail(@), !.added = @ \cup {row}]
    <3>1. /\ run' \in Run /\ run'.task = run.task /\ run'.todo = run.todo
          /\ run'.dead = run.dead /\ run'.added = run.added \cup {row} /\ run'.adding = Tail(run.adding)
          /\ run'.errors = run.errors /\ run'.generated = run.generated
      BY <1>1, <1>3, <2>2, <2>5 DEF Run
    <3>2. QED
      BY <2>2, <2>5, <3>1 DEF Inserts, Counts
  <2>6. QED
    BY <2>3, <2>4, <2>5
<1>7. Goal
  BY <1>5, <1>6
<1>8. QED
  BY <1>1, <1>2, <1>7, NoneAssumption

LEMMA StartedRun ==
  ASSUME NEW task \in Tasks
  PROVE  LET r == Started(task) IN
         /\ r \in Run /\ r # None /\ r.task = task /\ r.todo = Owners(task) /\ r.added = {}
         /\ Members(r.adding) = {} /\ ~r.dead /\ r.generated = {} /\ r.errors = {}
<1>1. Owners(task) \in Seq(AllOwners) /\ <<>> \in Seq(RowSet)
  BY OwnersType, EmptySeq
<1> DEFINE r == Started(task)
<1>2. /\ r \in Run /\ r.task = task /\ r.todo = Owners(task) /\ r.added = {} /\ r.adding = <<>>
      /\ ~r.dead /\ r.generated = {} /\ r.errors = {}
  BY <1>1 DEF Started, Run
<1> HIDE DEF r
<1>3. QED
  BY <1>2, NoneAssumption, MembersEmpty DEF r

\* Every other step starts a run, ends one, or leaves it alone.
Starts(task) ==
  run' = Started(task) /\ UNCHANGED <<today, asked, stored, ended, lost, requests>>

LEMMA StartMoves ==
  ASSUME TypeInv, StartTask
  PROVE  \E task \in Members(Due(Day)) : /\ task \in Tasks /\ Starts(task)
                                        /\ due' \in Seq(Tasks) /\ Members(due') \subseteq Members(due)
<1>1. due \in Seq(Tasks) /\ due # <<>> /\ Members(due) \subseteq Members(Due(Day))
  BY DEF TypeInv, StartTask
<1>2. /\ Head(due) \in Tasks /\ Tail(due) \in Seq(Tasks)
      /\ Members(due) = {Head(due)} \cup Members(Tail(due))
  BY <1>1, MembersTail
<1>3. QED
  BY <1>1, <1>2 DEF StartTask, Starts

\* A task that ended on a day was due that day.
EndedDue == \A e \in ended : e.task \in Members(Due(e.day))

LEMMA RedeliveredMoves ==
  ASSUME TypeInv, EndedDue, Redelivered
  PROVE  \E task \in Members(Due(Day)) : task \in Tasks /\ Starts(task) /\ due' = due
<1>1. CASE run # None /\ run' = Started(run.task)
  BY <1>1 DEF Redelivered, Starts, TypeInv, Run
<1>2. ASSUME NEW e \in ended, e.day = Day, run' = Started(e.task)
      PROVE  \E task \in Members(Due(Day)) : task \in Tasks /\ Starts(task) /\ due' = due
  BY <1>2 DEF Redelivered, Starts, TypeInv, EndedDue
<1>3. QED
  BY <1>1, <1>2 DEF Redelivered

LEMMA EndMoves ==
  ASSUME TypeInv, EndTask
  PROVE  /\ run # None /\ run' = None /\ run \in Run /\ Members(run.todo) = {}
         /\ Members(run.adding) = {} /\ UNCHANGED <<today, due, asked, requests>>
         /\ \/ /\ run.dead /\ lost' = lost \cup {[task |-> run.task, day |-> Day]}
               /\ UNCHANGED <<stored, ended>>
            \/ /\ ~run.dead /\ stored' = stored \cup run.added /\ lost' = lost
               /\ ended' = ended \cup {[task |-> run.task, day |-> Day,
                                        generated |-> run.generated, errors |-> run.errors]}
BY MembersEmpty DEF EndTask, TypeInv

LEMMA InitType == Init => TypeInv /\ EndedDue
<1> SUFFICES ASSUME Init PROVE TypeInv /\ EndedDue
  OBVIOUS
<1>1. 1 \in DOMAIN Days
  BY ReportsAssumption, LenProperties, EmptySeq
<1>2. due = Due(Day)
  BY DEF Init, Day
<1>3. QED
  BY <1>1, <1>2, DuePlan DEF Init, TypeInv, EndedDue

LEMMA TypeStep ==
  ASSUME TypeInv, EndedDue, [Next]_vars
  PROVE  TypeInv' /\ EndedDue'
<1>1. ASSUME UNCHANGED <<today, due, run, ended, requests>> PROVE TypeInv' /\ EndedDue'
  BY <1>1 DEF TypeInv, EndedDue, Day
<1>2. ASSUME NextOwner \/ OwnerFails \/ FlushRow PROVE TypeInv' /\ EndedDue'
  <2>1. /\ run # None /\ run' \in Run /\ run'.task = run.task /\ UNCHANGED <<today, due, ended, requests>>
    BY <1>2, RunMoves
  <2>2. QED
    BY <2>1 DEF TypeInv, EndedDue, Day
<1>3. ASSUME NEW task \in Members(Due(Day)), task \in Tasks, Starts(task),
             due' \in Seq(Tasks), Members(due') \subseteq Members(due)
      PROVE  TypeInv' /\ EndedDue'
  <2>1. run' \in Run /\ run'.task = task /\ UNCHANGED <<today, ended, requests>>
    BY <1>3, StartedRun DEF Starts
  <2>2. QED
    BY <1>3, <2>1 DEF TypeInv, EndedDue, Day
<1>4. ASSUME EndTask PROVE TypeInv' /\ EndedDue'
  <2>1. /\ run' = None /\ run # None /\ UNCHANGED <<today, due, requests>>
        /\ \A e \in ended' : e \in ended \/ (e.task = run.task /\ e.day = Day)
    BY <1>4, EndMoves
  <2>2. run.task \in Tasks /\ run.task \in Members(Due(Day))
    BY <2>1 DEF TypeInv, Run
  <2>3. QED
    BY <2>1, <2>2 DEF TypeInv, EndedDue, Day
<1>5. ASSUME NEW m \in DOMAIN asked, Ask(m) PROVE TypeInv' /\ EndedDue'
  <2>1. requests' = requests + 1 /\ UNCHANGED <<today, due, run, ended>>
    BY <1>5 DEF Ask
  <2>2. QED
    BY <2>1 DEF TypeInv, EndedDue, Day
<1>6. ASSUME NEW m \in DOMAIN asked, Answer(m) PROVE TypeInv' /\ EndedDue'
  BY <1>1, <1>6 DEF Answer
<1>7. ASSUME NextDay PROVE TypeInv' /\ EndedDue'
  <2>1. /\ today' = today + 1 /\ today < Len(Days) /\ run = None /\ due' = Due(Days[today + 1])
        /\ UNCHANGED <<run, ended, requests>>
    BY <1>7 DEF NextDay
  <2>2. today' \in DOMAIN Days
    BY <2>1, ReportsAssumption, LenProperties DEF TypeInv
  <2>3. due' = Due(Day)'
    BY <2>1 DEF Day
  <2>4. due' \in Seq(Tasks)
    BY <2>3, DuePlan
  <2>5. QED
    BY <2>1, <2>2, <2>3, <2>4 DEF TypeInv, EndedDue
<1>8. CASE UNCHANGED vars
  BY <1>1, <1>8 DEF vars
<1>9. CASE StartTask
  BY <1>3, <1>9, StartMoves
<1>10. CASE Redelivered
  BY <1>3, <1>10, RedeliveredMoves DEF TypeInv
<1>11. QED
  BY <1>2, <1>4, <1>5, <1>6, <1>7, <1>8, <1>9, <1>10 DEF Next

-----------------------------------------------------------------------------
(* A run that returned tells the truth.                                    *)

\* As long as the session is whole, what the run has counted is stored or
\* under way: the rows of a generated owner, and the first row of one it is
\* done with and has not counted as an error.
CountsHold ==
  run # None /\ ~run.dead =>
    /\ \A o \in run.generated : Members(Rows(run.task, o, Day)) \subseteq stored \cup Pending
    /\ \A o \in Members(Owners(run.task)) \ (run.errors \cup Members(run.todo)) :
         Rows(run.task, o, Day)[1] \in stored \cup Pending

ReturnInv == ReturnedIsStored /\ CountsHold

LEMMA InitReturn == Init => ReturnInv
BY DEF Init, ReturnInv, ReturnedIsStored, CountsHold

\* The rows have a first one.
LEMMA FirstRow ==
  ASSUME NEW task \in Tasks, NEW o, NEW d
  PROVE  Rows(task, o, d)[1] \in Members(Rows(task, o, d))
<1>1. /\ Rows("morning", o, d)[1] \in Members(Rows("morning", o, d))
      /\ Rows("weekly", o, d)[1] \in Members(Rows("weekly", o, d))
      /\ Rows("aggregation", o, d)[1] \in Members(Rows("aggregation", o, d))
      /\ Rows("monthly", o, d)[1] \in Members(Rows("monthly", o, d))
  BY RowsOf
<1>2. QED
  BY <1>1 DEF Tasks

LEMMA ReturnRun ==
  ASSUME TypeInv, ReturnInv, NextOwner \/ OwnerFails \/ FlushRow
  PROVE  ReturnInv'
<1> DEFINE counted(o) == Members(Rows(run.task, o, Day)) \subseteq stored \cup run'.added \cup Members(run'.adding)
           told(o) == Rows(run.task, o, Day)[1] \in stored \cup run'.added \cup Members(run'.adding)
<1>1. /\ run # None /\ run \in Run /\ run.task \in Tasks /\ run'.task = run.task
      /\ UNCHANGED <<today, stored, ended>> /\ Day' = Day
      /\ (\E o \in AllOwners : Owner(o)) \/ (\E row \in RowSet : Inserts(row) \/ Breaks(row))
  BY RunMoves DEF Day, Run
<1>2. ReturnedIsStored'
  BY <1>1 DEF ReturnInv, ReturnedIsStored
<1>3. SUFFICES ASSUME ~run'.dead
               PROVE  /\ \A o \in run'.generated : counted(o)
                      /\ \A o \in Members(Owners(run.task)) \ (run'.errors \cup Members(run'.todo)) : told(o)
  BY <1>1, <1>2 DEF ReturnInv, CountsHold, Pending
<1>4. ~run.dead =>
        /\ \A o \in run.generated :
             Members(Rows(run.task, o, Day)) \subseteq stored \cup run.added \cup Members(run.adding)
        /\ \A o \in Members(Owners(run.task)) \ (run.errors \cup Members(run.todo)) :
             Rows(run.task, o, Day)[1] \in stored \cup run.added \cup Members(run.adding)
  BY <1>1 DEF ReturnInv, CountsHold, Pending
<1>5. \A o : Rows(run.task, o, Day)[1] \in Members(Rows(run.task, o, Day))
  BY <1>1, FirstRow
<1>6. ASSUME NEW p \in AllOwners, Owner(p)
      PROVE  /\ \A o \in run'.generated : counted(o)
             /\ \A o \in Members(Owners(run.task)) \ (run'.errors \cup Members(run'.todo)) : told(o)
  <2>1. /\ ~run.dead /\ Members(run.adding) = {} /\ run'.added = run.added
        /\ Members(run.todo) \subseteq {p} \cup Members(run'.todo)
    BY <1>3, <1>6, MembersEmpty DEF Owner, Errs, Skips, Adds, Takes
  <2>2. CASE Errs(p)
    BY <1>4, <2>1, <2>2 DEF Errs
  <2>3. CASE Skips(p)
    BY <1>4, <2>1, <2>3 DEF Skips
  <2>4. CASE Adds(p)
    BY <1>4, <1>5, <2>1, <2>4 DEF Adds
  <2>5. QED
    BY <1>6, <2>2, <2>3, <2>4 DEF Owner
<1>7. ASSUME NEW row \in RowSet, Inserts(row)
      PROVE  /\ \A o \in run'.generated : counted(o)
             /\ \A o \in Members(Owners(run.task)) \ (run'.errors \cup Members(run'.todo)) : told(o)
  BY <1>3, <1>4, <1>7 DEF Inserts, Counts
<1>8. QED
  BY <1>1, <1>3, <1>6, <1>7 DEF Breaks

LEMMA ReturnEnd ==
  ASSUME TypeInv, ReturnInv, EndTask
  PROVE  ReturnInv'
<1>1. /\ run # None /\ run' = None /\ Members(run.todo) = {} /\ Members(run.adding) = {}
      /\ \/ UNCHANGED <<stored, ended>>
         \/ /\ ~run.dead /\ stored' = stored \cup run.added
            /\ ended' = ended \cup {[task |-> run.task, day |-> Day,
                                     generated |-> run.generated, errors |-> run.errors]}
  BY EndMoves
<1>2. CountsHold'
  BY <1>1 DEF CountsHold
<1>3. CASE UNCHANGED <<stored, ended>>
  BY <1>2, <1>3 DEF ReturnInv, ReturnedIsStored
<1>4. CASE ~run.dead /\ stored' = stored \cup run.added
           /\ ended' = ended \cup {[task |-> run.task, day |-> Day,
                                    generated |-> run.generated, errors |-> run.errors]}
  <2>1. /\ \A o \in run.generated : Members(Rows(run.task, o, Day)) \subseteq stored'
        /\ \A o \in Members(Owners(run.task)) \ run.errors : Rows(run.task, o, Day)[1] \in stored'
    BY <1>1, <1>4 DEF ReturnInv, CountsHold, Pending
  <2>2. \A e \in ended' : e \in ended \/ (e.task = run.task /\ e.day = Day
                                          /\ e.generated = run.generated /\ e.errors = run.errors)
    BY <1>4
  <2>3. ReturnedIsStored'
    BY <1>4, <2>1, <2>2 DEF ReturnInv, ReturnedIsStored
  <2>4. QED
    BY <1>2, <2>3 DEF ReturnInv
<1>5. QED
  BY <1>1, <1>3, <1>4

LEMMA ReturnStep ==
  ASSUME TypeInv, EndedDue, ReturnInv, [Next]_vars
  PROVE  ReturnInv'
<1>1. ASSUME UNCHANGED <<today, run, ended>>, stored \subseteq stored' PROVE ReturnInv'
  BY <1>1 DEF ReturnInv, ReturnedIsStored, CountsHold, Pending, Day
<1>2. ASSUME NEW task \in Tasks, Starts(task) PROVE ReturnInv'
  <2>1. /\ run'.task = task /\ run'.generated = {} /\ run'.todo = Owners(task)
        /\ UNCHANGED <<stored, ended>>
    BY <1>2, StartedRun DEF Starts
  <2>2. QED
    BY <2>1 DEF ReturnInv, ReturnedIsStored, CountsHold
<1>3. CASE StartTask
  BY <1>2, <1>3, StartMoves
<1>4. CASE Redelivered
  BY <1>2, <1>4, RedeliveredMoves
<1>5. ASSUME NEW m \in DOMAIN asked, Ask(m) \/ Answer(m) PROVE ReturnInv'
  BY <1>1, <1>5 DEF Ask, Answer
<1>6. CASE NextDay
  BY <1>6 DEF NextDay, ReturnInv, ReturnedIsStored, CountsHold
<1>7. CASE UNCHANGED vars
  BY <1>1, <1>7 DEF vars
<1>8. QED
  BY <1>3, <1>4, <1>5, <1>6, <1>7, ReturnRun, ReturnEnd DEF Next

\* A task that returned tells the truth, whatever failed for some owners and
\* however often it was delivered, and whatever requests stored meanwhile: an
\* owner it generated for has all the rows, and one it counts as neither
\* generated nor failed had the row it looked for.
THEOREM ReturnedTellsTruth == Spec => []ReturnedIsStored
<1>1. Spec => [](TypeInv /\ EndedDue /\ ReturnInv)
  BY InitType, TypeStep, InitReturn, ReturnStep, PTL DEF Spec
<1>2. ReturnInv => ReturnedIsStored
  BY DEF ReturnInv
<1>3. QED
  BY <1>1, <1>2, PTL
-----------------------------------------------------------------------------
(* A task loses the rows of all owners only if they were taken.            *)

\* A weekly row has the date of a Monday; a monthly one was written with the
\* snapshot of its month, the row a monthly run looks for.
SnapshotOf(S, o, d) == Row("snapshot", o, d) \in S
FirstTold(S) ==
  \A r \in S :
    /\ r.table = "funnel" => \/ Monday(r.date)
                             \/ \E i \in DOMAIN Days : /\ Days[i] \in Firsts /\ LastMonth(Days[i]) = r.date
                                                       /\ SnapshotOf(S, r.owner, Days[i])
    /\ r.table = "dormancy" => Monday(r.date) \/ SnapshotOf(S, r.owner, r.date)

\* A dormancy row was written with the funnel of its week, the row an
\* aggregation looks for, or by a monthly run of its date.
MonthlyRan(d) == \E e \in ended : e.task = "monthly" /\ e.day = d
WeekTold ==
  \A r \in stored : r.table = "dormancy" => Row("funnel", r.owner, r.date - 7) \in stored \/ MonthlyRan(r.date)

\* So have the rows under way, which are of the day; and without a taken row
\* none of them is stored.
RunTold ==
  run # None =>
    /\ FirstTold(stored \cup Pending)
    /\ \A r \in Pending :
         r.table = "dormancy" => /\ r.date = Day
                                 /\ \/ run.task = "monthly"
                                    \/ Row("funnel", r.owner, r.date - 7) \in stored \cup Pending
    /\ run.task \in {"aggregation", "monthly"} => \A r \in Pending : r.table \notin {"briefing", "summary"}
NoClash ==
  run # None /\ ~Taken(run.task, Day) => ~run.dead /\ Members(run.adding) \cap stored = {}

\* A request inserts a briefing or a summary.
AskedTold ==
  \A m \in DOMAIN asked :
    asked[m] = None \/ (requests > 0 /\ asked[m].table \in {"briefing", "summary"})

LostInv == FirstTold(stored) /\ WeekTold /\ RunTold /\ NoClash /\ AskedTold /\ LostOnlyIfTaken

LEMMA RowFields ==
  ASSUME NEW t, NEW o, NEW d
  PROVE  Row(t, o, d).table = t /\ Row(t, o, d).owner = o /\ Row(t, o, d).date = d
BY DEF Row

LEMMA MondayBefore == \A d \in Int : Monday(d) => Monday(d - 7)
BY DEF Monday

\* What a run is due for.
LEMMA RunDay ==
  ASSUME TypeInv, run # None
  PROVE  /\ run.task \in Tasks /\ Day \in Int
         /\ run.task = "aggregation" => Monday(Day)
         /\ run.task = "monthly" => Day \in Firsts
<1>1. run \in Run /\ run.task \in Members(Due(Day)) /\ today \in DOMAIN Days
  BY DEF TypeInv
<1>2. run.task \in Tasks
  BY <1>1 DEF Run
<1>3. Day \in Int
  BY <1>1, ReportsAssumption DEF Day
<1>4. QED
  BY <1>1, <1>2, <1>3, DuePlan

\* The rows of an owner are told, all of them and the first alone.
LEMMA RowsTold ==
  ASSUME TypeInv, run # None, NEW o, NEW S, FirstTold(S), NEW R,
         \/ R \subseteq {Rows(run.task, o, Day)[1]}
         \/ R = Members(Rows(run.task, o, Day))
  PROVE  /\ FirstTold(S \cup R)
         /\ \A r \in R : r.table = "dormancy" =>
              r.date = Day /\ (run.task = "monthly" \/ Row("funnel", r.owner, r.date - 7) \in R)
         /\ run.task \in {"aggregation", "monthly"} => \A r \in R : r.table \notin {"briefing", "summary"}
<1> DEFINE d == Day
           tells(r, T) ==
             /\ r.table = "funnel" => \/ Monday(r.date)
                                      \/ \E i \in DOMAIN Days : /\ Days[i] \in Firsts /\ LastMonth(Days[i]) = r.date
                                                                /\ SnapshotOf(T, r.owner, Days[i])
             /\ r.table = "dormancy" => Monday(r.date) \/ SnapshotOf(T, r.owner, r.date)
<1>1. /\ run.task \in Tasks /\ d \in Int /\ today \in DOMAIN Days /\ d = Days[today]
      /\ run.task = "aggregation" => Monday(d)
      /\ run.task = "monthly" => d \in Firsts
  BY RunDay DEF Day, TypeInv
<1>2. \A r \in S : tells(r, S \cup R)
  BY DEF FirstTold, SnapshotOf
<1>3. ASSUME \A r \in R : tells(r, S \cup R) PROVE FirstTold(S \cup R)
  BY <1>2, <1>3 DEF FirstTold
<1> HIDE DEF d
<1>4. CASE run.task = "morning"
  <2>1. \A r \in R : r.table = "briefing"
    BY <1>4, RowsOf, RowFields DEF d
  <2>2. QED
    BY <1>3, <1>4, <2>1
<1>5. CASE run.task = "weekly"
  <2>1. \A r \in R : r.table = "summary"
    BY <1>5, RowsOf, RowFields DEF d
  <2>2. QED
    BY <1>3, <1>5, <2>1
<1>6. CASE run.task = "aggregation"
  <2>1. /\ R \subseteq {Row("funnel", o, d - 7), Row("dormancy", o, d)}
        /\ Row("dormancy", o, d) \in R => Row("funnel", o, d - 7) \in R
    BY <1>6, RowsOf, RowFields DEF d
  <2>2. Monday(d) /\ Monday(d - 7)
    BY <1>1, <1>6, MondayBefore
  <2>3. \A r \in R : /\ tells(r, S \cup R) /\ r.table \notin {"briefing", "summary"}
                     /\ r.table = "dormancy" => r.date = d /\ Row("funnel", r.owner, r.date - 7) \in R
    BY <2>1, <2>2, RowFields
  <2>4. QED
    BY <1>3, <2>3 DEF d
<1>7. CASE run.task = "monthly"
  <2> DEFINE snapshot == Row("snapshot", o, d)
             funnel == Row("funnel", o, LastMonth(d))
             dormancy == Row("dormancy", o, d)
  <2>1. R \subseteq {snapshot} \/ R = {snapshot, funnel, dormancy}
    BY <1>7, RowsOf DEF d
  <2>2. ASSUME NEW r \in R
        PROVE  /\ tells(r, S \cup R) /\ r.table \notin {"briefing", "summary"}
               /\ r.table = "dormancy" => r.date = d
    <3>1. CASE r = snapshot
      BY <3>1, RowFields
    <3>2. CASE r = funnel /\ R = {snapshot, funnel, dormancy}
      <4>1. r.table = "funnel" /\ r.owner = o /\ r.date = LastMonth(d)
        BY <3>2, RowFields
      <4>2. SnapshotOf(S \cup R, o, Days[today]) /\ d = Days[today] /\ d \in Firsts /\ today \in DOMAIN Days
        BY <1>1, <1>7, <3>2 DEF SnapshotOf
      <4>3. QED
        BY <4>1, <4>2
    <3>3. CASE r = dormancy /\ R = {snapshot, funnel, dormancy}
      <4>1. r.table = "dormancy" /\ r.owner = o /\ r.date = d
        BY <3>3, RowFields
      <4>2. SnapshotOf(S \cup R, o, d)
        BY <3>3 DEF SnapshotOf
      <4>3. QED
        BY <4>1, <4>2
    <3>4. QED
      BY <2>1, <3>1, <3>2, <3>3
  <2>3. QED
    BY <1>3, <1>7, <2>2 DEF d
<1>8. QED
  BY <1>1, <1>4, <1>5, <1>6, <1>7 DEF Tasks

\* Where nothing was taken, an owner whose first row is not stored has none.
LEMMA NoneStored ==
  ASSUME TypeInv, run # None, FirstTold(stored), WeekTold, ~Taken(run.task, Day),
         NEW o, Rows(run.task, o, Day)[1] \notin stored
  PROVE  Members(Rows(run.task, o, Day)) \cap stored = {}
<1>1. run.task \in Tasks /\ (run.task = "monthly" => Day \in Firsts) /\ today \in DOMAIN Days
      /\ Day = Days[today]
  BY RunDay DEF Day, TypeInv
<1>2. CASE run.task \in {"morning", "weekly"}
  BY <1>2, RowsOf
<1>3. CASE run.task = "aggregation"
  <2>1. ~MonthlyRan(Day) /\ Row("funnel", o, Day - 7) \notin stored
    BY <1>3, RowsOf DEF Taken, MonthlyRan
  <2>2. Row("dormancy", o, Day) \notin stored
    BY <2>1, RowFields DEF WeekTold
  <2>3. QED
    BY <1>3, <2>1, <2>2, RowsOf
<1>4. CASE run.task = "monthly"
  <2>1. ~Monday(Day) /\ ~Monday(LastMonth(Day)) /\ ~SnapshotOf(stored, o, Day)
    BY <1>4, RowsOf DEF Taken, SnapshotOf
  <2>2. Row("dormancy", o, Day) \notin stored
    BY <2>1, RowFields DEF FirstTold
  <2>3. ASSUME Row("funnel", o, LastMonth(Day)) \in stored PROVE FALSE
    <3>1. PICK i \in DOMAIN Days : /\ Days[i] \in Firsts /\ LastMonth(Days[i]) = LastMonth(Day)
                                   /\ SnapshotOf(stored, o, Days[i])
      BY <2>1, <2>3, RowFields DEF FirstTold
    <3>2. Days[i] = Days[today]
      BY <1>1, <1>4, <3>1, LastMonthsDiffer
    <3>3. QED
      BY <1>1, <2>1, <3>1, <3>2
  <2>4. QED
    BY <1>4, <2>1, <2>2, <2>3, RowsOf DEF SnapshotOf
<1>5. QED
  BY <1>1, <1>2, <1>3, <1>4 DEF Tasks

LEMMA LostRun ==
  ASSUME TypeInv, LostInv, NextOwner \/ OwnerFails \/ FlushRow
  PROVE  LostInv'
<1> DEFINE P2 == run'.added \cup Members(run'.adding)
           taken == Taken(run.task, Day)
           Told(S) == \A r \in S : r.table = "dormancy" =>
                        r.date = Day /\ (run.task = "monthly" \/ Row("funnel", r.owner, r.date - 7) \in stored \cup S)
           NoRequest(S) == run.task \in {"aggregation", "monthly"} =>
                             \A r \in S : r.table \notin {"briefing", "summary"}
           Clear == ~taken => ~run'.dead /\ Members(run'.adding) \cap stored = {}
<1>1. /\ run # None /\ run' # None /\ run'.task = run.task
      /\ UNCHANGED <<today, stored, asked, ended, lost, requests>> /\ Day' = Day
      /\ (\E o \in AllOwners : Owner(o)) \/ (\E row \in RowSet : Inserts(row) \/ Breaks(row))
  BY RunMoves DEF Day
<1>2. /\ FirstTold(stored) /\ FirstTold(stored \cup Pending) /\ Told(Pending) /\ NoRequest(Pending) /\ WeekTold
      /\ ~taken => ~run.dead /\ Members(run.adding) \cap stored = {}
  BY <1>1 DEF LostInv, RunTold, NoClash
<1>3. FirstTold(stored)' /\ WeekTold' /\ AskedTold' /\ LostOnlyIfTaken'
  BY <1>1 DEF LostInv, FirstTold, SnapshotOf, WeekTold, MonthlyRan, AskedTold, LostOnlyIfTaken, Taken
<1>4. ASSUME FirstTold(stored \cup P2), Told(P2), NoRequest(P2), Clear
      PROVE  LostInv'
  <2>1. RunTold'
    BY <1>1, <1>4 DEF RunTold, Pending, FirstTold, SnapshotOf
  <2>2. NoClash'
    BY <1>1, <1>4 DEF NoClash, Taken
  <2>3. QED
    BY <1>3, <2>1, <2>2 DEF LostInv
<1>5. ASSUME NEW o \in AllOwners, Owner(o) PROVE LostInv'
  <2> DEFINE R == Members(run'.adding)
             rows == Rows(run.task, o, Day)
  <2>1. run'.added = run.added /\ run'.dead = run.dead /\ Pending = run.added
    BY <1>5, MembersEmpty DEF Owner, Errs, Skips, Adds, Takes, Pending
  <2>2. /\ R \subseteq {rows[1]} \/ R = Members(rows)
        /\ R = {} \/ rows[1] \notin stored
    BY <1>5 DEF Owner, Errs, Skips, Adds
  <2> HIDE DEF R, rows
  <2>3. /\ FirstTold((stored \cup Pending) \cup R)
        /\ \A r \in R : r.table = "dormancy" =>
             r.date = Day /\ (run.task = "monthly" \/ Row("funnel", r.owner, r.date - 7) \in R)
        /\ NoRequest(R)
    BY <1>1, <1>2, <2>2, RowsTold DEF rows
  <2>4. stored \cup P2 = (stored \cup Pending) \cup R /\ P2 = Pending \cup R
    BY <2>1 DEF R
  <2>5. Told(P2) /\ NoRequest(P2)
    BY <1>2, <2>3, <2>4
  <2>6. ~taken => R \cap stored = {}
    <3>1. ASSUME ~taken, rows[1] \notin stored PROVE rows[1] \in Members(rows) /\ Members(rows) \cap stored = {}
      BY <1>1, <1>2, <3>1, NoneStored, FirstRow, RunDay DEF rows
    <3>2. QED
      BY <2>2, <3>1
  <2>7. Clear
    BY <1>2, <2>1, <2>6 DEF R
  <2>8. QED
    BY <1>4, <2>3, <2>4, <2>5, <2>7
<1>6. ASSUME NEW row \in RowSet, Inserts(row) PROVE LostInv'
  <2>1. P2 = Pending
    BY <1>6 DEF Inserts, Pending
  <2>2. Clear
    BY <1>2, <1>6 DEF Inserts
  <2>3. QED
    BY <1>2, <1>4, <2>1, <2>2
<1>7. ASSUME NEW row \in RowSet, Breaks(row) PROVE LostInv'
  <2>1. P2 = {} /\ taken
    BY <1>2, <1>7 DEF Breaks
  <2>2. QED
    BY <1>2, <1>4, <2>1
<1>8. QED
  BY <1>1, <1>5, <1>6, <1>7

LEMMA LostEnd ==
  ASSUME TypeInv, LostInv, EndTask
  PROVE  LostInv'
<1> DEFINE l == [task |-> run.task, day |-> Day]
           e == [task |-> run.task, day |-> Day, generated |-> run.generated, errors |-> run.errors]
<1>1. /\ run # None /\ run' = None /\ Members(run.adding) = {} /\ UNCHANGED <<today, asked, requests>>
      /\ \/ run.dead /\ lost' = lost \cup {l} /\ UNCHANGED <<stored, ended>>
         \/ ~run.dead /\ stored' = stored \cup run.added /\ lost' = lost /\ ended' = ended \cup {e}
  BY EndMoves
<1>2. /\ l.task = run.task /\ l.day = Day /\ e.task = run.task /\ e.day = Day
  OBVIOUS
<1> HIDE DEF l, e
<1>3. RunTold' /\ NoClash'
  BY <1>1 DEF RunTold, NoClash
<1>4. AskedTold'
  BY <1>1 DEF LostInv, AskedTold
<1>5. CASE run.dead /\ lost' = lost \cup {l} /\ UNCHANGED <<stored, ended>>
  <2>1. Taken(run.task, Day)
    BY <1>1, <1>5 DEF LostInv, NoClash
  <2>2. LostOnlyIfTaken'
    BY <1>1, <1>2, <1>5, <2>1 DEF LostInv, LostOnlyIfTaken, Taken
  <2>3. FirstTold(stored)' /\ WeekTold'
    BY <1>5 DEF LostInv, FirstTold, SnapshotOf, WeekTold, MonthlyRan
  <2>4. QED
    BY <1>3, <1>4, <2>2, <2>3 DEF LostInv
<1>6. CASE ~run.dead /\ stored' = stored \cup run.added /\ lost' = lost /\ ended' = ended \cup {e}
  <2>1. Pending = run.added
    BY <1>1 DEF Pending
  <2>2. FirstTold(stored)'
    BY <1>1, <1>6, <2>1 DEF LostInv, RunTold, FirstTold, SnapshotOf
  <2>3. WeekTold'
    <3> SUFFICES ASSUME NEW r \in stored', r.table = "dormancy"
                 PROVE  Row("funnel", r.owner, r.date - 7) \in stored' \/ MonthlyRan(r.date)'
      BY DEF WeekTold
    <3>1. \A d : MonthlyRan(d) => MonthlyRan(d)'
      BY <1>6 DEF MonthlyRan
    <3>2. CASE r \in stored
      BY <1>6, <3>1, <3>2 DEF LostInv, WeekTold
    <3>3. CASE r \in run.added
      <4>1. r.date = Day /\ (run.task = "monthly" \/ Row("funnel", r.owner, r.date - 7) \in stored')
        BY <1>1, <1>6, <2>1, <3>3 DEF LostInv, RunTold
      <4>2. run.task = "monthly" => \E x \in ended' : x.task = "monthly" /\ x.day = Day
        BY <1>2, <1>6
      <4>3. QED
        BY <4>1, <4>2 DEF MonthlyRan
    <3>4. QED
      BY <1>6, <3>2, <3>3
  <2>4. LostOnlyIfTaken'
    BY <1>1, <1>6 DEF LostInv, LostOnlyIfTaken, Taken
  <2>5. QED
    BY <1>3, <1>4, <2>2, <2>3, <2>4 DEF LostInv
<1>7. QED
  BY <1>1, <1>5, <1>6

\* A request adds a briefing or a summary, and is counted.
LEMMA LostAnswer ==
  ASSUME TypeInv, LostInv, NEW m \in DOMAIN asked, Answer(m)
  PROVE  LostInv'
<1>1. /\ asked[m] # None /\ asked' = [asked EXCEPT ![m] = None] /\ UNCHANGED <<today, run, ended, lost, requests>>
      /\ Day' = Day /\ stored' \in {stored, stored \cup {asked[m]}}
  BY DEF Answer, Day
<1>2. requests > 0 /\ asked[m].table \in {"briefing", "summary"}
  BY <1>1 DEF LostInv, AskedTold
<1> DEFINE row == asked[m]
<1> HIDE DEF row
<1>3. row.table \in {"briefing", "summary"} /\ stored' \in {stored, stored \cup {row}}
  BY <1>1, <1>2 DEF row
<1>4. ASSUME NEW S, NEW T, FirstTold(S), T \in {S, S \cup {row}} PROVE FirstTold(T)
  BY <1>3, <1>4 DEF FirstTold, SnapshotOf
<1>5. FirstTold(stored')
  BY <1>3, <1>4 DEF LostInv
<1>6. WeekTold'
  BY <1>1, <1>3 DEF LostInv, WeekTold, MonthlyRan
<1>7. AskedTold'
  BY <1>1 DEF LostInv, AskedTold
<1>8. LostOnlyIfTaken' /\ (run # None => (Taken(run.task, Day)' <=> Taken(run.task, Day)))
  BY <1>1 DEF LostInv, LostOnlyIfTaken, Taken
<1>9. RunTold'
  <2> SUFFICES ASSUME run # None
               PROVE  (/\ FirstTold(stored \cup Pending)
                       /\ \A r \in Pending :
                            r.table = "dormancy" => /\ r.date = Day
                                                    /\ \/ run.task = "monthly"
                                                       \/ Row("funnel", r.owner, r.date - 7) \in stored \cup Pending
                       /\ run.task \in {"aggregation", "monthly"} =>
                            \A r \in Pending : r.table \notin {"briefing", "summary"})'
    BY <1>1 DEF RunTold
  <2>1. Pending' = Pending /\ stored' \cup Pending \in {stored \cup Pending, (stored \cup Pending) \cup {row}}
    BY <1>1, <1>3 DEF Pending
  <2>2. FirstTold(stored' \cup Pending)
    BY <1>4, <2>1 DEF LostInv, RunTold
  <2>3. FirstTold(stored \cup Pending)'
    BY <2>1, <2>2 DEF FirstTold, SnapshotOf
  <2>4. QED
    BY <1>1, <1>3, <2>1, <2>3 DEF LostInv, RunTold
<1>10. NoClash'
  <2> SUFFICES ASSUME run # None, ~Taken(run.task, Day)
               PROVE  ~run.dead /\ Members(run.adding) \cap stored' = {}
    BY <1>1, <1>8 DEF NoClash
  <2>1. run.task \in {"aggregation", "monthly"}
    BY <1>2, RunDay DEF Taken, Tasks
  <2>2. ~run.dead /\ Members(run.adding) \cap stored = {}
    BY DEF LostInv, NoClash
  <2>3. row \notin Members(run.adding)
    BY <1>3, <2>1 DEF LostInv, RunTold, Pending
  <2>4. QED
    BY <1>3, <2>2, <2>3
<1>11. QED
  BY <1>5, <1>6, <1>7, <1>8, <1>9, <1>10 DEF LostInv, FirstTold, SnapshotOf

LEMMA InitLost == Init => LostInv
BY DEF Init, LostInv, FirstTold, WeekTold, RunTold, NoClash, AskedTold, LostOnlyIfTaken, Members

LEMMA LostStep ==
  ASSUME TypeInv, EndedDue, LostInv, [Next]_vars
  PROVE  LostInv'
<1> DEFINE Kept == FirstTold(stored)' /\ WeekTold' /\ LostOnlyIfTaken'
<1>1. ASSUME UNCHANGED <<stored, ended, lost>>, requests > 0 => requests' > 0
      PROVE  Kept /\ \A task, d : Taken(task, d) => Taken(task, d)'
  BY <1>1 DEF LostInv, FirstTold, SnapshotOf, WeekTold, MonthlyRan, LostOnlyIfTaken, Taken
<1>2. ASSUME NEW task \in Tasks, Starts(task) PROVE LostInv'
  <2>1. /\ run' # None /\ ~run'.dead /\ Members(run'.adding) = {} /\ Pending' = {}
        /\ UNCHANGED <<asked, stored, ended, lost, requests>>
    BY <1>2, StartedRun DEF Starts, Pending
  <2>2. Kept /\ AskedTold'
    BY <1>1, <2>1 DEF LostInv, AskedTold
  <2>3. RunTold' /\ NoClash'
    BY <2>1, <2>2 DEF RunTold, NoClash, FirstTold, SnapshotOf
  <2>4. QED
    BY <2>2, <2>3 DEF LostInv
<1>3. CASE StartTask
  BY <1>2, <1>3, StartMoves
<1>4. CASE Redelivered
  BY <1>2, <1>4, RedeliveredMoves
<1>5. ASSUME NEW m \in DOMAIN asked, Ask(m) PROVE LostInv'
  <2>1. PICK row \in {Row("briefing", m, Day), Row("summary", m, LastWeek(Day))} :
          asked' = [asked EXCEPT ![m] = row]
    BY <1>5 DEF Ask
  <2>2. /\ requests' = requests + 1 /\ requests' > 0 /\ UNCHANGED <<today, run, stored, ended, lost>>
    BY <1>5 DEF Ask, TypeInv
  <2>3. row.table \in {"briefing", "summary"}
    BY <2>1, RowFields
  <2>4. AskedTold'
    BY <2>1, <2>2, <2>3 DEF LostInv, AskedTold
  <2>5. Kept /\ \A task, d : Taken(task, d) => Taken(task, d)'
    BY <1>1, <2>2
  <2>6. RunTold' /\ NoClash'
    BY <2>2, <2>5 DEF LostInv, RunTold, NoClash, Pending, Day, FirstTold, SnapshotOf
  <2>7. QED
    BY <2>4, <2>5, <2>6 DEF LostInv
<1>6. CASE NextDay
  <2>1. run' = None /\ UNCHANGED <<asked, stored, ended, lost, requests>>
    BY <1>6 DEF NextDay
  <2>2. Kept /\ AskedTold'
    BY <1>1, <2>1 DEF LostInv, AskedTold
  <2>3. QED
    BY <2>1, <2>2 DEF LostInv, RunTold, NoClash
<1>7. CASE UNCHANGED vars
  <2>1. UNCHANGED <<today, run, asked, stored, ended, lost, requests>>
    BY <1>7 DEF vars
  <2>2. Kept /\ \A task, d : Taken(task, d) => Taken(task, d)'
    BY <1>1, <2>1
  <2>3. AskedTold' /\ RunTold' /\ NoClash'
    BY <2>1, <2>2 DEF LostInv, AskedTold, RunTold, NoClash, Pending, Day, FirstTold, SnapshotOf
  <2>4. QED
    BY <2>2, <2>3 DEF LostInv
<1>8. QED
  BY <1>3, <1>4, <1>5, <1>6, <1>7, LostRun, LostEnd, LostAnswer DEF Next

\* A task loses the rows of all its owners only if some of them were taken from
\* under its check: by a request, by the monthly run of the same day, or by a
\* weekly aggregation where the firsts of the months are Mondays.
THEOREM TasksLoseOnlyIfTaken == Spec => []LostOnlyIfTaken
<1>1. Spec => [](TypeInv /\ EndedDue /\ LostInv)
  BY InitType, TypeStep, InitLost, LostStep, PTL DEF Spec
<1>2. LostInv => LostOnlyIfTaken
  BY DEF LostInv
<1>3. QED
  BY <1>1, <1>2, PTL
=============================================================================
