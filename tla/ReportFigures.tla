----------------------------- MODULE ReportFigures -----------------------------
(***************************************************************************)
(* What the stored reports and the live pages say of the same agents and   *)
(* signals on one day: the funnel, the dormancy report and the monthly     *)
(* snapshot of the tasks beside the analytics API, the briefing of the     *)
(* task beside the one a manager asks for, and the two classifications of  *)
(* a manager.                                                              *)
(*                                                                         *)
(* The reports count from the midnight before, which is time 0, the pages  *)
(* from now.  A signal may be dated ahead.  A rate is a fraction <<n, d>>; *)
(* wording is left out, and so is rounding that decides nothing.           *)
(***************************************************************************)
EXTENDS Integers, Sequences, FiniteSets, FiniteSetsExt, Functions

CONSTANTS
  Everyone, Managers,
  Orders,       \* the orders in which a query may return the agents
  Books,        \* per agent [state, adm, region, reason, expiry, positive, deleted]
  Samples,      \* signals [type, agent, adm, at, channel, playbook, prev, next, what, pct, module]
  DayLength,    \* of a day; times are counted from the last midnight
  Weekdays,     \* the weekdays it may be, 0 is a Monday
  Grain,                                \* rates are compared in parts of 1 / Grain
  Low, High,                            \* activation thresholds in these parts
  Unresponsive, Supported, Responsive,  \* response thresholds in these parts
  MaxPriority,                          \* MAX_PRIORITY_AGENTS
  MaxSignals, MaxNudges,                \* bounds
  None

ASSUME FiguresAssumption ==
  /\ {Low, High, Unresponsive, Supported, Responsive, MaxPriority, MaxSignals, MaxNudges} \subseteq Nat
  /\ {DayLength, Grain} \subseteq Nat \ {0} /\ Weekdays \subseteq 0..6
  /\ Low <= High /\ Unresponsive <= Supported /\ Supported <= Responsive
  /\ IsFiniteSet(Managers) /\ \A s \in Samples : s.at \in Int
  /\ None \notin {"active", "first_sale", "licensed"}
  /\ \A order \in Orders : order \in Seq(Everyone) /\ IsInjective(order) /\ Range(order) = Everyone
  /\ \A book \in Books : IsFiniteSet(DOMAIN book) /\ DOMAIN book \subseteq Everyone

VARIABLES agents, signals, now, weekday
vars == <<agents, signals, now, weekday>>

IsNudge(s) == s.type \in {"nudge_received", "nudge_acted"}

Init == agents \in Books /\ signals = {} /\ now = 0 /\ weekday \in Weekdays

\* A signal is stored; the API and the other modules emit them.
Record(s) ==
  /\ s \notin signals
  /\ \/ Cardinality(signals) < MaxSignals
     \/ IsNudge(s) /\ (\A t \in signals : IsNudge(t)) /\ Cardinality(signals) < MaxNudges
  /\ signals' = signals \cup {s} /\ UNCHANGED <<agents, now, weekday>>

\* Time passes, until midnight.
Pass == now + 1 < DayLength /\ now' = now + 1 /\ UNCHANGED <<agents, signals, weekday>>

Next == Pass \/ \E s \in Samples : Record(s)
Spec == Init /\ [][Next]_vars
-----------------------------------------------------------------------------
Kept == {a \in DOMAIN agents : ~agents[a].deleted}
Of(m) == {a \in Kept : agents[a].adm = m}
In(set, states) == {a \in set : agents[a].state \in states}
Rate(n, d) == IF d = 0 THEN <<0, 1>> ELSE <<n, d>>
Above(rate, parts) == rate[1] * Grain > parts * rate[2]
Below(rate, parts) == rate[1] * Grain < parts * rate[2]
\* round() to four digits, in parts; of a fraction halfway it may go either way.
Rounded(rate) ==
  LET parts == rate[1] * Grain
      down == parts \div rate[2]
  IN  CHOOSE g \in {down, down + 1} : 2 * (parts - g * rate[2]) \in (0 - rate[2])..rate[2]
Counts(key) == [k \in Range(key) |-> Cardinality({x \in DOMAIN key : key[x] = k})]
\* The pages count back from now, the reports from midnight.
DaysAgo(days) == now - days * DayLength
MidnightOf(days) == 0 - days * DayLength
Since(type, days) == {s \in signals : s.type = type /\ s.at >= DaysAgo(days)}
Stored(type, days) == {s \in signals : s.type = type /\ s.at >= MidnightOf(days)}
Month == 30
Quarter == 90

Activated == {"first_sale", "active", "productive"}
Excluded == {"terminated", "lapsed"}
Reactivates(s) == s.prev = "dormant" /\ s.next \in {"active", "first_sale", "licensed"}
-----------------------------------------------------------------------------
(* The funnel: per agent the stages its signals reach, and where they came from. *)

\* get_reactivation_funnel
LiveStages(s) ==
  {x \in {"contacted", "engaged", "trained", "sold"} :
     CASE x = "contacted" -> s.type \in {"call", "message", "adm_call", "adm_visit"}
       [] x = "engaged" -> \/ s.type = "call_outcome" /\ s.what \in {"answered", "completed"}
                           \/ s.type \in {"reply", "adm_call", "adm_visit"}
       [] x = "trained" -> \/ s.type = "training" /\ (s.pct > 50 \/ s.what = "QUIZ_COMPLETED")
                           \/ s.type = "training_external"
       [] OTHER -> s.type = "sold"}

\* Faulty variant: every call outcome counts as an answer.
StoredStagesAnyOutcome(s) ==
  CASE s.type \in {"call", "message"} -> {"contacted"}
    [] s.type \in {"adm_call", "adm_visit"} -> {"contacted", "engaged"}
    [] s.type \in {"reply", "call_outcome"} -> {"engaged"}
    [] s.type = "training" -> IF s.pct > 50 \/ s.what = "QUIZ_COMPLETED" THEN {"trained"} ELSE {}
    [] s.type = "training_external" -> {"trained"}
    [] s.type = "sold" -> {"sold"}
    [] OTHER -> {}

\* generate_reactivation_funnel_sync
StoredStages(s) ==
  CASE s.type \in {"call", "message"} -> {"contacted"}
    [] s.type \in {"adm_call", "adm_visit"} -> {"contacted", "engaged"}
    [] s.type = "reply" -> {"engaged"}
    [] s.type = "call_outcome" -> IF s.what \in {"answered", "completed"} THEN {"engaged"} ELSE {}
    [] s.type = "training" -> IF s.pct > 50 \/ s.what = "QUIZ_COMPLETED" THEN {"trained"} ELSE {}
    [] s.type = "training_external" -> {"trained"}
    [] s.type = "sold" -> {"sold"}
    [] OTHER -> {}

Stages == {"contacted", "engaged", "trained", "sold"}
Row(stage, group) == [x \in Stages |-> Cardinality({a \in group : x \in stage[a]})]

Funnel(stages, window) ==
  LET own(a) == {s \in window : s.agent = a}
      all == {s.agent : s \in window}
      reached == [a \in all |-> UNION {stages[s] : s \in own(a)}]
      channels(a) == {s.channel : s \in {t \in own(a) : stages[t] \cap {"contacted", "engaged"} # {}}}
      playbooks(a) == {s.playbook : s \in own(a)} \ {None}
  IN  [total |-> Row(reached, all),
       by_channel |-> [c \in UNION {channels(a) : a \in all} |->
                         Row(reached, {a \in all : c \in channels(a)})],
       by_playbook |-> [p \in UNION {playbooks(a) : a \in all} |->
                          Row(reached, {a \in all : p \in playbooks(a)})]]

\* The seven days before today, and seven days up to now and on.
StoredWindow == {s \in signals : s.agent # None /\ s.at >= MidnightOf(7) /\ s.at < 0}
LiveWindow == {s \in signals : s.agent # None /\ s.at >= DaysAgo(7)}

StoredFunnel == Funnel([s \in signals |-> StoredStages(s)], StoredWindow)

\* The live page lists the playbooks of agents that were contacted or engaged.
LiveFunnel ==
  LET f == Funnel([s \in signals |-> LiveStages(s)], LiveWindow)
      shown == {p \in DOMAIN f.by_playbook : f.by_playbook[p].contacted + f.by_playbook[p].engaged > 0}
  IN  [f EXCEPT !.by_playbook = [p \in shown |-> f.by_playbook[p]]]
-----------------------------------------------------------------------------
(* Dormancy: agents by reason and region, and the change against the month before. *)

Reason(a) == IF agents[a].reason = None THEN "unknown" ELSE agents[a].reason
Region(a) == IF agents[a].region = None THEN "unassigned" ELSE agents[a].region
At(f, x) == IF x \in DOMAIN f THEN f[x] ELSE 0

\* The change in percent, as a fraction.
Change(current, previous) ==
  IF previous > 0 THEN <<current - previous, previous>> ELSE IF current > 0 THEN <<1, 1>> ELSE <<0, 1>>

\* get_dormancy_analytics for a region, or None for all; the month before is the tenant's.
LiveBefore ==
  {s \in Since("lifecycle", 2 * Month) \ Since("lifecycle", Month) : s.next = "dormant"}
LiveDormancy(region) ==
  LET dormant == In({a \in Kept : region = None \/ agents[a].region = region}, {"dormant"})
      reasons == Counts([a \in dormant |-> Reason(a)])
      previous == Counts([s \in LiveBefore |-> s.what])
  IN  [reasons |-> reasons,
       regions |-> [r \in {Region(a) : a \in dormant} |->
                      Counts([a \in {b \in dormant : Region(b) = r} |-> Reason(a)])],
       trend |-> [r \in DOMAIN reasons \cup DOMAIN previous |-> Change(At(reasons, r), At(previous, r))]]

\* generate_dormancy_report_sync
StoredBefore == {s \in signals : s.type = "lifecycle" /\ s.next = "dormant"
                                 /\ s.at >= MidnightOf(2 * Month) /\ s.at < MidnightOf(Month)}
StoredDormancy ==
  LET dormant == {a \in DOMAIN agents : agents[a].state = "dormant" /\ ~agents[a].deleted}
      number(r) == Cardinality({a \in dormant : Reason(a) = r})
      previous(r) == Cardinality({s \in StoredBefore : s.what = r})
      known == {Reason(a) : a \in dormant}
  IN  [reasons |-> [r \in known |-> number(r)],
       regions |-> [g \in {Region(a) : a \in dormant} |->
                      LET here == {a \in dormant : Region(a) = g}
                      IN  [r \in {Reason(a) : a \in here} |-> Cardinality({a \in here : Reason(a) = r})]],
       trend |-> [r \in known \cup {s.what : s \in StoredBefore} |-> Change(number(r), previous(r))]]
-----------------------------------------------------------------------------
(* The monthly snapshot beside the dashboard, the ranking and the training page. *)

\* From the counts by state, as the dashboard and the snapshot do it.
StateCounts(group) == Counts([a \in group |-> agents[a].state])
Summed(f, keys) == FoldFunctionOnSet(LAMBDA x, y : x + y, 0, f, keys \cap DOMAIN f)
CountedRate(counts) == Rate(Summed(counts, Activated), Summed(counts, DOMAIN counts \ Excluded))
\* From the agents, as the managers' figures are.
ActivationRate(group) == Rate(Cardinality(In(group, Activated)), Cardinality(group \ In(group, Excluded)))

\* get_dashboard: a reactivation is put down to the agent's latest contact of the month, which
\* may be later than the reactivation.
Contacts(a) ==
  {s \in signals : s.agent = a /\ s.at \in DaysAgo(Month)..now
                   /\ s.type \in {"call_outcome", "reply", "adm_call", "adm_visit"}}
ContactChannel(a) ==
  IF Contacts(a) = {} THEN "unknown"
  ELSE (CHOOSE s \in Contacts(a) : \A t \in Contacts(a) : t.at <= s.at).channel

Dashboard(region) ==
  LET base == {a \in Kept : region = None \/ agents[a].region = region}
      moved(set) == Cardinality({s.agent : s \in {t \in set : t.agent # None}})
      current == moved(Since("lifecycle", Month))
      before == moved(Since("lifecycle", 2 * Month) \ Since("lifecycle", Month))
      reactivations == {s \in Since("lifecycle", Month) : Reactivates(s)}
  IN  [total |-> Cardinality(base),
       by_state |-> StateCounts(base),
       activation |-> CountedRate(StateCounts(base)),
       trend |-> IF current > before THEN "up" ELSE IF current < before THEN "down" ELSE "stable",
       reactivations |-> Cardinality(reactivations),
       by_intervention |-> Counts([s \in {t \in reactivations : t.agent # None} |-> ContactChannel(s.agent)])]

\* get_training_effectiveness: completion per module.
TrainingSignals == {s \in Since("training", Quarter) : s.agent # None}
Completes(s) == s.what = "QUIZ_COMPLETED" \/ s.pct >= 80
LiveTraining ==
  [m \in {s.module : s \in TrainingSignals} |->
     LET of == {s \in TrainingSignals : s.module = m}
     IN  Rate(Cardinality({s.agent : s \in {t \in of : Completes(t)}}), Cardinality({s.agent : s \in of}))]

\* generate_monthly_snapshot_sync
Snapshot ==
  LET training == {s \in Stored("training", Quarter) : s.agent # None}
      trained == {s.agent : s \in training}
      done(m) == {a \in trained : \E s \in training : s.agent = a /\ s.module = m /\ Completes(s)}
      begun(m) == {a \in trained : \E s \in training : s.agent = a /\ s.module = m}
  IN  [total |-> Cardinality(Kept),
       by_state |-> StateCounts(Kept),
       activation |-> CountedRate(StateCounts(Kept)),
       reactivations |-> Cardinality({s \in Stored("lifecycle", Month) : Reactivates(s)}),
       managers |-> [m \in Managers |-> [total |-> Cardinality(Of(m)), rate |-> ActivationRate(Of(m))]],
       training |-> [m \in {s.module : s \in training} |-> Rate(Cardinality(done(m)), Cardinality(begun(m)))]]

Nudges(type, m) == {s \in Since(type, Month) : s.adm = m}

\* get_adm_performance, with its own classification.
Performance(m) ==
  LET received == Cardinality(Nudges("nudge_received", m))
      activation == ActivationRate(Of(m))
      response == Rate(Cardinality(Nudges("nudge_acted", m)), received)
  IN  [total |-> Cardinality(Of(m)), rate |-> activation,
       reactivations |-> Cardinality({s \in Since("lifecycle", Quarter) : Reactivates(s) /\ s.agent \in Of(m)}),
       class |-> IF Below(response, Unresponsive) /\ received > 0 THEN "UNRESPONSIVE"
                 ELSE IF Above(activation, High) /\ Above(response, Responsive) THEN "HIGH_PERFORMER"
                 ELSE IF ~Below(activation, Low) THEN "AVERAGE" ELSE "STRUGGLING"]

\* Faulty variant: the responsive managers are taken before the unresponsive are sorted out.
ClassifyAdmHighFirst(activation, response) ==
  IF Above(activation, High) THEN "HIGH_PERFORMER"
  ELSE IF response < Unresponsive THEN "UNRESPONSIVE"
  ELSE IF ~Below(activation, Low) THEN "AVERAGE"
  ELSE IF response > Supported THEN "STRUGGLING" ELSE "AVERAGE"

\* _classify_adm, the response in parts.
ClassifyAdm(activation, response) ==
  IF response < Unresponsive THEN "UNRESPONSIVE"
  ELSE IF Above(activation, High) /\ response > Responsive THEN "HIGH_PERFORMER"
  ELSE IF ~Below(activation, Low) THEN "AVERAGE"
  ELSE IF response > Supported THEN "STRUGGLING" ELSE "AVERAGE"

\* compute_adm_effectiveness: the rate is over all agents, nudges count for who has agents, and
\* the response is rounded before it is classified.
Effectiveness(m) ==
  LET activation == Rate(Cardinality(In(Of(m), Activated)), Cardinality(Of(m)))
      received == Cardinality(Nudges("nudge_received", m))
      response == IF Of(m) = {} \/ received = 0 THEN 0
                  ELSE Rounded(<<Cardinality(Nudges("nudge_acted", m)), received>>)
  IN  [response |-> response, activation |-> activation, class |-> ClassifyAdm(activation, response)]

\* Faulty variant: counted over the month of the other figures.
ManagerReactivationsMonth(m) ==
  Cardinality({s \in Since("lifecycle", Month) : s.agent \in Of(m) /\ s.prev = "dormant" /\ s.next \notin {"dormant", None}})
\* The reactivations on a manager's own page; SQL compares no missing state.
ManagerReactivations(m) ==
  Cardinality({s \in Since("lifecycle", Quarter) : s.agent \in Of(m) /\ s.prev = "dormant" /\ s.next \notin {"dormant", None}})

\* get_system_roi: the agents whose premium counts.
RoiReactivated ==
  {s.agent : s \in {t \in Since("lifecycle", Month) :
                      t.prev = "dormant" /\ t.next \in {"active", "first_sale"} /\ t.agent # None}}
-----------------------------------------------------------------------------
(* Briefings, the task's and the requested ones, and the week. *)

\* The agents of a set, in the order of the query.
InOrder(order, set) ==
  LET upto[i \in 0..Len(order)] ==
        IF i = 0 THEN <<>>
        ELSE IF order[i] \in set THEN Append(upto[i - 1], order[i]) ELSE upto[i - 1]
  IN  upto[Len(order)]

ExpiresWithin(a, days) == agents[a].expiry # None /\ (agents[a].expiry - now) \div DayLength \in 1..days
Expiring(a) == ExpiresWithin(a, 45)
Warm(a) == agents[a].state = "dormant" /\ agents[a].positive # None /\ agents[a].positive >= DaysAgo(7)
AtRisk(a) == agents[a].state = "at_risk"
First(s, n) == SubSeq(s, 1, Min({Len(s), n}))

\* Faulty variant: an agent may be listed in two groups.
RequestedPrioritiesTwice(m, order) ==
  First(InOrder(order, {a \in Of(m) : Expiring(a)}) \o InOrder(order, {a \in Of(m) : Warm(a)})
        \o InOrder(order, {a \in Of(m) : AtRisk(a)}), MaxPriority)

\* _select_priorities
RequestedPriorities(m, order) ==
  First(InOrder(order, {a \in Of(m) : Expiring(a)}) \o InOrder(order, {a \in Of(m) : Warm(a) /\ ~Expiring(a)})
        \o InOrder(order, {a \in Of(m) : AtRisk(a) /\ ~Expiring(a)}), MaxPriority)

\* _generate_briefing_sync
TaskPriorities(m, order) ==
  First(InOrder(order, {a \in Of(m) : Expiring(a)}) \o InOrder(order, {a \in Of(m) : AtRisk(a) /\ ~Expiring(a)}),
        MaxPriority)

\* The calendar week before this one.
WeekStart == 0 - weekday * DayLength - 7 * DayLength
WeekEnd == 0 - weekday * DayLength - 1
InWeek(type, m) == {s \in signals : s.type = type /\ s.at \in WeekStart..WeekEnd /\ s.agent \in Of(m)}

\* generate_weekly_summary, the movement of the week.
Movement(m) ==
  [active |-> Cardinality({s \in InWeek("lifecycle", m) : s.next = "active"}),
   at_risk |-> Cardinality({s \in InWeek("lifecycle", m) : s.next = "at_risk"}),
   reengaged |-> Cardinality({s \in InWeek("lifecycle", m) : s.prev = "dormant" /\ s.next # "dormant"})]

\* generate_weekly_summary: a win is a sale or a completed quiz of an own agent; the calls and
\* visits are the manager's, with whichever agent.
RequestedWeek(m) ==
  LET trained == {s \in InWeek("training", m) : s.what = "QUIZ_COMPLETED"}
      visits == {s \in signals : s.type \in {"adm_call", "adm_visit"} /\ s.at \in WeekStart..WeekEnd /\ s.adm = m}
  IN  [wins |-> InWeek("sold", m) \cup trained,
       contacted |-> IF Of(m) = {} THEN 0 ELSE Cardinality(visits),
       assisted |-> Cardinality(InWeek("message", m) \cup InWeek("call_outcome", m)),
       trained |-> Cardinality(trained)]

\* _generate_weekly_sync: without trainings, and the manager's numbers are zeros.
TaskWeek(m) == [wins |-> InWeek("sold", m), contacted |-> 0, assisted |-> 0, trained |-> 0]

\* generate_morning_briefing: the change is the whole tenant's, of seven days up to now.
AtRiskChange == Cardinality({s \in Since("lifecycle", 7) : s.next = "at_risk"})

\* _get_celebrations, before its limit of three rows.
Celebrations(m) == {s \in Since("sold", 3) : s.agent \in Of(m)}

\* _compute_focus_areas: the agents an area is about; the list says so when there is none.
FocusAreas(m) ==
  {area \in {In(Of(m), {"at_risk"}), {a \in Of(m) : Warm(a)},
            {a \in Of(m) : ExpiresWithin(a, 60)}} : area # {}}
-----------------------------------------------------------------------------
CloseTo(m, n, bound) == m <= n + bound /\ n <= m + bound

\* A stage of the stored funnel and of the page differ by no more agents than have signals in
\* one window only; with the same signals in both, the channels and playbooks agree too, but
\* for the playbooks of agents nobody reached (reports.py, get_reactivation_funnel).
FunnelsMatch ==
  LET stored == StoredFunnel
      live == LiveFunnel
      edge == (StoredWindow \ LiveWindow) \cup (LiveWindow \ StoredWindow)
  IN  /\ \A x \in Stages : CloseTo(stored.total[x], live.total[x], Cardinality({s.agent : s \in edge}))
      /\ edge = {} =>
           /\ stored.by_channel = live.by_channel
           /\ \A p \in DOMAIN stored.by_playbook :
                IF p \in DOMAIN live.by_playbook THEN stored.by_playbook[p] = live.by_playbook[p]
                ELSE stored.by_playbook[p].contacted = 0 /\ stored.by_playbook[p].engaged = 0

\* The dormancy report says what the page says, its trend if the month before holds the same.
DormancyMatches ==
  LET live == LiveDormancy(None)
  IN  /\ StoredDormancy.reasons = live.reasons /\ StoredDormancy.regions = live.regions
      /\ StoredBefore = LiveBefore => StoredDormancy.trend = live.trend

\* The snapshot has the counts and rates of the dashboard and the ranking.  Its reactivations
\* are those of the dashboard and of the hours between, and its modules those of the page
\* and what only these hours of three months ago tell of.
SnapshotMatches ==
  LET between(type, days) == Stored(type, days) \ Since(type, days)
      modules == {s.module : s \in {t \in between("training", Quarter) : t.agent # None}}
  IN  /\ \A x \in {"total", "by_state", "activation"} : Snapshot[x] = Dashboard(None)[x]
      /\ Snapshot.reactivations = Dashboard(None).reactivations
                                   + Cardinality({s \in between("lifecycle", Month) : Reactivates(s)})
      /\ \A m \in Managers : /\ Snapshot.managers[m].total = Performance(m).total
                             /\ Snapshot.managers[m].rate = Performance(m).rate
      /\ DOMAIN Snapshot.training = DOMAIN LiveTraining \cup modules
      /\ \A u \in DOMAIN LiveTraining \ modules : Snapshot.training[u] = LiveTraining[u]

\* The reports the tasks store for a day say what the pages show on it of the same data, but for
\* what the signals between the edges of their windows account for (reports.py,
\* analytics/service.py).
StoredIsLive == FunnelsMatch /\ DormancyMatches /\ SnapshotMatches

\* The ranking and the manager's own page put a manager in the same class when it was nudged and
\* no agent of it has left, but in three cases: low activation with a response from the
\* threshold for unresponsive to that for struggling, and a response that is below the first
\* or above that for a high performer by less than the rounding on the manager's page
\* (compute_adm_effectiveness, _classify_adm, get_adm_performance).
ClassesAgree ==
  \A m \in Managers :
    LET own == Effectiveness(m)
        ranked == Performance(m).class
    IN  Of(m) # {} /\ In(Of(m), Excluded) = {} /\ Nudges("nudge_received", m) # {} =>
          IF \/ own.response = Unresponsive /\ ranked = "UNRESPONSIVE"
             \/ own.response = Responsive /\ ranked = "HIGH_PERFORMER"
          THEN own.class = "AVERAGE"
          ELSE IF Below(own.activation, Low) /\ own.response \in Unresponsive..Supported
          THEN own.class = "AVERAGE" /\ ranked = "STRUGGLING"
          ELSE own.class = ranked

\* The five figures for reactivations stand in the order of their definitions: agents on the ROI
\* page, signals on the dashboard, of which those of an agent are put down to a channel,
\* signals of kept agents in the ranking, and any move out of dormancy on a manager's own
\* page; its week counts besides those that do not say where to (get_system_roi,
\* get_dashboard, get_adm_performance, compute_adm_effectiveness, generate_weekly_summary).
ReactivationsRelate ==
  LET d == Dashboard(None)
      ranked == [m \in Managers |-> Performance(m).reactivations]
      unsaid(m) == {s \in InWeek("lifecycle", m) : s.prev = "dormant" /\ s.next = None}
  IN  /\ Cardinality(RoiReactivated) <= Summed(d.by_intervention, DOMAIN d.by_intervention)
      /\ Summed(d.by_intervention, DOMAIN d.by_intervention) <= d.reactivations
      /\ Summed(ranked, Managers) <= Cardinality({s \in Since("lifecycle", Quarter) : Reactivates(s)})
      /\ \A m \in Managers :
           /\ ranked[m] <= ManagerReactivations(m)
           /\ Movement(m).reengaged <= ManagerReactivations(m) + Cardinality(unsaid(m))

\* How urgent an agent is for a list.
Urgency(a) == IF Expiring(a) THEN 1 ELSE IF Warm(a) THEN 2 ELSE IF AtRisk(a) THEN 3 ELSE 4

\* In whatever orders the two queries return the agents: no agent is listed twice or without a
\* focus area; the requested list goes by urgency, and who qualifies and is left out is no more
\* urgent than anyone on it, and it is full; the task's list has as many agents with an expiring
\* license, and no fewer at risk (_select_priorities, _compute_focus_areas,
\* _generate_briefing_sync).
ListsMatch(m) ==
  \A order, other \in Orders :
    LET requested == RequestedPriorities(m, order)
        task == TaskPriorities(m, other)
        expiring == {a \in Of(m) : Expiring(a)}
        endangered == {a \in Of(m) : AtRisk(a) /\ ~Expiring(a)}
    IN  /\ \A s \in {requested, task} :
             Cardinality(Range(s)) = Len(s) /\ Len(s) <= MaxPriority /\ Range(s) \subseteq UNION FocusAreas(m)
        /\ \A i, j \in DOMAIN requested : i < j => Urgency(requested[i]) <= Urgency(requested[j])
        /\ \A a \in Of(m) \ Range(requested) : Urgency(a) < 4 =>
             Len(requested) = MaxPriority /\ \A b \in Range(requested) : Urgency(b) <= Urgency(a)
        /\ Cardinality(Range(requested) \cap expiring) = Cardinality(Range(task) \cap expiring)
        /\ Cardinality(Range(requested) \cap endangered) <= Cardinality(Range(task) \cap endangered)

\* The task's briefing and week are abridged versions of those a manager asks for: its list is short
\* of opportunities only, and its wins of the completed quizzes.  A celebration is a
\* win of the week unless it is of this one or later.  The managers' newly at-risk agents of the
\* week exceed the change each of them is shown by no more than the week's moves of more
\* than seven days ago (generate_morning_briefing, generate_weekly_summary and the task's
\* versions).
TaskIsAbridged ==
  /\ \A m \in Managers :
       LET week == RequestedWeek(m)
       IN  /\ ListsMatch(m)
           /\ Cardinality(week.wins) = Cardinality(TaskWeek(m).wins) + week.trained
           /\ \A s \in Celebrations(m) : s \in week.wins \/ s.at > WeekEnd
  /\ Summed([m \in Managers |-> Movement(m).at_risk], Managers)
       <= AtRiskChange + Cardinality({s \in signals : s.type = "lifecycle" /\ s.next = "at_risk"
                                                     /\ s.at >= WeekStart /\ s.at < DaysAgo(7)})
=============================================================================
