-------------------------- MODULE DecisionExecution --------------------------
(***************************************************************************)
(* Decisions about agents.  A daily batch looks at every agent, tenant by  *)
(* tenant, and takes a decision for those whose cadence has passed; a      *)
(* request may have one agent evaluated at once; a task that beat starts   *)
(* every minute executes the decisions whose time has come.                *)
(*                                                                         *)
(* The asynchronous batch and executor of modules/decision/engine.py have  *)
(* no caller outside the tests; the tasks modelled here repeat them.  Of   *)
(* the executor's effects only the alert to the manager leaves the row.    *)
(***************************************************************************)
EXTENDS DecisionRules, FiniteSets

CONSTANTS
  Agents, Tenants,
  TenantOf,      \* the tenant of each agent
  AgentFacts,    \* what may be known of an agent
  Initially,     \* and what may be known of each at first
  Moments,       \* bound: the times at which things happen
  Executors,     \* executor tasks that may run at the same time
  Requests,      \* requests for an evaluation in flight
  Limit,         \* the executor's LIMIT
  MaxDecisions,  \* bound on decisions
  MaxChanges,    \* bound on changes of an agent from outside
  MaxFaults      \* bound on failures

Ids == 1 .. MaxDecisions   \* decisions, by their place in the log
Sessions == Executors \cup Requests
Row == [agent : Agents, adm : BOOLEAN, rule : Rules, action : Actions, channel : Channels \cup {None},
        created : Moments, scheduled : Int, executed : BOOLEAN]

ASSUME ConstantsAssumption ==
  /\ TenantOf \in [Agents -> Tenants]
  /\ Moments \subseteq Nat /\ IsFiniteSet(Moments) /\ Moments # {}
  /\ AgentFacts \subseteq Facts(Int) /\ Initially \subseteq [Agents -> AgentFacts]
  /\ None \notin Tenants
  /\ Limit \in Nat \ {0} /\ {MaxDecisions, MaxChanges, MaxFaults} \subseteq Nat
  /\ Executors \cap Requests = {} /\ IsFiniteSet(Requests)

VARIABLES
  clock,
  agents,     \* what is known of the agents
  decisions,  \* decision_logs, in commit order
  alerts,     \* DECISION_ENGINE alerts in adm_alerts, per decision
  batch,      \* the batch's session
  tx,         \* the sessions of executors and requests
  changes, faults,
  byBatch,    \* history: the decisions the batch took
  passed      \* history: days a batch passed an agent over since its last decision

dbVars == <<decisions, alerts, byBatch, passed>>
vars == <<clock, agents, dbVars, batch, tx, changes, faults>>

NoBatch ==
  [todo   |-> {},       \* tenants it has not begun
   tenant |-> None,     \* the tenant it is at, if any,
   now    |-> 0,        \* when it began it,
   read   |-> None,     \* the agents as it loaded them then,
   left   |-> {},       \* the ones it has not looked at
   made   |-> <<>>]     \* and the decisions it took
Asked == [NoBatch EXCEPT !.todo = Tenants]   \* beat or the broker asks for it
NoTx == [ids  |-> {},   \* the rows an executor fetched
         made |-> <<>>] \* the decision of a request

Init ==
  /\ clock \in Moments /\ \A m \in Moments : clock <= m
  /\ agents \in Initially
  /\ decisions = <<>>
  /\ alerts = [i \in Ids |-> 0]
  /\ batch = Asked
  /\ tx = [s \in Sessions |-> NoTx]
  /\ changes = 0 /\ faults = 0
  /\ byBatch = {}
  /\ passed = [a \in Agents |-> {}]
-----------------------------------------------------------------------------
Today == clock \div Day
Of(a) == {i \in DOMAIN decisions : decisions[i].agent = a}

\* Faulty variant: a time is only set when the decision is put off.
NewRowUnscheduled(a, f, read) ==
  LET d == Decide(f, read, clock) IN
  [agent |-> a, adm |-> f.adm, rule |-> d.rule, action |-> d.action, channel |-> d.channel,
   created |-> clock, scheduled |-> IF d.scheduled = clock THEN None ELSE d.scheduled,
   executed |-> FALSE]

NewRow(a, f, read) ==
  LET d == Decide(f, read, clock) IN
  [agent |-> a, adm |-> f.adm, rule |-> d.rule, action |-> d.action, channel |-> d.channel,
   created |-> clock, scheduled |-> d.scheduled, executed |-> FALSE]

\* The bound is not reached, the decisions under way included.
Answering == {r \in Requests : tx[r].made # <<>>}
Room == Len(decisions) + Len(batch.made) + Cardinality(Answering) < MaxDecisions

AgentsIn(made) == {made[k].agent : k \in DOMAIN made}
-----------------------------------------------------------------------------
(* decision_engine_batch                                                   *)

Cadence(state) ==
  CASE state \in {"onboarded", "at_risk"} -> 1
    [] state = "licensed" -> 2
    [] state = "first_sale" -> 3
    [] state = "productive" -> 14
    [] OTHER -> 7

\* The agents of a tenant are loaded, all at once.
BeginTenant(t) ==
  /\ batch.tenant = None /\ t \in batch.todo
  /\ batch' = [todo |-> batch.todo \ {t}, tenant |-> t, now |-> clock, read |-> agents,
               left |-> {a \in Agents : TenantOf[a] = t}, made |-> <<>>]
  /\ UNCHANGED <<clock, agents, dbVars, tx, changes, faults>>

\* Faulty variant: the days between are rounded down once more.
WithinCadenceInclusive(a, state) ==
  \E i \in Of(a) : Days(decisions[i].created, batch.now) <= Cadence(state)

\* Faulty variant: calendar days are compared.
WithinCadenceByDate(a, state) ==
  \E i \in Of(a) : batch.now \div Day - decisions[i].created \div Day < Cadence(state)

\* The last decision, of whatever origin, is less than the cadence ago.
WithinCadence(a, state) ==
  \E i \in Of(a) : Days(decisions[i].created, batch.now) < Cadence(state)

PassOver(a) ==
  LET state == batch.read[a].state IN
  /\ a \in batch.left
  /\ state \in {"lapsed", "terminated"} \/ WithinCadence(a, state)
  /\ batch' = [batch EXCEPT !.left = @ \ {a}]
  /\ UNCHANGED <<clock, agents, dbVars, tx, changes, faults>>

Evaluate(a) ==
  LET f == batch.read[a] IN
  /\ a \in batch.left
  /\ f.state \notin {"lapsed", "terminated"} /\ ~WithinCadence(a, f.state)
  /\ Room
  /\ batch' = [batch EXCEPT !.left = @ \ {a}, !.made = Append(@, NewRow(a, f, batch.now))]
  /\ UNCHANGED <<clock, agents, dbVars, tx, changes, faults>>

\* The tenant's agents in a cadence that no decision of the day is about.
PassedOver ==
  {a \in Agents \ AgentsIn(batch.made) :
     /\ TenantOf[a] = batch.tenant /\ batch.read[a].state \notin {"lapsed", "terminated"}
     /\ \A i \in Of(a) : decisions[i].created \div Day < Today}

CommitTenant ==
  /\ batch.tenant # None /\ batch.left = {}
  /\ decisions' = decisions \o batch.made
  /\ byBatch' = byBatch \cup {Len(decisions) + k : k \in DOMAIN batch.made}
  /\ passed' = [a \in Agents |-> IF a \in AgentsIn(batch.made) THEN {}
                                 ELSE IF a \in PassedOver THEN passed[a] \cup {Today}
                                 ELSE passed[a]]
  /\ batch' = [NoBatch EXCEPT !.todo = batch.todo]
  /\ UNCHANGED <<clock, agents, alerts, tx, changes, faults>>

\* A database error; the columns hold nothing else that an evaluation fails on.  It is caught for
\* each agent, but the transaction is lost, for the agents before and after it; the loop goes
\* to the next tenant.
TenantFails ==
  /\ batch.tenant # None /\ faults < MaxFaults
  /\ faults' = faults + 1
  /\ batch' = [NoBatch EXCEPT !.todo = batch.todo]
  /\ UNCHANGED <<clock, agents, dbVars, tx, changes>>

\* The worker dies; tasks are acknowledged late, the broker delivers it again.
CrashBatch ==
  /\ batch # NoBatch /\ faults < MaxFaults
  /\ faults' = faults + 1
  /\ batch' = Asked
  /\ UNCHANGED <<clock, agents, dbVars, tx, changes>>
-----------------------------------------------------------------------------
(* evaluate_agent, from its route or from the fast path of a signal.       *)

EvaluateNow(r, a) ==
  /\ tx[r].made = <<>> /\ Room
  /\ tx' = [tx EXCEPT ![r].made = <<NewRow(a, agents[a], clock)>>]
  /\ UNCHANGED <<clock, agents, dbVars, batch, changes, faults>>

CommitEvaluation(r) ==
  /\ tx[r].made # <<>>
  /\ decisions' = decisions \o tx[r].made
  /\ passed' = [a \in Agents |-> IF a \in AgentsIn(tx[r].made) THEN {} ELSE passed[a]]
  /\ tx' = [tx EXCEPT ![r] = NoTx]
  /\ UNCHANGED <<clock, agents, alerts, byBatch, batch, changes, faults>>
-----------------------------------------------------------------------------
(* execute_pending_decisions                                               *)

\* Faulty variant: executed decisions are not left out.
DueWhateverExecuted(i) ==
  decisions[i].scheduled <= clock /\ decisions[i].action # "do_nothing"

\* Faulty variant: a decision must be for exactly this time.
DueOnTheDot(i) ==
  /\ ~decisions[i].executed
  /\ decisions[i].scheduled = clock /\ decisions[i].action # "do_nothing"

Due(i) ==
  /\ ~decisions[i].executed
  /\ decisions[i].scheduled <= clock /\ decisions[i].action # "do_nothing"

DueIds == {i \in DOMAIN decisions : Due(i)}

\* The oldest ones, up to the limit.
FetchDue(w) ==
  /\ tx[w].ids = {} /\ DueIds # {}
  /\ \E ids \in SUBSET DueIds :
       /\ Cardinality(ids) = Limit \/ (ids = DueIds /\ Cardinality(ids) < Limit)
       /\ \A i \in ids, j \in DueIds \ ids : decisions[i].scheduled <= decisions[j].scheduled
       /\ tx' = [tx EXCEPT ![w].ids = ids]
  /\ UNCHANGED <<clock, agents, dbVars, batch, changes, faults>>

Alerts(i) == decisions[i].action = "send_nudge_to_adm" /\ decisions[i].adm

\* Every fetched decision is executed; one commit for all.
CommitExecution(w) ==
  LET ids == tx[w].ids IN
  /\ ids # {}
  /\ decisions' = [i \in DOMAIN decisions |->
       IF i \in ids THEN [decisions[i] EXCEPT !.executed = TRUE] ELSE decisions[i]]
  /\ alerts' = [i \in Ids |-> IF i \in ids /\ Alerts(i) THEN alerts[i] + 1 ELSE alerts[i]]
  /\ tx' = [tx EXCEPT ![w] = NoTx]
  /\ UNCHANGED <<clock, agents, byBatch, passed, batch, changes, faults>>

\* A request or an executor dies before its commit, or fails.  An alert that
\* cannot be inserted is one way: its error is caught, and the session can
\* not commit any more.
Abort(s) ==
  /\ tx[s] # NoTx /\ faults < MaxFaults
  /\ faults' = faults + 1
  /\ tx' = [tx EXCEPT ![s] = NoTx]
  /\ UNCHANGED <<clock, agents, dbVars, batch, changes>>
-----------------------------------------------------------------------------
\* Signals and edits change what is known of an agent.
AgentChanges(a, f) ==
  /\ f # agents[a] /\ changes < MaxChanges
  /\ changes' = changes + 1
  /\ agents' = [agents EXCEPT ![a] = f]
  /\ passed' = [passed EXCEPT ![a] = {}]
  /\ UNCHANGED <<clock, decisions, alerts, byBatch, batch, tx, faults>>

\* Time passes, by more than a request or an execution takes.  Beat asks for
\* the batch once a day, and it ends that day.
Tick ==
  /\ \A s \in Sessions : tx[s] = NoTx
  /\ \E m \in Moments :
       /\ m > clock /\ \A k \in Moments : k > clock => m <= k
       /\ m \div Day > Today => batch = NoBatch
       /\ clock' = m
       /\ batch' = IF m \div Day > Today THEN Asked ELSE batch
  /\ UNCHANGED <<agents, dbVars, tx, changes, faults>>

Next ==
  \/ \E t \in Tenants : BeginTenant(t)
  \/ \E a \in Agents : PassOver(a) \/ Evaluate(a)
  \/ CommitTenant \/ TenantFails \/ CrashBatch
  \/ \E r \in Requests : (\E a \in Agents : EvaluateNow(r, a)) \/ CommitEvaluation(r)
  \/ \E w \in Executors : FetchDue(w) \/ CommitExecution(w)
  \/ \E s \in Sessions : Abort(s)
  \/ \E a \in Agents, f \in AgentFacts : AgentChanges(a, f)
  \/ Tick

Spec == Init /\ [][Next]_vars

\* Beat starts an executor every minute, and one that runs ends.
FairSpec ==
  /\ Spec
  /\ \A w \in Executors : WF_vars(FetchDue(w)) /\ WF_vars(CommitExecution(w))
-----------------------------------------------------------------------------
(* Properties.                                                             *)

\* Rows, copies and times are of their types.
TypeOK ==
  /\ clock \in Moments
  /\ agents \in [Agents -> AgentFacts]
  /\ decisions \in Seq(Row)
  /\ alerts \in [Ids -> Nat]
  /\ batch \in [todo : SUBSET Tenants, tenant : Tenants \cup {None}, now : Moments \cup {0},
                read : [Agents -> AgentFacts] \cup {None}, left : SUBSET Agents, made : Seq(Row)]
  /\ tx \in [Sessions -> [ids : SUBSET DOMAIN decisions, made : Seq(Row)]]
  /\ Len(decisions) <= MaxDecisions
  /\ changes \in 0 .. MaxChanges /\ faults \in 0 .. MaxFaults
  /\ byBatch \subseteq DOMAIN decisions
  /\ passed \in [Agents -> SUBSET Nat]

\* With one executor at a time a nudge that was executed has alerted its
\* manager once, and nothing else has: whatever batches of executions failed
\* or died on the way.
AlertedOnce ==
  \A i \in Ids :
    alerts[i] = IF i \in DOMAIN decisions /\ decisions[i].executed /\ Alerts(i) THEN 1 ELSE 0

\* A batch run again after a crash, or late one day and early the next, takes
\* no two decisions about an agent within a day of each other.
BatchSpacing ==
  \A i, j \in byBatch :
    i # j /\ decisions[i].agent = decisions[j].agent =>
      \/ decisions[i].created - decisions[j].created >= Day
      \/ decisions[j].created - decisions[i].created >= Day

\* The batch passes an agent over on at most as many days as its cadence
\* says, although decisions are made later than the time they are measured
\* against, and other decisions come in between.
SkipBound == \A a \in Agents : Cardinality(passed[a]) <= Cadence(agents[a].state)

\* A call is scheduled at the first time from its decision on that lies
\* within the calling hours.
CallsInHours ==
  \A i \in DOMAIN decisions :
    decisions[i].channel = "voice_ai" =>
      LET d == decisions[i] IN
      /\ InHours(d.scheduled) /\ d.created <= d.scheduled
      /\ \A t \in d.created .. d.scheduled - 1 : ~InHours(t)

\* A decision whose time has come is executed, in spite of failures, other
\* decisions ahead of it and the limit.
DueAreExecuted ==
  \A i \in Ids : i \in DueIds ~> (i \in DOMAIN decisions /\ decisions[i].executed)

\* The documented cadence: agents that are onboarded or at risk are looked
\* at every day.
DailyMeansDaily ==
  \A a \in Agents : agents[a].state \in {"onboarded", "at_risk"} => passed[a] = {}
=============================================================================
