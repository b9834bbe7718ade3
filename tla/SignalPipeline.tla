--------------------------- MODULE SignalPipeline ---------------------------
(***************************************************************************)
(* Dual-path signal processing.  API requests emit a signal and process it *)
(* in the same transaction (fast path); webhooks and imports only store    *)
(* it, and Celery workers process what is stored (slow path).  Requests    *)
(* and workers are database sessions: they load an agent row once, change  *)
(* their copy, and write the changed columns back when they commit, with   *)
(* no row locked between the load and the write (READ COMMITTED).          *)
(*                                                                         *)
(* Row locks taken by the UPDATEs of an uncommitted session only delay     *)
(* other sessions, so the model has every interleaving the code has.       *)
(***************************************************************************)
EXTENDS AgentLifecycle, FiniteSets, Sequences

CONSTANTS
  Agents,         \* agent rows
  Workers,        \* slow-path tasks that may run at the same time
  Requests,       \* fast-path requests that may run at the same time
  Kinds,          \* the signal kinds the environment emits
  WithAdm,        \* agents with an assigned_adm_id
  Engaged,        \* agents with engagement_score > 60
  CreatedAs,      \* life-cycle states agents are created in
  MaxSignals,     \* bound on emitted signals
  BatchLimit,     \* LIMIT of the slow path's SELECT
  MaxFaults,      \* bound on failures of the slow path
  RlsEnforced,    \* row-level security applies to the application's database user
  None            \* an absent row

NudgeKind == Kind("adm_nudge_received", "none")
NoEntries == <<>>
Ids == 1 .. MaxSignals
Sessions == Workers \cup Requests

AgentRow == [state : AgentStates, total : Nat, reason : BOOLEAN]
SignalRow == [agent : Agents, kind : SignalKinds, processed : BOOLEAN]

ASSUME ConstantsAssumption ==
  /\ WithAdm \subseteq Agents /\ Engaged \subseteq Agents
  /\ Kinds \subseteq SignalKinds /\ CreatedAs \subseteq AgentStates
  /\ MaxSignals \in Nat /\ BatchLimit \in Nat \ {0} /\ MaxFaults \in Nat
  /\ RlsEnforced \in BOOLEAN
  /\ Workers \cap Requests = {}
  /\ None \notin AgentRow \cup SignalRow

VARIABLES
  agents,      \* committed agent rows
  signals,     \* committed signal rows, numbered in created_at order; None if absent
  audit,       \* per agent, its committed lifecycle_state_changed signals
  alerts,      \* committed adm_alerts rows
  decisions,   \* per agent, the number of committed decision_logs rows
  nextId,      \* the first signal number nobody has taken
  tx,          \* the sessions
  faults,      \* failures so far
  overwritten  \* history: agents some session wrote from a copy no longer current

dbVars == <<agents, signals, audit, alerts, decisions, overwritten>>
vars == <<dbVars, nextId, tx, faults>>

\* A session that has no transaction open.
Closed ==
  [open      |-> FALSE,
   todo      |-> {},                               \* fetched signals not handled yet
   refreshed |-> FALSE,                            \* a rollback expired the fetched rows
   rows      |-> [a \in Agents |-> None],          \* agent rows loaded, with changes
   audit     |-> [a \in Agents |-> NoEntries],     \* audit signals to insert
   writes    |-> [i \in Ids |-> None],             \* signal rows to insert or update
   alerts    |-> {},                               \* alert rows to insert
   decided   |-> {},                               \* agents with a decision row to insert
   stale     |-> {}]                               \* history: loaded rows overwritten since

Init ==
  /\ \E created \in [Agents -> CreatedAs] :
       agents = [a \in Agents |-> [state |-> created[a], total |-> 0,
                                   reason |-> created[a] = "dormant"]]
  /\ signals = [i \in Ids |-> None]
  /\ audit = [a \in Agents |-> NoEntries]
  /\ alerts = {}
  /\ decisions = [a \in Agents |-> 0]
  /\ nextId = 1
  /\ tx = [s \in Sessions |-> Closed]
  /\ faults = 0
  /\ overwritten = {}
-----------------------------------------------------------------------------
(* What a session does to its own copies.                                  *)

\* SELECT of the agent: the identity map keeps the copy loaded first.
Load(t, a) == IF t.rows[a] = None THEN [t EXCEPT !.rows[a] = agents[a]] ELSE t

\* Faulty variant: every signal of a batch starts from the committed row.
UnderstandFromCommitted(t, a, k, i) ==
  LET row   == agents[a]
      total == IF k.type = "policy_sold" THEN row.total + 1 ELSE row.total
      new   == ComputeTransition(row.state, k, total, a \in Engaged)
  IN  IF new = NoChange
      THEN [t EXCEPT !.rows[a].total = total]
      ELSE [t EXCEPT
              !.rows[a] = [state |-> new, total |-> total,
                           reason |-> row.reason /\ row.state # "dormant"],
              !.audit[a] = Append(@, [from |-> row.state, to |-> new, trigger |-> i])]

\* The same changes on both paths: count a sale, then look for a transition.
Understand(t, a, k, i) ==
  LET row   == t.rows[a]
      total == IF k.type = "policy_sold" THEN row.total + 1 ELSE row.total
      new   == ComputeTransition(row.state, k, total, a \in Engaged)
  IN  IF new = NoChange
      THEN [t EXCEPT !.rows[a].total = total]
      ELSE [t EXCEPT
              !.rows[a] = [state |-> new, total |-> total,
                           reason |-> row.reason /\ row.state # "dormant"],
              !.audit[a] = Append(@, [from |-> row.state, to |-> new, trigger |-> i])]

MarkProcessed(row) == [row EXCEPT !.processed = TRUE]

\* The row says that a sale of agent a has been processed.
CountsFor(row, a) ==
  row # None /\ row.agent = a /\ row.kind.type = "policy_sold" /\ row.processed

\* Sales handled in this session: they made the counter columns dirty.
OwnSales(t, a) == {i \in Ids : CountsFor(t.writes[i], a)}

LeftDormancy(t, a) == \E n \in DOMAIN t.audit[a] : t.audit[a][n].from = "dormant"

Touched(t) == {a \in Agents : t.rows[a] # None /\ (OwnSales(t, a) # {} \/ t.audit[a] # NoEntries)}

\* UPDATE agents: only the columns the session changed.
FlushedRow(t, a) ==
  IF a \notin Touched(t) THEN agents[a]
  ELSE [state  |-> IF t.audit[a] = NoEntries THEN agents[a].state ELSE t.rows[a].state,
        total  |-> IF OwnSales(t, a) = {} THEN agents[a].total ELSE t.rows[a].total,
        reason |-> agents[a].reason /\ ~LeftDormancy(t, a)]

\* COMMIT of session s.
Commit(s) ==
  LET t == tx[s] IN
  /\ agents' = [a \in Agents |-> FlushedRow(t, a)]
  /\ signals' = [i \in Ids |-> IF t.writes[i] # None THEN t.writes[i] ELSE signals[i]]
  /\ audit' = [a \in Agents |-> audit[a] \o t.audit[a]]
  /\ alerts' = alerts \cup t.alerts
  /\ decisions' = [a \in Agents |-> decisions[a] + (IF a \in t.decided THEN 1 ELSE 0)]
  /\ overwritten' = overwritten \cup (t.stale \cap Touched(t))
  /\ tx' = [x \in Sessions |->
              IF x = s THEN Closed
              ELSE [tx[x] EXCEPT !.stale =
                      @ \cup {a \in Touched(t) : tx[x].rows[a] # None}]]
-----------------------------------------------------------------------------
(* Producers that only store the signal: webhooks, uploads, executors.     *)

EmitSignal(a, k) ==
  /\ nextId \in Ids
  /\ signals' = [signals EXCEPT ![nextId] = [agent |-> a, kind |-> k, processed |-> FALSE]]
  /\ nextId' = nextId + 1
  /\ UNCHANGED <<agents, audit, alerts, decisions, overwritten, tx, faults>>
-----------------------------------------------------------------------------
(* Fast path: POST /signals.                                               *)

\* The alert a signal raises for the agent's ADM, from the state before the
\* transition; None if it raises none.
AlertFor(a, k, state) ==
  CASE a \notin WithAdm -> None
    [] a \in WithAdm /\ state = "dormant" /\ k.type = "whatsapp_agent_replied" ->
         "REENGAGEMENT_SIGNAL"
    [] a \in WithAdm /\ state = "dormant" /\ k = Kind("voice_call_outcome", "answered") ->
         "REENGAGEMENT_SIGNAL"
    [] a \in WithAdm /\ k = Kind("whatsapp_training_interaction", "QUIZ_COMPLETED") ->
         "TRAINING_COMPLETED"
    [] a \in WithAdm /\ k = Kind("consent_changed", "revoked") -> "OPTED_OUT"
    [] a \in WithAdm /\ k = Kind("license_status_changed", "EXPIRING_SOON") ->
         "LICENSE_EXPIRING"
    [] OTHER -> None

EvaluatedAtOnce(k, state) ==
  \/ k.type = "policy_sold"
  \/ k = Kind("consent_changed", "revoked")
  \/ state = "dormant" /\ k.type = "whatsapp_agent_replied"
  \/ state = "dormant" /\ k = Kind("voice_call_outcome", "answered")

\* Faulty variant: the nudge is not emitted.
WithAlertNoNudge(t, a, type, n) ==
  [t EXCEPT !.alerts = {[agent |-> a, type |-> type, nudge |-> n]}]

\* create_alert: the alert row and, as signal n, its nudge, still unprocessed.
WithAlert(t, a, type, n) ==
  [t EXCEPT !.alerts = {[agent |-> a, type |-> type, nudge |-> n]},
            !.writes[n] = [agent |-> a, kind |-> NudgeKind, processed |-> FALSE]]

\* emit_signal and process_signal, up to the commit.  An evaluation that
\* fails is logged and dropped (`evaluated` is FALSE).
PostSignal(r, a, k, evaluated) ==
  LET state == agents[a].state
      alert == AlertFor(a, k, state)
      last  == IF alert = None THEN nextId ELSE nextId + 1
      row   == [agent |-> a, kind |-> k, processed |-> FALSE]
      t     == [Understand(Load(Closed, a), a, k, nextId) EXCEPT
                  !.open = TRUE,
                  !.writes[nextId] = MarkProcessed(row),
                  !.decided = IF evaluated THEN {a} ELSE {}]
  IN /\ ~tx[r].open
     /\ last \in Ids
     /\ evaluated => EvaluatedAtOnce(k, state)
     /\ tx' = [tx EXCEPT ![r] = IF alert = None THEN t ELSE WithAlert(t, a, alert, last)]
     /\ nextId' = last + 1
     /\ UNCHANGED <<dbVars, faults>>

\* get_db commits after the handler returned.
CommitRequest(r) ==
  /\ tx[r].open
  /\ Commit(r)
  /\ UNCHANGED <<nextId, faults>>

\* Faulty variant: the audit signal was committed by itself before.
AbortRequestKeepingAudit(r) ==
  /\ tx[r].open
  /\ audit' = [a \in Agents |-> audit[a] \o tx[r].audit[a]]
  /\ tx' = [tx EXCEPT ![r] = Closed]
  /\ UNCHANGED <<agents, signals, alerts, decisions, overwritten, nextId, faults>>

\* An exception, or the process dying, before that commit.
AbortRequest(r) ==
  /\ tx[r].open
  /\ tx' = [tx EXCEPT ![r] = Closed]
  /\ UNCHANGED <<dbVars, nextId, faults>>
-----------------------------------------------------------------------------
(* Slow path: process_pending_signals.                                     *)

\* Faulty variant: processed signals are fetched again.
PendingAnyStored == {i \in Ids : signals[i] # None}

\* Faulty variant: only what arrived since the last poll.
PendingRecent == {i \in Ids : signals[i] # None /\ ~signals[i].processed /\ i + 1 >= nextId}

Pending == {i \in Ids : signals[i] # None /\ ~signals[i].processed}

Oldest(S, n) == {i \in S : Cardinality({j \in S : j < i}) < n}

FetchPending(w) ==
  /\ ~tx[w].open
  /\ Pending # {}
  /\ tx' = [tx EXCEPT ![w] = [Closed EXCEPT !.open = TRUE, !.todo = Oldest(Pending, BatchLimit)]]
  /\ UNCHANGED <<dbVars, nextId, faults>>

NextTodo(w, i) == i \in tx[w].todo /\ \A j \in tx[w].todo : i <= j

\* The agent row is found unless row-level security hides it: the task sets
\* no tenant.
Handle(t, i) ==
  LET a == signals[i].agent
      u == IF RlsEnforced THEN t ELSE Understand(Load(t, a), a, signals[i].kind, i)
  IN  [u EXCEPT !.writes[i] = MarkProcessed(signals[i])]

\* `processed` is the value fetched with the list, read again only after a
\* rollback expired it.
ProcessSignal(w) ==
  \E i \in tx[w].todo :
    LET t == [tx[w] EXCEPT !.todo = @ \ {i}] IN
    /\ NextTodo(w, i)
    /\ tx' = [tx EXCEPT ![w] =
                IF t.refreshed /\ signals[i].processed THEN t ELSE Handle(t, i)]
    /\ UNCHANGED <<dbVars, nextId, faults>>

\* Faulty variant: the signals' flags are reset, the changes they made stay.
SignalFailsKeepingCopies(w) ==
  \E i \in tx[w].todo :
    /\ NextTodo(w, i)
    /\ faults < MaxFaults
    /\ tx' = [tx EXCEPT ![w].todo = @ \ {i}, ![w].writes = Closed.writes]
    /\ faults' = faults + 1
    /\ UNCHANGED <<dbVars, nextId>>

\* The exception handler rolls the whole session back, and goes on with the
\* rest of the list.
SignalFails(w) ==
  \E i \in tx[w].todo :
    /\ NextTodo(w, i)
    /\ faults < MaxFaults
    /\ tx' = [tx EXCEPT ![w] = [Closed EXCEPT !.open = TRUE, !.todo = tx[w].todo \ {i},
                                              !.refreshed = TRUE]]
    /\ faults' = faults + 1
    /\ UNCHANGED <<dbVars, nextId>>

CommitBatch(w) ==
  /\ tx[w].open /\ tx[w].todo = {}
  /\ Commit(w)
  /\ UNCHANGED <<nextId, faults>>

\* The worker dies, or its final commit fails; beat or the redelivery of the
\* unacknowledged task starts it again.
Crash(w) ==
  /\ tx[w].open
  /\ faults < MaxFaults
  /\ tx' = [tx EXCEPT ![w] = Closed]
  /\ faults' = faults + 1
  /\ UNCHANGED <<dbVars, nextId>>
-----------------------------------------------------------------------------
Next ==
  \/ \E a \in Agents, k \in Kinds : EmitSignal(a, k)
  \/ \E r \in Requests, a \in Agents, k \in Kinds, evaluated \in BOOLEAN :
       PostSignal(r, a, k, evaluated)
  \/ \E r \in Requests : CommitRequest(r) \/ AbortRequest(r)
  \/ \E w \in Workers :
       FetchPending(w) \/ ProcessSignal(w) \/ SignalFails(w) \/ CommitBatch(w) \/ Crash(w)

Spec == Init /\ [][Next]_vars

\* Beat starts the task every minute and a started task runs to its end.
Fairness ==
  \A w \in Workers :
    WF_vars(FetchPending(w)) /\ WF_vars(ProcessSignal(w)) /\ WF_vars(CommitBatch(w))

FairSpec == Spec /\ Fairness
-----------------------------------------------------------------------------
(* Properties.                                                             *)

AuditEntry == [from : AgentStates, to : AgentStates, trigger : Ids]
AlertTypes == {"REENGAGEMENT_SIGNAL", "TRAINING_COMPLETED", "OPTED_OUT", "LICENSE_EXPIRING"}
AlertRow == [agent : Agents, type : AlertTypes, nudge : Ids]
Session ==
  [open : BOOLEAN, todo : SUBSET Ids, refreshed : BOOLEAN,
   rows : [Agents -> AgentRow \cup {None}], audit : [Agents -> Seq(AuditEntry)],
   writes : [Ids -> SignalRow \cup {None}], alerts : SUBSET AlertRow,
   decided : SUBSET Agents, stale : SUBSET Agents]

\* Every row and every session copy holds values of the columns' types.
TypeOK ==
  /\ agents \in [Agents -> AgentRow]
  /\ signals \in [Ids -> SignalRow \cup {None}]
  /\ audit \in [Agents -> Seq(AuditEntry)]
  /\ alerts \subseteq AlertRow
  /\ decisions \in [Agents -> Nat]
  /\ nextId \in 1 .. MaxSignals + 1
  /\ tx \in [Sessions -> Session]
  /\ faults \in 0 .. MaxFaults
  /\ overwritten \subseteq Agents

IsProcessed(i) == signals[i] # None /\ signals[i].processed
ProcessedSales(a) == {i \in Ids : CountsFor(signals[i], a)}

\* total_policies_sold never exceeds the processed sales of the agent: with
\* one slow-path worker no rollback, retry or concurrent request makes
\* _process_signal_sync or process_signal count a sale twice.
NoOvercount == \A a \in Agents : agents[a].total <= Cardinality(ProcessedSales(a))

\* The only way to lose a sale is a session that wrote an agent row another
\* session had changed after it was loaded: until that happens to an agent
\* its counter is exactly its processed sales, whatever failed in between.
CountExactUnlessOverwritten ==
  \A a \in Agents \ overwritten : agents[a].total = Cardinality(ProcessedSales(a))

\* The committed state of an agent is the one its last audit signal names:
\* the column and the lifecycle_state_changed signal are written together,
\* even by a session whose copy of the row is stale.
AuditTailIsState ==
  \A a \in Agents :
    audit[a] # NoEntries => audit[a][Len(audit[a])].to = agents[a].state

\* Until an agent's row is overwritten from a stale copy, its audit trail is
\* a chain: every transition starts in the state the one before it reached.
AuditChainsUnlessOverwritten ==
  \A a \in Agents \ overwritten : \A n \in 1 .. Len(audit[a]) - 1 :
    audit[a][n].to = audit[a][n + 1].from

\* A signal explains at most one transition of the audit trail, and it has
\* been processed: a rolled-back batch leaves no transition behind and a
\* retried one adds no second.
OneTransitionPerSignal ==
  \A a \in Agents : \A n \in DOMAIN audit[a] :
    /\ IsProcessed(audit[a][n].trigger)
    /\ \A m \in DOMAIN audit[a] : audit[a][m].trigger = audit[a][n].trigger => m = n

\* create_alert stores the alert and its ADM_NUDGE_RECEIVED signal together:
\* every alert has a nudge signal of its own, and no such nudge lacks its
\* alert (producers that emit nudges of another kind are left out of Kinds).
NudgePerAlert ==
  /\ \A x \in alerts : signals[x.nudge] # None /\ signals[x.nudge].kind = NudgeKind
                       /\ signals[x.nudge].agent = x.agent
  /\ \A x, y \in alerts : x.nudge = y.nudge => x = y
  /\ \A i \in Ids : signals[i] # None /\ signals[i].kind = NudgeKind
       => \E x \in alerts : x.nudge = i

\* This step takes a lapsed agent out of LAPSED only on a signal that its
\* license is ACTIVE again.
LeavesLapsedRenewed(a) ==
  agents[a].state = "lapsed" /\ agents'[a].state # "lapsed" =>
    \E n \in DOMAIN audit'[a] \ DOMAIN audit[a] :
      audit'[a][n].from = "lapsed" /\ LicenseActive(signals'[audit'[a][n].trigger].kind)

\* The license expiry overrides everything: no other signal ends LAPSED.
\* A session with a copy loaded before the lapse breaks this.
LapsedUntilRenewed == [][\A a \in Agents : LeavesLapsedRenewed(a)]_vars

LapseRespected == \A a \in Agents \ overwritten' : LeavesLapsedRenewed(a)

\* The license expiry overrides everything, up to the step in which a session
\* overwrites the agent's row from a stale copy.
LapsedUnlessOverwritten == [][LapseRespected]_vars

\* TERMINATED is a final state: nothing takes an agent out of it.
TerminatedIsFinal ==
  [][\A a \in Agents : agents[a].state = "terminated" => agents'[a].state = "terminated"]_vars

\* This step takes an agent out of TERMINATED only on a signal that its license
\* has EXPIRED, the one signal that is looked at before the state.
LeavesTerminatedExpired(a) ==
  agents[a].state = "terminated" /\ agents'[a].state # "terminated" =>
    \E n \in DOMAIN audit'[a] \ DOMAIN audit[a] :
      audit'[a][n].from = "terminated" /\ LicenseExpired(signals'[audit'[a][n].trigger].kind)

TerminationRespected == \A a \in Agents \ overwritten' : LeavesTerminatedExpired(a)

\* What is true of that: only an expired license ends TERMINATED, up to the
\* step in which a session overwrites the agent's row from a stale copy.
TerminatedUnlessOverwritten == [][TerminationRespected]_vars

\* Every stored signal is processed in the end, with finitely many failures
\* of the slow path, however many signals arrive before it.
EventuallyProcessed ==
  \A i \in Ids : (signals[i] # None /\ ~signals[i].processed) ~> IsProcessed(i)
=============================================================================
