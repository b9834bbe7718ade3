--------------------------- MODULE IntegrationUpload ---------------------------
(***************************************************************************)
(* Files of an insurer's systems (PAS, LMS, commission) and the webhooks   *)
(* of the same systems: rows are renamed by a field mapping, routed to an  *)
(* adapter, validated, and become agents and keyed signals.  A file or an  *)
(* event is one transaction, and the API process handles several.  The     *)
(* default mapping is one dictionary of the process.                       *)
(*                                                                         *)
(* A row is a function from column names to values; the value Bad stands   *)
(* for one that its field cannot take.  Row-level security is not part of  *)
(* this module.                                                            *)
(***************************************************************************)
EXTENDS Naturals, Sequences, FiniteSets

CONSTANTS
  Tenants, Requests,
  Request,     \* per request [tenant, source, event, rows]; event is None for a file
  Defaults,    \* per source the default mapping, column -> field
  Overrides,   \* per tenant and source the configured "field_mapping", or <<>>
  Agents0,     \* per tenant the codes of the agents that exist at first
  Bad, None,
  MaxTries,    \* bound, per request
  MaxFaults    \* bound

ASSUME UploadAssumption ==
  /\ \A u \in Requests : Request[u].tenant \in Tenants /\ Request[u].source \in DOMAIN Defaults
  /\ \A u \in Requests : Request[u].rows \in Seq({Request[u].rows[i] : i \in DOMAIN Request[u].rows})
  /\ \A u \in Requests : Request[u].event # None => Len(Request[u].rows) = 1
  /\ \A source \in DOMAIN Defaults :
       Defaults[source] = [column \in DOMAIN Defaults[source] |-> Defaults[source][column]]
  /\ MaxTries \in [Requests -> Nat] /\ MaxFaults \in Nat
ASSUME NoneAssumption == Bad # "" /\ None \notin [req : Requests, at : Nat]

VARIABLES
  mapping,   \* _DEFAULT_MAPPINGS
  agents,    \* committed, per tenant: code -> the row that last wrote it, or None
  signals,   \* committed signals [tenant, key, req, at]
  txn,       \* the requests' transactions
  tries, faults

vars == <<mapping, agents, signals, txn, tries, faults>>

Idle == [pc |-> "idle", at |-> 1, row |-> <<>>, type |-> None, known |-> FALSE, dead |-> FALSE,
         agents |-> <<>>, signals |-> {}, results |-> <<>>]

Init ==
  /\ mapping = Defaults /\ signals = {}
  /\ agents = [t \in Tenants |-> [c \in Agents0[t] |-> None]]
  /\ txn = [u \in Requests |-> Idle] /\ tries = [u \in Requests |-> 0] /\ faults = 0

Tenant(u) == Request[u].tenant
Open(u) == txn[u].pc \notin {"idle", "done"}
Peers(u) == {v \in Requests \ {u} : Open(v) /\ Tenant(v) = Tenant(u)}
Over(f, g) == [x \in DOMAIN f \cup DOMAIN g |-> IF x \in DOMAIN g THEN g[x] ELSE f[x]]
-----------------------------------------------------------------------------
\* What an adapter wants of a row.
Filled(row, field) == field \in DOMAIN row /\ row[field] # ""
Value(row, field) == IF field \in DOMAIN row THEN row[field] ELSE ""

\* The adapters: the fields that must be filled, those that make the idempotency key, and
\* those given to float() when filled, or whenever the column is there.
Adapter(required, key, filled, there) ==
  [required |-> required, key |-> key, filled |-> filled, there |-> there]
PASAgentAdapter == Adapter({"agent_code"}, <<"agent_code">>, {}, {})
PASPolicyAdapter ==
  Adapter({"agent_code", "policy_number"}, <<"policy_number">>, {"premium_amount", "sum_assured"}, {})
LMSTrainingAdapter ==
  Adapter({"agent_code", "training_name", "completion_date"},
          <<"agent_code", "training_name", "completion_date">>, {}, {"score", "hours"})
LMSLicenseAdapter ==
  Adapter({"agent_code", "license_number", "status"},
          <<"agent_code", "license_number", "status">>, {}, {"training_hours_completed"})
CommissionAdapter ==
  Adapter({"agent_code", "amount", "credit_date"},
          <<"agent_code", "credit_date", "policy_number">>, {"amount"}, {})

AdapterOf ==
  [agent |-> PASAgentAdapter, policy |-> PASPolicyAdapter, training |-> LMSTrainingAdapter,
   license |-> LMSLicenseAdapter, commission |-> CommissionAdapter]

\* validate_row; a phone is a mobile number.
Valid(type, row) ==
  /\ \A f \in AdapterOf[type].required : Filled(row, f)
  /\ type = "agent" => Value(row, "phone") # Bad

\* float() of a field that holds no number.
Unreadable(type, row) ==
  \/ \E f \in AdapterOf[type].filled : Value(row, f) = Bad
  \/ \E f \in AdapterOf[type].there : f \in DOMAIN row /\ row[f] \in {"", Bad}

UnknownId(row) == \E f \in {"assigned_adm_id", "region_node_id"} : Value(row, f) = Bad

\* get_idempotency_key
Key(type, row) ==
  LET fields == AdapterOf[type].key IN <<type, [i \in DOMAIN fields |-> Value(row, fields[i])]>>

\* _detect_data_type
DataType(source, row) ==
  IF source = "pas" THEN IF Filled(row, "policy_number") THEN "policy" ELSE "agent"
  ELSE IF source = "commission" THEN "commission"
  ELSE IF ~Filled(row, "training_name") /\ Filled(row, "license_number") THEN "license"
  ELSE "training"

\* apply_field_mapping: of two columns for one field the later one counts; a field has one here.
Renamed(raw, names) ==
  LET field(c) == IF c \in DOMAIN names THEN names[c] ELSE c
  IN  [f \in {field(c) : c \in DOMAIN raw} |-> raw[CHOOSE c \in DOMAIN raw : field(c) = f]]
-----------------------------------------------------------------------------
\* Faulty variant: a tenant's names only fill the gaps of the defaults.
OverrideWeak(u) ==
  [mapping EXCEPT ![Request[u].source] = Over(Overrides[Tenant(u)][Request[u].source], @)]

\* effective_mapping.update(field_mapping): the dictionary is the module's own.
Override(u) ==
  [mapping EXCEPT ![Request[u].source] = Over(@, Overrides[Tenant(u)][Request[u].source])]

\* upload_file, process_upload; receive_webhook, process_webhook.
Begin(u) ==
  /\ txn[u].pc = "idle" /\ tries[u] < MaxTries[u]
  /\ tries' = [tries EXCEPT ![u] = @ + 1]
  /\ txn' = [txn EXCEPT ![u] = [Idle EXCEPT !.pc = "row"]]
  /\ mapping' = IF Request[u].event = None THEN Override(u) ELSE mapping
  /\ UNCHANGED <<agents, signals, faults>>

\* The row's result; the next row follows.
Counted(t, result, key) ==
  [t EXCEPT !.pc = "row", !.at = @ + 1, !.results = Append(@, [result |-> result, key |-> key])]
Go(u, t) == txn' = [txn EXCEPT ![u] = t] /\ UNCHANGED <<mapping, agents, signals, tries, faults>>
Abort(u) == Go(u, Idle)
\* An exception fails the row of a file, and the request of a webhook.
Fail(u, t) == IF Request[u].event = None THEN Go(u, Counted(t, "failed", None)) ELSE Abort(u)

\* Faulty variant: the session is rolled back and the next rows go on with it.
BreakGoingOn(u) == Fail(u, [txn[u] EXCEPT !.agents = <<>>, !.signals = {}])
\* A failed flush undoes the transaction and leaves the session unusable.
Break(u) == Fail(u, [txn[u] EXCEPT !.agents = <<>>, !.signals = {}, !.dead = TRUE])

More(u) == txn[u].pc = "row" /\ txn[u].at <= Len(Request[u].rows)

\* The row is renamed, routed and validated; in a session that broke it fails at the first query.
TakeRow(u) ==
  /\ More(u)
  /\ LET q == Request[u]
         raw == q.rows[txn[u].at]
         row == IF q.event = None THEN Renamed(raw, mapping[q.source]) ELSE raw
         type == IF q.event = None THEN DataType(q.source, row) ELSE q.event
     IN  IF txn[u].dead \/ ~Valid(type, row) THEN Fail(u, txn[u])
         ELSE Go(u, [txn[u] EXCEPT !.pc = "find", !.row = row, !.type = type])

Code(u) == txn[u].row.agent_code
Visible(u) == DOMAIN agents[Tenant(u)] \cup DOMAIN txn[u].agents
Keys(rows) == {s.key : s \in rows}
KeyOf(u) == Key(txn[u].type, txn[u].row)
StoredKeys(u) == Keys({s \in signals : s.tenant = Tenant(u)})

\* emit_signal's lookup in the committed signals and its own.
Emit(u, t) ==
  IF KeyOf(u) \in StoredKeys(u) \cup Keys(t.signals) THEN Go(u, Counted(t, "processed", KeyOf(u)))
  ELSE Go(u, [t EXCEPT !.pc = "insert"])

\* process_row: the agent is looked up.  Only agent data creates one; other rows of an unknown
\* agent are counted as processed.
FindAgent(u) ==
  /\ txn[u].pc = "find"
  /\ IF txn[u].type = "agent"
     THEN Go(u, [txn[u] EXCEPT !.pc = "write", !.known = Code(u) \in Visible(u)])
     ELSE IF Code(u) \notin Visible(u) THEN Go(u, Counted(txn[u], "processed", None))
     ELSE IF Unreadable(txn[u].type, txn[u].row) THEN Fail(u, txn[u])
     ELSE Emit(u, txn[u])

Written(u) ==
  [txn[u] EXCEPT !.agents = Over(@, [c \in {Code(u)} |-> [req |-> u, at |-> txn[u].at]])]
Held(u) == \E v \in Peers(u) : Code(u) \in DOMAIN txn[v].agents

\* An agent's fields are set before its ids are converted, so a row that fails on one has
\* changed the agent; the next flush or the commit writes it.  An agent stored since the lookup
\* fails the row when create_agent looks again, or later breaks the session.
WriteAgent(u) ==
  /\ txn[u].pc = "write" /\ ~Held(u)
  /\ IF UnknownId(txn[u].row) THEN Fail(u, IF txn[u].known THEN Written(u) ELSE txn[u])
     ELSE IF txn[u].known /\ Value(txn[u].row, "license_expiry_date") = Bad THEN Break(u)
     ELSE IF ~txn[u].known /\ Code(u) \in Visible(u) THEN Fail(u, txn[u]) \/ Break(u)
     ELSE Emit(u, Written(u))

\* emit_signal's insert: it waits for an open transaction that inserted the key.
InsertSignal(u) ==
  /\ txn[u].pc = "insert" /\ KeyOf(u) \notin UNION {Keys(txn[v].signals) : v \in Peers(u)}
  /\ IF KeyOf(u) \in StoredKeys(u) THEN Break(u)
     ELSE LET s == [tenant |-> Tenant(u), key |-> KeyOf(u), req |-> u, at |-> txn[u].at]
          IN  Go(u, [Counted(txn[u], "processed", KeyOf(u)) EXCEPT !.signals = @ \cup {s}])

WaitsFor(u, v) ==
  /\ v \in Peers(u)
  /\ \/ txn[u].pc = "write" /\ Code(u) \in DOMAIN txn[v].agents
     \/ txn[u].pc = "insert" /\ KeyOf(u) \in Keys(txn[v].signals)

\* The database picks a victim of two that wait for each other.
DeadlockVictim(u) == (\E v \in Peers(u) : WaitsFor(u, v) /\ WaitsFor(v, u)) /\ Break(u)

\* The job's counts and the commit; in a broken session the update of the job raises.
Finish(u) ==
  /\ txn[u].pc = "row" /\ ~More(u)
  /\ IF txn[u].dead THEN Abort(u)
     ELSE /\ txn' = [txn EXCEPT ![u].pc = "done"]
          /\ agents' = [agents EXCEPT ![Tenant(u)] = Over(@, txn[u].agents)]
          /\ signals' = signals \cup txn[u].signals
          /\ UNCHANGED <<mapping, tries, faults>>

\* The process starts again: its dictionary is as written in the module.
Restart ==
  /\ faults < MaxFaults /\ faults' = faults + 1
  /\ mapping' = Defaults
  /\ txn' = [u \in Requests |-> IF Open(u) THEN Idle ELSE txn[u]]
  /\ UNCHANGED <<agents, signals, tries>>

Next ==
  \/ \E u \in Requests : \/ Begin(u) \/ TakeRow(u) \/ FindAgent(u) \/ WriteAgent(u)
                         \/ InsertSignal(u) \/ DeadlockVictim(u) \/ Finish(u)
  \/ Restart
Spec == Init /\ [][Next]_vars
-----------------------------------------------------------------------------
Done(u) == txn[u].pc = "done"

\* A stored job tells what was stored (process_upload, process_file): every row has a result, a
\* row processed for an agent that exists has exactly one signal of its key, a failed row
\* has stored none, and an agent's data come from a row that was processed or that failed
\* on an id after the agent's fields had been set.
JobReport ==
  \A u \in Requests : Done(u) =>
    /\ Len(txn[u].results) = Len(Request[u].rows)
    /\ \A i \in DOMAIN txn[u].results :
         LET r == txn[u].results[i]
             stored == {s \in signals : s.tenant = Tenant(u) /\ s.key = r.key}
         IN  /\ r.key # None => Cardinality(stored) = 1
             /\ r.result = "failed" => \A s \in signals : <<s.req, s.at>> # <<u, i>>
    /\ \A i \in DOMAIN txn[u].results, c \in DOMAIN agents[Tenant(u)] :
         agents[Tenant(u)][c] = [req |-> u, at |-> i] =>
           txn[u].results[i].result = "processed" \/ Bad \in {Request[u].rows[i][x] : x \in DOMAIN Request[u].rows[i]}

Configured(u) == Over(Defaults[Request[u].source], Overrides[Tenant(u)][Request[u].source])
AsConfigured(u) ==
  txn[u].pc \in {"find", "write", "insert"} /\ Request[u].event = None =>
    txn[u].row = Renamed(Request[u].rows[txn[u].at], Configured(u))

\* The rows of a tenant that alone has a field mapping for a source are renamed as it
\* configured, whatever else the process did since it started (process_file).
MappedWhenAlone ==
  \A u \in Requests :
    (\A t \in Tenants \ {Tenant(u)} : DOMAIN Overrides[t][Request[u].source] = {}) => AsConfigured(u)

\* "Get effective field mapping: tenant config overrides + defaults" (get_field_mapping,
\* process_file): a tenant's rows are renamed by its own configuration.
MappedAsConfigured == \A u \in Requests : AsConfigured(u)
=============================================================================
