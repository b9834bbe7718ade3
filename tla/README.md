# A verification project for AARS

AARS keeps insurance agents engaged: it collects *signals* about agents
(sales, calls, replies, training, license changes), moves each agent through a
life cycle, starts *playbooks* (scripted contact sequences), takes decisions and
alerts the agents' managers (ADMs). It is a FastAPI application on PostgreSQL
and Redis, with Celery workers and beat for everything periodic. What makes it
hard is not any one handler but that API requests, webhooks and several periodic
tasks work on the same rows through separate database sessions, without locking
them, and that tasks are batches that fail in the middle, die and run again.

## 1. Inventory

How sessions behave matters to every component, so it is stated once. A session
(`config/database.py`) loads a row once and keeps that copy until its
transaction ends (identity map, `expire_on_commit=False`); a second SELECT of the
row does not refresh the copy. At a flush only the columns the session changed
are written. The database runs at READ COMMITTED and nothing in the code uses
`FOR UPDATE` or a version column. A rollback expires all copies. `get_db` commits
after the handler returned; a Celery task commits once at the end of its batch
and rolls the whole batch back when one item raises.

| component | state | operations | meets | hard part | correct when |
|---|---|---|---|---|---|
| agent life cycle (`modules/agent/lifecycle.py`) | none (pure) | `compute_transition` | both signal paths | both callers have counted a sale before they ask | transitions explained by signals, license expiry first |
| signal pipeline (`modules/signal`, `tasks/signal_processing.py`) | signals, agents' counters and state, audit signals | emit, fast path, slow path | alerts, decisions, agents | two paths and several tasks with copies of the same rows; rollback of batches | each sale counted once, audit trail agrees with the column, everything processed in the end |
| playbooks (`modules/playbook`, `tasks/playbook_execution.py`) | playbooks, runs, step runs | trigger, update, delete, execute due steps | signals, decisions | overlapping polls, rollback of batches, loops in the branching rules, edits meanwhile | one step at a time along the rules, ends once, ends at all |
| decision engine (`modules/decision`, `tasks/decision_engine.py`) | decision logs | evaluate, batch, execute | agents, consent, alerts | decisions executed later than they were taken; times compared in whole days; batches lost and repeated | alerted once, executed in the end, cadence and calling hours kept |
| settings change (`modules/settings`) | change requests, tenant configuration, audit, password hash in Redis | request, verify, cancel | tenants | concurrent verifications, cancels and requests | applied once, at most three guesses, no section lost |
| rate limiter (`modules/channel/rate_limiter.py`) | Redis counters and a sorted set, with expiries | check, acquire, release, record | WhatsApp and voice sending | check-then-act, two-command release, expiry, callers that die | calls and messages stay within the limits, or pass them by no more than the callers at work |
| WhatsApp webhook, bot, quiz (`modules/channel/whatsapp`) | quizzes in memory, keyed signals | receive, answer, stop | signals, training | redelivery, two at once, taps on old questions, state not in the transaction | what is acknowledged is stored, a quiz is earned |
| voice webhook (`modules/channel/voice`) | keyed signals | receive outcome | signals, rate limiter | redelivery, calls without an id | both signals of every call |
| ADM alerts and actions (`modules/adm`) | alerts, actions | create, read, act on, log | signals | double clicks | one alert with one nudge; acted on once |
| briefings, summaries, analytics (`tasks/adm_briefing.py`, `tasks/analytics_aggregation.py`) | one row per subject and period | generate by task, generate on request | agents, signals | tasks, requests and redeliveries insert the same row; a batch in one transaction | one row per period, all subjects covered |
| figures (`modules/analytics`, `modules/adm/briefing.py`, `modules/adm/service.py`) | none (pure) | funnel, dormancy, dashboard, ranking, classes, priorities | agents, signals | the same figure computed in two places | pages and stored reports agree |
| templates (`modules/content`) | template versions with a status | create, update, approve, activate, archive, delete | sending | requests that overtake each other, version race | status moves forward, only approved text is sent, newest version |
| training (`modules/training`) | modules, quizzes, progress | assign, progress | webhooks | double assignment, a counter written from a copy | progress does not go back |
| integration (`modules/integration`) | jobs, agents, signals; default mapping of the process | upload, webhook, adapters | signals, agents | rows that fail in a shared transaction, mapping shared by tenants, uploads at once | the job tells what was stored, rows are mapped as configured |
| users, tenants, agents CRUD | rows | create, update | everything | | |
| event bus (`core/events.py`) | handlers | publish | nobody subscribes | | |

The hazards this code is exposed to are listed, each at its line, in
`PROJECT.json`.

## 2. Plan

In the order of importance; each is written so that it can be proved about, with
parameters as constants and one action per operation.

1. `AgentLifecycle` (pure) and `SignalPipeline`. *Done*, with proofs of all its safety
   properties.
2. `PlaybookRun` (what a run promises) and `PlaybookExecution`, shown and proved to
   implement it. *Done*, with proofs of all its safety properties.
3. `DecisionRules` (pure) and `DecisionExecution`: decisions taken by batch, by
   request and executed later. *Done*, with proofs of all its safety properties.
4. `SettingsLedger` (what changing settings promises) and `SettingsChange`, shown
   and proved to implement it for one verification at a time. *Done.*
5. `VoiceLimits` and `WhatsAppLimits` (the rate limiter) and `TemplateVersions` (what
   is sent). *Done*, with the proofs in `CountingProofs`.
6. `WebhookIngestion`: deliveries, keys and the quiz in memory. *Done*, with proofs.
7. `IntegrationUpload`: files and events of the insurer's systems. *Done*, with proofs.
8. `PeriodicReports` (who stores which report) and `ReportFigures` (what is in it).
   *Done*, with proofs (in `PeriodicProofs` and `CountingProofs`).

`SignalPipeline` extends `AgentLifecycle`, `DecisionExecution` extends
`DecisionRules`; `PlaybookExecution` instantiates `PlaybookRun` by a refinement
mapping, and `SettingsChange` instantiates `SettingsLedger`. `MCChannelLimits`
composes the two limiters with the templates; they share no variable, so it lets
one of them move at a time. The other parts meet through stored signals only, in one
direction: webhooks and uploads store them, the pipeline processes them (its
`EmitSignal` stands for all of these), playbook signals are stored as processed, and
reports read them. So they are modelled apart.

## 3. Modules

### AgentLifecycle and SignalPipeline

A signal kind is the signal's type with the one field of its payload the code
tests. `agents`, `signals`, `audit`, `alerts`, `decisions` are committed rows
(`audit` holds the `lifecycle_state_changed` signals, in commit order). `tx[s]`
is the session of a slow-path task or of a request: the agent rows it loaded with
its changes, and what it will insert or update.

| action | code |
|---|---|
| `EmitSignal` | `signal/service.py emit_signal` called by webhooks, uploads, executors, which only store |
| `PostSignal`, `CommitRequest`, `AbortRequest` | `POST /signals`: `emit_signal` and `process_signal`, then the commit or rollback of `get_db` |
| `FetchPending` | the SELECT of `process_pending_signals`: oldest first, LIMIT |
| `ProcessSignal` | one turn of its loop, `_process_signal_sync` |
| `SignalFails` | the exception branch: rollback of the batch so far, the loop goes on |
| `CommitBatch`, `Crash` | the final commit; the worker dies before it |

`Understand` is the part both paths share (count a sale, compute the transition,
clear the dormancy reason, add the audit signal). `Load` never refreshes a copy;
`Commit` writes, per agent, only the columns the session changed (`FlushedRow`).
`refreshed` says that a rollback expired the fetched signals, after which their
`processed` flag is read again. `overwritten` and `stale` are history: they
record that a session wrote an agent row from a copy another session had replaced
since. Row locks taken by the UPDATEs only delay a session, so leaving them out
adds no outcome that another schedule does not have.

Abstracted: the timestamps of contacts and `policies_sold_last_12m` (written like the
total); a license payload that both activates and expires soon is one of the two;
idempotency keys (a POST with a known key changes nothing); signals without an
agent, which are only marked; soft deletion of agents, which no code does.
Nothing in the code writes `engagement_score` or moves an agent to dormant, at
risk or productive: these are the creation states an instance allows
(`CreatedAs`), which `AgentCreate` takes from the caller.

### PlaybookRun and PlaybookExecution

`PlaybookRun` is the promise: a run starts once at the first step, each commit
executes at most the step it is at and moves where the rules lead, and it ends
once, announced once. `PlaybookExecution` is the code: `starts[r]` is the session
of a trigger request, `tasks[w]` that of a polling task with its copies of the due
runs, and `moves` what the batch has done and not committed.

| action | code |
|---|---|
| `TriggerPlaybook`, `CommitTrigger`, `AbortTrigger` | `playbook/service.py trigger_playbook` and the end of `get_db` |
| `UpdatePlaybook`, `DeletePlaybook` | `update_playbook`, `delete_playbook` (soft: runs go on) |
| `FetchDue` | the poll of `execute_due_playbook_steps`, which names no order: any LIMIT of the due runs |
| `ExecuteRun` | `_execute_run_step_sync`: expiry first, then the step, its rules, the next step or the end |
| `ExecutionFails`, `CommitBatch`, `CrashTask` | rollback of the batch, its commit, the death of the worker |
| `Tick` | a day passes |

Time is counted in days, the unit of every duration in the code. All playbooks of
an instance have the same steps; which rule of a step matches depends on the
outcome of an action and is a choice among what the rules may name. The
asynchronous executor in `modules/playbook/executor.py` is called by no code
outside the tests and is not modelled. Updates and deletions of playbooks are
one step each: they touch no column the other actions write. Two triggers that overlap
may start two runs for one agent and may lose an increment of `times_executed`; `overlap`
is history and records whose requests had not committed when another looked, so that
`OneActiveRun` and `TimesExecutedCounts` can say that this is the only way to either.

### DecisionRules and DecisionExecution

`DecisionRules` has the rule chain, its actions and channels, and the five
constraints, as functions of what an evaluation knows of an agent. Times are half
hours, the largest unit in which both whole days and the 5:30 hours between UTC
and India are numbers. `DecisionExecution` has the rows of `decision_logs` in commit
order, the session of the batch and those of requests and executors.

| action | code |
|---|---|
| `BeginTenant` | `decision_engine_batch` turns to a tenant: its agents are loaded, `now` is taken |
| `PassOver`, `Evaluate` | one turn of the loop of `_batch_evaluate_tenant_sync`: cadence, rules, constraints, insert |
| `CommitTenant`, `TenantFails`, `CrashBatch` | commit or rollback of the tenant; the worker dies and the batch is delivered again |
| `EvaluateNow`, `CommitEvaluation` | `evaluate_agent`, from its route or the fast path of a signal |
| `FetchDue`, `CommitExecution` | `execute_pending_decisions`: at most LIMIT due rows, oldest first; execute all, one commit |
| `Abort` | a request or an executor dies or fails before its commit |
| `AgentChanges`, `Tick` | signals and edits from outside; time |

Details that decide outcomes and are in the model: a call outside the calling
hours is put off *before* the contacts of the month are counted, because
`run_all_constraints` returns the first failure; `created_at` is the time of the
insert, later than the batch's `now`; an alert that cannot be inserted is caught by
`_execute_decision_sync`, but its session can then not commit, so the whole batch of
executions is lost (`Abort`), and a database error in the daily batch likewise costs
the whole tenant (`TenantFails`). The batch catches what an agent's evaluation raises
and goes on with the next agent (`tasks/decision_engine.py:144`); that is no action of
its own, because apart from the database nothing an evaluation reads makes it raise: the
columns behind `DecisionInput` hold what its schema accepts, and the rules and
constraints convert nothing. `URGENT_001`, `URGENT_002`, `OPP_003` and `ADM_COMP_001` can match
nobody, because no caller fills the fields of `DecisionInput` they test
(`Unfilled`). The executor sends nothing: apart from the manager's alert its
effects stay in the row, so `queued`, `escalated` and the like are one outcome.

### SettingsValues, SettingsLedger and SettingsChange

`SettingsValues` has the pure part: merging a proposal into a section, whether it
changes anything, the rules between two fields. `SettingsLedger` is the promise: a
request keeps its proposal, the configuration changes only by merging one request,
once, into the section as it stands, and the audit log is the history of these
merges. `SettingsChange` is the code: `tx[h]` is the session of one call.

| action | code |
|---|---|
| `RequestChange`, `InsertRequest`, `CommitRequest` | `settings/service.py request_settings_change`: read and validate; expire the section's pending requests and insert; the commit of `get_db` |
| `BeginVerify` | the start of `verify_and_apply`: load, must be pending, compare the clock |
| `VerifyTooLate`, `WrongGuess` | its error paths, which commit before they raise |
| `RightGuess`, `ApplyChange` | the attempt is flushed, then the tenant is read; merge, audit row, commit |
| `BeginCancel`, `CommitCancel` | `cancel_change_request` |
| `OtpExpires` | `otp_expires_at` passes |
| `Abort` | any exception before the commit, Redis failing included |

Here row locks are part of the model (`Free`): the UPDATE flushed before the tenant
is read makes other writers of that request wait, and they then go on with what
they had read. Redis holds a second copy of the password's hash; a guess it does
not confirm is compared with the hash in the row all the same, so its content never
decides the outcome. The ranges of single fields are the choice of `Values`, and a
section keeps the two fields that its rule compares. The direct edit
`PUT /tenants/{id}/config` is not modelled: the properties are about changes behind
a password.

### VoiceLimits, WhatsAppLimits and TemplateVersions

Every Redis command is an action, the commands of one pipeline are one action, and
the program counter `phase[c]` or `sender[s].at` says which is next. A key is its
value and the time it expires; the clock drops it. Outside the tests nothing calls
the limiter yet, so its callers are written as its docstrings describe them.

| action | code |
|---|---|
| `CheckVoiceConcurrent`, `CheckVoiceHourly` | `check_voice_rate`: GET; then ZREMRANGEBYSCORE and ZCARD |
| `IncrSlots`, `ExpireSlots`, `DecrDenied` | `acquire_voice_slot`: INCR, EXPIRE, DECR above the limit |
| `RecordVoiceCall` | `record_voice_call`; two calls with one timestamp are one member |
| `DecrSlots`, `ClampSlots` | `release_voice_slot`: DECR, and SET 0 when negative, which has no expiry |
| `StartSend`, `CheckDaily` | `whatsapp/service.py`: consent, the second, the agent's day |
| `CallProvider` | the send: taken and answered, taken without an answer (the call raises), or refused; `send_template_to_agent` catches what is raised and returns without counting |
| `RecordSecond`, `RecordDay`, `ReportSent` | `record_whatsapp_message`, the emitted signal |
| `CallerDies`, `SenderDies`, `VoiceTick`, `WhatsAppTick` | a process ends between two commands; time |

The limits are not exact, and the invariants say by how much: slots hold until the
counter expires under a caller (`lapsed`), an hour has at most one call more for
every other caller at work, a day at most one message more for every other sender, for
every sender that died before it counted and for every call that raised although
the provider had taken the message (`failures` counts the last two). A counter left full by dead callers
expires, unless as many die between INCR and EXPIRE as there are slots.

`TemplateVersions` has the rows of `message_templates` and, per request, what it read:
`BeginCreate` and `BeginEdit` are the SELECT and the test of the status, `CommitRow`
the insert under the unique index (of two updates of one version the second is
refused), `CommitEdit` the UPDATE of the columns that differ from what was read. A
template goes back only by a request that had been overtaken: an activation that
read the row before it was archived revives it (`WorkflowForward` names this case).

### WebhookIngestion

`hooks[h]` is the transaction of a delivery: what is left of its batch, the signals
still to emit, the rows inserted. `stored` are the committed signals with a key,
`plain` counts those without. `quiz`, the seed of `hash()` and nothing else live in
the process and go with `Restart`.

| action | code |
|---|---|
| `Deliver`, `DeliverAgain` | the provider posts a batch until it is acknowledged, and sometimes once more |
| `HandleItem` | `_handle_incoming_message`, `_handle_delivery_status` or `voice_webhook` up to the signals: intent, quiz, what to emit |
| `LookUpKey`, `InsertSignal`, `KeyConflict` | `emit_signal`: SELECT by key, INSERT, which waits for an open transaction with the same key; failure on the unique index or as the victim of a deadlock |
| `Acknowledge`, `DeliveryFails` | the commit of `get_db` and the 200; its rollback |
| `StartQuiz`, `Restart` | `WhatsAppTrainer.start_quiz`; the API process starts again |

A reply that asks for the ADM, for a commission or complains is escalated by a nudge,
but only if the agent has an ADM (`Assigned`); otherwise it is acknowledged and answered
without one.

A tapped answer counts for whichever question is current, because the question index
in the button is parsed and not used. So a completion does not show that *these*
questions were answered, but it takes as many answers as the quiz has questions, and
nobody completes more quizzes than were started (`CompletionsEarned`). A completion
can be lost: the quiz ends in memory before the delivery commits.

### IntegrationUpload

A request is a file of rows or a webhook event with one row; `txn[u]` is its
transaction. `mapping` is the dictionary `_DEFAULT_MAPPINGS` of the process.

| action | code |
|---|---|
| `Begin` | `process_file`: job, configuration, and the update of the mapping by the tenant's overrides |
| `TakeRow` | rename the columns, find the adapter, `validate_row` |
| `FindAgent`, `WriteAgent` | `process_row`: look the agent up, create or change it; fields are set before ids are converted |
| `InsertSignal` | `emit_signal` under the unique index |
| `DeadlockVictim` | two uploads that hold each other's rows |
| `Finish` | the counts of the job and the commit, which raises in a session that broke |
| `Restart` | the process starts again |

The handler of a failing row catches the exception but there is no savepoint: after
a failed flush the session is broken, every later row fails and the commit raises
(`Break`). `JobReport` says that a job which was stored nevertheless tells the truth.
A row of an unknown agent is the other kind: `create_agent` looks the code up once more
and raises its own `ConflictError` before it writes, which fails that row alone, while an
agent stored after this second look breaks the session; `WriteAgent` allows both.
Two things a reader may not expect are in the model and in `JobReport`'s exceptions:
a row whose agent is unknown counts as processed, and a row that fails on an id has
changed the agent.

### PeriodicReports and ReportFigures

`PeriodicReports` is about who stores which row. A task writes the rows of all owners
in one transaction; requests insert the same rows without looking for them.

| action | code |
|---|---|
| `StartTask`, `NextDay` | `beat_schedule`, in the order of the hours; days run through a calendar |
| `NextOwner`, `OwnerFails` | the loop's body: skip if the first row exists, else add; its exception branch, which rolls nothing back |
| `FlushRow` | an added row reaches the database, waits for a request, or breaks the session |
| `EndTask`, `Redelivered` | the commit, or its exception; a worker died before or after it |
| `Ask`, `Answer` | `GET /adm/briefing` and `/adm/briefing/weekly`, which insert |

`ReportFigures` is what is in the rows. It has no interleavings: a state is a set of
signals, a book of agents, an hour and a weekday, reached by adding one signal after the
other while time passes, and each figure is an operator translated from the function
named above it, so that a pair of functions that compute the same figure becomes a pair of
operators to compare. Time 0 is the last midnight: the stored reports count back from it
(`MidnightOf`) and the pages from `now` (`DaysAgo`), and a signal may be dated ahead. A rate
is a fraction; `Rounded` is the four digits of the response on a manager's own page. Each
operator counts the way its function does: the dashboard and the snapshot take the
tenant's rate from the counts by state, the ranking and the snapshot a manager's from the
agents. A query without ORDER BY takes its order from `Orders`, each query its own. The properties say where the figures agree
and name every case where they do not:

* the windows of a report end at midnight or begin there, those of a page end now or
  later: a sale dated ahead is on the funnel page and in no stored funnel, and a figure
  differs by no more than the signals between the edges of its two windows;
* the funnel page leaves out playbooks whose agents nobody contacted or engaged;
* the share of active agents leaves out those that left, on a manager's own page it
  does not, and a manager never nudged is `UNRESPONSIVE` only there; with few active
  agents and a middling response the ranking says `STRUGGLING`, the page `AVERAGE`; and
  the page rounds the response before it compares, so that one just above the threshold
  for a high performer (1405 of 2007 nudges) or just below that for an unresponsive
  manager is in another class of the ranking;
* reactivations are counted in five ways, which `ReactivationsRelate` puts in order; a
  move out of dormancy that does not say where to is in a manager's week (Python) and
  not on its page (SQL compares no missing state);
* the reason said to shrink most is the one that shrinks least
  (`analytics/service.py:276`; not a property);
* the change in at-risk agents a manager is shown is the whole tenant's and counts from
  now, the week's is the calendar week before: a move early in that week may be in the
  second and not in the first. The task's briefing leaves the change at 0;
* the task's briefing has no opportunities and no celebrations, and its week no
  trainings and zeros for the manager's numbers. Neither query names an order, so where
  the limit cuts a group the two may name different agents of it.

Left out: scores, premiums, the correlation of training with sales, wording.

## 4. Runs

All configurations switch deadlock checking off: an instance is quiescent once
its bound on signals or days is used up, where the real system waits for input.

| run | instance | shows |
|---|---|---|
| `signal_pipeline` | one worker, one request at a time, 4 signals of 4 kinds, batches of 2, one failure, an agent created onboarded, dormant or at risk with a high score | the seven invariants |
| `signal_liveness` | two workers, batches of 1, 3 sales, one failure | `EventuallyProcessed` |
| `playbook_execution` | one task, two requests at a time, two agents, two runs, batches of 2, a two-step playbook with a loop, durations of 1 and 2 days, one failure | invariants, the refinement `RunPromise`, `RunsEnd` |
| `decision_execution` | two agents of a tenant, the batch on three days, one executor taking one row at a time, one request, one change, one failure | `AlertedOnce`, `BatchSpacing`, `SkipBound`, `CallsInHours`, `DueAreExecuted` |
| `settings_change` | one request, one verification and one cancel in flight, two sections, two requests, four proposals | invariants and the refinement `LedgerPromise` |
| `channel_limits` | three callers for two slots, two of which may die; two senders to two agents, one of which may die or get no answer for a message that was taken; two requests on two rows of templates | `CallsWithinSlots`, `FullCounterExpires`, `HourlyLimit`, `DailyLimit`, `WorkflowForward` |
| `webhook_ingestion` | three batches with equal texts in opposite orders, two taps and a call, from an agent with an ADM and one without, two deliveries at a time, one repeated, one failure or restart | `EffectsStored`, `CompletionsEarned`, `AllAcknowledged` |
| `integration_upload` | three requests of tenant A (two files with rows in opposite order, one event), two files of tenant B, one restart | `JobReport`, `MappedWhenAlone` |
| `upload_mapping` | the same | **violation** of `MappedAsConfigured` |
| `periodic_reports` | two managers, two tenants, the Mondays and firsts at the start of 2024, three faults, one request | `ReturnedIsStored`, `LostOnlyIfTaken` |
| `monthly_reports` | the same | **violation** of `MonthlyForAll` |
| `report_figures` | three agents of two managers in two orders, any two of 26 signals, among them signals of an agent in no list, one of no agent, two dated ahead and some at every edge of a window, or any of nine nudges, 125 books of agents, both halves of a Monday and of a Thursday | `StoredIsLive`, `ClassesAgree`, `ReactivationsRelate`, `TaskIsAbridged` |

*Why the bounds suffice.* The pipeline's hazards need one agent, one batch of two
signals (so that a failing one takes another with it), and a concurrent request;
with four signals an agent walks from creation through license, sale, lapse and
renewal, and a batch is repeated after a failure with the effects of a request in
between. Agents do not interact, so one is enough for TLC; the theorems are for
any number. For playbooks two agents let one batch hold two runs; the loop in the
rules makes a run that only expiry ends; the clock runs one day past the latest
day any run may live. `MaxFaults = 1` lets each of the failures happen at every
point; more failures only delay. `LastStart` keeps runs from being started so
late that the clock stops before they end. For decisions a limit of one puts
decisions behind each other, and the four moments are the hour of the batch on
three days and an evening after the calling hours, so that a batch can be late one
day and early on the next; three decisions allow two agents and one repetition. For
settings two requests let the second expire the first while it is verified, in the same section or another; the
two proposals for the first section are valid alone and not together.

For the limiters three callers and two slots are one caller too many at every
check; two deaths are the number that can fill the counter, and the clock runs past
the expiry of both keys. The second of `WhatsAppLimits` is shorter than its day, as in
the code; the real numbers (10 calls, 3 messages, 600 s, a day) only scale. For
webhooks the opposite order of the texts makes two deliveries wait for each other, and
the two taps are on different modules. The uploads hold a failing row of each kind (an
id that cannot be converted, a date that cannot be flushed, an empty field), a
duplicate within and across files, an unknown agent, and tenants with and without
overrides for a source. The calendar of `periodic_reports` has a first that is a
Monday (1 January 2024), the Monday after it, a first after a month that began on a
Monday (1 February) and one that is free of both (1 March); tasks of a day run one
after another, and the date does not change under a task. Three faults are what it
takes for the weekly aggregation to lose to the monthly reports of its day: it fails for
both tenants, and is delivered again when the monthly reports are stored. In `report_figures` the
thresholds of the response are quarters, so that up to five nudges received and four
acted on give fractions between, on and, after rounding to quarters, beside them; a day
has two halves, so that midnight and now are apart; with two signals any two figures can
be told apart by a signal they count and one they should not.

*Fairness.* Beat starts every polling task each minute
(`config/celery_app.py beat_schedule`), and a started task runs to its end or
dies: weak fairness of fetching, of each turn of the loop and of the commit. No
fairness is assumed of requests, webhooks or failures, and failures are finite in
number; with a signal that fails in every batch the code would never commit that
batch's others, which is outside what `EventuallyProcessed` claims. Days pass
in the playbooks' model (weak fairness of `Tick`). For decisions only the executor
is fair: its fetching and its commit. For webhooks the process goes on with a
delivery it began (weak fairness of `Work`) and the provider delivers a batch until
it is acknowledged, as both providers document; a refused batch it posts again when
the transactions then open have ended, because it pauses between attempts.

*What the violations mean.* Each states what a docstring or comment of the repository
says and TLC shows a schedule of the code that breaks it; the quotes are in
`PROJECT.json` under `findings`. `upload_mapping`: the update of the mapping in
`process_file` writes into the module's own dictionary, so a tenant's overrides map
the files of the next. `monthly_reports`: when the first of a month is a Monday, or
the first before it was, the weekly task has stored a report that the monthly one
inserts again, and the reports of all tenants are lost with it. The passing
properties beside them say how far the damage goes: `MappedWhenAlone`,
`LostOnlyIfTaken`.

*Known divergences without a run of their own.* Some documented promises hold only
under an assumption the code does not enforce, or not at all. The runs make the
assumption, and the properties below fail without it; each needs one changed line in
the file named, apart from a smaller instance to make the trace short.

| promise | change | fails |
|---|---|---|
| "Idempotent: safe to process the same signal multiple times" (`tasks/signal_processing.py:29`) | `SignalPipeline.cfg`: `Workers = {w1, w2}` | `NoOvercount` |
| "license expiry overrides everything" (`agent/lifecycle.py:145`) | `SignalPipeline.cfg`: check `LapsedUntilRenewed` | a request's or task's stale copy undoes the lapse; without one the lapse stays, which is proved (`LapsedUnlessOverwritten`) |
| "TERMINATED is a final state. No automatic transitions out." (`agent/lifecycle.py:109`) | `SignalPipeline.cfg`: check `TerminatedIsFinal` with `CreatedAs = {"terminated"}` | `compute_transition` asks `_check_global` before the handler of the state: an expired license makes the agent lapsed, a renewed one then licensed; nothing else does, which is proved (`TerminatedUnlessOverwritten`) |
| row policies hold for the application's user (`alembic/versions/013`) | `SignalPipeline.cfg`: `RlsEnforced = TRUE` | `CountExactUnlessOverwritten`: the slow path sees no agent |
| "Idempotent: safe to retry. Checks step hasn't already been executed" (`tasks/playbook_execution.py:32`) | `PlaybookExecution.cfg`: `Workers = {w1, w2}` | `ExecutedCountsTrail` |
| "This playbook is already running for this agent" (`playbook/service.py:172`) | `PlaybookExecution.tla`: `Overlapped(i, j) == FALSE` | `OneActiveRun`: two overlapping triggers both find no run in progress and start one each; `TimesExecutedCounts`: the second writes the counter it read before the first committed |
| "Daily" cadence (`system-behavior-design.md:1118`) | `DecisionExecution.cfg`: check `DailyMeansDaily` with `Moments <- MCOnTheHour` | a batch's decision is a little younger than a day at the next batch |
| a request is verified once (`settings/service.py:174`) | `SettingsChange.cfg`: `Verifiers = {v1, v2}` | `AppliedOnce`, `LedgerPromise` |
| the rule between two thresholds (`settings/validators.py:333`) | `SettingsChange.cfg`: check `ConfigValid` | two changes, valid alone, applied together; `ApartKeepsValid` and `WholeProposalsStayValid` say when it holds |

The overlaps need two tasks of the same kind, or two requests, at a time. Nothing in
the repository prevents it: beat starts a task each minute whether or not the last
has ended, tasks are acknowledged late, and the documented worker command uses the
default concurrency.

## 5. Proofs

Everything below is about all values of the constants that meet the named assumptions of
the modules. Induction comes in one form only, over the steps of a behaviour; where the
data needed one, a least counterexample does it (`CountingProofs`). Some theorems assume
how the system is operated: `OneWorker` (at most one slow-path or polling task at a
time), `OneExecutor`, `OneVerifier`, `OneRequester`. Nothing in the code enforces these;
the table above says what TLC finds without them.

### SignalPipelineProofs

`TypeCorrect == Spec => []TypeOK`. `TypeOK` is not inductive alone:
`ProcessSignal` reads the stored row of a fetched number, so the invariant adds
that every fetched signal is stored (`FetchedStored`). There is one lemma per
operator that builds a row or a session, and one step per action.

`NoDoubleCount == OneWorker => (Spec => []NoOvercount)`; with two workers TLC finds a
sale counted twice. Requests are unrestricted in number. The argument:

* `OwnIds`, `ReservedOK`: the numbers a request writes are its own, taken from
  `nextId`, so no two sessions process the same signal except through a fetch;
* `FetchedOK`: what the one worker has fetched and not handled is stored and
  unprocessed, or its copies were expired and will be read again;
* `CopiesOK`: the total in a session's copy of an agent is at most the sales
  processed in the database plus the sales this session has handled itself;
* a commit then makes exactly those sales processed, so the written total is at
  most the processed sales (`CommitCounts`). A stale copy can only be too low,
  since processed signals stay processed.

The conjunction, `CountInv`, was checked by TLC as an invariant of the
`signal_pipeline` instance before it was proved.

`CountsExactly` adds that the total is also not too low for an agent no session wrote
from a replaced copy: until then every copy is the row as it stands plus the session's
own sales (`ExactInv`). It needs `OneWorker` and that row-level security does not hide the
agents (`~RlsEnforced`). The same idea, for the state instead of the total (`StoryInv`),
gives four theorems that hold for any number of tasks: `AuditNamesState` (the last audit
signal names the state in the column, overwritten or not) and, for agents never
overwritten, `AuditIsChain` (each transition starts from the state the one before it
reached), `LapsedStays` (a lapsed license stays so until it is renewed) and
`TerminatedStays` (only an expired license ends TERMINATED; nothing else does). The last two
follow from one lemma about any move (`StepExplains`): a committed change of state comes
with a new audit entry that goes on from the old state and names a stored signal that
allows it. `SignalsMoveOnce` needs `OneWorker`: a signal causes at most
one transition. `AlertsNudge`, one nudge per alert, assumes that the nudge is no kind a
request may post (`NudgeKind \notin Kinds`), as in the instance.

### PlaybookProofs

Seven theorems. `PlaybookTypeCorrect`; `RunsAreSingle` (an agent has two active runs of a
playbook only if their requests overlapped) and `TimesCountRuns` (the counter of a
playbook is the number of its runs unless the requests of two of them overlapped), for
any number of requests and tasks; `CountIsTrail` (the
counter of a run is the length of its trail) and `RunsAreScheduled` (an active run has
a next day) for one polling task at a time; and `RunKeepsPromise`, that
`PlaybookExecution` implements `PlaybookRun`, whose steps are the commits. What makes the
refinement work is that a session holds, for each run it has moved, the row as it was
fetched and the row the rules make of it, and that with one task nobody else has
written it since. `RunsAreSingle` rests on `ActiveInv`: a run in progress overlapped every
request under way for its playbook and agent, since that request found none; such a
request has looked before the run was committed. `TimesCountRuns` rests on `TimesInv`: the
counter a request holds is right once its run is stored, unless two runs of the playbook overlapped. The refinement pays at once: `TrailsFollowRules` says of the stored rows
what the abstract run alone implies (`TrailIsWalk`): they are a walk through the rules from
the first step, and the end is announced once. With two tasks TLC finds it violated.

### DecisionProofs

Six theorems about `DecisionExecution` for any number of
agents, tenants, requests and any set of moments. `DecisionTypeCorrect`; the
decisions under way are counted with the logged ones. `CallsAreInHours == Spec =>
[]CallsInHours` rests on a lemma about `check_trai_hours` alone (`DeferOpens`), true
of every integer time, and on rows being written as `Decide` made them
(`UnderWayFresh`). `BatchKeepsDistance == Spec => []BatchSpacing` needs no assumption:
the invariant (`SpacingInv`) is that what the batch has decided for a tenant is a day
apart from all it ever committed and about agents it will not look at again; it
holds because `created_at` is never earlier than the `now` that the cadence is
measured from, the same fact that makes `DailyMeansDaily` fail.
`NudgesAlertOnce == OneExecutor => (Spec => []AlertedOnce)`: with one executor at a
time what it holds has not been executed (`HeldAreDue`), and an alert and the mark
that it was made commit together. `SkippedWithinCadence == Spec => []SkipBound`: the batch
passes an agent over on at most as many days as its cadence says, because the days
passed over lie within a cadence of the day of its last decision (`SkipInv`).
`FourRulesNeverDecide == Spec => []DecisionsHaveReasons`: URGENT_001, URGENT_002, OPP_003
and ADM_COMP_001 are never the reason of a decision, whatever the agents do, because
neither `build_decision_input` nor its copy in the task fills in the training hours, the
state before, the last sale or the class of the manager that they look at; so no sale is
celebrated and no manager escalated. Every other decision does what its rule says on the
rule's channel, or a constraint made it do nothing.

### SettingsChangeProofs

`SettingsTypeCorrect == Spec => []TypeOK` and
`AttemptsNeedNoTest == Spec => []GuessLeft`: `verify_and_apply` never tests
`otp_attempts` before it counts a guess, and need not, because a request that is
pending, or that a session found pending, has a guess left. The invariant
(`TypeInv`) says so per session, together with whose number a request call holds
and that the numbers nobody has taken have no row.

`SettingsAreALedger == OneVerifier => (Spec =>
LedgerPromise)`, for any number of requests, cancels and sections. The ledger's
`asked` is mapped to the proposals of the rows. A commit of a request is the step
`Asks`, an application is `Merges`, all others stutter. The invariant (`LedgerInv`)
is that a request which may still be applied has not been merged, and that a
session about to write the configuration holds it as it stands; the second half is
what two verifications break.

`GuessesAreLimited == OneVerifier => (Spec =>
[]GuessLimit)`: three wrong passwords end a request for good although
`otp_attempts` is read long before it is written. The invariant (`GuessInv`, on top
of `LedgerInv`) is that the row counts every answered guess, that a session which
may count one more holds the row's number, and that a request which used up its
guesses is neither pending nor merged.

`OneChangeToVerify == OneRequester => (Spec => []OnePendingPerSection)`: with one request
call at a time a section never has two changes waiting for a password, whatever
verifications and cancels do meanwhile.

`AuditTellsConfig == OneVerifier => (Spec => []Ledger!AuditIsHistory)`: the audit log is the
history of the configuration, section by section, none lost and none twice. It follows from
the ledger alone, a change at a time (`HistoryStep`).

*The rule between two fields.* `ConfigValid` fails, since a proposal is checked against the
configuration of the request and applied to a later one. Two theorems say when it holds.
`ApartKeepsValid == OneRequester /\ OneVerifier /\ ValidAtFirst => (Spec /\ []Apart =>
[]ConfigValid)`: it takes a request that is between its check and its commit while a
verification runs. Without that overlap, whatever may still be applied fits the
configuration as it stands (`FitInv`), because a request expires the others of its
section. `WholeProposalsStayValid`: a section whose proposals name both fields of the
rule stays valid under any overlap, since they are valid alone and replace both
(`SectionInv`). `FitInv`, `Ledger!AuditIsHistory` and `Run!TrailIsWalk` were checked by TLC
on instances of section 4 before they were proved.

### CountingProofs

*Slots.* `VoiceTypeCorrect` and
`SlotsLimitCalls == VoiceSpec => []CallsWithinSlots` under `VoiceAssumption` alone, for
any finite set of callers. The running calls are not counted by the key itself: the
invariant (`SlotInv`) is that, until the key expires under a caller, it is at least the
number of callers that have incremented it and not taken that back, running or not.
So it is positive before any DECR, nobody comes to the SET 0 of `release_voice_slot`
(`NoClamp`), and a dead caller only leaves it too high. `FullSlotsExpire`: for a full
counter to stay without an expiry, as many callers must have died between INCR and
EXPIRE as there are slots (`LapseInv`).

*The hour and the day.* `HourIsLimited == VoiceSpec => []HourlyLimit` and
`DayIsLimited == WhatsAppSpec => []DailyLimit` bound what check-then-act lets through,
for any number of callers and senders. Both sum over a window. The provers cannot
instantiate an induction principle, so the lemmas about sums (`SumsSolve`, `SumWith`,
`SumAtMost`, `SumOneMore`) take a least counterexample instead: the naturals are well
ordered (`LeastNat`), so of the finite sets that break a claim one has no other inside
(`SmallestSet`), and removing an element from it contradicts that. The invariant of the
hour (`HourInv`) is that the calls in the window and the callers cleared but not yet
counted are together at most the limit and the other callers. The invariant of the day
(`DayOK`, per agent) also says what an expired counter would leave uncovered: once the
counter expires, the messages of the day that are left were sent after its last
increment, so they belong to senders that have not counted them, or died, or got no
answer. Both limits
need at least one caller or sender (`Callers # {}`): with a limit of zero the bound would
be negative otherwise. `WindowRemembers`: the window forgets no call of the last hour
(`WindowInv`).

*Templates.* `TemplatesGoForward == TemplateSpec => WorkflowForward` needs no assumption on the
number of requests. The invariant (`TemplateInv`) is that a request knows the status
of its row until another one has changed it, that an activation read "approved" from a
row that is approved, and that the unique index keeps live rows apart. An overtaken
request aside, the row that was sent is still active or out of service, so a
different choice has a greater version: not an equal one, by the index. That a newest
row exists is `Newest`, from the well-foundedness of the order of the naturals.

*Figures.* `ReportsSayTheSame == Spec => []StoredIsLive`,
`ReactivationsOrdered == Spec => []ReactivationsRelate` and
`ClassesOfManagers == Spec => []ClassesAgree`, for any agents, managers and thresholds
in order, any finite set of signals and any hour; the run bounds signals to a handful. The invariant
(`FiguresInv`) says that the data is finite and the hour one of the day; a signal may
name an agent that is in no list, as the column has no foreign key. The weight is in the
counting: a dictionary of counts, added up over some keys, is the number of elements with
one of the keys (`CountByKey`, from the lemmas about sums, and `SummedCounts`). From it
follow that the counts per intervention are the reactivations of an agent and that the
ranking counts no reactivation twice (`SummedRanked`). `SameStages` compares the two readings
of a signal in the funnel, type by type; `FunnelsAgree` and `ReactivationsAdd` then bound what
the two windows have apart, as a report's window that began at midnight contains the page's
(`StoredIsWider`). `ClassesDiffer` needs that the thresholds are in order
(`ThresholdsApart`) and that rounding never carries a rate across a threshold, at most onto
one (`RoundedKeepsSide`): that is where the two classifications meet.

*Briefings.* `BriefingsAgree == Spec => []TaskIsAbridged`, for any agents and managers,
any finite set of signals, any books and any limit of the list. All it assumes of the
orders in which the two queries list the agents is that each lists every agent once. The
lists of a briefing are concatenations of `InOrder(group)`, the agents of a group in that
order, cut at the limit. `InOrderLists` (`InOrder` lists exactly its group, each once, in
order) is proved by a least position at which the prefix built so far would be wrong;
`ListsJoin` carries "lists each once" through concatenation and `FirstAbridges` through
cutting. From disjoint groups (`GroupsApart`) it follows that no list names an agent twice
and that the requested one goes by urgency, full where it leaves someone out
(`ListsAbridge`); the numbers of each group on the two lists depend on the sizes of the
groups and not on the orders (`NumbersOnLists`), which gives the comparison
(`PrioritiesAgree`). The week's newly at-risk agents of all managers are counts of disjoint
parts of one finite set (`WeeksAgree`, `SummedAtRisk`).

### WebhookProofs

`AcknowledgedIsStored == Spec => []EffectsStored`: whatever is delivered again, refused,
or in two transactions at once, the effects of an acknowledged batch are in the database
(`StoredInv`: each message of a delivery is still to be handled, or has its signals among
those to be emitted, inserted or stored, and a key says which signal a lookup finds); an
escalation has a nudge if its sender has an ADM. The proof showed that the property had said too much of
calls: two calls with the same id are one call to `emit_signal`, so it now asks for *a*
signal with the call's key. `CompletionsAreEarned == Spec => []CompletionsEarned`: every completion, stored or
under way, was paid with as many answers as the quiz has questions, and the quiz under
way has paid for its questions so far (`QuizInv`).

### UploadProofs

`JobsTellTheTruth == Spec => []JobReport`: the counts of every stored job agree with the
rows that changed, for any files, tenants and interleaving of uploads. The invariant
(`UploadInv`) keeps books: each result of a transaction is explained by its row and by
what is stored or pending, each pending write and signal belongs to a row already
handled, and the keys of open transactions are apart from each other and from the stored
ones, because an INSERT waits for the transaction that holds its key.
`LoneMappingHolds == Spec => []MappedWhenAlone`: a source that only one tenant maps has
that tenant's mapping while one of its files is under way, and that or the default one
at other times (`MappingInv`).

### PeriodicProofs

For any managers, tenants, calendar, and any number of failures, deliveries and requests:
`ReturnedTellsTruth == Spec => []ReturnedIsStored` (`ReturnInv`) and
`TasksLoseOnlyIfTaken == Spec => []LostOnlyIfTaken` (`LostInv`: what is stored tells who
stored it, and a session breaks only on a row that was taken). An earlier form of the second
property named fewer ways to lose a run; it held in the instance because two failures
were too few, and the attempt to prove it showed the third way.

### What is only model-checked

Liveness (`EventuallyProcessed`, `RunsEnd`, `DueAreExecuted`, `AllAcknowledged`), which
is outside the proof system's reach, and the two violations. Every other property of a
run is the statement of a theorem. No recursive operator is used.

## 6. Not modelled

See the components with status `not_modelled` or `partly` in `PROJECT.json`. In
short: the training library and the users, tenants and agents' editing (single-row
create, read, update; `times_assigned` in `training/service.py` is written from a
copy, the same hazard as `times_executed` of playbooks); acting on an alert (one row,
one key); the asynchronous playbook executor and `batch_evaluate`, which nothing calls
outside the tests; conversation flows and language understanding (text matching);
listings and paging; the event bus (nobody subscribes); token encoding; the frontend,
seeds, scripts and migrations. Row-level security is modelled in `SignalPipeline`
only; uploads and reports are modelled as the owner of the tables runs them.
