------------------------ MODULE SignalPipelineProofs ------------------------
(***************************************************************************)
(* Proofs about SignalPipeline, for every set of agents, workers and       *)
(* requests and every bound.                                               *)
(***************************************************************************)
EXTENDS SignalPipeline, FiniteSetTheorems, TLAPS

-----------------------------------------------------------------------------
(* What the operators on a session return.                                 *)

\* compute_transition returns a state or nothing.
LEMMA TransitionType ==
  ASSUME NEW state \in AgentStates, NEW k \in SignalKinds, NEW total, NEW engaged
  PROVE  ComputeTransition(state, k, total, engaged) \in AgentStates \cup {NoChange}
BY DEF ComputeTransition, HandlerResult, AgentStates, LicenseExpired, LicenseActive, NoChange

LEMMA ClosedType == Closed \in Session
<1>1. [a \in Agents |-> NoEntries] \in [Agents -> Seq(AuditEntry)]
  BY DEF NoEntries
<1>2. QED
  BY <1>1 DEF Closed, Session

\* Session t with another row and other audit entries for agent a.
Replaced(t, a, row, log) == [t EXCEPT !.rows[a] = row, !.audit[a] = log]

\* Session u differs from t at most in the row and the audit entries of a.
SameButRow(u, t, a, row, log) ==
  /\ u.open = t.open /\ u.todo = t.todo /\ u.writes = t.writes
  /\ u.alerts = t.alerts /\ u.stale = t.stale
  /\ u.rows = [t.rows EXCEPT ![a] = row] /\ u.audit = [t.audit EXCEPT ![a] = log]

\* Such a session is well typed and keeps its other fields.
LEMMA SessionUpdate ==
  ASSUME NEW t \in Session, NEW a \in Agents,
         NEW row \in AgentRow, NEW log \in Seq(AuditEntry)
  PROVE  /\ Replaced(t, a, row, log) \in Session
         /\ SameButRow(Replaced(t, a, row, log), t, a, row, log)
BY DEF Session, Replaced, SameButRow

\* The audit entries after signal i of kind k took the agent from one state to
\* another: nothing to explain, or one more entry.
Explains(log, before, from, to, k, i) ==
  \/ log = before /\ to = from
  \/ /\ log = Append(before, [from |-> from, to |-> to, trigger |-> i])
     /\ from = "lapsed" => LicenseActive(k)
     /\ from = "terminated" => LicenseExpired(k)

\* A lapsed agent moves only when its license is active, a terminated one only
\* when its license has expired.
LEMMA LapsedMoves ==
  ASSUME NEW k \in SignalKinds, NEW total, NEW engaged,
         ComputeTransition("lapsed", k, total, engaged) # NoChange
  PROVE  LicenseActive(k)
BY DEF ComputeTransition, HandlerResult, NoChange

LEMMA TerminatedMoves ==
  ASSUME NEW k \in SignalKinds, NEW total, NEW engaged,
         ComputeTransition("terminated", k, total, engaged) # NoChange
  PROVE  LicenseExpired(k)
BY DEF ComputeTransition, HandlerResult, NoChange

\* Understand changes only the row and the audit entries of its agent, counts
\* the signal exactly if it is a sale and explains a change of state.
LEMMA UnderstandType ==
  ASSUME NEW t \in Session, NEW a \in Agents, NEW k \in SignalKinds, NEW i \in Ids,
         t.rows[a] \in AgentRow
  PROVE  \E row \in AgentRow, log \in Seq(AuditEntry) :
           /\ row.total = IF k.type = "policy_sold" THEN t.rows[a].total + 1
                                                    ELSE t.rows[a].total
           /\ Explains(log, t.audit[a], t.rows[a].state, row.state, k, i)
           /\ Understand(t, a, k, i) \in Session
           /\ SameButRow(Understand(t, a, k, i), t, a, row, log)
<1> DEFINE row   == t.rows[a]
           total == IF k.type = "policy_sold" THEN row.total + 1 ELSE row.total
           new   == ComputeTransition(row.state, k, total, a \in Engaged)
           kept  == [row EXCEPT !.total = total]
           entry == [from |-> row.state, to |-> new, trigger |-> i]
           moved == [state |-> new, total |-> total,
                     reason |-> row.reason /\ row.state # "dormant"]
<1>1. row.state \in AgentStates /\ row.total \in Nat /\ row.reason \in BOOLEAN /\ total \in Nat
  BY DEF AgentRow
<1>2. new \in AgentStates \cup {NoChange}
  <2> HIDE DEF total
  <2> QED BY <1>1, TransitionType
<1>3. t.audit[a] \in Seq(AuditEntry)
  BY DEF Session
<1>4. CASE new = NoChange
  <2>1. Understand(t, a, k, i) = [t EXCEPT !.rows[a].total = total]
    BY <1>4 DEF Understand
  <2> HIDE DEF total, new
  <2>2. kept \in AgentRow /\ kept.total = total /\ kept.state = t.rows[a].state
    BY <1>1 DEF AgentRow
  <2>3. Understand(t, a, k, i) = Replaced(t, a, kept, t.audit[a])
    BY <2>1 DEF Session, Replaced
  <2> HIDE DEF kept
  <2>4. kept.total = IF k.type = "policy_sold" THEN t.rows[a].total + 1 ELSE t.rows[a].total
    BY <2>2 DEF total
  <2>5. Understand(t, a, k, i) \in Session
        /\ SameButRow(Understand(t, a, k, i), t, a, kept, t.audit[a])
    BY <1>3, <2>2, <2>3, SessionUpdate
  <2>6. Explains(t.audit[a], t.audit[a], t.rows[a].state, kept.state, k, i)
    BY <2>2 DEF Explains
  <2>7. QED
    BY <1>3, <2>2, <2>4, <2>5, <2>6
<1>5. CASE new # NoChange
  <2> DEFINE log == Append(t.audit[a], entry)
  <2>1. Understand(t, a, k, i) = Replaced(t, a, moved, log)
    BY <1>5 DEF Understand, Session, Replaced
  <2>2. (row.state = "lapsed" => LicenseActive(k)) /\ (row.state = "terminated" => LicenseExpired(k))
    <3> HIDE DEF total
    <3> QED BY <1>5, LapsedMoves, TerminatedMoves
  <2> HIDE DEF total, new
  <2>3. moved \in AgentRow /\ moved.total = total /\ moved.state = new
    BY <1>1, <1>2, <1>5 DEF AgentRow
  <2>4. entry \in AuditEntry
    BY <1>1, <1>2, <1>5 DEF AuditEntry
  <2>5. Explains(log, t.audit[a], t.rows[a].state, moved.state, k, i)
    BY <2>2, <2>3 DEF Explains
  <2> HIDE DEF entry, moved
  <2>6. log \in Seq(AuditEntry)
    BY <1>3, <2>4
  <2>7. moved.total = IF k.type = "policy_sold" THEN t.rows[a].total + 1 ELSE t.rows[a].total
    BY <2>3 DEF total
  <2> HIDE DEF log
  <2>8. Understand(t, a, k, i) \in Session
        /\ SameButRow(Understand(t, a, k, i), t, a, moved, log)
    BY <2>1, <2>3, <2>6, SessionUpdate
  <2>9. QED
    BY <2>3, <2>5, <2>6, <2>7, <2>8
<1>6. QED
  BY <1>4, <1>5

\* Loading the agent keeps the copy the session has, or takes the committed row.
Loaded(t, a) == IF t.rows[a] = None THEN agents[a] ELSE t.rows[a]

LEMMA LoadType ==
  ASSUME TypeOK, NEW t \in Session, NEW a \in Agents
  PROVE  /\ Load(t, a) \in Session
         /\ SameButRow(Load(t, a), t, a, Loaded(t, a), t.audit[a])
         /\ Loaded(t, a) \in AgentRow
BY DEF Load, Loaded, Session, TypeOK, SameButRow

\* A sale adds one.
Sold(k) == IF k.type = "policy_sold" THEN 1 ELSE 0

\* Session u is t after it loaded agent a and handled signal i of kind k.
Understood(u, t, a, k, i) ==
  \E row \in AgentRow, log \in Seq(AuditEntry) :
    /\ row.total = Loaded(t, a).total + Sold(k)
    /\ Explains(log, t.audit[a], Loaded(t, a).state, row.state, k, i)
    /\ u.rows = [t.rows EXCEPT ![a] = row] /\ u.audit = [t.audit EXCEPT ![a] = log]
    /\ u.stale = t.stale

\* Loading the agent and handling the signal.
LEMMA HandledType ==
  ASSUME TypeOK, NEW t \in Session, NEW a \in Agents, NEW k \in SignalKinds, NEW i \in Ids
  PROVE  LET u == Understand(Load(t, a), a, k, i)
         IN  /\ u \in Session /\ Understood(u, t, a, k, i)
             /\ u.open = t.open /\ u.todo = t.todo /\ u.writes = t.writes /\ u.alerts = t.alerts
<1> DEFINE l == Load(t, a)
           u == Understand(l, a, k, i)
<1>1. /\ l \in Session /\ SameButRow(l, t, a, Loaded(t, a), t.audit[a]) /\ Loaded(t, a) \in AgentRow
  BY LoadType
<1>2. l.rows[a] = Loaded(t, a) /\ l.audit[a] = t.audit[a]
  BY <1>1 DEF SameButRow, Session
<1> HIDE DEF l
<1>3. PICK row \in AgentRow, log \in Seq(AuditEntry) :
        /\ row.total = IF k.type = "policy_sold" THEN l.rows[a].total + 1 ELSE l.rows[a].total
        /\ Explains(log, l.audit[a], l.rows[a].state, row.state, k, i)
        /\ u \in Session /\ SameButRow(u, l, a, row, log)
  BY <1>1, <1>2, UnderstandType
<1> HIDE DEF u
<1>4. SameButRow(u, t, a, row, log)
  BY <1>1, <1>3 DEF SameButRow
<1>5. row.total = Loaded(t, a).total + Sold(k)
  BY <1>1, <1>2, <1>3 DEF Sold, AgentRow
<1>6. Understood(u, t, a, k, i)
  BY <1>2, <1>3, <1>4, <1>5 DEF Understood, SameButRow
<1>7. QED
  BY <1>3, <1>4, <1>6 DEF u, l, SameButRow

\* A processed row differs from the stored one in its flag only.
LEMMA MarkedRow ==
  ASSUME NEW row \in SignalRow
  PROVE  /\ MarkProcessed(row) \in SignalRow
         /\ MarkProcessed(row).agent = row.agent /\ MarkProcessed(row).kind = row.kind
         /\ MarkProcessed(row).processed
BY DEF SignalRow, MarkProcessed

\* Session u holds the copies session t holds.
SameCopies(u, t) == u.rows = t.rows /\ u.audit = t.audit /\ u.stale = t.stale

\* Session t with one more signal row to write.
Written(t, i, row) == [t EXCEPT !.writes[i] = row]

LEMMA WrittenType ==
  ASSUME NEW t \in Session, NEW i \in Ids, NEW row \in SignalRow
  PROVE  /\ Written(t, i, row) \in Session
         /\ Written(t, i, row).writes = [t.writes EXCEPT ![i] = row]
         /\ Written(t, i, row).todo = t.todo /\ Written(t, i, row).alerts = t.alerts
         /\ SameCopies(Written(t, i, row), t)
BY DEF Session, Written, SameCopies

\* The slow path's handling of one fetched signal: the agent is not found, or
\* the signal is understood.
LEMMA HandleType ==
  ASSUME TypeOK, NEW t \in Session, NEW i \in Ids, signals[i] # None
  PROVE  LET u == Handle(t, i)
         IN  /\ u \in Session /\ u.todo = t.todo /\ u.alerts = t.alerts
             /\ u.writes = [t.writes EXCEPT ![i] = MarkProcessed(signals[i])]
             /\ \/ RlsEnforced /\ SameCopies(u, t)
                \/ ~RlsEnforced /\ Understood(u, t, signals[i].agent, signals[i].kind, i)
<1> DEFINE a == signals[i].agent
           k == signals[i].kind
           h == Understand(Load(t, a), a, k, i)
           u == IF RlsEnforced THEN t ELSE h
<1>1. signals[i] \in SignalRow
  BY DEF TypeOK
<1>2. a \in Agents /\ k \in SignalKinds /\ MarkProcessed(signals[i]) \in SignalRow
  BY <1>1 DEF SignalRow, MarkProcessed
<1>3. /\ h \in Session /\ Understood(h, t, a, k, i)
      /\ h.todo = t.todo /\ h.writes = t.writes /\ h.alerts = t.alerts
  BY <1>2, HandledType
<1>4. Handle(t, i) = Written(u, i, MarkProcessed(signals[i]))
  BY DEF Handle, Written
<1> HIDE DEF h, a, k
<1>5. /\ u \in Session /\ u.todo = t.todo /\ u.writes = t.writes /\ u.alerts = t.alerts
      /\ \/ RlsEnforced /\ u = t
         \/ ~RlsEnforced /\ u = h
  BY <1>3
<1> HIDE DEF u
<1>6. /\ Handle(t, i) \in Session
      /\ Handle(t, i).todo = u.todo /\ Handle(t, i).alerts = u.alerts
      /\ Handle(t, i).writes = [u.writes EXCEPT ![i] = MarkProcessed(signals[i])]
      /\ SameCopies(Handle(t, i), u)
  BY <1>2, <1>4, <1>5, WrittenType
<1>7. ~RlsEnforced => Understood(Handle(t, i), t, a, k, i)
  <2> SUFFICES ASSUME ~RlsEnforced PROVE Understood(Handle(t, i), t, a, k, i)
    OBVIOUS
  <2>1. SameCopies(Handle(t, i), h)
    BY <1>5, <1>6
  <2>2. QED
    BY <1>3, <2>1 DEF SameCopies, Understood
<1>8. \/ RlsEnforced /\ SameCopies(Handle(t, i), t)
      \/ ~RlsEnforced /\ Understood(Handle(t, i), t, signals[i].agent, signals[i].kind, i)
  <2>1. RlsEnforced => u = t
    BY <1>5
  <2>2. QED
    BY <1>6, <1>7, <2>1 DEF a, k
<1>9. /\ Handle(t, i).todo = t.todo /\ Handle(t, i).alerts = t.alerts
      /\ Handle(t, i).writes = [t.writes EXCEPT ![i] = MarkProcessed(signals[i])]
  BY <1>5, <1>6
<1>10. QED
  BY <1>6, <1>8, <1>9

\* What the fast path's transaction writes: its signal, and the nudge if there
\* is an alert.
LEMMA WithAlertType ==
  ASSUME NEW t \in Session, NEW a \in Agents, NEW type \in AlertTypes, NEW n \in Ids
  PROVE  LET u == WithAlert(t, a, type, n)
         IN  /\ u \in Session /\ u.todo = t.todo /\ SameCopies(u, t)
             /\ u.alerts = {[agent |-> a, type |-> type, nudge |-> n]}
             /\ u.writes =
                  [t.writes EXCEPT ![n] = [agent |-> a, kind |-> NudgeKind, processed |-> FALSE]]
<1> DEFINE nudge == [agent |-> a, kind |-> NudgeKind, processed |-> FALSE]
           al    == {[agent |-> a, type |-> type, nudge |-> n]}
<1>1. nudge \in SignalRow
  BY DEF SignalRow, NudgeKind, Kind, SignalKinds
<1>2. al \subseteq AlertRow
  BY DEF AlertRow
<1>3. WithAlert(t, a, type, n) = [t EXCEPT !.alerts = al, !.writes[n] = nudge]
  BY DEF WithAlert
<1> HIDE DEF nudge, al
<1> DEFINE alerted == [t EXCEPT !.alerts = al]
<1>4. /\ alerted \in Session /\ alerted.writes = t.writes /\ alerted.alerts = al
      /\ SameCopies(alerted, t) /\ alerted.todo = t.todo
  BY <1>2 DEF Session, SameCopies
<1>5. WithAlert(t, a, type, n) = Written(alerted, n, nudge)
  BY <1>3 DEF Written, Session
<1> HIDE DEF alerted
<1>6. /\ Written(alerted, n, nudge) \in Session
      /\ SameCopies(Written(alerted, n, nudge), t) /\ Written(alerted, n, nudge).todo = t.todo
      /\ Written(alerted, n, nudge).writes = [t.writes EXCEPT ![n] = nudge]
      /\ Written(alerted, n, nudge).alerts = al
  BY <1>1, <1>4, WrittenType DEF SameCopies
<1>7. QED
  BY <1>5, <1>6 DEF nudge, al

LEMMA AlertForType ==
  ASSUME NEW a, NEW k, NEW state
  PROVE  AlertFor(a, k, state) \in AlertTypes \cup {None}
BY DEF AlertFor, AlertTypes

\* The alert rows of a POST /signals that took the numbers from nextId to n.
Alerted(t, a, n) ==
  /\ n = nextId => t.alerts = {}
  /\ n # nextId =>
       /\ t.writes[n] = [agent |-> a, kind |-> NudgeKind, processed |-> FALSE]
       /\ \E type \in AlertTypes : t.alerts = {[agent |-> a, type |-> type, nudge |-> n]}

\* Session t, left open by such a POST, holds the loaded and counted row and
\* writes the signal and the nudge.
Posted(t, a, k, n) ==
  /\ nextId \in Ids /\ n \in Ids /\ n \in {nextId, nextId + 1}
  /\ t \in Session /\ t.todo = {}
  /\ Understood(t, Closed, a, k, nextId)
  /\ t.writes[nextId] \in SignalRow
  /\ t.writes[nextId].agent = a /\ t.writes[nextId].kind = k /\ t.writes[nextId].processed
  /\ \A i \in Ids \ {nextId, n} : t.writes[i] = None
  /\ Alerted(t, a, n)

LEMMA ClosedLoads == ASSUME NEW a \in Agents PROVE Loaded(Closed, a) = agents[a]
BY DEF Loaded, Closed

LEMMA PostSignalType ==
  ASSUME TypeOK, NEW r \in Requests, NEW a \in Agents, NEW k \in SignalKinds,
         NEW evaluated \in BOOLEAN, PostSignal(r, a, k, evaluated)
  PROVE  \E n, t : Posted(t, a, k, n) /\ tx' = [tx EXCEPT ![r] = t] /\ nextId' = n + 1
<1> DEFINE alert == AlertFor(a, k, agents[a].state)
           last  == IF alert = None THEN nextId ELSE nextId + 1
           done  == MarkProcessed([agent |-> a, kind |-> k, processed |-> FALSE])
           nudge == [agent |-> a, kind |-> NudgeKind, processed |-> FALSE]
           h     == Understand(Load(Closed, a), a, k, nextId)
           dec   == IF evaluated THEN {a} ELSE {}
           opened == [h EXCEPT !.open = TRUE, !.decided = dec]
           t     == Written(opened, nextId, done)
           final == IF alert = None THEN t ELSE WithAlert(t, a, alert, last)
<1>1. alert \in AlertTypes \cup {None}
  BY AlertForType
<1>2. last \in Ids /\ nextId' = last + 1
  BY DEF PostSignal
<1>3. nextId \in Ids /\ last \in {nextId, nextId + 1}
  <2> HIDE DEF alert
  <2> QED BY <1>2, ConstantsAssumption DEF TypeOK, Ids
<1>4. done \in SignalRow /\ done.agent = a /\ done.kind = k /\ done.processed
  BY MarkedRow DEF SignalRow
<1>5. /\ h \in Session /\ Understood(h, Closed, a, k, nextId)
      /\ h.todo = Closed.todo /\ h.writes = Closed.writes /\ h.alerts = Closed.alerts
  BY <1>3, ClosedType, HandledType
<1>6. tx' = [tx EXCEPT ![r] = final]
  <2>1. t = [h EXCEPT !.open = TRUE, !.writes[nextId] = done, !.decided = dec]
    <3> HIDE DEF h, done, dec
    <3> QED BY <1>5 DEF Session, Written
  <2> HIDE DEF t
  <2>2. QED
    BY <2>1 DEF PostSignal
<1> HIDE DEF h, alert, done, nudge
<1>7. /\ opened \in Session /\ SameCopies(opened, h) /\ opened.todo = h.todo
      /\ opened.writes = h.writes /\ opened.alerts = h.alerts
  <2> dec \subseteq Agents
    OBVIOUS
  <2> HIDE DEF dec
  <2> QED BY <1>5 DEF Session, SameCopies
<1> HIDE DEF opened
<1>8. Closed.todo = {} /\ Closed.alerts = {} /\ Closed.writes = [i \in Ids |-> None]
  BY DEF Closed
<1>9. /\ t \in Session /\ t.todo = {} /\ t.alerts = {} /\ SameCopies(t, h)
      /\ t.writes = [Closed.writes EXCEPT ![nextId] = done]
  <2>1. /\ t \in Session /\ t.todo = opened.todo /\ t.alerts = opened.alerts /\ SameCopies(t, opened)
        /\ t.writes = [opened.writes EXCEPT ![nextId] = done]
    BY <1>3, <1>4, <1>7, WrittenType
  <2> HIDE DEF t
  <2>2. QED
    BY <1>5, <1>7, <1>8, <2>1 DEF SameCopies
<1> HIDE DEF t
<1>10. /\ final \in Session /\ SameCopies(final, h) /\ final.todo = {}
       /\ final.writes[nextId] = done
       /\ \A i \in Ids \ {nextId, last} : final.writes[i] = None
       /\ Alerted(final, a, last)
  <2>1. CASE alert = None
    <3>1. final = t /\ last = nextId
      BY <2>1
    <3> HIDE DEF final, last
    <3>2. QED
      BY <1>3, <1>8, <1>9, <3>1 DEF Alerted
  <2>2. CASE alert # None
    <3>1. final = WithAlert(t, a, alert, last) /\ last = nextId + 1
      BY <2>2
    <3> HIDE DEF final, last
    <3>2. /\ final \in Session /\ SameCopies(final, t) /\ final.todo = t.todo
          /\ final.writes = [t.writes EXCEPT ![last] = nudge]
          /\ final.alerts = {[agent |-> a, type |-> alert, nudge |-> last]}
      BY <1>1, <1>2, <1>9, <2>2, <3>1, WithAlertType DEF nudge
    <3>3. nextId # last
      BY <1>3, <3>1 DEF Ids
    <3>4. /\ final.writes[nextId] = done /\ final.writes[last] = nudge
          /\ \A i \in Ids \ {nextId, last} : final.writes[i] = None
      BY <1>2, <1>3, <1>8, <1>9, <3>2, <3>3
    <3>5. Alerted(final, a, last)
      BY <1>1, <2>2, <3>2, <3>3, <3>4 DEF Alerted, nudge
    <3>6. QED
      BY <1>9, <3>2, <3>4, <3>5 DEF SameCopies
  <2>3. QED
    BY <2>1, <2>2
<1> HIDE DEF final, last
<1>11. Understood(final, Closed, a, k, nextId)
  BY <1>5, <1>10 DEF Understood, SameCopies
<1>12. Posted(final, a, k, last)
  BY <1>2, <1>3, <1>4, <1>10, <1>11 DEF Posted
<1>13. QED
  BY <1>2, <1>6, <1>12

LEMMA FlushedRowType ==
  ASSUME TypeOK, NEW t \in Session, NEW a \in Agents
  PROVE  FlushedRow(t, a) \in AgentRow
<1>1. agents[a] \in AgentRow /\ t.rows[a] \in AgentRow \cup {None}
  BY DEF TypeOK, Session
<1>2. CASE t.rows[a] = None
  BY <1>1, <1>2 DEF FlushedRow, Touched
<1>3. CASE t.rows[a] # None
  BY <1>1, <1>3 DEF FlushedRow, AgentRow
<1>4. QED
  BY <1>2, <1>3

\* A commit closes the session and leaves the other sessions their rows,
\* fetched signals and writes.
LEMMA CommitType ==
  ASSUME TypeOK, NEW s \in Sessions, Commit(s)
  PROVE  /\ agents' \in [Agents -> AgentRow]
         /\ signals' \in [Ids -> SignalRow \cup {None}]
         /\ audit' \in [Agents -> Seq(AuditEntry)]
         /\ alerts' \subseteq AlertRow
         /\ decisions' \in [Agents -> Nat]
         /\ tx' \in [Sessions -> Session]
         /\ overwritten' \subseteq Agents
         /\ tx'[s] = Closed
         /\ \A x \in Sessions \ {s} :
              /\ tx'[x].rows = tx[x].rows /\ tx'[x].audit = tx[x].audit
              /\ tx'[x].todo = tx[x].todo /\ tx'[x].writes = tx[x].writes
              /\ tx'[x].alerts = tx[x].alerts
              /\ tx'[x].stale = tx[x].stale \cup {a \in Touched(tx[s]) : tx[x].rows[a] # None}
<1> DEFINE t == tx[s]
<1>1. t \in Session
  BY DEF TypeOK
<1> HIDE DEF t
<1>2. agents' \in [Agents -> AgentRow]
  BY <1>1, FlushedRowType DEF Commit, t
<1>3. signals' \in [Ids -> SignalRow \cup {None}]
  BY <1>1 DEF Commit, TypeOK, Session, t
<1>4. audit' \in [Agents -> Seq(AuditEntry)]
  <2>1. \A a \in Agents : audit[a] \o t.audit[a] \in Seq(AuditEntry)
    BY <1>1 DEF TypeOK, Session
  <2>2. QED
    BY <2>1 DEF Commit, t
<1>5. alerts' \subseteq AlertRow
  BY <1>1 DEF Commit, TypeOK, Session, t
<1>6. decisions' \in [Agents -> Nat]
  BY DEF Commit, TypeOK
<1>7. overwritten' \subseteq Agents
  BY <1>1 DEF Commit, TypeOK, Session, Touched, t
<1>8. ASSUME NEW x \in Sessions
      PROVE  /\ tx'[x] \in Session
             /\ x = s => tx'[x] = Closed
             /\ x # s => /\ tx'[x].rows = tx[x].rows /\ tx'[x].audit = tx[x].audit
                         /\ tx'[x].todo = tx[x].todo /\ tx'[x].writes = tx[x].writes
                         /\ tx'[x].alerts = tx[x].alerts
                         /\ tx'[x].stale = tx[x].stale \cup {a \in Touched(t) : tx[x].rows[a] # None}
  <2> DEFINE copied == {a \in Touched(t) : tx[x].rows[a] # None}
  <2>1. copied \subseteq Agents
    BY DEF Touched
  <2>2. tx'[x] = IF x = s THEN Closed ELSE [tx[x] EXCEPT !.stale = @ \cup copied]
    BY DEF Commit, t
  <2>3. tx[x] \in Session
    BY DEF TypeOK
  <2> DEFINE stale == tx[x].stale \cup copied
  <2>4. stale \subseteq Agents
    BY <2>1, <2>3 DEF Session
  <2>5. x # s => tx'[x] = [tx[x] EXCEPT !.stale = stale]
    BY <2>2, <2>3 DEF Session
  <2> HIDE DEF copied, stale
  <2>6. LET u == [tx[x] EXCEPT !.stale = stale] IN
          /\ u \in Session /\ u.rows = tx[x].rows /\ u.audit = tx[x].audit /\ u.todo = tx[x].todo
          /\ u.writes = tx[x].writes /\ u.alerts = tx[x].alerts /\ u.stale = stale
    BY <2>3, <2>4 DEF Session
  <2>7. stale = tx[x].stale \cup {a \in Touched(t) : tx[x].rows[a] # None}
    BY DEF stale, copied
  <2>8. QED
    BY <2>2, <2>5, <2>6, <2>7, ClosedType
<1>9. tx' = [x \in Sessions |-> tx'[x]]
  BY DEF Commit
<1>10. tx' \in [Sessions -> Session]
  BY <1>8, <1>9
<1>11. QED
  BY <1>2, <1>3, <1>4, <1>5, <1>6, <1>7, <1>8, <1>10 DEF t

\* Session t without the fetched signal i.
Rest(t, i) == [t EXCEPT !.todo = @ \ {i}]

LEMMA RestType ==
  ASSUME NEW t \in Session, NEW i
  PROVE  /\ Rest(t, i) \in Session
         /\ Rest(t, i).todo = t.todo \ {i}
         /\ SameCopies(Rest(t, i), t)
         /\ Rest(t, i).writes = t.writes /\ Rest(t, i).alerts = t.alerts
BY DEF Session, Rest, SameCopies

\* A session that has just begun, with the signals S to handle.
Begun(S, refreshed) == [Closed EXCEPT !.open = TRUE, !.todo = S, !.refreshed = refreshed]

LEMMA BegunType ==
  ASSUME NEW S \in SUBSET Ids, NEW refreshed \in BOOLEAN
  PROVE  /\ Begun(S, refreshed) \in Session
         /\ Begun(S, refreshed).todo = S
         /\ SameCopies(Begun(S, refreshed), Closed)
         /\ Begun(S, refreshed).writes = Closed.writes /\ Begun(S, refreshed).alerts = Closed.alerts
BY ClosedType DEF Session, Begun, SameCopies

LEMMA FetchBegins ==
  ASSUME NEW w \in Workers, FetchPending(w)
  PROVE  /\ Oldest(Pending, BatchLimit) \in SUBSET Ids
         /\ tx' = [tx EXCEPT ![w] = Begun(Oldest(Pending, BatchLimit), FALSE)]
<1> DEFINE S == Oldest(Pending, BatchLimit)
<1>1. S \in SUBSET Ids
  BY DEF Oldest, Pending
<1>2. tx' = [tx EXCEPT ![w] = [Closed EXCEPT !.open = TRUE, !.todo = S]]
  BY DEF FetchPending
<1> HIDE DEF S
<1>3. [Closed EXCEPT !.open = TRUE, !.todo = S] = Begun(S, FALSE)
  <2>1. Closed.refreshed = FALSE
    BY DEF Closed
  <2>2. QED
    BY <2>1, ClosedType DEF Begun, Session
<1>4. QED
  BY <1>1, <1>2, <1>3 DEF S

\* A step of a worker that handles or drops the fetched signal i.
LEMMA ProcessedOne ==
  ASSUME NEW w \in Workers, ProcessSignal(w)
  PROVE  \E i, t :
           /\ i \in tx[w].todo
           /\ t \in {Rest(tx[w], i), Handle(Rest(tx[w], i), i)}
           /\ tx' = [tx EXCEPT ![w] = t]
BY DEF ProcessSignal, Rest

\* A rollback begins a session with the rest of the list.
LEMMA RolledBack ==
  ASSUME NEW w \in Workers, SignalFails(w)
  PROVE  \E i \in tx[w].todo : tx' = [tx EXCEPT ![w] = Begun(tx[w].todo \ {i}, TRUE)]
BY DEF SignalFails, Begun
-----------------------------------------------------------------------------
(* Type correctness.                                                       *)

\* What a worker has fetched is stored: with it TypeOK is inductive.
FetchedStored == \A w \in Workers : \A i \in tx[w].todo : signals[i] # None

TypeInv == TypeOK /\ FetchedStored

LEMMA InitType == Init => TypeInv
<1> SUFFICES ASSUME Init PROVE TypeInv
  OBVIOUS
<1> USE ConstantsAssumption DEF Init
<1>1. PICK created \in [Agents -> CreatedAs] :
        agents = [a \in Agents |-> [state |-> created[a], total |-> 0,
                                    reason |-> created[a] = "dormant"]]
  OBVIOUS
<1>2. agents \in [Agents -> AgentRow]
  BY <1>1 DEF AgentRow
<1>3. signals \in [Ids -> SignalRow \cup {None}] /\ decisions \in [Agents -> Nat]
  OBVIOUS
<1>4. audit \in [Agents -> Seq(AuditEntry)]
  BY DEF NoEntries
<1>5. nextId \in 1 .. MaxSignals + 1 /\ faults \in 0 .. MaxFaults
  OBVIOUS
<1>6. tx \in [Sessions -> Session]
  BY ClosedType
<1>7. FetchedStored
  BY DEF FetchedStored, Sessions, Closed
<1>8. QED
  BY <1>2, <1>3, <1>4, <1>5, <1>6, <1>7 DEF TypeOK, TypeInv

LEMMA TypeStep == TypeInv /\ [Next]_vars => TypeInv'
<1> SUFFICES ASSUME TypeInv, [Next]_vars PROVE TypeInv'
  OBVIOUS
<1> USE ConstantsAssumption
<1>0. TypeOK /\ FetchedStored
  BY DEF TypeInv
<1>1. ASSUME NEW a \in Agents, NEW k \in Kinds, EmitSignal(a, k) PROVE TypeInv'
  <2> DEFINE new == [agent |-> a, kind |-> k, processed |-> FALSE]
  <2>1. new \in SignalRow
    BY DEF SignalRow
  <2>2. signals' = [signals EXCEPT ![nextId] = new] /\ nextId \in Ids /\ nextId' = nextId + 1
    BY <1>1 DEF EmitSignal
  <2> HIDE DEF new
  <2>3. signals' \in [Ids -> SignalRow \cup {None}]
    BY <1>0, <2>1, <2>2 DEF TypeOK
  <2>4. nextId' \in 1 .. MaxSignals + 1
    BY <2>2 DEF Ids
  <2>5. \A i \in Ids : signals[i] # None => signals'[i] # None
    BY <1>0, <2>1, <2>2 DEF TypeOK
  <2>6. \A w \in Workers : tx[w].todo \subseteq Ids
    BY <1>0 DEF TypeOK, Session, Sessions
  <2>7. FetchedStored'
    BY <1>0, <1>1, <2>5, <2>6 DEF EmitSignal, FetchedStored
  <2>8. QED
    BY <1>0, <1>1, <2>3, <2>4, <2>7 DEF EmitSignal, TypeOK, TypeInv
<1>2. ASSUME NEW s \in Sessions, Commit(s), UNCHANGED <<nextId, faults>> PROVE TypeInv'
  <2>1. TypeOK'
    BY <1>0, <1>2, CommitType DEF TypeOK
  <2>2. \A i \in Ids : signals[i] # None => signals'[i] # None
    BY <1>2 DEF Commit
  <2>3. \A w \in Workers : tx'[w].todo \subseteq tx[w].todo
    BY <1>0, <1>2, CommitType DEF Sessions, Closed
  <2>4. \A w \in Workers : tx[w].todo \subseteq Ids
    BY <1>0 DEF TypeOK, Session, Sessions
  <2>5. QED
    BY <1>0, <2>1, <2>2, <2>3, <2>4 DEF TypeInv, FetchedStored
<1>3. ASSUME NEW s \in Sessions, NEW t \in Session, tx' = [tx EXCEPT ![s] = t],
             \A i \in t.todo : signals[i] # None,
             nextId' \in 1 .. MaxSignals + 1, faults' \in 0 .. MaxFaults, UNCHANGED dbVars
      PROVE  TypeInv'
  <2>1. tx' \in [Sessions -> Session]
    BY <1>0, <1>3 DEF TypeOK
  <2>2. TypeOK'
    BY <1>0, <1>3, <2>1 DEF TypeOK, dbVars
  <2>3. FetchedStored'
    BY <1>0, <1>3 DEF FetchedStored, TypeOK, dbVars, Sessions
  <2>4. QED
    BY <2>2, <2>3 DEF TypeInv
<1>4. ASSUME NEW r \in Requests, NEW a \in Agents, NEW k \in Kinds, NEW evaluated \in BOOLEAN,
             PostSignal(r, a, k, evaluated)
      PROVE  TypeInv'
  <2>1. PICK n, t : Posted(t, a, k, n) /\ tx' = [tx EXCEPT ![r] = t] /\ nextId' = n + 1
    BY <1>0, <1>4, PostSignalType
  <2>2. n \in Ids /\ t \in Session /\ t.todo = {}
    BY <2>1 DEF Posted
  <2>3. nextId' \in 1 .. MaxSignals + 1
    BY <2>1, <2>2 DEF Ids
  <2>4. UNCHANGED <<dbVars, faults>>
    BY <1>4 DEF PostSignal
  <2>5. QED
    BY <1>0, <1>3, <2>1, <2>2, <2>3, <2>4 DEF TypeOK, Sessions
<1>5. ASSUME NEW s \in Sessions, tx' = [tx EXCEPT ![s] = Closed],
             nextId' = nextId, faults' \in 0 .. MaxFaults, UNCHANGED dbVars
      PROVE  TypeInv'
  <2>1. Closed.todo = {}
    BY DEF Closed
  <2>2. QED
    BY <1>0, <1>3, <1>5, <2>1, ClosedType DEF TypeOK
<1>6. ASSUME NEW r \in Requests, CommitRequest(r) \/ AbortRequest(r) PROVE TypeInv'
  <2>1. CASE CommitRequest(r)
    BY <1>2, <2>1 DEF CommitRequest, Sessions
  <2>2. CASE AbortRequest(r)
    BY <1>0, <1>5, <2>2 DEF AbortRequest, Sessions, TypeOK
  <2>3. QED
    BY <1>6, <2>1, <2>2
<1>7. ASSUME NEW w \in Workers, FetchPending(w) PROVE TypeInv'
  <2> DEFINE S == Oldest(Pending, BatchLimit)
  <2>1. \A i \in S : signals[i] # None
    BY DEF Oldest, Pending
  <2> HIDE DEF S
  <2>2. S \in SUBSET Ids /\ tx' = [tx EXCEPT ![w] = Begun(S, FALSE)]
    BY <1>7, FetchBegins DEF S
  <2>3. UNCHANGED <<dbVars, nextId, faults>>
    BY <1>7 DEF FetchPending
  <2>4. Begun(S, FALSE) \in Session /\ Begun(S, FALSE).todo = S
    BY <2>2, BegunType
  <2>5. QED
    BY <1>0, <1>3, <2>1, <2>2, <2>3, <2>4 DEF Sessions, TypeOK
<1>8. ASSUME NEW w \in Workers, ProcessSignal(w) PROVE TypeInv'
  <2>1. PICK i, t : /\ i \in tx[w].todo
                    /\ t \in {Rest(tx[w], i), Handle(Rest(tx[w], i), i)}
                    /\ tx' = [tx EXCEPT ![w] = t]
    BY <1>8, ProcessedOne
  <2>2. tx[w] \in Session
    BY <1>0 DEF TypeOK, Sessions
  <2>3. i \in Ids /\ signals[i] # None
    BY <1>0, <2>1, <2>2 DEF Session, FetchedStored
  <2>4. Rest(tx[w], i) \in Session /\ Rest(tx[w], i).todo = tx[w].todo \ {i}
    BY <2>2, RestType
  <2>5. t \in Session /\ t.todo = tx[w].todo \ {i}
    <3>1. Handle(Rest(tx[w], i), i) \in Session
          /\ Handle(Rest(tx[w], i), i).todo = Rest(tx[w], i).todo
      BY <1>0, <2>3, <2>4, HandleType
    <3>2. QED
      BY <2>1, <2>4, <3>1
  <2>6. UNCHANGED <<dbVars, nextId, faults>>
    BY <1>8 DEF ProcessSignal
  <2>7. QED
    BY <1>0, <1>3, <2>1, <2>5, <2>6 DEF Sessions, TypeOK, FetchedStored
<1>9. ASSUME NEW w \in Workers, SignalFails(w) PROVE TypeInv'
  <2>1. PICK i \in tx[w].todo : tx' = [tx EXCEPT ![w] = Begun(tx[w].todo \ {i}, TRUE)]
    BY <1>9, RolledBack
  <2>2. tx[w].todo \ {i} \in SUBSET Ids
    BY <1>0 DEF TypeOK, Sessions, Session
  <2>3. faults' \in 0 .. MaxFaults /\ UNCHANGED <<dbVars, nextId>>
    BY <1>0, <1>9 DEF SignalFails, TypeOK
  <2> DEFINE t == Begun(tx[w].todo \ {i}, TRUE)
  <2>4. t \in Session /\ t.todo = tx[w].todo \ {i}
    BY <2>2, BegunType
  <2> HIDE DEF t
  <2>5. QED
    BY <1>0, <1>3, <2>1, <2>2, <2>3, <2>4 DEF Sessions, TypeOK, FetchedStored, t
<1>10. ASSUME NEW w \in Workers, CommitBatch(w) PROVE TypeInv'
  BY <1>2, <1>10 DEF CommitBatch, Sessions
<1>11. ASSUME NEW w \in Workers, Crash(w) PROVE TypeInv'
  <2>1. faults' \in 0 .. MaxFaults /\ UNCHANGED <<dbVars, nextId>>
    BY <1>0, <1>11 DEF Crash, TypeOK
  <2>2. QED
    BY <1>5, <1>11, <2>1 DEF Crash, Sessions
<1>12. CASE UNCHANGED vars
  BY <1>0, <1>12 DEF TypeInv, TypeOK, FetchedStored, vars, dbVars
<1>13. QED
  BY <1>1, <1>4, <1>6, <1>7, <1>8, <1>9, <1>10, <1>11, <1>12 DEF Next

\* In every behaviour, for any agents, workers, requests and bounds, committed
\* rows and session copies keep the columns' types: compute_transition never
\* yields anything but a life-cycle state, on either path.
THEOREM TypeCorrect == Spec => []TypeOK
<1>1. TypeInv => TypeOK
  BY DEF TypeInv
<1>2. QED
  BY <1>1, InitType, TypeStep, PTL DEF Spec

-----------------------------------------------------------------------------
(* NoOvercount, for any number of concurrent requests, where the tasks of  *)
(* the slow path do not overlap.                                           *)

\* One slow-path task at a time: a single Celery worker process, and no run
\* of the task outlasting the minute between two ticks of beat.
OneWorker == \A v, w \in Workers : v = w

-----------------------------------------------------------------------------
(* The inductive invariant.                                                *)

\* The signals a session inserts or updates.
OwnIds(t) == {i \in Ids : t.writes[i] # None}

\* What a worker fetched or handled is stored and not processed by anybody
\* else; what it handled is off its list.
FetchedOK(t) ==
  /\ t.todo \cap OwnIds(t) = {}
  /\ \A i \in t.todo \cup OwnIds(t) : signals[i] # None /\ ~signals[i].processed

\* The numbers a request took for the rows it inserts are below nextId and free.
ReservedOK(t) == \A i \in OwnIds(t) : i < nextId /\ signals[i] = None

\* A session's copies of agent rows count no more than the processed sales and
\* the ones the session itself has handled.
CopiesOK(t) ==
  \A a \in Agents : t.rows[a] # None =>
    t.rows[a].total <= Cardinality(ProcessedSales(a)) + Cardinality(OwnSales(t, a))

FetchedUnprocessed == \A w \in Workers : FetchedOK(tx[w])
NumbersReserved ==
  /\ \A i \in Ids : i >= nextId => signals[i] = None
  /\ \A r \in Requests : ReservedOK(tx[r])
  /\ \A q, r \in Requests : q # r => OwnIds(tx[q]) \cap OwnIds(tx[r]) = {}
CopiesBounded == \A s \in Sessions : CopiesOK(tx[s])

CountInv == FetchedUnprocessed /\ NumbersReserved /\ CopiesBounded /\ NoOvercount

-----------------------------------------------------------------------------
(* Counting.                                                               *)

LEMMA SalesFinite ==
  ASSUME NEW t, NEW a
  PROVE  /\ IsFiniteSet(ProcessedSales(a)) /\ Cardinality(ProcessedSales(a)) \in Nat
         /\ IsFiniteSet(OwnSales(t, a)) /\ Cardinality(OwnSales(t, a)) \in Nat
<1>1. IsFiniteSet(Ids)
  BY ConstantsAssumption, FS_Interval DEF Ids
<1>2. ProcessedSales(a) \in SUBSET Ids /\ OwnSales(t, a) \in SUBSET Ids
  BY DEF ProcessedSales, OwnSales
<1>3. IsFiniteSet(ProcessedSales(a)) /\ IsFiniteSet(OwnSales(t, a))
  BY <1>1, <1>2, FS_Subset
<1>4. QED
  BY <1>3, FS_CardinalityType

LEMMA SalesType ==
  ASSUME TypeOK, NEW t \in Session, NEW a \in Agents
  PROVE  /\ agents[a].total \in Nat
         /\ t.rows[a] # None => t.rows[a] \in AgentRow /\ t.rows[a].total \in Nat
BY DEF TypeOK, Session, AgentRow

\* A session that has written nothing has no sales of its own.
LEMMA ClosedOwn == OwnIds(Closed) = {} /\ \A a \in Agents : Closed.rows[a] = None
BY DEF OwnIds, Closed

\* One more handled signal adds at most itself to the session's sales.
LEMMA OwnSalesAdd ==
  ASSUME NEW t \in Session, NEW u, NEW i \in Ids, NEW row \in SignalRow, NEW a,
         t.writes[i] = None, u.writes = [t.writes EXCEPT ![i] = row]
  PROVE  Cardinality(OwnSales(u, a)) =
           Cardinality(OwnSales(t, a)) + (IF CountsFor(row, a) THEN 1 ELSE 0)
<1>1. t.writes \in [Ids -> SignalRow \cup {None}]
  BY DEF Session
<1>2. u.writes[i] = row /\ \A j \in Ids \ {i} : u.writes[j] = t.writes[j]
  BY <1>1
<1>3. i \notin OwnSales(t, a)
  BY DEF OwnSales, CountsFor
<1>4. OwnSales(u, a) = IF CountsFor(row, a) THEN OwnSales(t, a) \cup {i} ELSE OwnSales(t, a)
  BY <1>2, <1>3 DEF OwnSales
<1>5. IsFiniteSet(OwnSales(t, a)) /\ Cardinality(OwnSales(t, a)) \in Nat
  BY SalesFinite
<1>6. CASE CountsFor(row, a)
  <2>1. Cardinality(OwnSales(t, a) \cup {i}) = Cardinality(OwnSales(t, a)) + 1
    BY <1>3, <1>5, FS_AddElement
  <2>2. QED
    BY <1>4, <1>6, <2>1
<1>7. CASE ~CountsFor(row, a)
  BY <1>4, <1>5, <1>7
<1>8. QED
  BY <1>6, <1>7
-----------------------------------------------------------------------------
(* Steps that change one session and nothing that is committed.            *)

LEMMA SessionStep ==
  ASSUME TypeOK, CountInv,
         NEW s \in Sessions, NEW t \in Session, tx' = [tx EXCEPT ![s] = t],
         UNCHANGED dbVars, nextId' \in Nat, nextId' >= nextId,
         s \in Workers => FetchedOK(t),
         s \in Requests =>
           \A i \in OwnIds(t) : /\ i < nextId' /\ signals[i] = None
                                /\ i \in OwnIds(tx[s]) \/ i >= nextId,
         CopiesOK(t)
  PROVE  CountInv'
<1> USE DEF CountInv
<1>1. /\ signals' = signals /\ agents' = agents
      /\ tx'[s] = t /\ \A x \in Sessions \ {s} : tx'[x] = tx[x]
  BY DEF dbVars, TypeOK
<1>2. nextId \in Nat
  BY ConstantsAssumption DEF TypeOK
<1>3. \A a : ProcessedSales(a)' = ProcessedSales(a)
  BY <1>1 DEF ProcessedSales
<1>4. NoOvercount'
  BY <1>1, <1>3 DEF NoOvercount
<1>5. CopiesBounded'
  BY <1>1, <1>3 DEF CopiesBounded, CopiesOK
<1>6. FetchedUnprocessed'
  BY <1>1 DEF FetchedUnprocessed, FetchedOK, Sessions
<1>7. \A i \in Ids : i \in Nat /\ (i >= nextId' => signals'[i] = None)
  BY <1>1, <1>2 DEF NumbersReserved, Ids
<1>8. \A r \in Requests : ReservedOK(tx[r])'
  BY <1>1, <1>2, <1>7 DEF NumbersReserved, ReservedOK, Sessions, OwnIds
<1>9. \A q \in Requests \ {s} : s \in Requests => OwnIds(tx[q]) \cap OwnIds(t) = {}
  <2> SUFFICES ASSUME NEW q \in Requests \ {s}, s \in Requests, NEW i \in OwnIds(t)
               PROVE  i \notin OwnIds(tx[q])
    OBVIOUS
  <2>1. i \in Nat
    BY <1>7 DEF OwnIds
  <2>2. CASE i \in OwnIds(tx[s])
    BY <2>2 DEF NumbersReserved
  <2>3. CASE i >= nextId
    BY <1>2, <2>1, <2>3 DEF NumbersReserved, ReservedOK
  <2>4. QED
    BY <2>2, <2>3
<1>10. \A q, r \in Requests : q # r => OwnIds(tx'[q]) \cap OwnIds(tx'[r]) = {}
  BY <1>1, <1>9 DEF NumbersReserved, Sessions
<1>11. NumbersReserved'
  BY <1>7, <1>8, <1>10 DEF NumbersReserved
<1>12. QED
  BY <1>4, <1>5, <1>6, <1>11
-----------------------------------------------------------------------------
(* A commit.                                                               *)

\* A commit moves the session's own sales to the processed ones, disjointly.
LEMMA CommitCounts ==
  ASSUME TypeOK, CountInv, NEW s \in Sessions, Commit(s), NEW a \in Agents
  PROVE  Cardinality(ProcessedSales(a)') =
           Cardinality(ProcessedSales(a)) + Cardinality(OwnSales(tx[s], a))
<1>1. \A i \in OwnIds(tx[s]) : signals[i] = None \/ ~signals[i].processed
  BY DEF CountInv, FetchedUnprocessed, FetchedOK, NumbersReserved, ReservedOK, Sessions
<1>2. ProcessedSales(a) \cap OwnSales(tx[s], a) = {}
  BY <1>1 DEF ProcessedSales, OwnSales, CountsFor, OwnIds
<1>3. \A i \in Ids : signals'[i] = IF tx[s].writes[i] # None THEN tx[s].writes[i] ELSE signals[i]
  BY DEF Commit
<1>4. ProcessedSales(a)' = ProcessedSales(a) \cup OwnSales(tx[s], a)
  BY <1>1, <1>3 DEF ProcessedSales, OwnSales, CountsFor, OwnIds
<1>5. QED
  BY <1>2, <1>4, SalesFinite, FS_Union, FS_EmptySet

LEMMA CommitStep ==
  ASSUME OneWorker, TypeOK, CountInv, NEW s \in Sessions, Commit(s), nextId' = nextId
  PROVE  CountInv'
<1> USE DEF CountInv
<1>1. \A i \in Ids : signals'[i] = IF i \in OwnIds(tx[s]) THEN tx[s].writes[i] ELSE signals[i]
  BY DEF Commit, OwnIds
<1>2. /\ tx'[s] = Closed
      /\ \A x \in Sessions \ {s} :
           tx'[x].rows = tx[x].rows /\ tx'[x].todo = tx[x].todo /\ tx'[x].writes = tx[x].writes
  BY CommitType
<1>3. \A x \in Sessions \ {s} : /\ OwnIds(tx'[x]) = OwnIds(tx[x])
                                /\ \A a : OwnSales(tx'[x], a) = OwnSales(tx[x], a)
  BY <1>2 DEF OwnIds, OwnSales
<1>4. ASSUME NEW a \in Agents
      PROVE  /\ Cardinality(ProcessedSales(a)) \in Nat
             /\ Cardinality(ProcessedSales(a)') \in Nat
             /\ Cardinality(ProcessedSales(a)') >= Cardinality(ProcessedSales(a))
             /\ Cardinality(OwnSales(tx[s], a)) \in Nat
             /\ Cardinality(ProcessedSales(a)') =
                  Cardinality(ProcessedSales(a)) + Cardinality(OwnSales(tx[s], a))
  BY CommitCounts, SalesFinite
<1>5. NoOvercount'
  <2> SUFFICES ASSUME NEW a \in Agents
               PROVE  agents'[a].total <= Cardinality(ProcessedSales(a)')
    BY DEF NoOvercount
  <2>1. agents'[a] = FlushedRow(tx[s], a)
    BY DEF Commit
  <2>2. \/ agents'[a].total = agents[a].total
        \/ tx[s].rows[a] # None /\ agents'[a].total = tx[s].rows[a].total
    BY <2>1 DEF FlushedRow, Touched
  <2>3. agents[a].total \in Nat /\ agents[a].total <= Cardinality(ProcessedSales(a))
    BY DEF NoOvercount, TypeOK, AgentRow
  <2>4. tx[s].rows[a] # None =>
          tx[s].rows[a].total <= Cardinality(ProcessedSales(a)) + Cardinality(OwnSales(tx[s], a))
    BY DEF CopiesBounded, CopiesOK
  <2>5. QED
    BY <1>4, <2>2, <2>3, <2>4
<1>6. CopiesBounded'
  <2> SUFFICES ASSUME NEW x \in Sessions, NEW a \in Agents, tx'[x].rows[a] # None
               PROVE  tx'[x].rows[a].total <=
                        Cardinality(ProcessedSales(a)') + Cardinality(OwnSales(tx'[x], a))
    BY DEF CopiesBounded, CopiesOK
  <2>1. x # s
    BY <1>2, ClosedOwn
  <2>2. tx[x].rows[a].total <= Cardinality(ProcessedSales(a)) + Cardinality(OwnSales(tx[x], a))
    BY <1>2, <2>1 DEF CopiesBounded, CopiesOK
  <2>3. tx[x].rows[a].total \in Nat /\ Cardinality(OwnSales(tx[x], a)) \in Nat
    BY <1>2, <2>1, SalesType, SalesFinite DEF TypeOK
  <2>4. QED
    BY <1>2, <1>3, <1>4, <2>1, <2>2, <2>3
<1>7. \A i \in OwnIds(tx[s]) : s \in Workers \/ (s \in Requests /\ signals[i] = None /\ i < nextId)
  BY DEF NumbersReserved, ReservedOK, Sessions
<1>8. FetchedUnprocessed'
  <2> SUFFICES ASSUME NEW w \in Workers PROVE FetchedOK(tx[w])'
    BY DEF FetchedUnprocessed
  <2>1. CASE w = s
    <3>1. Closed.todo = {}
      BY DEF Closed
    <3>2. QED
      BY <1>2, <2>1, <3>1, ClosedOwn DEF FetchedOK
  <2>2. CASE w # s
    <3>1. s \notin Workers
      BY <2>2 DEF OneWorker
    <3>2. FetchedOK(tx[w])
      BY DEF FetchedUnprocessed
    <3>3. tx[w].todo \cup OwnIds(tx[w]) \subseteq Ids
      BY DEF TypeOK, Session, Sessions, OwnIds
    <3>4. \A i \in tx[w].todo \cup OwnIds(tx[w]) : signals'[i] = signals[i]
      BY <1>1, <1>7, <3>1, <3>2, <3>3 DEF FetchedOK
    <3>5. tx'[w].todo = tx[w].todo /\ OwnIds(tx'[w]) = OwnIds(tx[w])
      BY <1>2, <1>3, <2>2 DEF Sessions
    <3>6. QED
      BY <3>2, <3>4, <3>5 DEF FetchedOK
  <2>3. QED
    BY <2>1, <2>2
<1>9. NumbersReserved'
  <2>1. nextId \in Nat /\ \A i \in Ids : i \in Nat
    BY ConstantsAssumption DEF TypeOK, Ids
  <2>2. \A i \in OwnIds(tx[s]) : i \in Ids
    BY DEF OwnIds
  <2>3. s \in Workers => \A i \in OwnIds(tx[s]) : signals[i] # None
    BY DEF FetchedUnprocessed, FetchedOK
  <2>4. \A i \in Ids : i >= nextId => signals'[i] = None
    BY <1>1, <1>7, <2>1, <2>3 DEF NumbersReserved
  <2>5. ASSUME NEW r \in Requests, r # s
        PROVE  OwnIds(tx[r]) \cap OwnIds(tx[s]) = {}
    BY <2>3, <2>5 DEF NumbersReserved, ReservedOK, Sessions
  <2>6. \A r \in Requests : r = s => OwnIds(tx'[r]) = {}
    BY <1>2, ClosedOwn
  <2>7. \A r \in Requests : r # s => OwnIds(tx'[r]) = OwnIds(tx[r])
    BY <1>3 DEF Sessions
  <2>8. ASSUME NEW r \in Requests PROVE ReservedOK(tx[r])'
    <3>1. CASE r = s
      BY <2>6, <3>1 DEF ReservedOK
    <3>2. CASE r # s
      <4>1. \A i \in OwnIds(tx[r]) : i \in Ids /\ i \notin OwnIds(tx[s])
        BY <2>5, <3>2 DEF OwnIds
      <4>2. QED
        BY <1>1, <2>7, <3>2, <4>1 DEF ReservedOK, NumbersReserved
    <3>3. QED
      BY <3>1, <3>2
  <2>9. \A q, r \in Requests : q # r => OwnIds(tx'[q]) \cap OwnIds(tx'[r]) = {}
    BY <2>6, <2>7 DEF NumbersReserved
  <2>10. QED
    BY <2>4, <2>8, <2>9 DEF NumbersReserved
<1>10. QED
  BY <1>5, <1>6, <1>8, <1>9
-----------------------------------------------------------------------------
(* The other steps.                                                        *)

LEMMA EmitStep ==
  ASSUME TypeOK, CountInv, NEW a \in Agents, NEW k \in Kinds, EmitSignal(a, k)
  PROVE  CountInv'
<1> USE DEF CountInv
<1> DEFINE new == [agent |-> a, kind |-> k, processed |-> FALSE]
<1>1. /\ signals' = [signals EXCEPT ![nextId] = new] /\ nextId \in Ids /\ nextId' = nextId + 1
      /\ agents' = agents /\ tx' = tx
  BY DEF EmitSignal
<1>2. new \in SignalRow /\ ~new.processed
  BY ConstantsAssumption DEF SignalRow
<1> HIDE DEF new
<1>3. nextId \in Nat /\ \A i \in Ids : i \in Nat
  BY <1>1 DEF Ids
<1>4. signals[nextId] = None
  BY <1>1, <1>3 DEF NumbersReserved
<1>5. signals'[nextId] = new /\ \A i \in Ids \ {nextId} : signals'[i] = signals[i]
  BY <1>1 DEF TypeOK
<1>6. \A b : ProcessedSales(b)' = ProcessedSales(b)
  BY <1>1, <1>2, <1>4, <1>5 DEF ProcessedSales, CountsFor
<1>7. NoOvercount'
  BY <1>1, <1>6 DEF NoOvercount
<1>8. CopiesBounded'
  BY <1>1, <1>6 DEF CopiesBounded, CopiesOK
<1>9. FetchedUnprocessed'
  <2> SUFFICES ASSUME NEW w \in Workers PROVE FetchedOK(tx[w])'
    BY DEF FetchedUnprocessed
  <2>1. tx[w].todo \cup OwnIds(tx[w]) \subseteq Ids
    BY DEF TypeOK, Session, Sessions, OwnIds
  <2>2. FetchedOK(tx[w])
    BY DEF FetchedUnprocessed
  <2>3. \A i \in tx[w].todo \cup OwnIds(tx[w]) : signals'[i] = signals[i]
    BY <1>4, <1>5, <2>1, <2>2 DEF FetchedOK
  <2>4. QED
    BY <1>1, <2>2, <2>3 DEF FetchedOK, OwnIds
<1>10. NumbersReserved'
  <2>1. \A i \in Ids : i >= nextId' => signals'[i] = None
    BY <1>1, <1>3, <1>5 DEF NumbersReserved
  <2>2. ASSUME NEW r \in Requests PROVE ReservedOK(tx[r])'
    <3>1. ASSUME NEW i \in OwnIds(tx[r]) PROVE i < nextId' /\ signals'[i] = None
      <4>1. i \in Ids /\ i < nextId /\ signals[i] = None
        BY DEF NumbersReserved, ReservedOK, OwnIds
      <4>2. QED
        BY <1>1, <1>3, <1>5, <4>1
    <3>2. QED
      BY <1>1, <3>1 DEF ReservedOK, OwnIds
  <2>3. QED
    BY <1>1, <2>1, <2>2 DEF NumbersReserved, OwnIds
<1>11. QED
  BY <1>7, <1>8, <1>9, <1>10

\* A session that has loaded nothing holds no bound to respect.
LEMMA NothingLoaded ==
  ASSUME NEW t, t.rows = Closed.rows
  PROVE  CopiesOK(t)
BY ClosedOwn DEF CopiesOK

LEMMA PostStep ==
  ASSUME TypeOK, CountInv, NEW r \in Requests, NEW a \in Agents, NEW k \in Kinds,
         NEW evaluated \in BOOLEAN, PostSignal(r, a, k, evaluated)
  PROVE  CountInv'
<1>1. k \in SignalKinds
  BY ConstantsAssumption
<1>2. PICK n, t : Posted(t, a, k, n) /\ tx' = [tx EXCEPT ![r] = t] /\ nextId' = n + 1
  BY <1>1, PostSignalType
<1>3. PICK row \in AgentRow : /\ row.total = agents[a].total + Sold(k)
                               /\ t.rows = [Closed.rows EXCEPT ![a] = row]
  BY <1>2, ClosedLoads DEF Posted, Understood
<1>4. /\ nextId \in Ids /\ n \in Ids /\ n \in {nextId, nextId + 1} /\ t \in Session
      /\ row.total = agents[a].total + Sold(k) /\ row \in AgentRow
      /\ t.rows = [Closed.rows EXCEPT ![a] = row]
      /\ t.writes[nextId].agent = a /\ t.writes[nextId].kind = k /\ t.writes[nextId].processed
      /\ t.writes[nextId] \in SignalRow
      /\ \A i \in Ids \ {nextId, n} : t.writes[i] = None
  BY <1>2, <1>3 DEF Posted
<1>5. nextId \in Nat /\ n \in Nat
  BY <1>4 DEF Ids
<1>6. UNCHANGED dbVars
  BY DEF PostSignal
<1>7. OwnIds(t) \subseteq {nextId, n}
  BY <1>4 DEF OwnIds
<1>8. k.type = "policy_sold" => OwnSales(t, a) = {nextId}
  <2>1. n # nextId => ~t.writes[n].processed
    BY <1>2 DEF Posted, Alerted
  <2>2. \A i \in Ids \ {nextId} : ~CountsFor(t.writes[i], a)
    BY <1>4, <2>1 DEF CountsFor
  <2>3. k.type = "policy_sold" => CountsFor(t.writes[nextId], a)
    BY <1>4, ConstantsAssumption DEF CountsFor
  <2>4. QED
    BY <1>4, <2>2, <2>3 DEF OwnSales
<1>9. row.total <= Cardinality(ProcessedSales(a)) + Cardinality(OwnSales(t, a))
  <2>1. /\ agents[a].total \in Nat /\ agents[a].total <= Cardinality(ProcessedSales(a))
        /\ Cardinality(ProcessedSales(a)) \in Nat /\ Cardinality(OwnSales(t, a)) \in Nat
    BY <1>4, SalesType, SalesFinite DEF CountInv, NoOvercount
  <2>2. k.type = "policy_sold" => Cardinality(OwnSales(t, a)) = 1
    BY <1>8, FS_Singleton
  <2>3. QED
    BY <1>4, <2>1, <2>2 DEF Sold
<1>10. CopiesOK(t)
  <2>1. Closed.rows \in [Agents -> AgentRow \cup {None}]
    BY ClosedType DEF Session
  <2>2. QED
    BY <1>4, <1>9, <2>1, ClosedOwn DEF CopiesOK
<1>11. \A i \in {nextId, n} : i < nextId' /\ i >= nextId /\ signals[i] = None
  BY <1>2, <1>4, <1>5 DEF CountInv, NumbersReserved
<1>12. r \in Sessions /\ r \notin Workers
  BY ConstantsAssumption DEF Sessions
<1>13. nextId' \in Nat /\ nextId' >= nextId
  BY <1>2, <1>4, <1>5
<1>14. QED
  BY <1>2, <1>4, <1>6, <1>7, <1>10, <1>11, <1>12, <1>13, SessionStep

LEMMA CloseStep ==
  ASSUME TypeOK, CountInv, NEW s \in Sessions, tx' = [tx EXCEPT ![s] = Closed],
         UNCHANGED <<dbVars, nextId>>
  PROVE  CountInv'
<1>1. Closed.todo = {}
  BY DEF Closed
<1>2. FetchedOK(Closed) /\ CopiesOK(Closed) /\ OwnIds(Closed) = {}
  BY <1>1, ClosedOwn DEF FetchedOK, CopiesOK
<1>3. nextId' \in Nat /\ nextId' >= nextId /\ UNCHANGED dbVars
  BY ConstantsAssumption DEF TypeOK
<1>4. QED
  BY <1>2, <1>3, ClosedType, SessionStep

\* A worker begins with unprocessed signals, after a fetch or a rollback.
LEMMA BeginStep ==
  ASSUME TypeOK, CountInv, NEW w \in Workers, NEW S \in SUBSET Ids, NEW refreshed \in BOOLEAN,
         \A i \in S : signals[i] # None /\ ~signals[i].processed,
         tx' = [tx EXCEPT ![w] = Begun(S, refreshed)], UNCHANGED <<dbVars, nextId>>
  PROVE  CountInv'
<1> DEFINE t == Begun(S, refreshed)
<1>1. t \in Session /\ t.todo = S /\ t.rows = Closed.rows /\ t.writes = Closed.writes
  BY BegunType DEF SameCopies
<1> HIDE DEF t
<1>2. OwnIds(t) = {}
  BY <1>1, ClosedOwn DEF OwnIds
<1>3. FetchedOK(t) /\ CopiesOK(t)
  BY <1>1, <1>2, NothingLoaded DEF FetchedOK
<1>4. w \in Sessions /\ tx' = [tx EXCEPT ![w] = t]
  BY DEF Sessions, t
<1>5. w \notin Requests
  BY ConstantsAssumption
<1>6. nextId' \in Nat /\ nextId' >= nextId /\ UNCHANGED dbVars
  BY ConstantsAssumption DEF TypeOK
<1>7. QED
  BY <1>1, <1>2, <1>3, <1>4, <1>5, <1>6, SessionStep

\* A worker handles signal i, or skips it.
LEMMA ProcessStep ==
  ASSUME TypeInv, CountInv, NEW w \in Workers, ProcessSignal(w)
  PROVE  CountInv'
<1> USE DEF CountInv, TypeInv
<1>1. PICK i, t : /\ i \in tx[w].todo
                  /\ t \in {Rest(tx[w], i), Handle(Rest(tx[w], i), i)}
                  /\ tx' = [tx EXCEPT ![w] = t]
  BY ProcessedOne
<1> DEFINE r == Rest(tx[w], i)
<1>2. tx[w] \in Session /\ w \in Sessions /\ w \notin Requests
  BY ConstantsAssumption DEF TypeOK, Sessions
<1>3. FetchedOK(tx[w]) /\ CopiesOK(tx[w])
  BY <1>2 DEF FetchedUnprocessed, CopiesBounded
<1>4. i \in Ids /\ signals[i] # None /\ ~signals[i].processed /\ tx[w].writes[i] = None
  BY <1>1, <1>2, <1>3 DEF Session, FetchedOK, OwnIds
<1>5. /\ r \in Session /\ r.todo = tx[w].todo \ {i}
      /\ r.rows = tx[w].rows /\ r.writes = tx[w].writes
  BY <1>2, RestType DEF SameCopies
<1> HIDE DEF r
<1>6. nextId' \in Nat /\ nextId' >= nextId /\ UNCHANGED dbVars
  BY ConstantsAssumption DEF ProcessSignal, TypeOK
<1>7. FetchedOK(r) /\ CopiesOK(r)
  BY <1>3, <1>5 DEF FetchedOK, CopiesOK, OwnIds, OwnSales
<1>8. CASE t = r
  BY <1>1, <1>2, <1>5, <1>6, <1>7, <1>8, SessionStep
<1>9. CASE t = Handle(r, i)
  <2> DEFINE b == signals[i].agent
             k == signals[i].kind
             done == MarkProcessed(signals[i])
  <2>1. signals[i] \in SignalRow
    BY <1>4 DEF TypeOK
  <2>2. /\ done \in SignalRow /\ done.agent = b /\ done.kind = k /\ done.processed
        /\ b \in Agents /\ done # None
    BY <2>1, MarkedRow, ConstantsAssumption DEF SignalRow
  <2>3. /\ t \in Session /\ t.todo = r.todo
        /\ t.writes = [r.writes EXCEPT ![i] = done]
        /\ \/ t.rows = r.rows
           \/ \E row \in AgentRow : /\ row.total = Loaded(r, b).total + Sold(k)
                                    /\ t.rows = [r.rows EXCEPT ![b] = row]
    BY <1>4, <1>5, <1>9, HandleType DEF SameCopies, Understood
  <2> HIDE DEF done, b, k
  <2>4. r.writes \in [Ids -> SignalRow \cup {None}] /\ r.rows \in [Agents -> AgentRow \cup {None}]
    BY <1>5 DEF Session
  <2>5. OwnIds(t) = OwnIds(r) \cup {i}
    BY <1>4, <2>2, <2>3, <2>4 DEF OwnIds
  <2>6. FetchedOK(t)
    BY <1>4, <1>5, <1>7, <2>3, <2>5 DEF FetchedOK
  <2>7. \A a : Cardinality(OwnSales(t, a)) =
                 Cardinality(OwnSales(r, a)) + (IF CountsFor(done, a) THEN 1 ELSE 0)
    BY <1>4, <1>5, <2>2, <2>3, OwnSalesAdd
  <2>8. \A a : Cardinality(OwnSales(t, a)) >= Cardinality(OwnSales(r, a))
    BY <2>7, SalesFinite
  <2>9. ASSUME NEW a \in Agents, r.rows[a] # None
        PROVE  r.rows[a].total <= Cardinality(ProcessedSales(a)) + Cardinality(OwnSales(t, a))
    <3>1. r.rows[a].total <= Cardinality(ProcessedSales(a)) + Cardinality(OwnSales(r, a))
      BY <1>7, <2>9 DEF CopiesOK
    <3>2. /\ r.rows[a].total \in Nat /\ Cardinality(ProcessedSales(a)) \in Nat
          /\ Cardinality(OwnSales(r, a)) \in Nat /\ Cardinality(OwnSales(t, a)) \in Nat
      BY <1>5, <2>9, SalesType, SalesFinite
    <3>3. QED
      BY <2>8, <3>1, <3>2
  <2>10. CopiesOK(t)
    <3>1. CASE t.rows = r.rows
      BY <2>9, <3>1 DEF CopiesOK
    <3>2. ASSUME NEW row \in AgentRow, row.total = Loaded(r, b).total + Sold(k),
                 t.rows = [r.rows EXCEPT ![b] = row]
          PROVE  CopiesOK(t)
      <4>1. /\ Loaded(r, b).total \in Nat
            /\ Loaded(r, b).total <= Cardinality(ProcessedSales(b)) + Cardinality(OwnSales(r, b))
        <5>1. agents[b].total \in Nat /\ agents[b].total <= Cardinality(ProcessedSales(b))
          BY <1>5, <2>2, SalesType DEF NoOvercount
        <5>2. Cardinality(ProcessedSales(b)) \in Nat /\ Cardinality(OwnSales(r, b)) \in Nat
          BY SalesFinite
        <5>3. CASE r.rows[b] = None
          BY <5>1, <5>2, <5>3 DEF Loaded
        <5>4. CASE r.rows[b] # None
          BY <1>5, <1>7, <2>2, <5>4, SalesType DEF Loaded, CopiesOK
        <5>5. QED
          BY <5>3, <5>4
      <4>2. Cardinality(OwnSales(t, b)) = Cardinality(OwnSales(r, b)) + Sold(k)
        BY <2>2, <2>7 DEF CountsFor, Sold
      <4>3. Sold(k) \in Nat /\ Cardinality(ProcessedSales(b)) \in Nat
            /\ Cardinality(OwnSales(r, b)) \in Nat
        BY SalesFinite DEF Sold
      <4>4. row.total <= Cardinality(ProcessedSales(b)) + Cardinality(OwnSales(t, b))
        BY <3>2, <4>1, <4>2, <4>3
      <4>5. t.rows[b] = row /\ \A a \in Agents \ {b} : t.rows[a] = r.rows[a]
        BY <2>2, <2>4, <3>2
      <4>6. QED
        BY <2>9, <4>4, <4>5 DEF CopiesOK
    <3>3. QED
      BY <2>3, <3>1, <3>2
  <2>11. QED
    BY <1>1, <1>2, <1>6, <2>3, <2>6, <2>10, SessionStep
<1>10. QED
  BY <1>1, <1>8, <1>9 DEF r
-----------------------------------------------------------------------------
(* The theorem.                                                            *)

LEMMA CountInit == Init => CountInv
<1> SUFFICES ASSUME Init PROVE CountInv
  OBVIOUS
<1>1. signals = [i \in Ids |-> None] /\ tx = [s \in Sessions |-> Closed]
      /\ \A a \in Agents : agents[a].total = 0
  BY DEF Init
<1>2. Closed.todo = {}
  BY DEF Closed
<1>3. FetchedUnprocessed /\ NumbersReserved /\ CopiesBounded
  BY <1>1, <1>2, ClosedOwn
     DEF FetchedUnprocessed, FetchedOK, NumbersReserved, ReservedOK, CopiesBounded, CopiesOK,
         Sessions
<1>4. NoOvercount
  BY <1>1, SalesFinite DEF NoOvercount
<1>5. QED
  BY <1>3, <1>4 DEF CountInv

LEMMA CountStep == OneWorker /\ TypeInv /\ CountInv /\ [Next]_vars => CountInv'
<1> SUFFICES ASSUME OneWorker, TypeInv, CountInv, [Next]_vars PROVE CountInv'
  OBVIOUS
<1>1. TypeOK
  BY DEF TypeInv
<1>2. ASSUME NEW a \in Agents, NEW k \in Kinds, EmitSignal(a, k) PROVE CountInv'
  BY <1>1, <1>2, EmitStep
<1>3. ASSUME NEW r \in Requests, NEW a \in Agents, NEW k \in Kinds, NEW evaluated \in BOOLEAN,
             PostSignal(r, a, k, evaluated)
      PROVE  CountInv'
  BY <1>1, <1>3, PostStep
<1>4. ASSUME NEW r \in Requests, CommitRequest(r) PROVE CountInv'
  BY <1>1, <1>4, CommitStep DEF CommitRequest, Sessions
<1>5. ASSUME NEW r \in Requests, AbortRequest(r) PROVE CountInv'
  BY <1>1, <1>5, CloseStep DEF AbortRequest, Sessions
<1>6. ASSUME NEW w \in Workers, FetchPending(w) PROVE CountInv'
  <2> DEFINE S == Oldest(Pending, BatchLimit)
  <2>1. \A i \in S : signals[i] # None /\ ~signals[i].processed
    BY DEF Oldest, Pending
  <2> HIDE DEF S
  <2>2. S \in SUBSET Ids /\ tx' = [tx EXCEPT ![w] = Begun(S, FALSE)]
    BY <1>6, FetchBegins DEF S
  <2>3. UNCHANGED <<dbVars, nextId>>
    BY <1>6 DEF FetchPending
  <2>4. QED
    BY <1>1, <2>1, <2>2, <2>3, BeginStep
<1>7. ASSUME NEW w \in Workers, ProcessSignal(w) PROVE CountInv'
  BY <1>7, ProcessStep
<1>8. ASSUME NEW w \in Workers, SignalFails(w) PROVE CountInv'
  <2>1. PICK i \in tx[w].todo : tx' = [tx EXCEPT ![w] = Begun(tx[w].todo \ {i}, TRUE)]
    BY <1>8, RolledBack
  <2> DEFINE S == tx[w].todo \ {i}
  <2>2. S \in SUBSET Ids
    BY <1>1 DEF TypeOK, Sessions, Session
  <2>3. \A j \in S : signals[j] # None /\ ~signals[j].processed
    BY DEF CountInv, FetchedUnprocessed, FetchedOK
  <2>4. UNCHANGED <<dbVars, nextId>>
    BY <1>8 DEF SignalFails
  <2>5. QED
    BY <1>1, <2>1, <2>2, <2>3, <2>4, BeginStep
<1>9. ASSUME NEW w \in Workers, CommitBatch(w) PROVE CountInv'
  BY <1>1, <1>9, CommitStep DEF CommitBatch, Sessions
<1>10. ASSUME NEW w \in Workers, Crash(w) PROVE CountInv'
  BY <1>1, <1>10, CloseStep DEF Crash, Sessions
<1>11. CASE UNCHANGED vars
  BY <1>11
     DEF vars, dbVars, CountInv, FetchedUnprocessed, FetchedOK, NumbersReserved, ReservedOK,
         CopiesBounded, CopiesOK, NoOvercount, ProcessedSales
<1>12. QED
  BY <1>2, <1>3, <1>4, <1>5, <1>6, <1>7, <1>8, <1>9, <1>10, <1>11 DEF Next

\* As long as slow-path tasks do not overlap, no crash, rollback, retry or
\* concurrent request ever makes total_policies_sold of an agent exceed its
\* processed sales, for any number of requests and signals.
THEOREM NoDoubleCount == OneWorker => (Spec => []NoOvercount)
<1> SUFFICES ASSUME OneWorker PROVE Spec => []NoOvercount
  OBVIOUS
<1>1. Init => TypeInv /\ CountInv
  BY InitType, CountInit
<1>2. TypeInv /\ CountInv /\ [Next]_vars => (TypeInv /\ CountInv)'
  BY TypeStep, CountStep
<1>3. TypeInv /\ CountInv => NoOvercount
  BY DEF CountInv
<1>4. QED
  BY <1>1, <1>2, <1>3, PTL DEF Spec
-----------------------------------------------------------------------------
(* What the pipeline leaves behind: the audit trail of an agent, the nudges of  *)
(* its alerts and the exact count of its sales.  The proofs go session by       *)
(* session: what a session has loaded, changed and is about to write fits what  *)
(* is committed, until another session overwrites it.                           *)

-----------------------------------------------------------------------------
(* The steps, by what they do to a session.                                *)

\* A session that has done nothing yet, or that is closed.
Blank(u) == SameCopies(u, Closed) /\ u.writes = Closed.writes /\ u.alerts = {}

\* Session t drops the fetched signal, which is processed already.
Skipped(u, t) ==
  SameCopies(u, t) /\ u.todo \subseteq t.todo /\ u.writes = t.writes /\ u.alerts = t.alerts

\* Session t handles the fetched signal i.
Handled(u, t, i) ==
  /\ i \in Ids /\ signals[i] \in SignalRow
  /\ u.todo = t.todo \ {i} /\ u.alerts = t.alerts
  /\ u.writes = [t.writes EXCEPT ![i] = MarkProcessed(signals[i])]
  /\ \/ RlsEnforced /\ SameCopies(u, t)
     \/ ~RlsEnforced /\ Understood(u, t, signals[i].agent, signals[i].kind, i)

\* Session s becomes u; nothing is committed.
SessionMove(s, u) ==
  /\ tx' = [tx EXCEPT ![s] = u] /\ UNCHANGED dbVars
  /\ \/ Blank(u) /\ nextId' = nextId
     \/ Skipped(u, tx[s]) /\ nextId' = nextId
     \/ /\ s \in Workers /\ nextId' = nextId
        /\ \E i \in tx[s].todo : Handled(u, tx[s], i)
     \/ /\ s \in Requests
        /\ \E a \in Agents, k \in Kinds : \E n : Posted(u, a, k, n) /\ nextId' = n + 1

LEMMA BlankClosed == Closed \in Session /\ Blank(Closed)
BY ClosedType DEF Blank, SameCopies, Closed

LEMMA HandledOne ==
  ASSUME TypeInv, NEW w \in Workers, ProcessSignal(w)
  PROVE  \E u \in Session : SessionMove(w, u)
<1>1. PICK i, u : /\ i \in tx[w].todo
                  /\ u \in {Rest(tx[w], i), Handle(Rest(tx[w], i), i)}
                  /\ tx' = [tx EXCEPT ![w] = u]
  BY ProcessedOne
<1> DEFINE t == tx[w]
           r == Rest(t, i)
<1>2. t \in Session /\ TypeOK
  BY DEF TypeInv, TypeOK, Sessions
<1>3. i \in Ids /\ signals[i] # None /\ signals[i] \in SignalRow
  <2>1. i \in Ids
    BY <1>1, <1>2 DEF Session
  <2>2. QED
    BY <1>1, <2>1 DEF TypeInv, TypeOK, FetchedStored
<1>4. /\ r \in Session /\ SameCopies(r, t) /\ r.todo = t.todo \ {i}
      /\ r.writes = t.writes /\ r.alerts = t.alerts
  BY <1>2, RestType
<1>5. UNCHANGED dbVars /\ nextId' = nextId
  BY DEF ProcessSignal
<1> HIDE DEF r
<1>6. CASE u = r
  BY <1>1, <1>4, <1>5, <1>6 DEF SessionMove, Skipped
<1>7. CASE u = Handle(r, i)
  <2>1. /\ u \in Session /\ u.todo = r.todo /\ u.alerts = r.alerts
        /\ u.writes = [r.writes EXCEPT ![i] = MarkProcessed(signals[i])]
        /\ \/ RlsEnforced /\ SameCopies(u, r)
           \/ ~RlsEnforced /\ Understood(u, r, signals[i].agent, signals[i].kind, i)
    BY <1>2, <1>3, <1>4, <1>7, HandleType
  <2>2. Understood(u, r, signals[i].agent, signals[i].kind, i) =>
          Understood(u, t, signals[i].agent, signals[i].kind, i)
    BY <1>4 DEF Understood, SameCopies, Loaded
  <2>3. SameCopies(u, r) => SameCopies(u, t)
    BY <1>4 DEF SameCopies
  <2>4. Handled(u, t, i)
    BY <1>3, <1>4, <2>1, <2>2, <2>3 DEF Handled
  <2>5. QED
    BY <1>1, <1>5, <2>1, <2>4 DEF SessionMove
<1>8. QED
  BY <1>1, <1>6, <1>7 DEF r

LEMMA StepCases ==
  ASSUME TypeInv, [Next]_vars
  PROVE  \/ \E a \in Agents, k \in Kinds : EmitSignal(a, k)
         \/ \E s \in Sessions : Commit(s) /\ nextId' = nextId
         \/ \E s \in Sessions, u \in Session : SessionMove(s, u)
         \/ UNCHANGED vars
<1> DEFINE Moves == \E s \in Sessions, u \in Session : SessionMove(s, u)
<1>1. TypeOK /\ Workers \subseteq Sessions /\ Requests \subseteq Sessions
  BY DEF TypeInv, Sessions
<1>2. ASSUME NEW r \in Requests, NEW a \in Agents, NEW k \in Kinds, NEW evaluated \in BOOLEAN,
             PostSignal(r, a, k, evaluated)
      PROVE  Moves
  <2>1. k \in SignalKinds
    BY ConstantsAssumption
  <2>2. PICK n, t : Posted(t, a, k, n) /\ tx' = [tx EXCEPT ![r] = t] /\ nextId' = n + 1
    BY <1>1, <1>2, <2>1, PostSignalType
  <2>3. t \in Session /\ UNCHANGED dbVars
    BY <1>2, <2>2 DEF Posted, PostSignal
  <2>4. SessionMove(r, t)
    BY <2>2, <2>3 DEF SessionMove
  <2>5. QED
    BY <1>1, <2>3, <2>4
<1>3. ASSUME NEW r \in Requests, AbortRequest(r) PROVE Moves
  <2>1. SessionMove(r, Closed)
    BY <1>3, BlankClosed DEF AbortRequest, SessionMove
  <2>2. QED
    BY <1>1, <2>1, BlankClosed
<1>4. ASSUME NEW w \in Workers, Crash(w) PROVE Moves
  <2>1. SessionMove(w, Closed)
    BY <1>4, BlankClosed DEF Crash, SessionMove
  <2>2. QED
    BY <1>1, <2>1, BlankClosed
<1>5. ASSUME NEW w \in Workers, NEW S \in SUBSET Ids, NEW refreshed \in BOOLEAN,
             tx' = [tx EXCEPT ![w] = Begun(S, refreshed)], UNCHANGED <<dbVars, nextId>>
      PROVE  Moves
  <2>1. Begun(S, refreshed) \in Session /\ Blank(Begun(S, refreshed))
    BY BegunType DEF Blank, Closed
  <2>2. SessionMove(w, Begun(S, refreshed))
    BY <1>5, <2>1 DEF SessionMove
  <2>3. QED
    BY <1>1, <2>1, <2>2
<1>6. ASSUME NEW w \in Workers, FetchPending(w) PROVE Moves
  BY <1>5, <1>6, FetchBegins DEF FetchPending
<1>7. ASSUME NEW w \in Workers, SignalFails(w) PROVE Moves
  <2>1. PICK i \in tx[w].todo : tx' = [tx EXCEPT ![w] = Begun(tx[w].todo \ {i}, TRUE)]
    BY <1>7, RolledBack
  <2>2. tx[w].todo \ {i} \in SUBSET Ids
    BY <1>1 DEF TypeOK, Session
  <2>3. UNCHANGED <<dbVars, nextId>>
    BY <1>7 DEF SignalFails
  <2>4. QED
    BY <1>5, <2>1, <2>2, <2>3
<1>8. ASSUME NEW w \in Workers, ProcessSignal(w) PROVE Moves
  BY <1>1, <1>8, HandledOne
<1>9. ASSUME NEW w \in Workers, CommitBatch(w) PROVE \E s \in Sessions : Commit(s) /\ nextId' = nextId
  BY <1>1, <1>9 DEF CommitBatch
<1>10. ASSUME NEW r \in Requests, CommitRequest(r)
       PROVE  \E s \in Sessions : Commit(s) /\ nextId' = nextId
  BY <1>1, <1>10 DEF CommitRequest
<1> HIDE DEF Moves
<1>11. \/ \E a \in Agents, k \in Kinds : EmitSignal(a, k)
       \/ \E s \in Sessions : Commit(s) /\ nextId' = nextId
       \/ Moves
       \/ UNCHANGED vars
  BY <1>2, <1>3, <1>4, <1>6, <1>7, <1>8, <1>9, <1>10 DEF Next
<1>12. QED
  BY <1>11 DEF Moves

-----------------------------------------------------------------------------
(* Sequences.                                                              *)

Chained(log) == \A n \in 1 .. Len(log) - 1 : log[n].to = log[n + 1].from

LEMMA ChainedAppend ==
  ASSUME NEW log \in Seq(AuditEntry), NEW e \in AuditEntry, Chained(log),
         log # NoEntries => log[Len(log)].to = e.from
  PROVE  /\ Chained(Append(log, e)) /\ Append(log, e) # NoEntries
         /\ Append(log, e)[Len(Append(log, e))] = e
         /\ Append(log, e)[1] = IF log = NoEntries THEN e ELSE log[1]
<1> DEFINE new == Append(log, e)
<1>1. Len(log) \in Nat /\ Len(new) = Len(log) + 1
  OBVIOUS
<1>2. \A n \in 1 .. Len(log) : new[n] = log[n]
  OBVIOUS
<1>3. new[Len(log) + 1] = e
  OBVIOUS
<1>4. log = NoEntries <=> Len(log) = 0
  BY DEF NoEntries
<1> HIDE DEF new
<1>5. Chained(new)
  <2> SUFFICES ASSUME NEW n \in 1 .. Len(log) PROVE new[n].to = new[n + 1].from
    BY <1>1 DEF Chained
  <2>1. CASE n = Len(log)
    BY <1>1, <1>2, <1>3, <1>4, <2>1
  <2>2. CASE n # Len(log)
    <3>1. n \in 1 .. Len(log) - 1 /\ n + 1 \in 1 .. Len(log)
      BY <1>1, <2>2
    <3>2. QED
      BY <1>2, <3>1 DEF Chained
  <2>3. QED
    BY <2>1, <2>2
<1>6. new # NoEntries
  BY <1>1 DEF NoEntries
<1>7. new[Len(new)] = e
  BY <1>1, <1>3
<1>8. new[1] = IF log = NoEntries THEN e ELSE log[1]
  <2>1. CASE log = NoEntries
    BY <1>3, <1>4, <2>1
  <2>2. CASE log # NoEntries
    BY <1>1, <1>2, <1>4, <2>2
  <2>3. QED
    BY <2>1, <2>2
<1>9. QED
  BY <1>5, <1>6, <1>7, <1>8 DEF new

LEMMA ChainedConcat ==
  ASSUME NEW p \in Seq(AuditEntry), NEW q \in Seq(AuditEntry), Chained(p), Chained(q),
         p # NoEntries /\ q # NoEntries => p[Len(p)].to = q[1].from
  PROVE  Chained(p \o q)
<1> DEFINE r == p \o q
<1>1. Len(p) \in Nat /\ Len(q) \in Nat /\ Len(r) = Len(p) + Len(q)
  OBVIOUS
<1>2. \A n \in 1 .. Len(p) : r[n] = p[n]
  OBVIOUS
<1>3. \A n \in 1 .. Len(q) : r[Len(p) + n] = q[n]
  OBVIOUS
<1>4. (p = NoEntries <=> Len(p) = 0) /\ (q = NoEntries <=> Len(q) = 0)
  BY DEF NoEntries
<1> HIDE DEF r
<1> SUFFICES ASSUME NEW n \in 1 .. Len(p) + Len(q) - 1 PROVE r[n].to = r[n + 1].from
  BY <1>1 DEF Chained, r
<1>5. CASE n < Len(p)
  <2>1. n \in 1 .. Len(p) - 1 /\ n \in 1 .. Len(p) /\ n + 1 \in 1 .. Len(p)
    BY <1>1, <1>5
  <2>2. QED
    BY <1>2, <2>1 DEF Chained
<1>6. CASE n = Len(p)
  <2>1. Len(p) \in 1 .. Len(p) /\ 1 \in 1 .. Len(q)
    BY <1>1, <1>6
  <2>2. r[n] = p[Len(p)] /\ r[n + 1] = q[1]
    BY <1>2, <1>3, <1>6, <2>1
  <2>3. QED
    BY <1>1, <1>4, <2>1, <2>2
<1>7. CASE n > Len(p)
  <2> DEFINE k == n - Len(p)
  <2>1. k \in 1 .. Len(q) - 1 /\ k \in 1 .. Len(q) /\ k + 1 \in 1 .. Len(q)
        /\ n = Len(p) + k /\ n + 1 = Len(p) + (k + 1)
    BY <1>1, <1>7
  <2> HIDE DEF k
  <2>2. r[n] = q[k] /\ r[n + 1] = q[k + 1]
    BY <1>3, <2>1
  <2>3. QED
    BY <2>1, <2>2 DEF Chained
<1>8. QED
  BY <1>1, <1>5, <1>6, <1>7

LEMMA ConcatTail ==
  ASSUME NEW p \in Seq(AuditEntry), NEW q \in Seq(AuditEntry)
  PROVE  /\ q = NoEntries => p \o q = p
         /\ q # NoEntries => p \o q # NoEntries /\ (p \o q)[Len(p \o q)] = q[Len(q)]
<1>1. CASE q = NoEntries
  BY <1>1 DEF NoEntries
<1>2. CASE q # NoEntries
  <2>1. Len(q) \in Nat /\ Len(p) \in Nat /\ Len(q) # 0
    BY <1>2 DEF NoEntries
  <2>2. Len(p \o q) = Len(p) + Len(q) /\ Len(q) \in 1 .. Len(q)
    BY <2>1
  <2>3. (p \o q)[Len(p) + Len(q)] = q[Len(q)]
    BY <2>1
  <2>4. p \o q # NoEntries
    BY <2>1, <2>2 DEF NoEntries
  <2>5. QED
    BY <1>2, <2>2, <2>3, <2>4
<1>3. QED
  BY <1>1, <1>2
-----------------------------------------------------------------------------
(* The audit trail and the state.                                          *)

\* The state the session found the agent in.
FoundState(t, a) == IF t.audit[a] = NoEntries THEN t.rows[a].state ELSE t.audit[a][1].from

\* A session's copy of a row and its own audit entries tell one story, which
\* goes on from the committed row until somebody overwrites that.
StoryOK(t, a) ==
  /\ t.audit[a] # NoEntries => t.rows[a] # None /\ t.audit[a][Len(t.audit[a])].to = t.rows[a].state
  /\ Chained(t.audit[a])
  /\ t.rows[a] # None /\ a \notin t.stale => FoundState(t, a) = agents[a].state

StoryInv ==
  /\ AuditTailIsState /\ AuditChainsUnlessOverwritten
  /\ \A s \in Sessions : \A a \in Agents : StoryOK(tx[s], a)

LEMMA ClosedStory == ASSUME NEW a \in Agents PROVE StoryOK(Closed, a)
BY DEF StoryOK, Closed, NoEntries, Chained

LEMMA CopiedStory ==
  ASSUME NEW t, NEW u, SameCopies(u, t), NEW a \in Agents, StoryOK(t, a) PROVE StoryOK(u, a)
BY DEF SameCopies, StoryOK, FoundState

\* Handling a signal continues the story.
LEMMA UnderstoodStory ==
  ASSUME TypeOK, NEW t \in Session, NEW u \in Session, NEW a \in Agents, NEW k, NEW i \in Ids,
         Understood(u, t, a, k, i), NEW b \in Agents, StoryOK(t, a), StoryOK(t, b)
  PROVE  StoryOK(u, b)
<1>1. PICK row \in AgentRow, log \in Seq(AuditEntry) :
        /\ Explains(log, t.audit[a], Loaded(t, a).state, row.state, k, i)
        /\ u.rows = [t.rows EXCEPT ![a] = row] /\ u.audit = [t.audit EXCEPT ![a] = log]
        /\ u.stale = t.stale
  BY DEF Understood
<1>2. t.rows \in [Agents -> AgentRow \cup {None}] /\ t.audit \in [Agents -> Seq(AuditEntry)]
      /\ agents[a] \in AgentRow
  BY DEF Session, TypeOK
<1>3. CASE b # a
  <2>1. u.rows[b] = t.rows[b] /\ u.audit[b] = t.audit[b]
    BY <1>1, <1>2, <1>3
  <2>2. QED
    BY <1>1, <2>1 DEF StoryOK, FoundState
<1>4. CASE b = a
  <2>1. u.rows[a] = row /\ u.audit[a] = log /\ row # None
    BY <1>1, <1>2, ConstantsAssumption
  <2>2. t.audit[a] # NoEntries => t.rows[a] # None /\ Loaded(t, a) = t.rows[a]
    BY DEF StoryOK, Loaded
  <2>3. t.audit[a] = NoEntries /\ a \notin t.stale => Loaded(t, a).state = agents[a].state
    BY DEF StoryOK, Loaded, FoundState
  <2>4. CASE log = t.audit[a] /\ row.state = Loaded(t, a).state
    BY <1>1, <1>4, <2>1, <2>2, <2>3, <2>4 DEF StoryOK, FoundState
  <2>5. CASE log = Append(t.audit[a], [from |-> Loaded(t, a).state, to |-> row.state, trigger |-> i])
    <3> DEFINE e == [from |-> Loaded(t, a).state, to |-> row.state, trigger |-> i]
    <3>1. Loaded(t, a) \in AgentRow
      BY <1>2 DEF Loaded
    <3>2. e \in AuditEntry /\ e.to = row.state /\ e.from = Loaded(t, a).state
      BY <3>1 DEF AuditEntry, AgentRow
    <3> HIDE DEF e
    <3>3. Chained(t.audit[a]) /\ (t.audit[a] # NoEntries => t.audit[a][Len(t.audit[a])].to = e.from)
      BY <2>2, <3>2 DEF StoryOK
    <3>4. /\ Chained(log) /\ log # NoEntries /\ log[Len(log)] = e
          /\ log[1] = IF t.audit[a] = NoEntries THEN e ELSE t.audit[a][1]
      BY <1>2, <2>5, <3>2, <3>3, ChainedAppend DEF e
    <3>5. a \notin u.stale => log[1].from = agents[a].state
      BY <1>1, <2>2, <2>3, <3>2, <3>4 DEF StoryOK, FoundState
    <3>6. QED
      BY <1>4, <2>1, <3>2, <3>4, <3>5 DEF StoryOK, FoundState
  <2>6. QED
    BY <1>1, <2>4, <2>5 DEF Explains
<1>5. QED
  BY <1>3, <1>4

\* What a commit writes to an agent's row and appends to its trail.
LEMMA CommitRow ==
  ASSUME TypeOK, StoryInv, NEW s \in Sessions, Commit(s), NEW t, t = tx[s], NEW a \in Agents
  PROVE  /\ audit'[a] = audit[a] \o t.audit[a]
         /\ audit[a] \in Seq(AuditEntry) /\ t.audit[a] \in Seq(AuditEntry)
         /\ StoryOK(t, a)
         /\ agents'[a].state = IF t.audit[a] = NoEntries THEN agents[a].state ELSE t.rows[a].state
         /\ a \notin Touched(t) => t.audit[a] = NoEntries /\ agents'[a] = agents[a]
         /\ a \in Touched(t) => t.rows[a] # None
         /\ overwritten' = overwritten \cup (t.stale \cap Touched(t))
<1>1. audit'[a] = audit[a] \o t.audit[a] /\ agents'[a] = FlushedRow(t, a)
      /\ overwritten' = overwritten \cup (t.stale \cap Touched(t))
  BY DEF Commit
<1>2. audit[a] \in Seq(AuditEntry) /\ t.audit[a] \in Seq(AuditEntry) /\ StoryOK(t, a)
  BY DEF TypeOK, Session, StoryInv
<1>3. t.audit[a] # NoEntries => a \in Touched(t)
  BY <1>2 DEF StoryOK, Touched
<1>4. a \in Touched(t) => t.rows[a] # None
  BY DEF Touched
<1>5. QED
  BY <1>1, <1>2, <1>3, <1>4 DEF FlushedRow

\* A commit appends the session's story to the one that is committed.
LEMMA CommitStory ==
  ASSUME TypeOK, StoryInv, NEW s \in Sessions, Commit(s) PROVE StoryInv'
<1> DEFINE t == tx[s]
<1>2. ASSUME NEW a \in Agents
      PROVE  /\ audit'[a] = audit[a] \o t.audit[a]
             /\ audit[a] \in Seq(AuditEntry) /\ t.audit[a] \in Seq(AuditEntry)
             /\ StoryOK(t, a)
             /\ agents'[a].state = IF t.audit[a] = NoEntries THEN agents[a].state ELSE t.rows[a].state
             /\ a \notin Touched(t) => t.audit[a] = NoEntries /\ agents'[a] = agents[a]
             /\ a \in Touched(t) => t.rows[a] # None
             /\ overwritten' = overwritten \cup (t.stale \cap Touched(t))
  BY CommitRow
<1> HIDE DEF t
<1>3. AuditTailIsState'
  <2> SUFFICES ASSUME NEW a \in Agents, audit'[a] # NoEntries
               PROVE  audit'[a][Len(audit'[a])].to = agents'[a].state
    BY DEF AuditTailIsState
  <2>1. audit[a] # NoEntries => audit[a][Len(audit[a])].to = agents[a].state
    BY DEF StoryInv, AuditTailIsState
  <2>2. CASE t.audit[a] = NoEntries
    BY <1>2, <2>1, <2>2, ConcatTail
  <2>3. CASE t.audit[a] # NoEntries
    <3> DEFINE p == audit[a]
               q == t.audit[a]
    <3>1. audit'[a][Len(audit'[a])] = t.audit[a][Len(t.audit[a])]
      <4>1. p \in Seq(AuditEntry) /\ q \in Seq(AuditEntry) /\ q # NoEntries
        BY <1>2, <2>3
      <4>2. audit'[a] = p \o q
        BY <1>2
      <4> HIDE DEF p, q
      <4>3. (p \o q)[Len(p \o q)] = q[Len(q)]
        BY <4>1, ConcatTail
      <4>4. audit'[a][Len(audit'[a])] = q[Len(q)]
        BY <4>2, <4>3
      <4>5. QED
        BY <4>4 DEF q
    <3>2. t.audit[a][Len(t.audit[a])].to = t.rows[a].state
      BY <1>2, <2>3 DEF StoryOK
    <3>3. agents'[a].state = t.rows[a].state
      BY <1>2, <2>3
    <3>4. QED
      BY <3>1, <3>2, <3>3
  <2>4. QED
    BY <2>2, <2>3
<1>4. AuditChainsUnlessOverwritten'
  <2> SUFFICES ASSUME NEW a \in Agents \ overwritten' PROVE Chained(audit'[a])
    BY DEF AuditChainsUnlessOverwritten, Chained
  <2>1. a \notin overwritten /\ (a \in Touched(t) => a \notin t.stale)
    BY <1>2
  <2>2. Chained(audit[a]) /\ (audit[a] # NoEntries => audit[a][Len(audit[a])].to = agents[a].state)
    BY <2>1 DEF StoryInv, AuditChainsUnlessOverwritten, AuditTailIsState, Chained
  <2>3. Chained(t.audit[a])
    BY <1>2 DEF StoryOK
  <2>4. t.audit[a] # NoEntries => t.audit[a][1].from = agents[a].state
    BY <1>2, <2>1 DEF StoryOK, FoundState
  <2>5. QED
    BY <1>2, <2>2, <2>3, <2>4, ChainedConcat
<1>5. ASSUME NEW x \in Sessions, NEW a \in Agents PROVE StoryOK(tx[x], a)'
  <2>1. CASE x = s
    <3>1. tx'[x] = Closed
      BY <2>1, CommitType
    <3>2. Closed.audit[a] = NoEntries /\ Closed.rows[a] = None
      BY DEF Closed
    <3>3. QED
      BY <3>1, <3>2 DEF StoryOK, Chained, NoEntries
  <2>2. CASE x # s
    <3>1. /\ tx'[x].rows = tx[x].rows /\ tx'[x].audit = tx[x].audit
          /\ tx'[x].stale = tx[x].stale \cup {b \in Touched(t) : tx[x].rows[b] # None}
      BY <2>2, CommitType DEF t
    <3>2. StoryOK(tx[x], a)
      BY DEF StoryInv
    <3>3. tx'[x].rows[a] # None /\ a \notin tx'[x].stale => a \notin tx[x].stale /\ agents'[a] = agents[a]
      BY <1>2, <3>1
    <3>4. QED
      BY <3>1, <3>2, <3>3 DEF StoryOK, FoundState
  <2>3. QED
    BY <2>1, <2>2
<1>6. QED
  BY <1>3, <1>4, <1>5 DEF StoryInv

LEMMA MoveStory ==
  ASSUME TypeOK, StoryInv, NEW s \in Sessions, NEW u \in Session, SessionMove(s, u) PROVE StoryInv'
<1>1. tx[s] \in Session /\ \A a \in Agents : StoryOK(tx[s], a)
  BY DEF TypeOK, StoryInv
<1>2. ASSUME NEW a \in Agents PROVE StoryOK(u, a)
  <2>1. CASE Blank(u)
    BY <2>1, ClosedStory, CopiedStory DEF Blank
  <2>2. CASE Skipped(u, tx[s])
    BY <1>1, <2>2, CopiedStory DEF Skipped
  <2>3. ASSUME NEW i \in tx[s].todo, Handled(u, tx[s], i) PROVE StoryOK(u, a)
    <3>1. signals[i].agent \in Agents /\ i \in Ids
      BY <2>3 DEF Handled, SignalRow
    <3>2. QED
      BY <1>1, <2>3, <3>1, CopiedStory, UnderstoodStory DEF Handled
  <2>4. ASSUME NEW b \in Agents, NEW k \in Kinds, NEW n, Posted(u, b, k, n) PROVE StoryOK(u, a)
    BY <2>4, ClosedType, ClosedStory, UnderstoodStory DEF Posted
  <2>5. QED
    BY <2>1, <2>2, <2>3, <2>4 DEF SessionMove
<1>3. tx' = [tx EXCEPT ![s] = u] /\ UNCHANGED <<agents, audit, overwritten>>
  BY DEF SessionMove, dbVars
<1>4. \A x \in Sessions : tx'[x] = IF x = s THEN u ELSE tx[x]
  BY <1>3 DEF TypeOK
<1>5. QED
  BY <1>2, <1>3, <1>4
     DEF StoryInv, AuditTailIsState, AuditChainsUnlessOverwritten, StoryOK, FoundState

LEMMA StoryStep == TypeInv /\ StoryInv /\ [Next]_vars => StoryInv'
<1> SUFFICES ASSUME TypeInv, StoryInv, [Next]_vars PROVE StoryInv'
  OBVIOUS
<1>1. TypeOK
  BY DEF TypeInv
<1>2. ASSUME UNCHANGED <<agents, audit, overwritten, tx>> PROVE StoryInv'
  BY <1>2 DEF StoryInv, AuditTailIsState, AuditChainsUnlessOverwritten, StoryOK, FoundState
<1>3. ASSUME NEW a \in Agents, NEW k \in Kinds, EmitSignal(a, k) PROVE StoryInv'
  BY <1>2, <1>3 DEF EmitSignal
<1>4. CASE UNCHANGED vars
  BY <1>2, <1>4 DEF vars, dbVars
<1>5. QED
  BY <1>1, <1>3, <1>4, StepCases, CommitStory, MoveStory

LEMMA StoryInit == Init => StoryInv
<1> SUFFICES ASSUME Init PROVE StoryInv
  OBVIOUS
<1>1. \A a \in Agents : audit[a] = NoEntries
  BY DEF Init
<1>2. \A s \in Sessions : tx[s] = Closed
  BY DEF Init
<1>3. AuditTailIsState /\ AuditChainsUnlessOverwritten
  BY <1>1 DEF AuditTailIsState, AuditChainsUnlessOverwritten, NoEntries
<1>4. QED
  BY <1>2, <1>3, ClosedStory DEF StoryInv

\* With any number of tasks and requests, whatever they overwrite, the state in
\* an agent's row is the one its last lifecycle_state_changed signal names.
THEOREM AuditNamesState == Spec => []AuditTailIsState
<1>1. StoryInv => AuditTailIsState
  BY DEF StoryInv
<1>2. QED
  BY <1>1, InitType, StoryInit, TypeStep, StoryStep, PTL DEF Spec

\* With any number of tasks and requests, an agent's audit trail is a chain of
\* transitions until a session writes its row from a stale copy.
THEOREM AuditIsChain == Spec => []AuditChainsUnlessOverwritten
<1>1. StoryInv => AuditChainsUnlessOverwritten
  BY DEF StoryInv
<1>2. QED
  BY <1>1, InitType, StoryInit, TypeStep, StoryStep, PTL DEF Spec
-----------------------------------------------------------------------------
(* The signals a trail names.                                              *)

\* Among the given signal rows is, processed, the one an audit entry names; it
\* is a renewed license if the agent had lapsed, an expired one if it had been
\* terminated.
Justified(e, rows) ==
  /\ rows[e.trigger] # None /\ rows[e.trigger].processed
  /\ e.from = "lapsed" => LicenseActive(rows[e.trigger].kind)
  /\ e.from = "terminated" => LicenseExpired(rows[e.trigger].kind)

Unique(log) == \A m, n \in DOMAIN log : log[m].trigger = log[n].trigger => m = n

\* The entries a session writes name signals it writes, each at most once.
Named(t, a) ==
  /\ Unique(t.audit[a])
  /\ \A n \in DOMAIN t.audit[a] : Justified(t.audit[a][n], t.writes)

NamesOK(t) == t.todo \cap OwnIds(t) = {} /\ \A a \in Agents : Named(t, a)

NamesInv == \A s \in Sessions : NamesOK(tx[s])

LEMMA EntriesAppend ==
  ASSUME NEW log \in Seq(AuditEntry), NEW e \in AuditEntry
  PROVE  /\ \A n \in DOMAIN Append(log, e) : Append(log, e)[n] = e \/ n \in DOMAIN log
         /\ \A n \in DOMAIN log : Append(log, e)[n] = log[n]
         /\ (\A n \in DOMAIN log : log[n].trigger # e.trigger) /\ Unique(log)
              => Unique(Append(log, e))
<1> DEFINE new == Append(log, e)
<1>1. /\ Len(log) \in Nat /\ DOMAIN log = 1 .. Len(log) /\ DOMAIN new = 1 .. Len(log) + 1
      /\ new[Len(log) + 1] = e /\ \A n \in 1 .. Len(log) : new[n] = log[n]
  OBVIOUS
<1> HIDE DEF new
<1>2. \A n \in DOMAIN new : n = Len(log) + 1 \/ n \in DOMAIN log
  BY <1>1
<1>3. ASSUME \A n \in DOMAIN log : log[n].trigger # e.trigger, Unique(log) PROVE Unique(new)
  <2> SUFFICES ASSUME NEW m \in DOMAIN new, NEW n \in DOMAIN new, new[m].trigger = new[n].trigger
               PROVE  m = n
    BY DEF Unique
  <2>1. CASE m \in DOMAIN log /\ n \in DOMAIN log
    BY <1>1, <1>3, <2>1 DEF Unique
  <2>2. CASE m = Len(log) + 1 \/ n = Len(log) + 1
    BY <1>1, <1>2, <1>3, <2>2
  <2>3. QED
    BY <1>2, <2>1, <2>2
<1>4. QED
  BY <1>1, <1>2, <1>3 DEF new

LEMMA EntriesConcat ==
  ASSUME NEW p \in Seq(AuditEntry), NEW q \in Seq(AuditEntry)
  PROVE  /\ \A n \in DOMAIN (p \o q) :
              \/ n \in DOMAIN p /\ (p \o q)[n] = p[n]
              \/ n \notin DOMAIN p /\ n - Len(p) \in DOMAIN q /\ (p \o q)[n] = q[n - Len(p)]
         /\ \A n \in DOMAIN q :
              Len(p) + n \in DOMAIN (p \o q) \ DOMAIN p /\ (p \o q)[Len(p) + n] = q[n]
         /\ Unique(p) /\ Unique(q)
              /\ (\A m \in DOMAIN p, n \in DOMAIN q : p[m].trigger # q[n].trigger)
              => Unique(p \o q)
<1> DEFINE r == p \o q
<1>1. /\ Len(p) \in Nat /\ Len(q) \in Nat /\ DOMAIN p = 1 .. Len(p) /\ DOMAIN q = 1 .. Len(q)
      /\ DOMAIN r = 1 .. Len(p) + Len(q)
  OBVIOUS
<1>2. \A n \in 1 .. Len(p) : r[n] = p[n]
  OBVIOUS
<1>3. \A n \in 1 .. Len(q) : r[Len(p) + n] = q[n]
  OBVIOUS
<1> HIDE DEF r
<1>4. ASSUME NEW n \in DOMAIN r
      PROVE  \/ n \in DOMAIN p /\ r[n] = p[n]
             \/ n \notin DOMAIN p /\ n - Len(p) \in DOMAIN q /\ r[n] = q[n - Len(p)]
  <2>1. CASE n \in 1 .. Len(p)
    BY <1>1, <1>2, <2>1
  <2>2. CASE n \notin 1 .. Len(p)
    <3>1. n - Len(p) \in 1 .. Len(q) /\ n = Len(p) + (n - Len(p))
      BY <1>1, <2>2
    <3>2. r[Len(p) + (n - Len(p))] = q[n - Len(p)]
      BY <1>3, <3>1
    <3>3. QED
      BY <1>1, <2>2, <3>1, <3>2
  <2>3. QED
    BY <2>1, <2>2
<1>5. \A n \in DOMAIN q : Len(p) + n \in DOMAIN r \ DOMAIN p /\ r[Len(p) + n] = q[n]
  BY <1>1, <1>3
<1>6. ASSUME Unique(p), Unique(q), \A m \in DOMAIN p, n \in DOMAIN q : p[m].trigger # q[n].trigger
      PROVE  Unique(r)
  <2> SUFFICES ASSUME NEW m \in DOMAIN r, NEW n \in DOMAIN r, r[m].trigger = r[n].trigger
               PROVE  m = n
    BY DEF Unique
  <2>1. CASE m \in DOMAIN p /\ n \in DOMAIN p
    BY <1>1, <1>2, <1>6, <2>1 DEF Unique
  <2>2. CASE m \notin DOMAIN p /\ n \notin DOMAIN p
    <3>1. m - Len(p) = n - Len(p)
      BY <1>4, <1>6, <2>2 DEF Unique
    <3>2. QED
      BY <1>1, <3>1
  <2>3. CASE m \in DOMAIN p /\ n \notin DOMAIN p
    BY <1>4, <1>6, <2>3
  <2>4. CASE m \notin DOMAIN p /\ n \in DOMAIN p
    BY <1>4, <1>6, <2>4
  <2>5. QED
    BY <2>1, <2>2, <2>3, <2>4
<1>7. QED
  BY <1>4, <1>5, <1>6 DEF r

LEMMA ClosedNames == NamesOK(Closed)
<1>1. Closed.todo = {} /\ \A a \in Agents : Closed.audit[a] = <<>>
  BY DEF Closed, NoEntries
<1>2. QED
  BY <1>1 DEF NamesOK, Named, Unique

\* Handling a signal the session has not written yet names that signal.
LEMMA UnderstoodNames ==
  ASSUME TypeOK, NEW t \in Session, NEW u \in Session, NEW a \in Agents, NEW k, NEW i \in Ids,
         Understood(u, t, a, k, i), t.writes[i] = None,
         u.writes[i] # None, u.writes[i].processed, u.writes[i].kind = k,
         \A j \in OwnIds(t) : u.writes[j] = t.writes[j],
         NEW b \in Agents, Named(t, b)
  PROVE  Named(u, b)
<1>1. PICK row \in AgentRow, log \in Seq(AuditEntry) :
        /\ Explains(log, t.audit[a], Loaded(t, a).state, row.state, k, i)
        /\ u.audit = [t.audit EXCEPT ![a] = log]
  BY DEF Understood
<1>2. t.audit[b] \in Seq(AuditEntry) /\ t.audit[a] \in Seq(AuditEntry)
      /\ t.audit \in [Agents -> Seq(AuditEntry)]
  BY DEF Session
<1>3. \A n \in DOMAIN t.audit[b] : t.audit[b][n] \in AuditEntry
  BY <1>2
<1>4. ASSUME NEW n \in DOMAIN t.audit[b]
      PROVE  Justified(t.audit[b][n], u.writes) /\ t.audit[b][n].trigger # i
  <2>1. t.audit[b][n].trigger \in Ids
    BY <1>3 DEF AuditEntry
  <2>2. Justified(t.audit[b][n], t.writes)
    BY DEF Named
  <2>3. t.audit[b][n].trigger \in OwnIds(t)
    BY <2>1, <2>2 DEF Justified, OwnIds
  <2>4. QED
    BY <2>2, <2>3 DEF Justified
<1>5. CASE u.audit[b] = t.audit[b]
  BY <1>4, <1>5 DEF Named
<1>6. CASE b = a /\ log = Append(t.audit[a], [from |-> Loaded(t, a).state, to |-> row.state, trigger |-> i])
           /\ (Loaded(t, a).state = "lapsed" => LicenseActive(k))
           /\ (Loaded(t, a).state = "terminated" => LicenseExpired(k))
  <2> DEFINE e == [from |-> Loaded(t, a).state, to |-> row.state, trigger |-> i]
  <2>1. Loaded(t, a) \in AgentRow
    BY LoadType
  <2>2. e \in AuditEntry /\ e.trigger = i /\ e.from = Loaded(t, a).state
    BY <2>1 DEF AuditEntry, AgentRow
  <2>3. u.audit[b] = Append(t.audit[b], e)
    BY <1>1, <1>2, <1>6
  <2> HIDE DEF e
  <2>4. Justified(e, u.writes)
    BY <1>6, <2>2 DEF Justified
  <2>5. Unique(u.audit[b])
    BY <1>2, <1>4, <2>2, <2>3, EntriesAppend DEF Named
  <2>6. \A n \in DOMAIN u.audit[b] :
          \/ u.audit[b][n] = e
          \/ n \in DOMAIN t.audit[b] /\ u.audit[b][n] = t.audit[b][n]
    BY <1>2, <2>2, <2>3, EntriesAppend
  <2>7. QED
    BY <1>4, <2>4, <2>5, <2>6 DEF Named
<1>7. QED
  BY <1>1, <1>2, <1>5, <1>6 DEF Explains

LEMMA MoveNames ==
  ASSUME TypeInv, NamesInv, NEW s \in Sessions, NEW u \in Session, SessionMove(s, u)
  PROVE  NamesOK(u)
<1>1. TypeOK /\ tx[s] \in Session /\ NamesOK(tx[s])
  BY DEF TypeInv, TypeOK, NamesInv
<1>2. CASE Blank(u)
  <2>1. OwnIds(u) = {}
    BY <1>2, ClosedOwn DEF Blank, OwnIds
  <2>2. \A a \in Agents : Named(u, a)
    BY <1>2, ClosedNames DEF Blank, SameCopies, NamesOK, Named
  <2>3. QED
    BY <2>1, <2>2 DEF NamesOK
<1>3. CASE Skipped(u, tx[s])
  BY <1>1, <1>3 DEF Skipped, SameCopies, NamesOK, Named, OwnIds
<1>4. ASSUME NEW i \in tx[s].todo, Handled(u, tx[s], i) PROVE NamesOK(u)
  <2> DEFINE t == tx[s]
             done == MarkProcessed(signals[i])
  <2>1. i \in Ids /\ signals[i].agent \in Agents
    BY <1>4 DEF Handled, SignalRow
  <2>2. done.kind = signals[i].kind /\ done.processed /\ done # None
    BY <1>4, MarkedRow, ConstantsAssumption DEF Handled
  <2> HIDE DEF done
  <2>3. t.writes[i] = None
    BY <1>1, <2>1 DEF NamesOK, OwnIds
  <2>4. t.writes \in [Ids -> SignalRow \cup {None}] /\ u.writes = [t.writes EXCEPT ![i] = done]
    BY <1>1, <1>4 DEF Session, Handled, done
  <2>5. u.writes[i] = done /\ \A j \in Ids \ {i} : u.writes[j] = t.writes[j]
    BY <2>1, <2>4
  <2>6. \A j \in OwnIds(t) : j \in Ids \ {i} /\ u.writes[j] = t.writes[j]
    BY <2>3, <2>5 DEF OwnIds
  <2>7. OwnIds(u) = OwnIds(t) \cup {i} /\ u.todo = t.todo \ {i}
    BY <1>4, <2>1, <2>2, <2>5 DEF OwnIds, Handled
  <2>8. u.todo \cap OwnIds(u) = {}
    BY <1>1, <2>7 DEF NamesOK
  <2>9. ASSUME NEW b \in Agents PROVE Named(u, b)
    <3>1. Named(t, b)
      BY <1>1 DEF NamesOK
    <3>2. CASE SameCopies(u, t)
      <4>1. t.audit[b] \in Seq(AuditEntry)
        BY <1>1 DEF Session
      <4>2. ASSUME NEW n \in DOMAIN t.audit[b] PROVE t.audit[b][n].trigger \in OwnIds(t)
        <5>1. t.audit[b][n] \in AuditEntry
          BY <4>1
        <5>2. QED
          BY <3>1, <5>1 DEF Named, Justified, OwnIds, AuditEntry
      <4>3. QED
        BY <2>6, <3>1, <3>2, <4>2 DEF SameCopies, Named, Justified
    <3>3. CASE Understood(u, t, signals[i].agent, signals[i].kind, i)
      BY <1>1, <2>1, <2>2, <2>3, <2>5, <2>6, <3>1, <3>3, UnderstoodNames
    <3>4. QED
      BY <1>4, <3>2, <3>3 DEF Handled
  <2>10. QED
    BY <2>8, <2>9 DEF NamesOK
<1>5. ASSUME NEW a \in Agents, NEW k \in Kinds, NEW n, Posted(u, a, k, n) PROVE NamesOK(u)
  <2>1. /\ nextId \in Ids /\ Understood(u, Closed, a, k, nextId) /\ u.todo = {}
        /\ u.writes[nextId].kind = k /\ u.writes[nextId].processed /\ u.writes[nextId] # None
    BY <1>5, ConstantsAssumption DEF Posted
  <2>2. Closed \in Session /\ Closed.writes[nextId] = None /\ OwnIds(Closed) = {}
    BY <2>1, ClosedType, ClosedOwn DEF Closed
  <2>3. \A b \in Agents : Named(Closed, b)
    BY ClosedNames DEF NamesOK
  <2>4. \A b \in Agents : Named(u, b)
    BY <1>1, <2>1, <2>2, <2>3, UnderstoodNames
  <2>5. QED
    BY <2>1, <2>4 DEF NamesOK
<1>6. QED
  BY <1>2, <1>3, <1>4, <1>5 DEF SessionMove

LEMMA NamesStep == TypeInv /\ NamesInv /\ [Next]_vars => NamesInv'
<1> SUFFICES ASSUME TypeInv, NamesInv, [Next]_vars PROVE NamesInv'
  OBVIOUS
<1>1. TypeOK
  BY DEF TypeInv
<1>2. ASSUME tx' = tx PROVE NamesInv'
  BY <1>2 DEF NamesInv, NamesOK, Named, OwnIds
<1>3. ASSUME NEW s \in Sessions, Commit(s) PROVE NamesInv'
  <2> SUFFICES ASSUME NEW x \in Sessions PROVE NamesOK(tx[x])'
    BY DEF NamesInv
  <2>1. CASE x = s
    <3>1. tx'[x] = Closed
      BY <1>1, <1>3, <2>1, CommitType
    <3>2. NamesOK(tx'[x])
      BY <3>1, ClosedNames
    <3>3. QED
      BY <3>2 DEF NamesOK, Named, OwnIds
  <2>2. CASE x # s
    <3>1. tx'[x].audit = tx[x].audit /\ tx'[x].todo = tx[x].todo /\ tx'[x].writes = tx[x].writes
      BY <1>1, <1>3, <2>2, CommitType
    <3>2. QED
      BY <3>1 DEF NamesInv, NamesOK, Named, OwnIds
  <2>3. QED
    BY <2>1, <2>2
<1>4. ASSUME NEW s \in Sessions, NEW u \in Session, SessionMove(s, u) PROVE NamesInv'
  <2>1. NamesOK(u)
    BY <1>4, MoveNames
  <2>2. \A x \in Sessions : tx'[x] = IF x = s THEN u ELSE tx[x]
    BY <1>1, <1>4 DEF SessionMove, TypeOK
  <2>3. ASSUME NEW x \in Sessions PROVE NamesOK(tx[x])'
    BY <2>1, <2>2 DEF NamesInv, NamesOK, Named, OwnIds
  <2>4. QED
    BY <2>3 DEF NamesInv
<1>5. ASSUME NEW a \in Agents, NEW k \in Kinds, EmitSignal(a, k) PROVE NamesInv'
  BY <1>2, <1>5 DEF EmitSignal
<1>6. CASE UNCHANGED vars
  BY <1>2, <1>6 DEF vars
<1>7. QED
  BY <1>3, <1>4, <1>5, <1>6, StepCases

LEMMA NamesInit == Init => NamesInv
BY ClosedNames DEF Init, NamesInv

\* An agent that moves, and was not overwritten, has a new entry that goes on
\* from the committed state and names a signal that allows it.
ExplainedMove(a) ==
  agents[a].state # agents'[a].state =>
    \E n \in DOMAIN audit'[a] \ DOMAIN audit[a] :
      audit'[a][n].from = agents[a].state /\ Justified(audit'[a][n], signals')

\* The first entry a session commits is such an entry: the signal it names is
\* committed with it.
LEMMA CommitExplains ==
  ASSUME TypeOK, StoryInv, NamesInv, NEW s \in Sessions, Commit(s)
  PROVE  \A a \in Agents \ overwritten' : ExplainedMove(a)
<1> DEFINE t == tx[s]
<1> SUFFICES ASSUME NEW a \in Agents \ overwritten', agents[a].state # agents'[a].state
             PROVE  \E n \in DOMAIN audit'[a] \ DOMAIN audit[a] :
                      audit'[a][n].from = agents[a].state /\ Justified(audit'[a][n], signals')
  BY DEF ExplainedMove
<1>1. /\ audit'[a] = audit[a] \o t.audit[a]
      /\ audit[a] \in Seq(AuditEntry) /\ t.audit[a] \in Seq(AuditEntry)
      /\ StoryOK(t, a)
      /\ agents'[a].state = IF t.audit[a] = NoEntries THEN agents[a].state ELSE t.rows[a].state
      /\ a \notin Touched(t) => t.audit[a] = NoEntries /\ agents'[a] = agents[a]
      /\ a \in Touched(t) => t.rows[a] # None
      /\ overwritten' = overwritten \cup (t.stale \cap Touched(t))
  BY CommitRow
<1>2. Named(t, a) /\ \A i \in Ids : t.writes[i] # None => signals'[i] = t.writes[i]
  BY DEF NamesInv, NamesOK, Commit
<1> HIDE DEF t
<1>3. t.audit[a] # NoEntries /\ a \in Touched(t) /\ t.rows[a] # None /\ a \notin t.stale
  BY <1>1
<1>4. t.audit[a][1].from = agents[a].state /\ 1 \in DOMAIN t.audit[a]
  <2>1. Len(t.audit[a]) # 0 /\ Len(t.audit[a]) \in Nat /\ DOMAIN t.audit[a] = 1 .. Len(t.audit[a])
    BY <1>1, <1>3 DEF NoEntries
  <2>2. QED
    BY <1>1, <1>3, <2>1 DEF StoryOK, FoundState
<1> DEFINE e == t.audit[a][1]
<1>5. e \in AuditEntry /\ Justified(e, t.writes)
  BY <1>1, <1>2, <1>4 DEF Named
<1>6. signals'[e.trigger] = t.writes[e.trigger]
  BY <1>2, <1>5 DEF AuditEntry, Justified
<1>7. Len(audit[a]) + 1 \in DOMAIN audit'[a] \ DOMAIN audit[a] /\ audit'[a][Len(audit[a]) + 1] = e
  <2> DEFINE p == audit[a]
             q == t.audit[a]
  <2>1. p \in Seq(AuditEntry) /\ q \in Seq(AuditEntry) /\ 1 \in DOMAIN q
    BY <1>1, <1>4
  <2> HIDE DEF p, q
  <2>2. Len(p) + 1 \in DOMAIN (p \o q) \ DOMAIN p /\ (p \o q)[Len(p) + 1] = q[1]
    BY <2>1, EntriesConcat
  <2>3. QED
    BY <1>1, <2>2 DEF p, q
<1>8. e.from = agents[a].state /\ Justified(e, signals')
  BY <1>4, <1>5, <1>6 DEF Justified
<1> HIDE DEF e
<1>9. QED
  BY <1>7, <1>8

LEMMA StepExplains ==
  ASSUME TypeInv, StoryInv, NamesInv, [Next]_vars
  PROVE  \A a \in Agents \ overwritten' : ExplainedMove(a)
<1>1. ASSUME agents' = agents PROVE \A a \in Agents \ overwritten' : ExplainedMove(a)
  BY <1>1 DEF ExplainedMove
<1>2. ASSUME NEW s \in Sessions, Commit(s) PROVE \A a \in Agents \ overwritten' : ExplainedMove(a)
  BY <1>2, CommitExplains DEF TypeInv
<1>3. ASSUME NEW a \in Agents, NEW k \in Kinds, EmitSignal(a, k)
      PROVE  \A b \in Agents \ overwritten' : ExplainedMove(b)
  BY <1>1, <1>3 DEF EmitSignal
<1>4. ASSUME NEW s \in Sessions, NEW u \in Session, SessionMove(s, u)
      PROVE  \A a \in Agents \ overwritten' : ExplainedMove(a)
  BY <1>1, <1>4 DEF SessionMove, dbVars
<1>5. CASE UNCHANGED vars
  BY <1>1, <1>5 DEF vars, dbVars
<1>6. QED
  BY <1>2, <1>3, <1>4, <1>5, StepCases

\* With any number of tasks and requests: until a session writes the agent's
\* row from a stale copy, only a renewed license takes it out of LAPSED.
THEOREM LapsedStays == Spec => LapsedUnlessOverwritten
<1>1. TypeInv /\ StoryInv /\ NamesInv /\ [Next]_vars => [LapseRespected]_vars
  BY StepExplains DEF ExplainedMove, LapseRespected, LeavesLapsedRenewed, Justified
<1>2. QED
  BY <1>1, InitType, StoryInit, NamesInit, TypeStep, StoryStep, NamesStep, PTL
     DEF Spec, LapsedUnlessOverwritten

\* With any number of tasks and requests: until a session writes the agent's
\* row from a stale copy, only an expired license takes it out of TERMINATED.
THEOREM TerminatedStays == Spec => TerminatedUnlessOverwritten
<1>1. TypeInv /\ StoryInv /\ NamesInv /\ [Next]_vars => [TerminationRespected]_vars
  BY StepExplains DEF ExplainedMove, TerminationRespected, LeavesTerminatedExpired, Justified
<1>2. QED
  BY <1>1, InitType, StoryInit, NamesInit, TypeStep, StoryStep, NamesStep, PTL
     DEF Spec, TerminatedUnlessOverwritten
-----------------------------------------------------------------------------
(* One transition per signal.                                              *)

\* A commit leaves the rows of processed signals alone, and those are the ones
\* the committed trail names.
LEMMA CommitOnce ==
  ASSUME OneTransitionPerSignal, CountInv, NamesInv, TypeOK, StoryInv,
         NEW s \in Sessions, Commit(s)
  PROVE  OneTransitionPerSignal'
<1> DEFINE t == tx[s]
           Done(i) == signals'[i] # None /\ signals'[i].processed
<1> SUFFICES ASSUME NEW a \in Agents
             PROVE  /\ Unique(audit'[a])
                    /\ \A n \in DOMAIN audit'[a] : Done(audit'[a][n].trigger)
  BY DEF OneTransitionPerSignal, Unique, IsProcessed
<1> DEFINE p == audit[a]
           q == t.audit[a]
<1>1. audit'[a] = p \o q /\ p \in Seq(AuditEntry) /\ q \in Seq(AuditEntry)
  BY CommitRow
<1>2. Named(t, a)
  BY DEF NamesInv, NamesOK
<1>3. \A i \in Ids : signals'[i] = IF i \in OwnIds(t) THEN t.writes[i] ELSE signals[i]
  BY DEF Commit, OwnIds
<1>4. \A i \in OwnIds(t) : ~IsProcessed(i)
  BY DEF CountInv, FetchedUnprocessed, FetchedOK, NumbersReserved, ReservedOK, IsProcessed, Sessions
<1>5. Unique(p) /\ \A n \in DOMAIN p : p[n].trigger \in Ids /\ IsProcessed(p[n].trigger)
  <2>1. \A n \in DOMAIN p : p[n] \in AuditEntry
    BY <1>1
  <2>2. QED
    BY <2>1 DEF OneTransitionPerSignal, Unique, AuditEntry
<1>6. Unique(q) /\ \A n \in DOMAIN q :
        q[n].trigger \in Ids /\ q[n].trigger \in OwnIds(t) /\ t.writes[q[n].trigger].processed
  <2>1. \A n \in DOMAIN q : q[n] \in AuditEntry
    BY <1>1
  <2>2. QED
    BY <1>2, <2>1 DEF Named, Justified, AuditEntry, OwnIds
<1> HIDE DEF t
<1>7. \A n \in DOMAIN p : Done(p[n].trigger)
  BY <1>3, <1>4, <1>5 DEF IsProcessed
<1>8. \A n \in DOMAIN q : Done(q[n].trigger)
  BY <1>3, <1>6 DEF IsProcessed, OwnIds
<1>9. \A m \in DOMAIN p, n \in DOMAIN q : p[m].trigger # q[n].trigger
  BY <1>4, <1>5, <1>6
<1> HIDE DEF p, q, Done
<1>10. Unique(p \o q)
  BY <1>1, <1>5, <1>6, <1>9, EntriesConcat
<1>11. ASSUME NEW n \in DOMAIN (p \o q) PROVE Done((p \o q)[n].trigger)
  <2>1. \/ n \in DOMAIN p /\ (p \o q)[n] = p[n]
        \/ n \notin DOMAIN p /\ n - Len(p) \in DOMAIN q /\ (p \o q)[n] = q[n - Len(p)]
    BY <1>1, EntriesConcat
  <2>2. QED
    BY <1>7, <1>8, <2>1
<1>12. QED
  BY <1>1, <1>10, <1>11

LEMMA OnceStep ==
  ASSUME OneTransitionPerSignal, CountInv, NamesInv, TypeInv, StoryInv, [Next]_vars
  PROVE  OneTransitionPerSignal'
<1>1. TypeOK
  BY DEF TypeInv
<1>2. ASSUME UNCHANGED <<audit, signals>> PROVE OneTransitionPerSignal'
  BY <1>2 DEF OneTransitionPerSignal, IsProcessed
<1>3. ASSUME NEW a \in Agents, NEW k \in Kinds, EmitSignal(a, k) PROVE OneTransitionPerSignal'
  <2>1. audit' = audit /\ nextId \in Ids
    BY <1>3 DEF EmitSignal
  <2>2. signals[nextId] = None
    BY <2>1 DEF CountInv, NumbersReserved, Ids
  <2>3. \A i \in Ids \ {nextId} : signals'[i] = signals[i]
    BY <1>1, <1>3 DEF EmitSignal, TypeOK
  <2>4. \A b \in Agents : \A n \in DOMAIN audit[b] : audit[b][n].trigger \in Ids
    <3>1. \A b \in Agents : \A n \in DOMAIN audit[b] : audit[b][n] \in AuditEntry
      BY <1>1 DEF TypeOK
    <3>2. QED
      BY <3>1 DEF AuditEntry
  <2>5. \A i \in Ids : IsProcessed(i) => IsProcessed(i)'
    BY <2>2, <2>3 DEF IsProcessed
  <2>6. QED
    BY <2>1, <2>4, <2>5 DEF OneTransitionPerSignal
<1>4. ASSUME NEW s \in Sessions, NEW u \in Session, SessionMove(s, u)
      PROVE  OneTransitionPerSignal'
  BY <1>2, <1>4 DEF SessionMove, dbVars
<1>5. CASE UNCHANGED vars
  BY <1>2, <1>5 DEF vars, dbVars
<1>6. QED
  BY <1>1, <1>3, <1>4, <1>5, StepCases, CommitOnce

\* As long as slow-path tasks do not overlap, no rollback or retry makes a
\* signal explain two transitions, and none survives without its signal.
THEOREM SignalsMoveOnce == OneWorker => (Spec => []OneTransitionPerSignal)
<1>1. ASSUME OneWorker PROVE Spec => []OneTransitionPerSignal
  <2>1. Init => OneTransitionPerSignal
    BY DEF Init, OneTransitionPerSignal, NoEntries
  <2>2. /\ TypeInv /\ CountInv /\ StoryInv /\ NamesInv /\ OneTransitionPerSignal /\ [Next]_vars
          => (TypeInv /\ CountInv /\ StoryInv /\ NamesInv /\ OneTransitionPerSignal)'
    BY <1>1, TypeStep, CountStep, StoryStep, NamesStep, OnceStep
  <2>3. QED
    BY <2>1, <2>2, InitType, CountInit, StoryInit, NamesInit, PTL DEF Spec
<1>2. QED
  BY <1>1
-----------------------------------------------------------------------------
(* A nudge for every alert.                                                *)

\* The alerts and the nudges among the signal rows match one to one.
Nudged(als, rows) ==
  /\ \A x \in als : rows[x.nudge] # None /\ rows[x.nudge].kind = NudgeKind
                    /\ rows[x.nudge].agent = x.agent
  /\ \A x, y \in als : x.nudge = y.nudge => x = y
  /\ \A i \in Ids : rows[i] # None /\ rows[i].kind = NudgeKind => \E x \in als : x.nudge = i

\* Rows are neither removed nor turned into rows about something else.
SameSignals(rows, old) ==
  \A i \in Ids : old[i] # None =>
    rows[i] # None /\ rows[i].kind = old[i].kind /\ rows[i].agent = old[i].agent

\* A worker inserts nothing, and leaves kind and agent of what it updates.
RewritesOK(t) ==
  /\ t.alerts = {}
  /\ \A i \in OwnIds(t) : /\ signals[i] # None
                          /\ t.writes[i].kind = signals[i].kind
                          /\ t.writes[i].agent = signals[i].agent

NudgeInv ==
  /\ NudgePerAlert /\ NumbersReserved
  /\ \A w \in Workers : RewritesOK(tx[w])
  /\ \A r \in Requests : Nudged(tx[r].alerts, tx[r].writes)

LEMMA NudgedMerge ==
  ASSUME NEW als \in SUBSET AlertRow, NEW new \in SUBSET AlertRow,
         NEW rows, NEW own, NEW merged, Nudged(als, rows), Nudged(new, own),
         \A i \in Ids : own[i] # None => rows[i] = None,
         \A i \in Ids : merged[i] = IF own[i] # None THEN own[i] ELSE rows[i]
  PROVE  Nudged(als \cup new, merged)
<1>1. \A x \in als \cup new : x.nudge \in Ids
  BY DEF AlertRow
<1>2. \A x \in als : own[x.nudge] = None /\ merged[x.nudge] = rows[x.nudge]
  BY <1>1 DEF Nudged
<1>3. \A x \in new : merged[x.nudge] = own[x.nudge]
  BY <1>1 DEF Nudged
<1>4. \A x \in als, y \in new : x.nudge # y.nudge
  BY <1>2 DEF Nudged
<1>5. ASSUME NEW x \in als \cup new, NEW y \in als \cup new, x.nudge = y.nudge PROVE x = y
  BY <1>4, <1>5 DEF Nudged
<1>6. ASSUME NEW i \in Ids, merged[i] # None, merged[i].kind = NudgeKind
      PROVE  \E x \in als \cup new : x.nudge = i
  BY <1>6 DEF Nudged
<1>7. \A x \in als \cup new : merged[x.nudge] # None /\ merged[x.nudge].kind = NudgeKind
                              /\ merged[x.nudge].agent = x.agent
  BY <1>2, <1>3 DEF Nudged
<1>8. QED
  BY <1>5, <1>6, <1>7 DEF Nudged

LEMMA NudgedSame ==
  ASSUME NEW als \in SUBSET AlertRow, NEW rows, NEW old, Nudged(als, old),
         SameSignals(rows, old), \A i \in Ids : old[i] = None => rows[i] = None
  PROVE  Nudged(als, rows)
<1>1. \A x \in als : x.nudge \in Ids
  BY DEF AlertRow
<1>2. \A x \in als : rows[x.nudge] # None /\ rows[x.nudge].kind = NudgeKind
                     /\ rows[x.nudge].agent = x.agent
  BY <1>1 DEF Nudged, SameSignals
<1>3. ASSUME NEW i \in Ids, rows[i] # None, rows[i].kind = NudgeKind
      PROVE  \E x \in als : x.nudge = i
  BY <1>3 DEF Nudged, SameSignals
<1>4. QED
  BY <1>2, <1>3 DEF Nudged

LEMMA ClosedNudges == OwnIds(Closed) = {} /\ RewritesOK(Closed) /\ Nudged(Closed.alerts, Closed.writes)
<1>1. Closed.alerts = {} /\ \A i \in Ids : Closed.writes[i] = None
  BY DEF Closed
<1>2. QED
  BY <1>1, ClosedOwn DEF RewritesOK, Nudged

\* A worker's session keeps to updates.
LEMMA MoveRewrites ==
  ASSUME TypeInv, NudgeInv, NEW s \in Workers, NEW u \in Session, SessionMove(s, u)
  PROVE  RewritesOK(u)
<1>1. tx[s] \in Session /\ RewritesOK(tx[s]) /\ s \notin Requests
  BY ConstantsAssumption DEF TypeInv, TypeOK, Sessions, NudgeInv
<1>2. CASE Blank(u)
  <2>1. OwnIds(u) = {} /\ u.alerts = {}
    BY <1>2, ClosedOwn DEF Blank, OwnIds
  <2>2. QED
    BY <2>1 DEF RewritesOK
<1>3. CASE Skipped(u, tx[s])
  BY <1>1, <1>3 DEF Skipped, RewritesOK, OwnIds
<1>4. ASSUME NEW i \in tx[s].todo, Handled(u, tx[s], i) PROVE RewritesOK(u)
  <2> DEFINE t == tx[s]
             done == MarkProcessed(signals[i])
  <2>1. /\ i \in Ids /\ signals[i] # None
        /\ done.kind = signals[i].kind /\ done.agent = signals[i].agent /\ done # None
    BY <1>4, MarkedRow, ConstantsAssumption DEF Handled
  <2>2. t.writes \in [Ids -> SignalRow \cup {None}] /\ u.writes = [t.writes EXCEPT ![i] = done]
    BY <1>1, <1>4 DEF Session, Handled
  <2> HIDE DEF done
  <2>3. u.writes[i] = done /\ \A j \in Ids \ {i} : u.writes[j] = t.writes[j]
    BY <2>1, <2>2
  <2>4. u.alerts = t.alerts
    BY <1>4 DEF Handled
  <2>5. QED
    BY <1>1, <2>1, <2>3, <2>4 DEF RewritesOK, OwnIds
<1>5. QED
  BY <1>1, <1>2, <1>3, <1>4 DEF SessionMove

\* What a POST inserts has numbers of its own, and a nudge for its alert.
LEMMA PostedNudges ==
  ASSUME NudgeKind \notin Kinds, TypeOK, NEW u \in Session, NEW a \in Agents, NEW k \in Kinds,
         NEW n, Posted(u, a, k, n)
  PROVE  /\ Nudged(u.alerts, u.writes)
         /\ \A i \in OwnIds(u) : i >= nextId /\ i < n + 1
         /\ n \in Nat /\ nextId \in Nat /\ n >= nextId
<1>1. nextId \in Nat /\ n \in Nat /\ n \in {nextId, nextId + 1} /\ n \in Ids /\ nextId \in Ids
  BY DEF Posted, Ids
<1>2. \A i \in Ids \ {nextId, n} : u.writes[i] = None
  BY DEF Posted
<1>3. u.writes[nextId] # None /\ u.writes[nextId].kind # NudgeKind
  BY ConstantsAssumption DEF Posted
<1>4. \A i \in OwnIds(u) : i \in {nextId, n}
  BY <1>2 DEF OwnIds
<1>5. Nudged(u.alerts, u.writes)
  <2>1. CASE n = nextId
    <3>1. u.alerts = {}
      BY <2>1 DEF Posted, Alerted
    <3>2. QED
      BY <1>2, <1>3, <2>1, <3>1 DEF Nudged
  <2>2. CASE n # nextId
    <3> DEFINE nudge == [agent |-> a, kind |-> NudgeKind, processed |-> FALSE]
    <3>1. PICK type \in AlertTypes : u.alerts = {[agent |-> a, type |-> type, nudge |-> n]}
      BY <2>2 DEF Posted, Alerted
    <3>2. u.writes[n] = nudge
      BY <2>2 DEF Posted, Alerted
    <3>3. nudge \in SignalRow
      BY DEF SignalRow, NudgeKind, Kind, SignalKinds
    <3>4. nudge.kind = NudgeKind /\ nudge.agent = a
      OBVIOUS
    <3> HIDE DEF nudge
    <3>5. u.writes[n] # None /\ u.writes[n].kind = NudgeKind /\ u.writes[n].agent = a
      BY <3>2, <3>3, <3>4, ConstantsAssumption
    <3> DEFINE al == [agent |-> a, type |-> type, nudge |-> n]
    <3>6. al.nudge = n /\ al.agent = a /\ u.alerts = {al}
      BY <3>1
    <3> HIDE DEF al
    <3>7. QED
      BY <1>2, <1>3, <3>5, <3>6 DEF Nudged
  <2>3. QED
    BY <2>1, <2>2
<1>6. QED
  BY <1>1, <1>4, <1>5

LEMMA MoveNudges ==
  ASSUME NudgeKind \notin Kinds, TypeInv, NudgeInv,
         NEW s \in Sessions, NEW u \in Session, SessionMove(s, u)
  PROVE  NudgeInv'
<1>1. TypeOK /\ nextId \in Nat /\ \A i \in Ids : i \in Nat
  BY ConstantsAssumption DEF TypeInv, TypeOK, Ids
<1>2. UNCHANGED <<signals, alerts>> /\ \A x \in Sessions : tx'[x] = IF x = s THEN u ELSE tx[x]
  BY <1>1 DEF SessionMove, dbVars, TypeOK
<1>3. NudgePerAlert'
  BY <1>2 DEF NudgeInv, NudgePerAlert
<1>4. ASSUME s \in Requests
      PROVE  /\ Nudged(u.alerts, u.writes)
             /\ nextId' \in Nat /\ nextId' >= nextId
             /\ \A i \in OwnIds(u) : i < nextId' /\ (i \in OwnIds(tx[s]) \/ i >= nextId)
  <2>1. s \notin Workers /\ Nudged(tx[s].alerts, tx[s].writes)
        /\ \A i \in OwnIds(tx[s]) : i < nextId
    BY <1>4, ConstantsAssumption DEF NudgeInv, NumbersReserved, ReservedOK
  <2>2. CASE Blank(u) /\ nextId' = nextId
    <3>1. u.alerts = Closed.alerts /\ u.writes = Closed.writes
      BY <2>2 DEF Blank, Closed
    <3>2. QED
      BY <1>1, <2>2, <3>1, ClosedNudges DEF OwnIds
  <2>3. CASE Skipped(u, tx[s]) /\ nextId' = nextId
    BY <1>1, <2>1, <2>3 DEF Skipped, OwnIds
  <2>4. ASSUME NEW a \in Agents, NEW k \in Kinds, NEW n, Posted(u, a, k, n), nextId' = n + 1
        PROVE  /\ Nudged(u.alerts, u.writes)
               /\ nextId' \in Nat /\ nextId' >= nextId
               /\ \A i \in OwnIds(u) : i < nextId' /\ (i \in OwnIds(tx[s]) \/ i >= nextId)
    BY <1>1, <2>4, PostedNudges
  <2>5. QED
    BY <2>1, <2>2, <2>3, <2>4 DEF SessionMove
<1>5. nextId' \in Nat /\ nextId' >= nextId
  BY <1>1, <1>4 DEF SessionMove
<1>6. \A i \in Ids : i >= nextId' => signals'[i] = None
  BY <1>1, <1>2, <1>5 DEF NudgeInv, NumbersReserved
<1>7. ASSUME NEW r \in Requests PROVE ReservedOK(tx[r])' /\ Nudged(tx'[r].alerts, tx'[r].writes)
  <2>1. CASE r = s
    <3>1. \A i \in OwnIds(u) : i \in Ids /\ (i \in OwnIds(tx[s]) => signals[i] = None)
      BY <2>1 DEF NudgeInv, NumbersReserved, ReservedOK, OwnIds
    <3>2. \A i \in OwnIds(u) : signals'[i] = None
      BY <1>1, <1>2, <1>4, <2>1, <3>1 DEF NudgeInv, NumbersReserved
    <3>3. QED
      BY <1>2, <1>4, <2>1, <3>2 DEF ReservedOK, OwnIds
  <2>2. CASE r # s
    <3>1. tx'[r] = tx[r] /\ \A i \in OwnIds(tx[r]) : i \in Ids /\ i < nextId /\ signals[i] = None
      BY <1>2, <2>2 DEF Sessions, NudgeInv, NumbersReserved, ReservedOK, OwnIds
    <3>2. \A i \in OwnIds(tx[r]) : i < nextId'
      BY <1>1, <1>5, <3>1
    <3>3. QED
      BY <1>2, <3>1, <3>2 DEF ReservedOK, OwnIds, NudgeInv
  <2>3. QED
    BY <2>1, <2>2
<1>8. ASSUME NEW q \in Requests, q # s, s \in Requests PROVE OwnIds(tx[q]) \cap OwnIds(u) = {}
  <2> SUFFICES ASSUME NEW i \in OwnIds(tx[q]), i \in OwnIds(u) PROVE FALSE
    OBVIOUS
  <2>1. i \in Ids /\ i < nextId /\ i \notin OwnIds(tx[s])
    BY <1>8 DEF NudgeInv, NumbersReserved, ReservedOK, OwnIds
  <2>2. QED
    BY <1>1, <1>4, <1>8, <2>1
<1>9. \A q, r \in Requests : q # r => OwnIds(tx'[q]) \cap OwnIds(tx'[r]) = {}
  BY <1>2, <1>8 DEF NudgeInv, NumbersReserved, Sessions
<1>10. NumbersReserved'
  BY <1>6, <1>7, <1>9 DEF NumbersReserved
<1>11. ASSUME NEW w \in Workers PROVE RewritesOK(tx[w])'
  <2>1. CASE w = s
    <3>1. RewritesOK(u)
      BY <2>1, MoveRewrites
    <3>2. QED
      BY <1>2, <2>1, <3>1 DEF RewritesOK, OwnIds
  <2>2. CASE w # s
    BY <1>2, <2>2 DEF Sessions, NudgeInv, RewritesOK, OwnIds
  <2>3. QED
    BY <2>1, <2>2
<1>12. QED
  BY <1>3, <1>7, <1>10, <1>11 DEF NudgeInv

\* A commit adds a request's alerts with their nudges, or updates signals.
LEMMA CommitNudges ==
  ASSUME TypeInv, NudgeInv, NEW s \in Sessions, Commit(s), nextId' = nextId
  PROVE  NudgeInv'
<1> DEFINE t == tx[s]
<1>1. TypeOK /\ t \in Session /\ s \in Workers \cup Requests
      /\ \A i \in Ids : i \in Nat
  BY DEF TypeInv, TypeOK, Sessions, Ids
<1>2. nextId \in Nat
  BY <1>1, ConstantsAssumption DEF TypeOK
<1>3. alerts' = alerts \cup t.alerts
      /\ \A i \in Ids : signals'[i] = IF t.writes[i] # None THEN t.writes[i] ELSE signals[i]
  BY DEF Commit
<1>4. alerts \in SUBSET AlertRow /\ t.alerts \in SUBSET AlertRow
  BY <1>1 DEF TypeOK, Session
<1>5. Nudged(alerts, signals)
  BY DEF NudgeInv, NudgePerAlert, Nudged
<1>6. s \in Workers => RewritesOK(t)
  BY DEF NudgeInv
<1>7. s \in Requests => /\ Nudged(t.alerts, t.writes)
                        /\ \A i \in OwnIds(t) : i < nextId /\ signals[i] = None
  BY DEF NudgeInv, NumbersReserved, ReservedOK
<1> HIDE DEF t
<1>8. SameSignals(signals', signals)
  BY <1>1, <1>3, <1>6, <1>7 DEF SameSignals, RewritesOK, OwnIds
<1>9. Nudged(alerts', signals')
  <2>1. CASE s \in Workers
    <3>1. t.alerts = {} /\ \A i \in Ids : signals[i] = None => signals'[i] = None
      BY <1>3, <1>6, <2>1 DEF RewritesOK, OwnIds
    <3>2. Nudged(alerts, signals')
      BY <1>4, <1>5, <1>8, <3>1, NudgedSame
    <3>3. QED
      BY <1>3, <3>1, <3>2
  <2>2. CASE s \in Requests
    <3>1. \A i \in Ids : t.writes[i] # None => signals[i] = None
      BY <1>7, <2>2 DEF OwnIds
    <3>2. Nudged(alerts \cup t.alerts, signals')
      BY <1>3, <1>4, <1>5, <1>7, <2>2, <3>1, NudgedMerge
    <3>3. QED
      BY <1>3, <3>2
  <2>3. QED
    BY <1>1, <2>1, <2>2
<1>10. NudgePerAlert'
  BY <1>9 DEF NudgePerAlert, Nudged
<1>11. \A i \in Ids : i >= nextId' => signals'[i] = None
  BY <1>1, <1>2, <1>3, <1>6, <1>7 DEF NudgeInv, NumbersReserved, RewritesOK, OwnIds
<1>12. /\ tx'[s] = Closed
       /\ \A x \in Sessions \ {s} : tx'[x].writes = tx[x].writes /\ tx'[x].alerts = tx[x].alerts
  BY <1>1, CommitType
<1>13. \A x \in Sessions : OwnIds(tx'[x]) = IF x = s THEN {} ELSE OwnIds(tx[x])
  BY <1>12, ClosedOwn DEF OwnIds
<1>14. ASSUME NEW r \in Requests PROVE ReservedOK(tx[r])' /\ Nudged(tx'[r].alerts, tx'[r].writes)
  <2>1. CASE r = s
    <3>1. OwnIds(tx'[r]) = {} /\ Nudged(tx'[r].alerts, tx'[r].writes)
      BY <1>12, <2>1, ClosedNudges
    <3>2. QED
      BY <3>1 DEF ReservedOK
  <2>2. CASE r # s
    <3>1. r \in Sessions /\ OwnIds(tx'[r]) = OwnIds(tx[r])
      BY <1>13, <2>2 DEF Sessions
    <3>2. \A i \in OwnIds(tx[r]) : i \in Ids /\ i < nextId /\ signals[i] = None
      BY DEF NudgeInv, NumbersReserved, ReservedOK, OwnIds
    <3>3. \A i \in OwnIds(tx[r]) : i \notin OwnIds(t)
      <4>1. CASE s \in Workers
        BY <1>6, <3>2, <4>1 DEF RewritesOK
      <4>2. CASE s \in Requests
        BY <2>2, <4>2 DEF NudgeInv, NumbersReserved, t
      <4>3. QED
        BY <1>1, <4>1, <4>2
    <3>4. \A i \in OwnIds(tx[r]) : i < nextId' /\ signals'[i] = None
      BY <1>3, <3>2, <3>3 DEF OwnIds
    <3>5. Nudged(tx'[r].alerts, tx'[r].writes)
      BY <1>12, <2>2, <3>1 DEF NudgeInv
    <3>6. QED
      BY <3>1, <3>4, <3>5 DEF ReservedOK
  <2>3. QED
    BY <2>1, <2>2
<1>15. \A q, r \in Requests : q # r => OwnIds(tx'[q]) \cap OwnIds(tx'[r]) = {}
  BY <1>13 DEF NudgeInv, NumbersReserved, Sessions
<1>16. NumbersReserved'
  BY <1>11, <1>14, <1>15 DEF NumbersReserved
<1>17. ASSUME NEW w \in Workers PROVE RewritesOK(tx[w])'
  <2>1. CASE w = s
    <3>1. OwnIds(tx'[w]) = {} /\ tx'[w].alerts = {}
      BY <1>12, <1>13, <2>1, ClosedNudges DEF RewritesOK
    <3>2. QED
      BY <3>1 DEF RewritesOK
  <2>2. CASE w # s
    <3>1. /\ OwnIds(tx'[w]) = OwnIds(tx[w]) /\ tx'[w].writes = tx[w].writes
          /\ tx'[w].alerts = tx[w].alerts
      BY <1>12, <1>13, <2>2 DEF Sessions
    <3>2. RewritesOK(tx[w])
      BY DEF NudgeInv
    <3>3. \A i \in OwnIds(tx[w]) : /\ signals'[i] # None
                                   /\ signals'[i].kind = signals[i].kind
                                   /\ signals'[i].agent = signals[i].agent
      BY <1>8, <3>2 DEF RewritesOK, SameSignals, OwnIds
    <3>4. QED
      BY <3>1, <3>2, <3>3 DEF RewritesOK
  <2>3. QED
    BY <2>1, <2>2
<1>18. QED
  BY <1>10, <1>14, <1>16, <1>17 DEF NudgeInv

LEMMA EmitNudges ==
  ASSUME NudgeKind \notin Kinds, TypeInv, NudgeInv, NEW a \in Agents, NEW k \in Kinds,
         EmitSignal(a, k)
  PROVE  NudgeInv'
<1> DEFINE new == [agent |-> a, kind |-> k, processed |-> FALSE]
<1>1. new \in SignalRow /\ new # None /\ new.kind # NudgeKind
  <2>1. new \in SignalRow /\ new.kind = k
    BY ConstantsAssumption DEF SignalRow
  <2> HIDE DEF new
  <2>2. k # NudgeKind
    OBVIOUS
  <2>3. QED
    BY <2>1, <2>2, ConstantsAssumption
<1>2. /\ nextId \in Ids /\ nextId' = nextId + 1 /\ UNCHANGED <<alerts, tx>>
      /\ signals' = [signals EXCEPT ![nextId] = new]
  BY DEF EmitSignal
<1> HIDE DEF new
<1>3. signals'[nextId] = new /\ \A i \in Ids \ {nextId} : signals'[i] = signals[i]
  BY <1>2 DEF TypeInv, TypeOK
<1>4. nextId \in Nat /\ \A i \in Ids : i \in Nat
  BY <1>2 DEF Ids
<1>5. signals[nextId] = None
  BY <1>2, <1>4 DEF NudgeInv, NumbersReserved
<1>6. NudgePerAlert'
  <2>1. \A x \in alerts : x.nudge \in Ids \ {nextId}
    <3>1. \A x \in alerts : x.nudge \in Ids
      BY DEF TypeInv, TypeOK, AlertRow
    <3>2. QED
      BY <1>5, <3>1 DEF NudgeInv, NudgePerAlert
  <2>2. \A x \in alerts : signals'[x.nudge] = signals[x.nudge]
    BY <1>3, <2>1
  <2>3. ASSUME NEW i \in Ids, signals'[i] # None, signals'[i].kind = NudgeKind
        PROVE  \E x \in alerts : x.nudge = i
    BY <1>1, <1>3, <2>3 DEF NudgeInv, NudgePerAlert
  <2>4. QED
    BY <1>2, <2>2, <2>3 DEF NudgeInv, NudgePerAlert
<1>7. NumbersReserved'
  <2>1. \A i \in Ids : i >= nextId' => signals'[i] = None
    BY <1>2, <1>3, <1>4 DEF NudgeInv, NumbersReserved
  <2>2. ASSUME NEW r \in Requests, NEW i \in OwnIds(tx[r]) PROVE i < nextId' /\ signals'[i] = None
    <3>1. i \in Ids /\ i < nextId /\ signals[i] = None
      BY DEF NudgeInv, NumbersReserved, ReservedOK, OwnIds
    <3>2. QED
      BY <1>2, <1>3, <1>4, <3>1
  <2>3. QED
    BY <1>2, <2>1, <2>2 DEF NudgeInv, NumbersReserved, ReservedOK, OwnIds
<1>8. ASSUME NEW w \in Workers PROVE RewritesOK(tx[w])'
  <2>1. RewritesOK(tx[w])
    BY DEF NudgeInv
  <2>2. \A i \in OwnIds(tx[w]) : signals'[i] = signals[i]
    BY <1>3, <1>5, <2>1 DEF RewritesOK, OwnIds
  <2>3. QED
    BY <1>2, <2>1, <2>2 DEF RewritesOK, OwnIds
<1>9. \A r \in Requests : Nudged(tx[r].alerts, tx[r].writes)
  BY DEF NudgeInv
<1>10. \A r \in Requests : Nudged(tx[r].alerts, tx[r].writes)'
  BY <1>2, <1>9 DEF Nudged
<1>11. QED
  BY <1>6, <1>7, <1>8, <1>10 DEF NudgeInv

\* As long as nobody else emits ADM nudges: with any number of tasks and
\* requests, whatever fails, every alert has its nudge and no nudge lacks its
\* alert.
THEOREM AlertsNudge == NudgeKind \notin Kinds => (Spec => []NudgePerAlert)
<1>1. ASSUME NudgeKind \notin Kinds PROVE Spec => []NudgePerAlert
  <2>1. Init => NudgeInv
    <3> SUFFICES ASSUME Init PROVE NudgeInv
      OBVIOUS
    <3>1. /\ alerts = {} /\ \A i \in Ids : signals[i] = None
          /\ \A s \in Sessions : tx[s] = Closed
      BY DEF Init
    <3>2. \A s \in Sessions : OwnIds(tx[s]) = {} /\ RewritesOK(tx[s]) /\ Nudged(tx[s].alerts, tx[s].writes)
      BY <3>1, ClosedNudges
    <3>3. NumbersReserved
      BY <3>1, <3>2 DEF NumbersReserved, ReservedOK, Sessions
    <3>4. QED
      BY <3>1, <3>2, <3>3 DEF NudgeInv, NudgePerAlert, Sessions
  <2>2. TypeInv /\ NudgeInv /\ [Next]_vars => NudgeInv'
    <3> SUFFICES ASSUME TypeInv, NudgeInv, [Next]_vars PROVE NudgeInv'
      OBVIOUS
    <3>1. CASE UNCHANGED vars
      BY <3>1
         DEF vars, dbVars, NudgeInv, NudgePerAlert, NumbersReserved, ReservedOK, RewritesOK,
             Nudged, OwnIds
    <3>2. QED
      BY <1>1, <3>1, StepCases, CommitNudges, EmitNudges, MoveNudges
  <2>3. NudgeInv => NudgePerAlert
    BY DEF NudgeInv
  <2>4. QED
    BY <2>1, <2>2, <2>3, InitType, TypeStep, PTL DEF Spec
<1>2. QED
  BY <1>1
-----------------------------------------------------------------------------
(* The exact count.                                                        *)

\* A session's current copy of a row counts its own sales on top of the
\* committed ones, and it has none of an agent it has not loaded.
ExactOK(t, a) ==
  /\ t.rows[a] = None => OwnSales(t, a) = {}
  /\ t.rows[a] # None /\ a \notin t.stale =>
       t.rows[a].total = agents[a].total + Cardinality(OwnSales(t, a))

ExactInv ==
  /\ CountExactUnlessOverwritten
  /\ \A s \in Sessions : \A a \in Agents : ExactOK(tx[s], a)

LEMMA ClosedExact ==
  ASSUME NEW u, u.rows = Closed.rows, u.writes = Closed.writes, NEW a \in Agents
  PROVE  ExactOK(u, a) /\ OwnSales(u, a) = {}
BY DEF ExactOK, OwnSales, CountsFor, Closed

\* Handling a signal keeps the session's count exact, if its own sales grow by
\* the signal.
LEMMA UnderstoodExact ==
  ASSUME TypeOK, NEW t \in Session, NEW u \in Session, NEW a \in Agents, NEW k, NEW i \in Ids,
         Understood(u, t, a, k, i), NEW b \in Agents, ExactOK(t, b),
         Cardinality(OwnSales(u, b)) =
           Cardinality(OwnSales(t, b)) + (IF b = a THEN Sold(k) ELSE 0),
         b # a => OwnSales(u, b) = OwnSales(t, b)
  PROVE  ExactOK(u, b)
<1>1. PICK row \in AgentRow :
        /\ row.total = Loaded(t, a).total + Sold(k)
        /\ u.rows = [t.rows EXCEPT ![a] = row] /\ u.stale = t.stale
  BY DEF Understood
<1>2. t.rows \in [Agents -> AgentRow \cup {None}] /\ row # None
  BY ConstantsAssumption DEF Session
<1>3. /\ agents[b].total \in Nat /\ Sold(k) \in Nat /\ Cardinality(OwnSales(t, b)) \in Nat
      /\ (OwnSales(t, b) = {} => Cardinality(OwnSales(t, b)) = 0)
  BY SalesType, SalesFinite, FS_EmptySet DEF Sold
<1>4. CASE b # a
  <2>1. u.rows[b] = t.rows[b]
    BY <1>1, <1>2, <1>4
  <2>2. QED
    BY <1>1, <1>4, <2>1 DEF ExactOK
<1>5. CASE b = a
  <2>1. u.rows[b] = row
    BY <1>1, <1>2, <1>5
  <2>2. b \notin t.stale => Loaded(t, b).total = agents[b].total + Cardinality(OwnSales(t, b))
    <3>1. CASE t.rows[b] = None
      BY <1>3, <3>1 DEF ExactOK, Loaded
    <3>2. CASE t.rows[b] # None
      BY <3>2 DEF ExactOK, Loaded
    <3>3. QED
      BY <3>1, <3>2
  <2>3. b \notin u.stale => u.rows[b].total = agents[b].total + Cardinality(OwnSales(u, b))
    BY <1>1, <1>3, <1>5, <2>1, <2>2
  <2>4. QED
    BY <1>2, <2>1, <2>3 DEF ExactOK
<1>6. QED
  BY <1>4, <1>5

\* The sales among what a POST writes are its own signal, if it is one.
LEMMA PostedSales ==
  ASSUME TypeOK, NEW u \in Session, NEW a \in Agents, NEW k \in Kinds, NEW n,
         Posted(u, a, k, n), NEW b \in Agents
  PROVE  /\ Cardinality(OwnSales(u, b)) = IF b = a THEN Sold(k) ELSE 0
         /\ b # a => OwnSales(u, b) = {}
<1>1. /\ nextId \in Ids /\ u.writes[nextId].agent = a /\ u.writes[nextId].kind = k
      /\ u.writes[nextId].processed /\ u.writes[nextId] # None
      /\ \A i \in Ids \ {nextId, n} : u.writes[i] = None
      /\ n # nextId => ~u.writes[n].processed
  BY ConstantsAssumption DEF Posted, Alerted
<1>2. \A i \in Ids \ {nextId} : ~CountsFor(u.writes[i], b)
  BY <1>1 DEF CountsFor
<1>3. CASE b = a /\ k.type = "policy_sold"
  <2>1. OwnSales(u, b) = {nextId}
    BY <1>1, <1>2, <1>3 DEF OwnSales, CountsFor
  <2>2. QED
    BY <1>3, <2>1, FS_Singleton DEF Sold
<1>4. CASE ~(b = a /\ k.type = "policy_sold")
  <2>1. OwnSales(u, b) = {}
    BY <1>1, <1>2, <1>4 DEF OwnSales, CountsFor
  <2>2. QED
    BY <1>4, <2>1, FS_EmptySet DEF Sold
<1>5. QED
  BY <1>3, <1>4

LEMMA MoveExact ==
  ASSUME ~RlsEnforced, TypeInv, NamesInv, ExactInv,
         NEW s \in Sessions, NEW u \in Session, SessionMove(s, u), NEW b \in Agents
  PROVE  ExactOK(u, b)
<1>1. TypeOK /\ tx[s] \in Session /\ NamesOK(tx[s]) /\ ExactOK(tx[s], b)
  BY DEF TypeInv, TypeOK, NamesInv, ExactInv
<1>2. CASE Blank(u)
  BY <1>2, ClosedExact DEF Blank, SameCopies
<1>3. CASE Skipped(u, tx[s])
  <2>1. OwnSales(u, b) = OwnSales(tx[s], b)
    BY <1>3 DEF Skipped, OwnSales
  <2>2. QED
    BY <1>1, <1>3, <2>1 DEF Skipped, SameCopies, ExactOK
<1>4. ASSUME NEW i \in tx[s].todo, Handled(u, tx[s], i) PROVE ExactOK(u, b)
  <2> DEFINE t == tx[s]
             a == signals[i].agent
             k == signals[i].kind
             done == MarkProcessed(signals[i])
  <2>1. /\ i \in Ids /\ a \in Agents /\ done \in SignalRow /\ done # None
        /\ done.agent = a /\ done.kind = k /\ done.processed
    BY <1>4, MarkedRow, ConstantsAssumption DEF Handled, SignalRow
  <2>2. Understood(u, t, a, k, i) /\ u.writes = [t.writes EXCEPT ![i] = done]
    BY <1>4 DEF Handled
  <2>3. t.writes[i] = None
    BY <1>1, <2>1 DEF NamesOK, OwnIds
  <2> HIDE DEF t, a, k, done
  <2>4. CountsFor(done, b) <=> b = a /\ k.type = "policy_sold"
    BY <2>1 DEF CountsFor
  <2>5. Cardinality(OwnSales(u, b)) =
          Cardinality(OwnSales(t, b)) + (IF CountsFor(done, b) THEN 1 ELSE 0)
    BY <1>1, <2>1, <2>2, <2>3, OwnSalesAdd DEF t
  <2>6. Cardinality(OwnSales(u, b)) =
          Cardinality(OwnSales(t, b)) + (IF b = a THEN Sold(k) ELSE 0)
    BY <2>4, <2>5 DEF Sold
  <2>7. b # a => OwnSales(u, b) = OwnSales(t, b)
    <3>1. t.writes \in [Ids -> SignalRow \cup {None}]
      BY <1>1 DEF Session, t
    <3>2. u.writes[i] = done /\ \A j \in Ids \ {i} : u.writes[j] = t.writes[j]
      BY <2>1, <2>2, <3>1
    <3>3. b # a => ~CountsFor(u.writes[i], b) /\ ~CountsFor(t.writes[i], b)
      BY <2>3, <2>4, <3>2 DEF CountsFor
    <3>4. QED
      BY <3>2, <3>3 DEF OwnSales
  <2>8. QED
    BY <1>1, <2>1, <2>2, <2>6, <2>7, UnderstoodExact DEF t
<1>5. ASSUME NEW a \in Agents, NEW k \in Kinds, NEW n, Posted(u, a, k, n) PROVE ExactOK(u, b)
  <2>1. nextId \in Ids /\ Understood(u, Closed, a, k, nextId)
    BY <1>5 DEF Posted
  <2>2. Closed \in Session /\ ExactOK(Closed, b) /\ OwnSales(Closed, b) = {}
        /\ Cardinality(OwnSales(Closed, b)) = 0
    BY ClosedType, ClosedExact, FS_EmptySet
  <2>3. /\ Cardinality(OwnSales(u, b)) =
             Cardinality(OwnSales(Closed, b)) + (IF b = a THEN Sold(k) ELSE 0)
        /\ b # a => OwnSales(u, b) = OwnSales(Closed, b)
    BY <1>1, <1>5, <2>2, PostedSales DEF Sold
  <2>4. QED
    BY <1>1, <2>1, <2>2, <2>3, UnderstoodExact
<1>6. QED
  BY <1>2, <1>3, <1>4, <1>5 DEF SessionMove

LEMMA CommitExact ==
  ASSUME TypeOK, CountInv, ExactInv, NEW s \in Sessions, Commit(s) PROVE ExactInv'
<1> DEFINE t == tx[s]
<1>1. /\ tx'[s] = Closed
      /\ \A x \in Sessions \ {s} :
           /\ tx'[x].rows = tx[x].rows /\ tx'[x].writes = tx[x].writes
           /\ tx'[x].stale = tx[x].stale \cup {a \in Touched(t) : tx[x].rows[a] # None}
  BY CommitType
<1>2. ASSUME NEW a \in Agents
      PROVE  /\ agents'[a] = FlushedRow(t, a)
             /\ overwritten' = overwritten \cup (t.stale \cap Touched(t))
             /\ a \notin Touched(t) => agents'[a] = agents[a]
             /\ a \in Touched(t) =>
                  agents'[a].total = IF OwnSales(t, a) = {} THEN agents[a].total ELSE t.rows[a].total
  <2>1. agents'[a] = FlushedRow(t, a) /\ overwritten' = overwritten \cup (t.stale \cap Touched(t))
    BY DEF Commit
  <2> HIDE DEF t
  <2>2. QED
    BY <2>1 DEF FlushedRow
<1>3. CountExactUnlessOverwritten'
  <2> SUFFICES ASSUME NEW a \in Agents \ overwritten'
               PROVE  agents'[a].total = Cardinality(ProcessedSales(a)')
    BY DEF CountExactUnlessOverwritten
  <2>1. agents[a].total = Cardinality(ProcessedSales(a)) /\ ExactOK(t, a)
    BY <1>2 DEF ExactInv, CountExactUnlessOverwritten
  <2>2. Cardinality(ProcessedSales(a)') =
          Cardinality(ProcessedSales(a)) + Cardinality(OwnSales(t, a))
    BY CommitCounts
  <2>3. agents[a].total \in Nat /\ (OwnSales(t, a) = {} => Cardinality(OwnSales(t, a)) = 0)
    BY FS_EmptySet DEF TypeOK, AgentRow
  <2> HIDE DEF t
  <2>4. CASE OwnSales(t, a) = {}
    <3>1. agents'[a].total = agents[a].total
      BY <1>2, <2>4
    <3>2. QED
      BY <2>1, <2>2, <2>3, <2>4, <3>1
  <2>5. CASE OwnSales(t, a) # {}
    <3>1. a \in Touched(t) /\ t.rows[a] # None
      BY <2>1, <2>5 DEF ExactOK, Touched
    <3>2. a \notin t.stale
      BY <1>2, <3>1
    <3>3. agents'[a].total = t.rows[a].total
      BY <1>2, <2>5, <3>1
    <3>4. QED
      BY <2>1, <2>2, <3>1, <3>2, <3>3 DEF ExactOK
  <2>6. QED
    BY <2>4, <2>5
<1>4. ASSUME NEW x \in Sessions, NEW a \in Agents PROVE ExactOK(tx[x], a)'
  <2>1. CASE x = s
    <3>1. tx'[x].rows[a] = None /\ OwnSales(tx'[x], a) = {}
      BY <1>1, <2>1, ClosedExact, ClosedOwn
    <3>2. QED
      BY <3>1 DEF ExactOK
  <2>2. CASE x # s
    <3>1. OwnSales(tx'[x], a) = OwnSales(tx[x], a) /\ tx'[x].rows[a] = tx[x].rows[a]
      BY <1>1, <2>2 DEF OwnSales
    <3>2. tx'[x].rows[a] # None /\ a \notin tx'[x].stale => a \notin tx[x].stale /\ agents'[a] = agents[a]
      BY <1>1, <1>2, <2>2
    <3>3. ExactOK(tx[x], a)
      BY DEF ExactInv
    <3>4. QED
      BY <3>1, <3>2, <3>3 DEF ExactOK
  <2>3. QED
    BY <2>1, <2>2
<1>5. QED
  BY <1>3, <1>4 DEF ExactInv

LEMMA ExactStep ==
  ASSUME ~RlsEnforced, TypeInv, CountInv, NamesInv, ExactInv, [Next]_vars PROVE ExactInv'
<1>1. TypeOK
  BY DEF TypeInv
<1>2. ASSUME UNCHANGED <<agents, signals, overwritten, tx>> PROVE ExactInv'
  BY <1>2 DEF ExactInv, CountExactUnlessOverwritten, ProcessedSales, ExactOK, OwnSales
<1>3. ASSUME NEW a \in Agents, NEW k \in Kinds, EmitSignal(a, k) PROVE ExactInv'
  <2> DEFINE new == [agent |-> a, kind |-> k, processed |-> FALSE]
  <2>1. /\ signals' = [signals EXCEPT ![nextId] = new] /\ nextId \in Ids
        /\ UNCHANGED <<agents, overwritten, tx>>
    BY <1>3 DEF EmitSignal
  <2>2. ~new.processed /\ signals[nextId] = None
    BY <2>1 DEF CountInv, NumbersReserved, Ids
  <2> HIDE DEF new
  <2>3. signals'[nextId] = new /\ \A i \in Ids \ {nextId} : signals'[i] = signals[i]
    BY <1>1, <2>1 DEF TypeOK
  <2>4. \A b : ProcessedSales(b)' = ProcessedSales(b)
    BY <2>1, <2>2, <2>3 DEF ProcessedSales, CountsFor
  <2>5. QED
    BY <2>1, <2>4 DEF ExactInv, CountExactUnlessOverwritten, ExactOK, OwnSales
<1>4. ASSUME NEW s \in Sessions, NEW u \in Session, SessionMove(s, u) PROVE ExactInv'
  <2>1. UNCHANGED <<agents, signals, overwritten>>
        /\ \A x \in Sessions : tx'[x] = IF x = s THEN u ELSE tx[x]
    BY <1>1, <1>4 DEF SessionMove, dbVars, TypeOK
  <2>2. CountExactUnlessOverwritten'
    BY <2>1 DEF ExactInv, CountExactUnlessOverwritten, ProcessedSales
  <2>3. \A b \in Agents : ExactOK(u, b)
    BY <1>4, MoveExact
  <2>4. ASSUME NEW x \in Sessions, NEW b \in Agents PROVE ExactOK(tx[x], b)'
    BY <2>1, <2>3 DEF ExactInv, ExactOK, OwnSales
  <2>5. QED
    BY <2>2, <2>4 DEF ExactInv
<1>5. CASE UNCHANGED vars
  BY <1>2, <1>5 DEF vars, dbVars
<1>6. QED
  BY <1>1, <1>3, <1>4, <1>5, StepCases, CommitExact

\* As long as slow-path tasks do not overlap and the application's user is not
\* subject to row-level security: until a session writes an agent's row from a
\* stale copy, no failure, rollback or retry loses or repeats a sale of it.
THEOREM CountsExactly ==
  OneWorker /\ ~RlsEnforced => (Spec => []CountExactUnlessOverwritten)
<1>1. ASSUME OneWorker, ~RlsEnforced PROVE Spec => []CountExactUnlessOverwritten
  <2>1. Init => ExactInv
    <3> SUFFICES ASSUME Init PROVE ExactInv
      OBVIOUS
    <3>1. \A a \in Agents : agents[a].total = 0
      BY DEF Init
    <3>2. \A a \in Agents : ProcessedSales(a) = {}
      BY DEF Init, ProcessedSales, CountsFor
    <3>3. \A s \in Sessions : tx[s] = Closed
      BY DEF Init
    <3>4. QED
      BY <3>1, <3>2, <3>3, ClosedExact, FS_EmptySet DEF ExactInv, CountExactUnlessOverwritten
  <2>2. TypeInv /\ CountInv /\ StoryInv /\ NamesInv /\ ExactInv /\ [Next]_vars
          => (TypeInv /\ CountInv /\ StoryInv /\ NamesInv /\ ExactInv)'
    BY <1>1, TypeStep, CountStep, StoryStep, NamesStep, ExactStep
  <2>3. ExactInv => CountExactUnlessOverwritten
    BY DEF ExactInv
  <2>4. QED
    BY <2>1, <2>2, <2>3, InitType, CountInit, StoryInit, NamesInit, PTL DEF Spec
<1>2. QED
  BY <1>1
=============================================================================
