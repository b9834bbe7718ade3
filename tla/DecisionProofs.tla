--------------------------- MODULE DecisionProofs ---------------------------
(***************************************************************************)
(* Proofs about DecisionExecution, for every number of agents, tenants,    *)
(* executors, requests and moments.                                        *)
(***************************************************************************)
EXTENDS DecisionExecution, FiniteSetTheorems, SequenceTheorems, TLAPS

-----------------------------------------------------------------------------
(* What the rules and constraints return.                                  *)

\* The rules an evaluation can end with.  The other four look at what no caller of the engine
\* fills in: training hours, the state before, the last sale, the class of the manager.
LiveRules ==
  {"OPP_001", "OPP_002", "PROACTIVE_001", "PROACTIVE_002", "PROACTIVE_003", "PROACTIVE_004", "DEFAULT"}

LEMMA DeadRules ==
  ASSUME NEW f, NEW read, NEW now
  PROVE  \A rule \in {"URGENT_001", "URGENT_002", "OPP_003", "ADM_COMP_001"} : ~Matches(rule, f, read, now)
<1>1. /\ ~(Unfilled.trainingHours > 10) /\ Unfilled.previous # "productive"
      /\ Unfilled.lastSale = None /\ Unfilled.admClass # "UNRESPONSIVE"
  BY NoneAssumption DEF Unfilled, States
<1>2. ~Matches("URGENT_001", f, read, now)
  BY <1>1 DEF Matches
<1>3. ~Matches("URGENT_002", f, read, now)
  BY <1>1 DEF Matches
<1>4. ~Matches("OPP_003", f, read, now)
  BY <1>1 DEF Matches
<1>5. ~Matches("ADM_COMP_001", f, read, now)
  BY <1>1 DEF Matches
<1>6. QED
  BY <1>2, <1>3, <1>4, <1>5

\* Of the rules that apply one is the first in the chain.
LEMMA FirstMatchLive ==
  ASSUME NEW f, NEW read, NEW now
  PROVE  FirstMatch(f, read, now) \in LiveRules
<1> DEFINE applies(k) == Matches(Chain[k], f, read, now)
           first(k) == applies(k) /\ \A j \in 1 .. k - 1 : ~applies(j)
<1>1. DOMAIN Chain = 1 .. 10
  BY DEF Chain
<1>2. CASE \E k \in 1 .. 10 : applies(k)
  <2>1. \E k \in 1 .. 10 : first(k)
    <3> HIDE DEF applies
    <3>1. PICK k \in 1 .. 10 : applies(k)
      BY <1>2
    <3>2. QED
      BY <3>1
  <2>2. FirstMatch(f, read, now) = Chain[CHOOSE k \in DOMAIN Chain : first(k)]
    BY <1>1, <1>2 DEF FirstMatch
  <2>3. ASSUME NEW k \in 1 .. 10, first(k) PROVE Chain[k] \in LiveRules
    <3>1. Chain[k] \notin {"URGENT_001", "URGENT_002", "OPP_003", "ADM_COMP_001"}
      BY <2>3, DeadRules
    <3>2. QED
      BY <3>1 DEF Chain, LiveRules
  <2> HIDE DEF first
  <2>4. QED
    BY <1>1, <2>1, <2>2, <2>3
<1>3. CASE ~\E k \in 1 .. 10 : applies(k)
  BY <1>1, <1>3 DEF FirstMatch, LiveRules
<1>4. QED
  BY <1>2, <1>3

LEMMA LiveAreRules == LiveRules \subseteq Rules
<1>1. /\ Chain[3] = "OPP_001" /\ Chain[4] = "OPP_002" /\ Chain[6] = "PROACTIVE_001"
      /\ Chain[7] = "PROACTIVE_002" /\ Chain[8] = "PROACTIVE_003" /\ Chain[9] = "PROACTIVE_004"
      /\ {3, 4, 6, 7, 8, 9} \subseteq DOMAIN Chain
  BY DEF Chain
<1>2. QED
  BY <1>1 DEF LiveRules, Rules

\* check_trai_hours puts a call off to the first time within the hours.
LEMMA DeferOpens ==
  ASSUME NEW now \in Int, ~InHours(now)
  PROVE  /\ DeferTo(now) \in Int
         /\ now <= DeferTo(now)
         /\ InHours(DeferTo(now))
         /\ \A t \in now .. DeferTo(now) - 1 : ~InHours(t)
<1> DEFINE h == (now + 11) % 48
           d == (now + 11) \div 48
<1>1. now + 11 = 48 * d + h /\ h \in 0 .. 47 /\ d \in Int
  OBVIOUS
<1>2. QED
  BY <1>1, SMTT(60) DEF DeferTo, InHours, Opening, Closing, India, Day

\* A call is scheduled at t, decided at now: the property of CallsInHours.
FirstOpening(now, t) ==
  InHours(t) /\ now <= t /\ \A u \in now .. t - 1 : ~InHours(u)

\* Decision d does what its rule says on the rule's channel, or nothing.
Reasoned(d) ==
  /\ d.rule \in LiveRules
  /\ d.action # "do_nothing" => d.action = ActionOf(d.rule) /\ d.channel = ChannelOf(d.rule)

LEMMA DecideType ==
  ASSUME NEW f, NEW read, NEW now \in Int
  PROVE  LET d == Decide(f, read, now) IN
         /\ d.rule \in Rules /\ d.action \in Actions /\ d.channel \in Channels \cup {None}
         /\ d.scheduled \in Int
         /\ Reasoned(d)
         /\ d.channel = "voice_ai" => FirstOpening(now, d.scheduled)
<1> DEFINE rule == FirstMatch(f, read, now)
           late == ChannelOf(rule) = "voice_ai" /\ ~InHours(now)
           nothing == [rule |-> rule, action |-> "do_nothing", channel |-> None, scheduled |-> now]
           chosen == [rule |-> rule, action |-> ActionOf(rule), channel |-> ChannelOf(rule),
                      scheduled |-> IF late THEN DeferTo(now) ELSE now]
<1>1. rule \in Rules /\ rule \in LiveRules
  BY FirstMatchLive, LiveAreRules
<1>2. Decide(f, read, now) \in {nothing, chosen}
  BY DEF Decide
<1> HIDE DEF rule
<1>3. ActionOf(rule) \in Actions /\ ActionOf("DEFAULT") = "do_nothing" /\ "DEFAULT" \in Rules
  BY <1>1 DEF Actions, ActionOf, Rules
<1>4. ChannelOf(rule) \in Channels \cup {None} /\ None # "voice_ai"
  BY NoneAssumption DEF Channels, ChannelOf
<1>5. late => DeferTo(now) \in Int /\ FirstOpening(now, DeferTo(now))
  BY DeferOpens DEF FirstOpening
<1>6. InHours(now) => FirstOpening(now, now)
  BY DEF FirstOpening
<1>7. QED
  BY <1>1, <1>2, <1>3, <1>4, <1>5, <1>6 DEF Actions, Reasoned
-----------------------------------------------------------------------------
(* Types.                                                                  *)

\* A batch at a tenant has loaded its agents, a request has taken one
\* decision, and the decisions under way fit into the bound.
SessionsOK ==
  /\ batch.tenant = None => batch.left = {}
  /\ batch.tenant # None => batch.read \in [Agents -> AgentFacts] /\ batch.now \in Moments
  /\ \A s \in Sessions : tx[s].made # <<>> => Len(tx[s].made) = 1
  /\ Len(decisions) + Len(batch.made) + Cardinality(Answering) <= MaxDecisions

TypeInv == TypeOK /\ SessionsOK

LEMMA RowType ==
  ASSUME TypeOK, NEW a \in Agents, NEW f \in AgentFacts, NEW read
  PROVE  LET row == NewRow(a, f, read) IN
         /\ row \in Row
         /\ row.agent = a /\ row.created = clock /\ ~row.executed
         /\ Reasoned(row)
         /\ row.channel = "voice_ai" => FirstOpening(row.created, row.scheduled)
<1>1. clock \in Int /\ clock \in Moments
  BY ConstantsAssumption DEF TypeOK
<1>2. f.adm \in BOOLEAN
  BY ConstantsAssumption DEF Facts
<1> DEFINE d == Decide(f, read, clock)
<1>3. /\ d.rule \in Rules /\ d.action \in Actions /\ d.channel \in Channels \cup {None}
      /\ d.scheduled \in Int /\ Reasoned(d)
      /\ d.channel = "voice_ai" => FirstOpening(clock, d.scheduled)
  BY <1>1, DecideType
<1>4. NewRow(a, f, read) =
        [agent |-> a, adm |-> f.adm, rule |-> d.rule, action |-> d.action, channel |-> d.channel,
         created |-> clock, scheduled |-> d.scheduled, executed |-> FALSE]
  BY DEF NewRow
<1> HIDE DEF d
<1>5. QED
  BY <1>1, <1>2, <1>3, <1>4 DEF Row, Reasoned

LEMMA AnsweringFinite ==
  IsFiniteSet(Answering) /\ Cardinality(Answering) \in Nat
BY ConstantsAssumption, FS_Subset, FS_CardinalityType DEF Answering

LEMMA TodayType == TypeOK => Today \in Nat
BY ConstantsAssumption DEF TypeOK, Today, Day

LEMMA InitType == Init => TypeInv
<1> SUFFICES ASSUME Init PROVE TypeInv
  OBVIOUS
<1>1. decisions \in Seq(Row) /\ Len(decisions) = 0 /\ DOMAIN decisions = {}
  BY EmptySeq DEF Init
<1>2. NoBatch.made \in Seq(Row) /\ Len(NoBatch.made) = 0 /\ NoTx.made \in Seq(Row)
  BY EmptySeq DEF NoBatch, NoTx
<1>3. Answering = {}
  BY DEF Init, Answering, Sessions, NoTx
<1>4. agents \in [Agents -> AgentFacts]
  BY ConstantsAssumption DEF Init
<1>5. TypeOK
  <2>1. batch \in [todo : SUBSET Tenants, tenant : Tenants \cup {None}, now : Moments \cup {0},
                   read : [Agents -> AgentFacts] \cup {None}, left : SUBSET Agents,
                   made : Seq(Row)]
    BY <1>2 DEF Init, Asked, NoBatch
  <2>2. tx \in [Sessions -> [ids : SUBSET DOMAIN decisions, made : Seq(Row)]]
    BY <1>2 DEF Init, NoTx
  <2>3. alerts \in [Ids -> Nat] /\ passed \in [Agents -> SUBSET Nat]
    BY DEF Init
  <2>4. changes \in 0 .. MaxChanges /\ faults \in 0 .. MaxFaults /\ Len(decisions) <= MaxDecisions
    BY <1>1, ConstantsAssumption DEF Init
  <2>5. QED
    BY <1>1, <1>4, <2>1, <2>2, <2>3, <2>4 DEF Init, TypeOK
<1>6. SessionsOK
  BY <1>1, <1>2, <1>3, FS_EmptySet, ConstantsAssumption
     DEF Init, SessionsOK, Asked, NoBatch, NoTx
<1>7. QED
  BY <1>5, <1>6 DEF TypeInv

\* Steps of the batch that leave the database alone.
LEMMA BatchType ==
  ASSUME TypeInv, UNCHANGED <<clock, agents, dbVars, tx, changes>>,
         faults' \in 0 .. MaxFaults,
         batch' \in [todo : SUBSET Tenants, tenant : Tenants \cup {None}, now : Moments \cup {0},
                     read : [Agents -> AgentFacts] \cup {None}, left : SUBSET Agents,
                     made : Seq(Row)],
         batch'.tenant = None => batch'.left = {},
         batch'.tenant # None => batch'.read \in [Agents -> AgentFacts] /\ batch'.now \in Moments,
         Len(decisions) + Len(batch'.made) + Cardinality(Answering) <= MaxDecisions
  PROVE  TypeInv'
<1>1. UNCHANGED <<decisions, alerts, byBatch, passed, Answering>>
  BY DEF dbVars, Answering
<1>2. TypeOK'
  BY <1>1 DEF TypeInv, TypeOK
<1>3. SessionsOK'
  BY <1>1 DEF TypeInv, SessionsOK
<1>4. QED
  BY <1>2, <1>3 DEF TypeInv

\* The ways a batch loses what it has not committed.
LEMMA EmptyBatchType ==
  ASSUME TypeInv, NEW todo \in SUBSET Tenants, batch' = [NoBatch EXCEPT !.todo = todo],
         UNCHANGED <<clock, agents, dbVars, tx, changes>>, faults' \in 0 .. MaxFaults
  PROVE  TypeInv'
<1>1. /\ batch'.todo = todo /\ batch'.tenant = None /\ batch'.now = 0 /\ batch'.read = None
      /\ batch'.left = {} /\ batch'.made = <<>>
      /\ batch' = [todo |-> todo, tenant |-> None, now |-> 0, read |-> None, left |-> {},
                   made |-> <<>>]
  BY DEF NoBatch
<1>2. batch'.made \in Seq(Row) /\ Len(batch'.made) = 0
  BY <1>1, EmptySeq
<1>3. Len(batch.made) \in Nat /\ Len(decisions) \in Nat
  BY DEF TypeInv, TypeOK
<1>4. Len(decisions) + Len(batch'.made) + Cardinality(Answering) <= MaxDecisions
  BY <1>2, <1>3, AnsweringFinite, ConstantsAssumption DEF TypeInv, SessionsOK
<1>5. QED
  BY <1>1, <1>2, <1>4, BatchType

LEMMA BatchSteps ==
  ASSUME TypeInv,
         \/ \E t \in Tenants : BeginTenant(t)
         \/ \E a \in Agents : PassOver(a) \/ Evaluate(a)
         \/ TenantFails \/ CrashBatch
  PROVE  TypeInv'
<1>1. Len(batch.made) \in Nat /\ Len(decisions) \in Nat
  BY DEF TypeInv, TypeOK
<1>2. ASSUME NEW t \in Tenants, BeginTenant(t) PROVE TypeInv'
  <2>1. batch' = [todo |-> batch.todo \ {t}, tenant |-> t, now |-> clock, read |-> agents,
                  left |-> {a \in Agents : TenantOf[a] = t}, made |-> <<>>]
    BY <1>2 DEF BeginTenant
  <2>2. batch'.made \in Seq(Row) /\ Len(batch'.made) = 0
    BY <2>1, EmptySeq
  <2>3. batch'.tenant # None
    BY <2>1, ConstantsAssumption
  <2>4. Len(decisions) + Len(batch'.made) + Cardinality(Answering) <= MaxDecisions
    BY <1>1, <2>2, AnsweringFinite, ConstantsAssumption DEF TypeInv, SessionsOK
  <2>5. UNCHANGED <<clock, agents, dbVars, tx, changes>> /\ faults' \in 0 .. MaxFaults
    BY <1>2 DEF BeginTenant, TypeInv, TypeOK
  <2>6. QED
    BY <2>1, <2>2, <2>3, <2>4, <2>5, BatchType DEF TypeInv, TypeOK
<1>3. ASSUME NEW a \in Agents, PassOver(a) PROVE TypeInv'
  <2>1. batch' = [batch EXCEPT !.left = batch.left \ {a}]
        /\ UNCHANGED <<clock, agents, dbVars, tx, changes, faults>>
    BY <1>3 DEF PassOver
  <2>2. /\ batch'.tenant = batch.tenant /\ batch'.left = batch.left \ {a}
        /\ batch'.read = batch.read /\ batch'.now = batch.now /\ batch'.made = batch.made
    BY <2>1 DEF TypeInv, TypeOK
  <2>3. QED
    BY <2>1, <2>2, BatchType DEF TypeInv, TypeOK, SessionsOK
<1>4. ASSUME NEW a \in Agents, Evaluate(a) PROVE TypeInv'
  <2> DEFINE row == NewRow(a, batch.read[a], batch.now)
  <2>1. batch' = [batch EXCEPT !.left = batch.left \ {a}, !.made = Append(batch.made, row)]
        /\ UNCHANGED <<clock, agents, dbVars, tx, changes, faults>>
    BY <1>4 DEF Evaluate
  <2>2. batch.read[a] \in AgentFacts
    BY <1>4 DEF Evaluate, TypeInv, TypeOK, SessionsOK
  <2>3. row \in Row
    BY <2>2, RowType DEF TypeInv
  <2> HIDE DEF row
  <2>4. Append(batch.made, row) \in Seq(Row) /\ Len(Append(batch.made, row)) = Len(batch.made) + 1
    BY <2>3 DEF TypeInv, TypeOK
  <2>5. /\ batch'.tenant = batch.tenant /\ batch'.left = batch.left \ {a}
        /\ batch'.read = batch.read /\ batch'.now = batch.now
        /\ batch'.made = Append(batch.made, row)
    BY <2>1 DEF TypeInv, TypeOK
  <2>6. Len(decisions) + Len(batch'.made) + Cardinality(Answering) <= MaxDecisions
    <3>1. Len(decisions) + Len(batch.made) + Cardinality(Answering) < MaxDecisions
      BY <1>4 DEF Evaluate, Room
    <3>2. Len(batch'.made) = Len(batch.made) + 1 /\ MaxDecisions \in Nat
      BY <2>4, <2>5, ConstantsAssumption
    <3>3. QED
      BY <1>1, <3>1, <3>2, AnsweringFinite
  <2>7. QED
    BY <2>1, <2>4, <2>5, <2>6, BatchType DEF TypeInv, TypeOK, SessionsOK
<1>5. CASE TenantFails
  <2>1. batch' = [NoBatch EXCEPT !.todo = batch.todo] /\ batch.todo \in SUBSET Tenants
        /\ UNCHANGED <<clock, agents, dbVars, tx, changes>> /\ faults' \in 0 .. MaxFaults
    BY <1>5, ConstantsAssumption DEF TenantFails, TypeInv, TypeOK
  <2>2. QED
    BY <2>1, EmptyBatchType
<1>6. CASE CrashBatch
  <2>1. batch' = [NoBatch EXCEPT !.todo = Tenants]
        /\ UNCHANGED <<clock, agents, dbVars, tx, changes>> /\ faults' \in 0 .. MaxFaults
    BY <1>6, ConstantsAssumption DEF CrashBatch, Asked, TypeInv, TypeOK
  <2>2. QED
    BY <2>1, EmptyBatchType
<1>7. QED
  BY <1>2, <1>3, <1>4, <1>5, <1>6

\* More rows: what was committed keeps its number.
LEMMA LogGrows ==
  ASSUME TypeOK, NEW made \in Seq(Row)
  PROVE  LET log == decisions \o made IN
         /\ log \in Seq(Row) /\ Len(log) = Len(decisions) + Len(made)
         /\ DOMAIN decisions = 1 .. Len(decisions) /\ DOMAIN decisions \subseteq DOMAIN log
         /\ DOMAIN log = 1 .. Len(decisions) + Len(made) /\ DOMAIN made = 1 .. Len(made)
         /\ Len(decisions) \in Nat /\ Len(made) \in Nat
         /\ \A i \in DOMAIN decisions : log[i] = decisions[i]
         /\ \A k \in DOMAIN made : Len(decisions) + k \in DOMAIN log \ DOMAIN decisions
                                   /\ log[Len(decisions) + k] = made[k]
         /\ \A i \in DOMAIN log \ DOMAIN decisions : i - Len(decisions) \in DOMAIN made
<1>1. /\ decisions \o made \in Seq(Row)
      /\ Len(decisions \o made) = Len(decisions) + Len(made)
      /\ \A i \in 1 .. Len(decisions) + Len(made) :
           (decisions \o made)[i] =
             IF i <= Len(decisions) THEN decisions[i] ELSE made[i - Len(decisions)]
  BY ConcatProperties DEF TypeOK
<1>2. /\ Len(decisions) \in Nat /\ Len(made) \in Nat
      /\ DOMAIN decisions = 1 .. Len(decisions) /\ DOMAIN made = 1 .. Len(made)
      /\ DOMAIN (decisions \o made) = 1 .. Len(decisions \o made)
  BY <1>1, LenProperties DEF TypeOK
<1> DEFINE log == decisions \o made
<1> HIDE DEF log
<1>3. /\ log \in Seq(Row) /\ Len(log) = Len(decisions) + Len(made)
      /\ DOMAIN log = 1 .. Len(decisions) + Len(made)
      /\ \A i \in 1 .. Len(decisions) + Len(made) :
           log[i] = IF i <= Len(decisions) THEN decisions[i] ELSE made[i - Len(decisions)]
  BY <1>1, <1>2 DEF log
<1>4. \A k \in 1 .. Len(made) : Len(decisions) + k \in 1 .. Len(decisions) + Len(made)
                                /\ Len(decisions) + k \notin 1 .. Len(decisions)
                                /\ log[Len(decisions) + k] = made[k]
  <2>1. TAKE k \in 1 .. Len(made)
  <2>2. /\ Len(decisions) + k \in 1 .. Len(decisions) + Len(made)
        /\ Len(decisions) + k \notin 1 .. Len(decisions)
        /\ ~(Len(decisions) + k <= Len(decisions)) /\ Len(decisions) + k - Len(decisions) = k
    BY <1>2
  <2>3. QED
    BY <1>3, <2>2
<1>5. \A i \in 1 .. Len(decisions) : i \in 1 .. Len(decisions) + Len(made) /\ log[i] = decisions[i]
  BY <1>2, <1>3
<1>6. \A i \in (1 .. Len(decisions) + Len(made)) \ (1 .. Len(decisions)) :
        i - Len(decisions) \in 1 .. Len(made)
  BY <1>2
<1>7. QED
  BY <1>2, <1>3, <1>4, <1>5, <1>6 DEF log

LEMMA CommitTenantType ==
  ASSUME TypeInv, CommitTenant
  PROVE  TypeInv'
<1> USE DEF TypeInv
<1>1. batch.made \in Seq(Row) /\ batch.todo \subseteq Tenants
  BY DEF TypeOK
<1>2. /\ decisions' = decisions \o batch.made
      /\ byBatch' = byBatch \cup {Len(decisions) + k : k \in DOMAIN batch.made}
      /\ batch' = [NoBatch EXCEPT !.todo = batch.todo]
      /\ UNCHANGED <<clock, agents, alerts, tx, changes, faults>>
  BY DEF CommitTenant
<1>3. /\ decisions' \in Seq(Row) /\ Len(decisions') = Len(decisions) + Len(batch.made)
      /\ DOMAIN decisions \subseteq DOMAIN decisions' /\ byBatch' \subseteq DOMAIN decisions'
      /\ Len(decisions) \in Nat /\ Len(batch.made) \in Nat
  BY <1>1, <1>2, LogGrows DEF TypeOK
<1>4. /\ batch'.tenant = None /\ batch'.left = {} /\ Len(batch'.made) = 0
      /\ batch' \in [todo : SUBSET Tenants, tenant : Tenants \cup {None}, now : Moments \cup {0},
                     read : [Agents -> AgentFacts] \cup {None}, left : SUBSET Agents,
                     made : Seq(Row)]
  BY <1>1, <1>2, EmptySeq DEF NoBatch
<1>5. passed' \in [Agents -> SUBSET Nat]
  <2>1. passed \in [Agents -> SUBSET Nat] /\ Today \in Nat
    BY TodayType DEF TypeOK
  <2> HIDE DEF TypeInv
  <2>2. QED
    BY <2>1 DEF CommitTenant
<1>6. Answering' = Answering
  BY <1>2 DEF Answering
<1>7. Len(decisions') <= MaxDecisions
      /\ Len(decisions') + Len(batch'.made) + Cardinality(Answering)' <= MaxDecisions
  BY <1>3, <1>4, <1>6, AnsweringFinite, ConstantsAssumption DEF SessionsOK
<1>8. tx' \in [Sessions -> [ids : SUBSET DOMAIN decisions', made : Seq(Row)]]
  BY <1>2, <1>3 DEF TypeOK
<1>9. TypeOK'
  BY <1>2, <1>3, <1>4, <1>5, <1>7, <1>8 DEF TypeOK
<1>10. SessionsOK'
  BY <1>2, <1>4, <1>7 DEF SessionsOK
<1>11. QED
  BY <1>9, <1>10

\* A step of one session.
LEMMA OneSession ==
  ASSUME TypeInv, NEW s \in Sessions, NEW t, tx' = [tx EXCEPT ![s] = t]
  PROVE  /\ \A u \in Sessions : tx'[u] = IF u = s THEN t ELSE tx[u]
         /\ Answering' = IF s \in Requests /\ t.made # <<>> THEN Answering \cup {s}
                                                          ELSE Answering \ {s}
BY DEF TypeInv, TypeOK, Answering, Sessions

\* It keeps the types if its decision was allowed for.
LEMMA SessionType ==
  ASSUME TypeInv, NEW s \in Sessions, NEW t, tx' = [tx EXCEPT ![s] = t],
         UNCHANGED <<clock, agents, batch, changes>>,
         DOMAIN decisions \subseteq DOMAIN decisions', decisions' \in Seq(Row),
         alerts' \in [Ids -> Nat], passed' \in [Agents -> SUBSET Nat],
         byBatch' = byBatch, faults' \in 0 .. MaxFaults,
         t \in [ids : SUBSET DOMAIN decisions', made : Seq(Row)],
         t.made # <<>> => Len(t.made) = 1,
         Len(decisions') + Len(batch.made) + Cardinality(Answering') <= MaxDecisions
  PROVE  TypeInv'
<1>1. tx' \in [Sessions -> [ids : SUBSET DOMAIN decisions', made : Seq(Row)]]
  BY DEF TypeInv, TypeOK
<1>2. IsFiniteSet(Answering') /\ Cardinality(Answering') \in Nat
  BY ConstantsAssumption, FS_Subset, FS_CardinalityType DEF Answering
<1>3. Len(decisions') \in Nat /\ Len(batch.made) \in Nat
  BY DEF TypeInv, TypeOK
<1>4. Len(decisions') <= MaxDecisions
  BY <1>2, <1>3, ConstantsAssumption
<1>5. TypeOK'
  BY <1>1, <1>4 DEF TypeInv, TypeOK
<1>6. SessionsOK'
  BY OneSession DEF TypeInv, SessionsOK
<1>7. QED
  BY <1>5, <1>6 DEF TypeInv

\* A session that ends, after a commit that adds its decision or without.
LEMMA SessionEnds ==
  ASSUME TypeInv, NEW s \in Sessions, tx' = [tx EXCEPT ![s] = NoTx]
  PROVE  /\ NoTx.ids = {} /\ NoTx.made = <<>>
         /\ NoTx \in [ids : SUBSET DOMAIN decisions', made : Seq(Row)]
         /\ Answering' = Answering \ {s}
         /\ Cardinality(Answering') =
              IF s \in Answering THEN Cardinality(Answering) - 1 ELSE Cardinality(Answering)
         /\ Len(decisions) \in Nat /\ Len(batch.made) \in Nat
<1>1. NoTx.ids = {} /\ NoTx.made = <<>> /\ NoTx \in [ids : SUBSET DOMAIN decisions', made : Seq(Row)]
  BY EmptySeq DEF NoTx
<1>2. Answering' = Answering \ {s}
  BY <1>1, OneSession
<1>3. Cardinality(Answering \ {s}) =
        IF s \in Answering THEN Cardinality(Answering) - 1 ELSE Cardinality(Answering)
  BY AnsweringFinite, FS_RemoveElement
<1>4. Len(decisions) \in Nat /\ Len(batch.made) \in Nat
  BY DEF TypeInv, TypeOK
<1>5. QED
  BY <1>1, <1>2, <1>3, <1>4

LEMMA EvaluateNowType ==
  ASSUME TypeInv, NEW r \in Requests, NEW a \in Agents, EvaluateNow(r, a)
  PROVE  TypeInv'
<1> DEFINE row == NewRow(a, agents[a], clock)
           t == [tx[r] EXCEPT !.made = <<row>>]
<1>1. row \in Row
  BY RowType DEF TypeInv, TypeOK
<1> HIDE DEF row
<1>2. <<row>> \in Seq(Row) /\ Len(<<row>>) = 1 /\ <<row>> # <<>>
  BY <1>1
<1>3. /\ tx[r].made = <<>> /\ Room
      /\ UNCHANGED <<clock, agents, decisions, alerts, byBatch, passed, batch, changes, faults>>
  BY DEF EvaluateNow, dbVars
<1>4. r \in Sessions /\ tx' = [tx EXCEPT ![r].made = <<row>>]
  BY DEF EvaluateNow, row, Sessions
<1>5. tx' = [tx EXCEPT ![r] = t]
  BY <1>4
<1>6. t \in [ids : SUBSET DOMAIN decisions', made : Seq(Row)] /\ t.made = <<row>>
  BY <1>2, <1>3, <1>4 DEF TypeInv, TypeOK
<1> HIDE DEF t
<1>7. Answering' = Answering \cup {r} /\ r \notin Answering
  BY <1>2, <1>3, <1>4, <1>5, <1>6, OneSession DEF Answering
<1>8. Len(decisions) \in Nat /\ Len(batch.made) \in Nat
  BY DEF TypeInv, TypeOK
<1>9. Cardinality(Answering') = Cardinality(Answering) + 1
  BY <1>7, AnsweringFinite, FS_AddElement
<1>10. Len(decisions) + Len(batch.made) + Cardinality(Answering) < MaxDecisions
  BY <1>3 DEF Room
<1>11. Len(decisions') + Len(batch.made) + Cardinality(Answering') <= MaxDecisions
  BY <1>3, <1>8, <1>9, <1>10, AnsweringFinite, ConstantsAssumption
<1>12. QED
  BY <1>2, <1>3, <1>4, <1>5, <1>6, <1>11, SessionType DEF TypeInv, TypeOK

LEMMA CommitEvaluationType ==
  ASSUME TypeInv, NEW r \in Requests, CommitEvaluation(r)
  PROVE  TypeInv'
<1>1. r \in Sessions /\ r \in Answering
  BY DEF CommitEvaluation, Sessions, Answering
<1>2. /\ decisions' = decisions \o tx[r].made /\ tx' = [tx EXCEPT ![r] = NoTx]
      /\ UNCHANGED <<clock, agents, alerts, byBatch, batch, changes, faults>>
  BY DEF CommitEvaluation
<1>3. tx[r].made \in Seq(Row) /\ Len(tx[r].made) = 1
  BY <1>1 DEF TypeInv, TypeOK, SessionsOK, Answering
<1>4. /\ decisions' \in Seq(Row) /\ DOMAIN decisions \subseteq DOMAIN decisions'
      /\ Len(decisions') = Len(decisions) + 1
  BY <1>2, <1>3, LogGrows DEF TypeInv
<1>5. passed' \in [Agents -> SUBSET Nat]
  BY DEF CommitEvaluation, TypeInv, TypeOK
<1>6. Len(decisions') + Len(batch.made) + Cardinality(Answering') <= MaxDecisions
  <2>1. PICK n \in Nat, k \in Nat, b \in Nat, m \in Nat :
          /\ n = Len(decisions) /\ k = Len(batch.made) /\ b = Cardinality(Answering)
          /\ m = MaxDecisions
    BY <1>1, <1>2, SessionEnds, AnsweringFinite, ConstantsAssumption
  <2>2. Cardinality(Answering') = b - 1
    BY <1>1, <1>2, <2>1, SessionEnds
  <2>3. n + k + b <= m
    BY <2>1 DEF TypeInv, SessionsOK
  <2>4. (n + 1) + k + (b - 1) <= m
    BY <2>3
  <2>5. QED
    BY <1>4, <2>1, <2>2, <2>4
<1>7. QED
  BY <1>1, <1>2, <1>4, <1>5, <1>6, SessionEnds, SessionType DEF TypeInv, TypeOK

LEMMA FetchType ==
  ASSUME TypeInv, NEW w \in Executors, FetchDue(w)
  PROVE  TypeInv'
<1>1. w \in Sessions /\ w \notin Requests
  BY ConstantsAssumption DEF Sessions
<1>2. PICK ids \in SUBSET DueIds : tx' = [tx EXCEPT ![w].ids = ids]
  BY DEF FetchDue
<1>3. UNCHANGED <<clock, agents, decisions, alerts, byBatch, passed, batch, changes, faults>>
  BY DEF FetchDue, dbVars
<1> DEFINE t == [tx[w] EXCEPT !.ids = ids]
<1>4. tx' = [tx EXCEPT ![w] = t]
  BY <1>2
<1>5. t \in [ids : SUBSET DOMAIN decisions', made : Seq(Row)] /\ t.made = tx[w].made
  BY <1>1, <1>3 DEF TypeInv, TypeOK, DueIds
<1> HIDE DEF t
<1>6. Answering' = Answering \ {w} /\ w \notin Answering
  BY <1>1, <1>4, OneSession DEF Answering
<1>7. Answering' = Answering
  BY <1>6
<1>8. QED
  BY <1>1, <1>3, <1>4, <1>5, <1>7, SessionType DEF TypeInv, TypeOK, SessionsOK

\* The rows that an execution leaves behind.
LEMMA ExecutedRows ==
  ASSUME TypeOK, NEW ids,
         decisions' = [i \in DOMAIN decisions |->
           IF i \in ids THEN [decisions[i] EXCEPT !.executed = TRUE] ELSE decisions[i]]
  PROVE  /\ decisions' \in Seq(Row) /\ DOMAIN decisions' = DOMAIN decisions
         /\ Len(decisions') = Len(decisions)
         /\ \A i \in DOMAIN decisions :
              /\ decisions'[i].agent = decisions[i].agent
              /\ decisions'[i].created = decisions[i].created
              /\ decisions'[i].channel = decisions[i].channel
              /\ decisions'[i].scheduled = decisions[i].scheduled
              /\ decisions'[i].action = decisions[i].action
              /\ decisions'[i].adm = decisions[i].adm
              /\ decisions'[i].executed = (decisions[i].executed \/ i \in ids)
<1>1. /\ Len(decisions) \in Nat /\ DOMAIN decisions = 1 .. Len(decisions)
      /\ \A i \in DOMAIN decisions : decisions[i] \in Row
  BY LenProperties, ElementOfSeq DEF TypeOK
<1>2. ASSUME NEW i \in DOMAIN decisions
      PROVE  /\ decisions'[i] \in Row
             /\ decisions'[i].agent = decisions[i].agent
             /\ decisions'[i].created = decisions[i].created
             /\ decisions'[i].channel = decisions[i].channel
             /\ decisions'[i].scheduled = decisions[i].scheduled
             /\ decisions'[i].action = decisions[i].action
             /\ decisions'[i].adm = decisions[i].adm
             /\ decisions'[i].executed = (decisions[i].executed \/ i \in ids)
  <2>1. decisions[i] \in Row
    BY <1>1
  <2>2. CASE i \in ids
    BY <2>1, <2>2 DEF Row
  <2>3. CASE i \notin ids
    BY <2>1, <2>3 DEF Row
  <2>4. QED
    BY <2>2, <2>3
<1>3. decisions' \in [1 .. Len(decisions) -> Row]
  BY <1>1, <1>2
<1>4. decisions' \in Seq(Row) /\ Len(decisions') = Len(decisions)
  BY <1>1, <1>3
<1>5. QED
  BY <1>1, <1>2, <1>3, <1>4

LEMMA CommitExecutionType ==
  ASSUME TypeInv, NEW w \in Executors, CommitExecution(w)
  PROVE  TypeInv'
<1>1. w \in Sessions /\ w \notin Answering
  BY ConstantsAssumption DEF Sessions, Answering
<1>2. /\ decisions' = [i \in DOMAIN decisions |->
            IF i \in tx[w].ids THEN [decisions[i] EXCEPT !.executed = TRUE] ELSE decisions[i]]
      /\ tx' = [tx EXCEPT ![w] = NoTx]
      /\ UNCHANGED <<clock, agents, byBatch, passed, batch, changes, faults>>
  BY DEF CommitExecution
<1>3. alerts' \in [Ids -> Nat]
  BY DEF CommitExecution, TypeInv, TypeOK
<1>4. decisions' \in Seq(Row) /\ DOMAIN decisions' = DOMAIN decisions
      /\ Len(decisions') = Len(decisions)
  BY <1>2, ExecutedRows DEF TypeInv
<1>5. Len(decisions') + Len(batch.made) + Cardinality(Answering') <= MaxDecisions
  BY <1>1, <1>2, <1>4, SessionEnds DEF TypeInv, SessionsOK
<1>6. QED
  BY <1>1, <1>2, <1>3, <1>4, <1>5, SessionEnds, SessionType DEF TypeInv, TypeOK

LEMMA AbortType ==
  ASSUME TypeInv, NEW s \in Sessions, Abort(s)
  PROVE  TypeInv'
<1>1. /\ tx' = [tx EXCEPT ![s] = NoTx] /\ faults' \in 0 .. MaxFaults
      /\ UNCHANGED <<clock, agents, decisions, alerts, byBatch, passed, batch, changes>>
  BY ConstantsAssumption DEF Abort, dbVars, TypeInv, TypeOK
<1>2. Len(decisions') + Len(batch.made) + Cardinality(Answering') <= MaxDecisions
  <2> DEFINE before == Cardinality(Answering)
             after == Cardinality(Answering')
  <2>1. /\ after = before - 1 \/ after = before
        /\ Len(decisions) \in Nat /\ Len(batch.made) \in Nat
    BY <1>1, SessionEnds
  <2>2. before \in Nat /\ Len(decisions) + Len(batch.made) + before <= MaxDecisions
    BY AnsweringFinite DEF TypeInv, SessionsOK
  <2> HIDE DEF before, after
  <2>3. Len(decisions) + Len(batch.made) + after <= MaxDecisions
    BY <2>1, <2>2, ConstantsAssumption
  <2>4. QED
    BY <1>1, <2>3 DEF after
<1>3. QED
  BY <1>1, <1>2, SessionEnds, SessionType DEF TypeInv, TypeOK

LEMMA ChangeType ==
  ASSUME TypeInv, NEW a \in Agents, NEW f \in AgentFacts, AgentChanges(a, f)
  PROVE  TypeInv'
<1>1. /\ UNCHANGED <<clock, decisions, alerts, byBatch, batch, tx, faults>>
      /\ agents' \in [Agents -> AgentFacts] /\ passed' \in [Agents -> SUBSET Nat]
      /\ changes' \in 0 .. MaxChanges
  BY ConstantsAssumption DEF AgentChanges, TypeInv, TypeOK
<1>2. Answering' = Answering
  BY <1>1 DEF Answering
<1>3. QED
  BY <1>1, <1>2 DEF TypeInv, TypeOK, SessionsOK

LEMMA TickType ==
  ASSUME TypeInv, Tick
  PROVE  TypeInv'
<1>1. PICK m \in Moments :
        /\ m > clock /\ clock' = m
        /\ m \div Day > Today => batch = NoBatch
        /\ batch' = IF m \div Day > Today THEN Asked ELSE batch
  BY DEF Tick
<1>2. UNCHANGED <<agents, decisions, alerts, byBatch, passed, tx, changes, faults>>
  BY DEF Tick, dbVars
<1>3. Answering' = Answering
  BY <1>2 DEF Answering
<1>4. CASE batch' = batch
  BY <1>1, <1>2, <1>3, <1>4 DEF TypeInv, TypeOK, SessionsOK
<1>5. CASE batch = NoBatch /\ batch' = Asked
  <2>1. /\ batch'.todo = Tenants /\ batch'.tenant = None /\ batch'.left = {}
        /\ batch'.made = batch.made
        /\ batch' \in [todo : SUBSET Tenants, tenant : Tenants \cup {None}, now : Moments \cup {0},
                       read : [Agents -> AgentFacts] \cup {None}, left : SUBSET Agents,
                       made : Seq(Row)]
    BY <1>5, EmptySeq DEF NoBatch, Asked
  <2>2. QED
    BY <1>1, <1>2, <1>3, <2>1 DEF TypeInv, TypeOK, SessionsOK
<1>6. QED
  BY <1>1, <1>4, <1>5

LEMMA StepType == TypeInv /\ [Next]_vars => TypeInv'
<1> SUFFICES ASSUME TypeInv, [Next]_vars PROVE TypeInv'
  OBVIOUS
<1>1. CASE UNCHANGED vars
  <2>1. UNCHANGED <<clock, agents, decisions, alerts, byBatch, passed, batch, tx, changes, faults>>
    BY <1>1 DEF vars, dbVars
  <2>2. Answering' = Answering
    BY <2>1 DEF Answering
  <2>3. QED
    BY <2>1, <2>2 DEF TypeInv, TypeOK, SessionsOK
<1>2. CASE Next
  BY <1>2, BatchSteps, CommitTenantType, EvaluateNowType, CommitEvaluationType, FetchType,
     CommitExecutionType, AbortType, ChangeType, TickType DEF Next
<1>3. QED
  BY <1>1, <1>2

\* Rows, copies and times keep their types, whatever batches, requests and
\* executors run and fail, and no more decisions are logged than allowed for.
THEOREM DecisionTypeCorrect == Spec => []TypeOK
<1>1. Spec => []TypeInv
  BY InitType, StepType, PTL DEF Spec
<1>2. TypeInv => TypeOK
  BY DEF TypeInv
<1>3. QED
  BY <1>1, <1>2, PTL
-----------------------------------------------------------------------------
(* What a step does to the log.                                            *)

Timely(row) == row.channel = "voice_ai" => FirstOpening(row.created, row.scheduled)
Sound(row) == Timely(row) /\ Reasoned(row)
Fresh(row) == ~row.executed /\ Sound(row)

\* The decisions under way are as NewRow made them.
UnderWayFresh ==
  /\ \A k \in DOMAIN batch.made : Fresh(batch.made[k])
  /\ \A s \in Sessions : \A k \in DOMAIN tx[s].made : Fresh(tx[s].made[k])

LEMMA InitFresh == Init => UnderWayFresh
<1> SUFFICES ASSUME Init PROVE UnderWayFresh
  OBVIOUS
<1>1. batch.made = <<>> /\ \A s \in Sessions : tx[s].made = <<>>
  BY DEF Init, Asked, NoBatch, NoTx
<1>2. QED
  BY <1>1 DEF UnderWayFresh

\* The batch keeps its decisions, drops them or appends one.
LEMMA MadeStep ==
  ASSUME TypeInv, Next
  PROVE  \/ batch'.made \in {batch.made, <<>>}
         \/ \E a \in Agents : Evaluate(a)
<1>1. ASSUME NEW t \in Tenants, BeginTenant(t) PROVE batch'.made = <<>>
  BY <1>1 DEF BeginTenant
<1>2. ASSUME NEW a \in Agents, PassOver(a) PROVE batch'.made = batch.made
  BY <1>2 DEF PassOver, TypeInv, TypeOK
<1>3. ASSUME CommitTenant \/ TenantFails \/ CrashBatch PROVE batch'.made = <<>>
  BY <1>3 DEF CommitTenant, TenantFails, CrashBatch, Asked, NoBatch
<1>4. ASSUME Tick PROVE batch'.made \in {batch.made, <<>>}
  BY <1>4 DEF Tick, Asked, NoBatch
<1>5. ASSUME NEW r \in Requests, CommitEvaluation(r) \/ \E a \in Agents : EvaluateNow(r, a)
      PROVE  batch' = batch
  BY <1>5 DEF CommitEvaluation, EvaluateNow
<1>6. ASSUME NEW w \in Executors, FetchDue(w) \/ CommitExecution(w) PROVE batch' = batch
  BY <1>6 DEF FetchDue, CommitExecution
<1>7. ASSUME NEW s \in Sessions, Abort(s) PROVE batch' = batch
  BY <1>7 DEF Abort
<1>8. ASSUME NEW a \in Agents, NEW f \in AgentFacts, AgentChanges(a, f) PROVE batch' = batch
  BY <1>8 DEF AgentChanges
<1>9. QED
  BY <1>1, <1>2, <1>3, <1>4, <1>5, <1>6, <1>7, <1>8 DEF Next

\* A session takes a decision, ends, takes up due decisions or does nothing.
LEMMA TxStep ==
  ASSUME TypeInv, Next, NEW s \in Sessions
  PROVE  \/ tx'[s].made = tx[s].made /\ tx'[s].ids = tx[s].ids
         \/ tx'[s].made = <<>> /\ tx'[s].ids = {}
         \/ s \in Executors /\ tx'[s].made = tx[s].made /\ tx'[s].ids \subseteq DueIds
            /\ UNCHANGED decisions
         \/ s \in Requests /\ (\E a \in Agents : tx'[s].made = <<NewRow(a, agents[a], clock)>>)
            /\ tx'[s].ids = tx[s].ids
<1> DEFINE Goal == \/ tx'[s].made = tx[s].made /\ tx'[s].ids = tx[s].ids
                   \/ tx'[s].made = <<>> /\ tx'[s].ids = {}
                   \/ s \in Executors /\ tx'[s].made = tx[s].made /\ tx'[s].ids \subseteq DueIds
                      /\ UNCHANGED decisions
                   \/ s \in Requests
                      /\ (\E a \in Agents : tx'[s].made = <<NewRow(a, agents[a], clock)>>)
                      /\ tx'[s].ids = tx[s].ids
<1>1. CASE UNCHANGED tx
  BY <1>1
<1>2. ASSUME NEW u \in Sessions, tx' = [tx EXCEPT ![u] = NoTx] PROVE Goal
  BY <1>2 DEF TypeInv, TypeOK, NoTx
<1>3. ASSUME NEW w \in Executors, FetchDue(w) PROVE Goal
  <2>1. PICK ids \in SUBSET DueIds : tx' = [tx EXCEPT ![w].ids = ids]
    BY <1>3 DEF FetchDue
  <2>2. UNCHANGED decisions
    BY <1>3 DEF FetchDue, dbVars
  <2>3. QED
    BY <2>1, <2>2 DEF TypeInv, TypeOK
<1>4. ASSUME NEW r \in Requests, NEW a \in Agents, EvaluateNow(r, a) PROVE Goal
  <2> DEFINE row == NewRow(a, agents[a], clock)
  <2>1. tx' = [tx EXCEPT ![r].made = <<row>>]
    BY <1>4 DEF EvaluateNow
  <2> HIDE DEF row
  <2>2. s = r => tx'[s].made = <<row>> /\ tx'[s].ids = tx[s].ids
    BY <2>1 DEF TypeInv, TypeOK
  <2>3. s # r => tx'[s] = tx[s]
    BY <2>1 DEF TypeInv, TypeOK
  <2>4. QED
    BY <2>2, <2>3 DEF row
<1>5. ASSUME \E t \in Tenants : BeginTenant(t) PROVE UNCHANGED tx
  BY <1>5 DEF BeginTenant
<1>6. ASSUME \E a \in Agents : PassOver(a) \/ Evaluate(a) PROVE UNCHANGED tx
  BY <1>6 DEF PassOver, Evaluate
<1>7. ASSUME CommitTenant \/ TenantFails \/ CrashBatch \/ Tick PROVE UNCHANGED tx
  BY <1>7 DEF CommitTenant, TenantFails, CrashBatch, Tick
<1>8. ASSUME \E a \in Agents, f \in AgentFacts : AgentChanges(a, f) PROVE UNCHANGED tx
  BY <1>8 DEF AgentChanges
<1>9. ASSUME NEW r \in Requests, CommitEvaluation(r) PROVE tx' = [tx EXCEPT ![r] = NoTx]
  BY <1>9 DEF CommitEvaluation
<1>10. ASSUME NEW w \in Executors, CommitExecution(w) PROVE tx' = [tx EXCEPT ![w] = NoTx]
  BY <1>10 DEF CommitExecution
<1>11. ASSUME NEW u \in Sessions, Abort(u) PROVE tx' = [tx EXCEPT ![u] = NoTx]
  BY <1>11 DEF Abort
<1>12. Goal
  BY <1>1, <1>2, <1>3, <1>4, <1>5, <1>6, <1>7, <1>8, <1>9, <1>10, <1>11 DEF Next, Sessions
<1>13. QED
  BY <1>12

LEMMA FreshStep ==
  ASSUME TypeInv, UnderWayFresh, [Next]_vars
  PROVE  UnderWayFresh'
<1>1. CASE UNCHANGED vars
  BY <1>1 DEF vars, UnderWayFresh
<1>2. CASE Next
  <2>1. ASSUME NEW k \in DOMAIN batch'.made PROVE Fresh(batch'.made[k])
    <3>1. CASE batch'.made \in {batch.made, <<>>}
      BY <3>1 DEF UnderWayFresh
    <3>2. ASSUME NEW a \in Agents, Evaluate(a) PROVE Fresh(batch'.made[k])
      <4> DEFINE row == NewRow(a, batch.read[a], batch.now)
      <4>1. batch.read[a] \in AgentFacts
        BY <3>2 DEF Evaluate, TypeInv, TypeOK, SessionsOK
      <4>2. row \in Row /\ Fresh(row)
        BY <4>1, RowType DEF TypeInv, Fresh, Sound, Timely
      <4>3. batch'.made = Append(batch.made, row)
        BY <3>2 DEF Evaluate, TypeInv, TypeOK
      <4> HIDE DEF row
      <4>4. batch.made \in Seq(Row)
        BY DEF TypeInv, TypeOK
      <4>5. /\ Len(batch.made) \in Nat /\ DOMAIN batch.made = 1 .. Len(batch.made)
            /\ batch'.made[Len(batch.made) + 1] = row
            /\ \A j \in 1 .. Len(batch.made) : batch'.made[j] = batch.made[j]
            /\ Len(batch'.made) = Len(batch.made) + 1
            /\ DOMAIN batch'.made = 1 .. Len(batch'.made)
        BY <4>2, <4>3, <4>4, AppendProperties, LenProperties
      <4>6. k \in DOMAIN batch.made \/ k = Len(batch.made) + 1
        BY <4>5
      <4>7. QED
        BY <4>2, <4>5, <4>6 DEF UnderWayFresh
    <3>3. QED
      BY <1>2, <3>1, <3>2, MadeStep
  <2>2. ASSUME NEW s \in Sessions, NEW k \in DOMAIN tx'[s].made PROVE Fresh(tx'[s].made[k])
    <3>1. CASE tx'[s].made = tx[s].made \/ tx'[s].made = <<>>
      BY <3>1 DEF UnderWayFresh
    <3>2. ASSUME NEW a \in Agents, tx'[s].made = <<NewRow(a, agents[a], clock)>>
          PROVE  Fresh(tx'[s].made[k])
      <4>1. agents[a] \in AgentFacts
        BY DEF TypeInv, TypeOK
      <4>2. Fresh(NewRow(a, agents[a], clock))
        BY <4>1, RowType DEF TypeInv, Fresh, Sound, Timely
      <4>3. QED
        BY <3>2, <4>2
    <3>3. QED
      BY <1>2, <3>1, <3>2, TxStep
  <2>3. QED
    BY <2>1, <2>2 DEF UnderWayFresh
<1>3. QED
  BY <1>1, <1>2

\* A step keeps the log and the alerts, appends decisions, or executes some.
LEMMA LogStep ==
  ASSUME TypeInv, UnderWayFresh, [Next]_vars
  PROVE  \/ UNCHANGED <<decisions, alerts>>
         \/ /\ alerts' = alerts
            /\ \E made \in Seq(Row) : /\ decisions' = decisions \o made
                                     /\ \A k \in DOMAIN made : Fresh(made[k])
         \/ \E w \in Executors : CommitExecution(w)
<1> DEFINE Kept == UNCHANGED <<decisions, alerts>>
           Grows == /\ alerts' = alerts
                    /\ \E made \in Seq(Row) : /\ decisions' = decisions \o made
                                             /\ \A k \in DOMAIN made : Fresh(made[k])
<1>1. ASSUME UNCHANGED vars PROVE Kept
  BY <1>1 DEF vars, dbVars
<1>2. ASSUME CommitTenant PROVE Grows
  BY <1>2 DEF CommitTenant, UnderWayFresh, TypeInv, TypeOK
<1>3. ASSUME NEW r \in Requests, CommitEvaluation(r) PROVE Grows
  <2>1. tx[r].made \in Seq(Row) /\ \A k \in DOMAIN tx[r].made : Fresh(tx[r].made[k])
    BY DEF UnderWayFresh, TypeInv, TypeOK, Sessions
  <2>2. QED
    BY <1>3, <2>1 DEF CommitEvaluation
<1>4. ASSUME NEW t \in Tenants, BeginTenant(t) PROVE Kept
  BY <1>4 DEF BeginTenant, dbVars
<1>5. ASSUME NEW a \in Agents, PassOver(a) \/ Evaluate(a) PROVE Kept
  BY <1>5 DEF PassOver, Evaluate, dbVars
<1>6. ASSUME TenantFails \/ CrashBatch \/ Tick PROVE Kept
  BY <1>6 DEF TenantFails, CrashBatch, Tick, dbVars
<1>7. ASSUME NEW r \in Requests, NEW a \in Agents, EvaluateNow(r, a) PROVE Kept
  BY <1>7 DEF EvaluateNow, dbVars
<1>8. ASSUME NEW w \in Executors, FetchDue(w) PROVE Kept
  BY <1>8 DEF FetchDue, dbVars
<1>9. ASSUME NEW s \in Sessions, Abort(s) PROVE Kept
  BY <1>9 DEF Abort, dbVars
<1>10. ASSUME NEW a \in Agents, NEW f \in AgentFacts, AgentChanges(a, f) PROVE Kept
  BY <1>10 DEF AgentChanges
<1> HIDE DEF Kept, Grows
<1>11. Kept \/ Grows \/ \E w \in Executors : CommitExecution(w)
  BY <1>1, <1>2, <1>3, <1>4, <1>5, <1>6, <1>7, <1>8, <1>9, <1>10 DEF Next
<1>12. QED
  BY <1>11 DEF Kept, Grows

-----------------------------------------------------------------------------
(* Calls are scheduled within the calling hours, and decisions have a      *)
(* reason.                                                                 *)

AllSound == \A i \in DOMAIN decisions : Sound(decisions[i])

LEMMA SoundStep ==
  ASSUME TypeInv, UnderWayFresh, AllSound, [Next]_vars
  PROVE  AllSound'
<1>1. CASE UNCHANGED decisions
  BY <1>1 DEF AllSound
<1>2. ASSUME NEW made \in Seq(Row), decisions' = decisions \o made,
             \A k \in DOMAIN made : Fresh(made[k])
      PROVE  AllSound'
  <2>1. /\ \A i \in DOMAIN decisions : decisions'[i] = decisions[i]
        /\ \A k \in DOMAIN made : decisions'[Len(decisions) + k] = made[k]
        /\ \A i \in DOMAIN decisions' \ DOMAIN decisions :
             i - Len(decisions) \in DOMAIN made /\ i \in Int /\ Len(decisions) \in Int
    BY <1>2, LogGrows DEF TypeInv
  <2>2. ASSUME NEW i \in DOMAIN decisions' \ DOMAIN decisions
        PROVE  Sound(decisions'[i])
    <3>1. Len(decisions) + (i - Len(decisions)) = i
      BY <2>1
    <3>2. QED
      BY <1>2, <2>1, <3>1 DEF Fresh
  <2>3. QED
    BY <2>1, <2>2 DEF AllSound
<1>3. ASSUME NEW w \in Executors, CommitExecution(w) PROVE AllSound'
  BY <1>3, ExecutedRows DEF CommitExecution, AllSound, Sound, Timely, Reasoned, TypeInv
<1>4. QED
  BY <1>1, <1>2, <1>3, LogStep

\* The engine schedules every call, in the daily batch and on request, at the
\* first time from its decision on that lies within the calling hours.
THEOREM CallsAreInHours == Spec => []CallsInHours
<1>1. Init => AllSound
  BY DEF Init, AllSound
<1>2. Spec => [](TypeInv /\ UnderWayFresh /\ AllSound)
  BY <1>1, InitType, StepType, InitFresh, FreshStep, SoundStep, PTL DEF Spec
<1>3. AllSound => CallsInHours
  BY DEF AllSound, CallsInHours, Sound, Timely, FirstOpening
<1>4. QED
  BY <1>2, <1>3, PTL

\* What the log can tell of the reasons.
DecisionsHaveReasons ==
  \A i \in DOMAIN decisions :
    /\ Reasoned(decisions[i])
    /\ decisions[i].action \notin {"celebrate", "escalate"}

\* In the daily batch and on request alike, a logged decision does what its rule says, on that
\* rule's channel, or nothing; and four of the ten rules of the chain never decide, so no sale is
\* ever celebrated and no manager escalated, whatever agents there are: both callers of the engine
\* leave the fields those rules look at to their defaults (build_decision_input and its copy in the
\* task).
THEOREM FourRulesNeverDecide == Spec => []DecisionsHaveReasons
<1>1. Init => AllSound
  BY DEF Init, AllSound
<1>2. Spec => [](TypeInv /\ UnderWayFresh /\ AllSound)
  BY <1>1, InitType, StepType, InitFresh, FreshStep, SoundStep, PTL DEF Spec
<1>3. ASSUME NEW rule \in LiveRules PROVE ActionOf(rule) \notin {"celebrate", "escalate"}
  BY DEF ActionOf, LiveRules
<1>4. AllSound => DecisionsHaveReasons
  BY <1>3 DEF AllSound, Sound, Reasoned, DecisionsHaveReasons
<1>5. QED
  BY <1>2, <1>4, PTL
-----------------------------------------------------------------------------
(* One executor alerts once.                                               *)

OneExecutor == \A v, w \in Executors : v = w

\* What an executor holds has not been executed.
HeldAreDue == \A w \in Executors : \A i \in tx[w].ids : ~decisions[i].executed

AlertInv == AlertedOnce /\ HeldAreDue

LEMMA InitAlert == Init => AlertInv
BY DEF Init, AlertInv, AlertedOnce, HeldAreDue, NoTx, Sessions

LEMMA AlertKeeps ==
  ASSUME TypeInv, UnderWayFresh, AlertInv, [Next]_vars,
         NEW made \in Seq(Row), alerts' = alerts, decisions' = decisions \o made,
         \A k \in DOMAIN made : Fresh(made[k])
  PROVE  AlertInv'
<1>1. /\ DOMAIN decisions \subseteq DOMAIN decisions'
      /\ \A i \in DOMAIN decisions : decisions'[i] = decisions[i]
      /\ \A k \in DOMAIN made : decisions'[Len(decisions) + k] = made[k]
      /\ \A i \in DOMAIN decisions' \ DOMAIN decisions :
           i - Len(decisions) \in DOMAIN made /\ i \in Int /\ Len(decisions) \in Int
  BY LogGrows DEF TypeInv
<1>2. ASSUME NEW i \in DOMAIN decisions' \ DOMAIN decisions PROVE ~decisions'[i].executed
  <2>1. Len(decisions) + (i - Len(decisions)) = i
    BY <1>1
  <2>2. QED
    BY <1>1, <2>1 DEF Fresh
<1>3. AlertedOnce'
  <2> SUFFICES ASSUME NEW i \in Ids
               PROVE  alerts[i] = IF i \in DOMAIN decisions' /\ decisions'[i].executed /\ Alerts(i)'
                                  THEN 1 ELSE 0
    BY DEF AlertedOnce
  <2>1. alerts[i] = IF i \in DOMAIN decisions /\ decisions[i].executed /\ Alerts(i) THEN 1 ELSE 0
    BY DEF AlertInv, AlertedOnce
  <2>2. CASE i \in DOMAIN decisions
    BY <1>1, <2>1, <2>2 DEF Alerts
  <2>3. CASE i \notin DOMAIN decisions
    BY <1>2, <2>1, <2>3
  <2>4. QED
    BY <2>2, <2>3
<1>4. HeldAreDue'
  <2> SUFFICES ASSUME NEW w \in Executors, NEW i \in tx'[w].ids PROVE ~decisions'[i].executed
    BY DEF HeldAreDue
  <2>1. w \in Sessions
    BY DEF Sessions
  <2>2. tx'[w].ids \subseteq tx[w].ids \cup DueIds
    <3>1. CASE Next
      BY <2>1, <3>1, TxStep
    <3>2. CASE UNCHANGED vars
      BY <3>2 DEF vars
    <3>3. QED
      BY <3>1, <3>2
  <2>3. i \in DOMAIN decisions /\ ~decisions[i].executed
    BY <2>1, <2>2 DEF AlertInv, HeldAreDue, DueIds, Due, TypeInv, TypeOK
  <2>4. QED
    BY <1>1, <2>3
<1>5. QED
  BY <1>3, <1>4 DEF AlertInv

LEMMA AlertExecutes ==
  ASSUME OneExecutor, TypeInv, AlertInv, NEW w \in Executors, CommitExecution(w)
  PROVE  AlertInv'
<1> DEFINE ids == tx[w].ids
<1>1. /\ DOMAIN decisions' = DOMAIN decisions
      /\ \A i \in DOMAIN decisions :
           /\ decisions'[i].action = decisions[i].action /\ decisions'[i].adm = decisions[i].adm
           /\ decisions'[i].executed = (decisions[i].executed \/ i \in ids)
  BY ExecutedRows DEF CommitExecution, TypeInv
<1>2. \A i \in DOMAIN decisions : Alerts(i)' = Alerts(i)
  BY <1>1 DEF Alerts
<1>3. ids \subseteq DOMAIN decisions /\ \A i \in ids : ~decisions[i].executed
  BY DEF AlertInv, HeldAreDue, TypeInv, TypeOK, Sessions
<1>4. \A i \in Ids : alerts'[i] = IF i \in ids /\ Alerts(i) THEN alerts[i] + 1 ELSE alerts[i]
  BY DEF CommitExecution
<1>5. AlertedOnce'
  <2> SUFFICES ASSUME NEW i \in Ids
               PROVE  alerts'[i] = IF i \in DOMAIN decisions' /\ decisions'[i].executed /\ Alerts(i)'
                                   THEN 1 ELSE 0
    BY DEF AlertedOnce
  <2>1. alerts[i] = IF i \in DOMAIN decisions /\ decisions[i].executed /\ Alerts(i) THEN 1 ELSE 0
    BY DEF AlertInv, AlertedOnce
  <2> HIDE DEF ids
  <2>2. CASE i \in ids
    <3>1. i \in DOMAIN decisions' /\ decisions'[i].executed /\ alerts[i] = 0
      BY <1>1, <1>3, <2>1, <2>2
    <3>2. Alerts(i)' = Alerts(i)
      BY <1>2, <1>3, <2>2
    <3>3. QED
      BY <1>4, <2>2, <3>1, <3>2
  <2>3. CASE i \notin ids
    <3>1. alerts'[i] = alerts[i]
      BY <1>4, <2>3
    <3>2. CASE i \in DOMAIN decisions
      <4>1. (Alerts(i)' <=> Alerts(i)) /\ (decisions'[i].executed <=> decisions[i].executed)
        BY <1>1, <1>2, <2>3, <3>2
      <4>2. QED
        BY <1>1, <2>1, <3>1, <3>2, <4>1
    <3>3. CASE i \notin DOMAIN decisions
      BY <1>1, <2>1, <3>1, <3>3
    <3>4. QED
      BY <3>2, <3>3
  <2>4. QED
    BY <2>2, <2>3
<1>6. tx'[w].ids = {}
  BY DEF CommitExecution, TypeInv, TypeOK, Sessions, NoTx
<1>7. HeldAreDue'
  BY <1>6 DEF OneExecutor, HeldAreDue
<1>8. QED
  BY <1>5, <1>7 DEF AlertInv

\* As long as one executor runs at a time, a nudge that was executed has
\* alerted its manager exactly once and no other decision has, however many
\* batches of executions were lost after their alerts had been inserted.
THEOREM NudgesAlertOnce == OneExecutor => (Spec => []AlertedOnce)
<1> SUFFICES ASSUME OneExecutor PROVE Spec => []AlertedOnce
  OBVIOUS
<1>1. ASSUME TypeInv, UnderWayFresh, AlertInv, [Next]_vars PROVE AlertInv'
  <2>1. ASSUME UNCHANGED <<decisions, alerts>> PROVE AlertInv'
    <3>1. decisions' = decisions \o <<>> /\ <<>> \in Seq(Row) /\ DOMAIN <<>> = {}
      BY <2>1, ConcatEmptySeq, EmptySeq DEF TypeInv, TypeOK
    <3>2. QED
      BY <1>1, <2>1, <3>1, AlertKeeps
  <2>2. QED
    BY <1>1, <2>1, LogStep, AlertKeeps, AlertExecutes
<1>2. Spec => [](TypeInv /\ UnderWayFresh /\ AlertInv)
  BY <1>1, InitType, StepType, InitFresh, FreshStep, InitAlert, PTL DEF Spec
<1>3. AlertInv => AlertedOnce
  BY DEF AlertInv
<1>4. QED
  BY <1>2, <1>3, PTL
-----------------------------------------------------------------------------
(* The batch keeps its distance.                                           *)

Apart(new, old) == new.agent = old.agent => new.created - old.created >= Day

\* What the batch has decided for the tenant is apart from all it has ever
\* committed, and about agents it will not look at again.
SpacingInv ==
  /\ BatchSpacing
  /\ batch.tenant # None => batch.now <= clock
  /\ \A k \in DOMAIN batch.made :
       /\ batch.made[k].agent \notin batch.left
       /\ \A l \in DOMAIN batch.made : k # l => batch.made[k].agent # batch.made[l].agent
       /\ \A i \in byBatch : Apart(batch.made[k], decisions[i])

LEMMA InitSpacing == Init => SpacingInv
BY DEF Init, SpacingInv, BatchSpacing, Asked, NoBatch

LEMMA TimesType ==
  ASSUME TypeInv
  PROVE  clock \in Int /\ (batch.tenant # None => batch.now \in Int)
<1>1. Moments \subseteq Int
  BY ConstantsAssumption
<1>2. clock \in Moments /\ (batch.tenant # None => batch.now \in Moments)
  BY DEF TypeInv, TypeOK, SessionsOK
<1>3. QED
  BY <1>1, <1>2

\* Steps that leave what the batch did alone.
LEMMA SpacingKeeps ==
  ASSUME TypeInv, SpacingInv, byBatch' = byBatch,
         \A i \in DOMAIN decisions : /\ decisions'[i].agent = decisions[i].agent
                                    /\ decisions'[i].created = decisions[i].created,
         batch'.tenant # None => batch'.now <= clock',
         \/ batch'.made = <<>>
         \/ batch'.made = batch.made /\ batch'.left \subseteq batch.left
  PROVE  SpacingInv'
<1>1. byBatch \subseteq DOMAIN decisions
  BY DEF TypeInv, TypeOK
<1>2. BatchSpacing'
  BY <1>1 DEF SpacingInv, BatchSpacing
<1>3. ASSUME NEW k \in DOMAIN batch'.made
      PROVE  /\ batch'.made[k].agent \notin batch'.left
             /\ \A l \in DOMAIN batch'.made : k # l => batch'.made[k].agent # batch'.made[l].agent
             /\ \A i \in byBatch' : Apart(batch'.made[k], decisions'[i])
  <2>1. batch'.made = batch.made /\ batch'.left \subseteq batch.left
    OBVIOUS
  <2>2. QED
    BY <1>1, <2>1 DEF SpacingInv, Apart
<1>4. QED
  BY <1>2, <1>3 DEF SpacingInv

LEMMA SpacingEvaluate ==
  ASSUME TypeInv, SpacingInv, NEW a \in Agents, Evaluate(a)
  PROVE  SpacingInv'
<1> DEFINE row == NewRow(a, batch.read[a], batch.now)
<1>1. /\ batch' = [batch EXCEPT !.left = batch.left \ {a}, !.made = Append(batch.made, row)]
      /\ UNCHANGED <<clock, decisions, byBatch>>
      /\ a \in batch.left /\ ~WithinCadence(a, batch.read[a].state)
  BY DEF Evaluate, dbVars
<1>2. batch.tenant # None /\ batch.read[a] \in AgentFacts
  BY <1>1 DEF TypeInv, TypeOK, SessionsOK
<1>3. row \in Row /\ row.agent = a /\ row.created = clock
  BY <1>2, RowType DEF TypeInv
<1> HIDE DEF row
<1>4. /\ batch'.tenant = batch.tenant /\ batch'.now = batch.now
      /\ batch'.left = batch.left \ {a} /\ batch'.made = Append(batch.made, row)
  BY <1>1 DEF TypeInv, TypeOK
<1>5. /\ Len(batch.made) \in Nat /\ DOMAIN batch.made = 1 .. Len(batch.made)
      /\ batch'.made[Len(batch.made) + 1] = row
      /\ \A j \in 1 .. Len(batch.made) : batch'.made[j] = batch.made[j]
      /\ DOMAIN batch'.made = 1 .. Len(batch.made) + 1
  <2>1. batch.made \in Seq(Row)
    BY DEF TypeInv, TypeOK
  <2>2. QED
    BY <1>3, <1>4, <2>1, AppendProperties, LenProperties
<1>6. \A k \in DOMAIN batch'.made :
        \/ k \in DOMAIN batch.made /\ batch'.made[k] = batch.made[k]
        \/ k = Len(batch.made) + 1 /\ k \notin DOMAIN batch.made /\ batch'.made[k] = row
  BY <1>5
<1>7. \A i \in byBatch : Apart(row, decisions[i])
  <2> SUFFICES ASSUME NEW i \in byBatch, decisions[i].agent = a
               PROVE  clock - decisions[i].created >= Day
    BY <1>3 DEF Apart
  <2>1. i \in DOMAIN decisions /\ decisions[i] \in Row
    BY LenProperties, ElementOfSeq DEF TypeInv, TypeOK
  <2>2. i \in Of(a)
    BY <2>1 DEF Of
  <2>3. ~(Days(decisions[i].created, batch.now) < Cadence(batch.read[a].state))
    BY <1>1, <2>2 DEF WithinCadence
  <2>4. Cadence(batch.read[a].state) \in 1 .. 14
    BY DEF Cadence
  <2>5. decisions[i].created \in Int /\ batch.now \in Int /\ clock \in Int /\ batch.now <= clock
    <3>1. decisions[i].created \in Moments
      BY <2>1 DEF Row
    <3>2. Moments \subseteq Int
      BY ConstantsAssumption
    <3>3. QED
      BY <1>2, <3>1, <3>2, TimesType DEF SpacingInv
  <2>6. \A x, y, n \in Int : n >= 1 /\ ~((y - x) \div 48 < n) => y - x >= 48
    OBVIOUS
  <2>7. batch.now - decisions[i].created >= 48
    BY <2>3, <2>4, <2>5, <2>6 DEF Days, Day
  <2>8. QED
    BY <2>5, <2>7 DEF Day
<1>8. ASSUME NEW k \in DOMAIN batch'.made
      PROVE  /\ batch'.made[k].agent \notin batch'.left
             /\ \A l \in DOMAIN batch'.made : k # l => batch'.made[k].agent # batch'.made[l].agent
             /\ \A i \in byBatch' : Apart(batch'.made[k], decisions'[i])
  BY <1>1, <1>3, <1>4, <1>6, <1>7 DEF SpacingInv
<1>9. BatchSpacing'
  BY <1>1 DEF SpacingInv, BatchSpacing
<1>10. QED
  BY <1>1, <1>4, <1>8, <1>9 DEF SpacingInv

LEMMA SpacingCommit ==
  ASSUME TypeInv, SpacingInv, CommitTenant
  PROVE  SpacingInv'
<1>1. /\ decisions' = decisions \o batch.made /\ batch.made \in Seq(Row)
      /\ byBatch' = byBatch \cup {Len(decisions) + k : k \in DOMAIN batch.made}
      /\ batch'.made = <<>> /\ batch'.tenant = None
  BY DEF CommitTenant, NoBatch, TypeInv, TypeOK
<1>2. /\ byBatch \subseteq DOMAIN decisions
      /\ \A i \in byBatch : decisions'[i] = decisions[i]
      /\ \A k \in DOMAIN batch.made : decisions'[Len(decisions) + k] = batch.made[k]
  BY <1>1, LogGrows DEF TypeInv, TypeOK
<1>3. \A i \in byBatch, k \in DOMAIN batch.made :
        Apart(decisions'[Len(decisions) + k], decisions'[i])
  BY <1>2 DEF SpacingInv
<1>4. \A k, l \in DOMAIN batch.made :
        Len(decisions) + k # Len(decisions) + l =>
          decisions'[Len(decisions) + k].agent # decisions'[Len(decisions) + l].agent
  <2>1. TAKE k, l \in DOMAIN batch.made
  <2>2. k # l => batch.made[k].agent # batch.made[l].agent
    BY DEF SpacingInv
  <2>3. QED
    BY <1>2, <2>2
<1>5. \A i, j \in byBatch :
        i # j => Apart(decisions'[i], decisions'[j]) \/ Apart(decisions'[j], decisions'[i])
  BY <1>2 DEF SpacingInv, BatchSpacing, Apart
<1>6. \A i, j \in byBatch' :
        i # j => Apart(decisions'[i], decisions'[j]) \/ Apart(decisions'[j], decisions'[i])
  <2>1. TAKE i, j \in byBatch'
  <2>2. CASE i \in byBatch /\ j \in byBatch
    BY <1>5, <2>2
  <2>3. CASE i \in byBatch /\ j \notin byBatch
    BY <1>1, <1>3, <2>3
  <2>4. CASE i \notin byBatch /\ j \in byBatch
    BY <1>1, <1>3, <2>4
  <2>5. CASE i \notin byBatch /\ j \notin byBatch
    BY <1>1, <1>4, <2>5 DEF Apart
  <2>6. QED
    BY <2>2, <2>3, <2>4, <2>5
<1>7. BatchSpacing'
  BY <1>6 DEF BatchSpacing, Apart
<1>8. QED
  BY <1>1, <1>7 DEF SpacingInv

LEMMA SpacingStep ==
  ASSUME TypeInv, SpacingInv, [Next]_vars
  PROVE  SpacingInv'
<1> DEFINE Same == UNCHANGED <<decisions, byBatch>>
           Kept == batch'.made = batch.made /\ batch'.left \subseteq batch.left
                   /\ (batch'.tenant # None => batch'.now <= clock')
           Dropped == batch'.made = <<>> /\ (batch'.tenant # None => batch'.now <= clock')
<1>1. ASSUME Same, Kept \/ Dropped PROVE SpacingInv'
  BY <1>1, SpacingKeeps
<1>2. ASSUME UNCHANGED <<clock, batch>> PROVE Kept
  BY <1>2 DEF SpacingInv
<1>3. CASE UNCHANGED vars
  BY <1>1, <1>2, <1>3 DEF vars, dbVars
<1>4. ASSUME NEW t \in Tenants, BeginTenant(t) PROVE SpacingInv'
  <2>1. Same /\ batch'.made = <<>> /\ batch'.now = clock /\ clock' = clock
    BY <1>4 DEF BeginTenant, dbVars
  <2>2. clock \in Int
    BY ConstantsAssumption DEF TypeInv, TypeOK
  <2>3. QED
    BY <1>1, <2>1, <2>2
<1>5. ASSUME NEW a \in Agents, PassOver(a) PROVE SpacingInv'
  BY <1>1, <1>5 DEF PassOver, dbVars, SpacingInv, TypeInv, TypeOK
<1>6. ASSUME TenantFails \/ CrashBatch PROVE SpacingInv'
  <2>1. Same /\ batch'.made = <<>> /\ batch'.tenant = None
    BY <1>6 DEF TenantFails, CrashBatch, Asked, NoBatch, dbVars
  <2>2. QED
    BY <1>1, <2>1
<1>7. ASSUME Tick PROVE SpacingInv'
  <2>1. Same /\ clock' \in Int /\ clock' > clock
    BY <1>7, ConstantsAssumption DEF Tick, dbVars
  <2>2. batch' = batch \/ (batch'.made = <<>> /\ batch'.tenant = None)
    BY <1>7 DEF Tick, Asked, NoBatch
  <2>3. batch.tenant # None => batch.now <= clock /\ batch.now \in Int /\ clock \in Int
    BY TimesType DEF SpacingInv
  <2>4. QED
    BY <1>1, <2>1, <2>2, <2>3
<1>8. ASSUME NEW r \in Requests, CommitEvaluation(r) PROVE SpacingInv'
  <2>1. r \in Sessions
    BY DEF Sessions
  <2>2. decisions' = decisions \o tx[r].made /\ tx[r].made \in Seq(Row)
        /\ UNCHANGED <<clock, batch, byBatch>>
    BY <1>8, <2>1 DEF CommitEvaluation, TypeInv, TypeOK
  <2>3. \A i \in DOMAIN decisions : decisions'[i] = decisions[i]
    BY <2>2, LogGrows DEF TypeInv
  <2>4. QED
    BY <1>2, <2>2, <2>3, SpacingKeeps
<1>9. ASSUME NEW w \in Executors, CommitExecution(w) PROVE SpacingInv'
  <2>1. \A i \in DOMAIN decisions : /\ decisions'[i].agent = decisions[i].agent
                                   /\ decisions'[i].created = decisions[i].created
    BY <1>9, ExecutedRows DEF CommitExecution, TypeInv
  <2>2. UNCHANGED <<clock, batch, byBatch>>
    BY <1>9 DEF CommitExecution
  <2>3. QED
    BY <1>2, <2>1, <2>2, SpacingKeeps
<1>10. ASSUME NEW r \in Requests, NEW a \in Agents, EvaluateNow(r, a) PROVE SpacingInv'
  BY <1>1, <1>2, <1>10 DEF EvaluateNow, dbVars
<1>11. ASSUME NEW w \in Executors, FetchDue(w) PROVE SpacingInv'
  BY <1>1, <1>2, <1>11 DEF FetchDue, dbVars
<1>12. ASSUME NEW s \in Sessions, Abort(s) PROVE SpacingInv'
  BY <1>1, <1>2, <1>12 DEF Abort, dbVars
<1>13. ASSUME NEW a \in Agents, NEW f \in AgentFacts, AgentChanges(a, f) PROVE SpacingInv'
  BY <1>1, <1>2, <1>13 DEF AgentChanges
<1>14. QED
  BY <1>3, <1>4, <1>5, <1>6, <1>7, <1>8, <1>9, <1>10, <1>11, <1>12, <1>13,
     SpacingEvaluate, SpacingCommit DEF Next

\* However often the daily batch is late, dies or is delivered again, and
\* whatever is decided on request meanwhile, it takes no two decisions about
\* an agent within a day of each other.
THEOREM BatchKeepsDistance == Spec => []BatchSpacing
<1>1. Spec => [](TypeInv /\ SpacingInv)
  BY InitType, StepType, InitSpacing, SpacingStep, PTL DEF Spec
<1>2. SpacingInv => BatchSpacing
  BY DEF SpacingInv
<1>3. QED
  BY <1>1, <1>2, PTL
-----------------------------------------------------------------------------
(* The batch passes an agent over for no longer than its cadence.          *)

LastDay(i) == decisions[i].created \div Day

\* An agent of the tenant the batch has looked at and passed over, unless it
\* is one it never decides about.
Seen(a) ==
  /\ TenantOf[a] = batch.tenant /\ a \notin batch.left \cup AgentsIn(batch.made)
  /\ batch.read[a].state \notin {"lapsed", "terminated"}

\* The batch finishes with a tenant on the day it loaded its agents; those it
\* passes over are in their cadence, and one that changes meanwhile begins anew.
RoundOK ==
  batch.tenant # None =>
    /\ batch.now \div Day = Today
    /\ \A a \in Agents : /\ Seen(a) => WithinCadence(a, batch.read[a].state)
                         /\ agents[a] # batch.read[a] => passed[a] = {}

\* The days in passed come after every decision about the agent and, but for
\* a single one, within the cadence of one.
PassedOK(a) ==
  /\ \A i \in Of(a), d \in passed[a] : LastDay(i) < d
  /\ \A d \in passed[a] : d <= Today
  /\ \/ \E d \in Nat : passed[a] \subseteq {d}
     \/ \E i \in Of(a) : \A d \in passed[a] : d <= LastDay(i) + Cadence(agents[a].state)

SkipInv == RoundOK /\ \A a \in Agents : PassedOK(a)

LEMMA CadenceType == ASSUME NEW state PROVE Cadence(state) \in 1 .. 14
BY DEF Cadence

LEMMA CreatedType ==
  ASSUME TypeInv
  PROVE  \A i \in DOMAIN decisions : decisions[i].created \in Nat /\ LastDay(i) \in Nat
<1>1. Moments \subseteq Nat
  BY ConstantsAssumption
<1>2. \A i \in DOMAIN decisions : decisions[i] \in Row
  BY LenProperties, ElementOfSeq DEF TypeInv, TypeOK
<1>3. \A i \in DOMAIN decisions : decisions[i].created \in Nat
  BY <1>1, <1>2 DEF Row
<1>4. QED
  BY <1>3 DEF LastDay, Day

LEMMA InitSkip == Init => SkipInv
BY DEF Init, SkipInv, RoundOK, PassedOK, Asked, NoBatch

\* The invariant bounds the days.
LEMMA SkipsBounded ==
  ASSUME TypeInv, SkipInv
  PROVE  SkipBound
<1> SUFFICES ASSUME NEW a \in Agents PROVE Cardinality(passed[a]) <= Cadence(agents[a].state)
  BY DEF SkipBound
<1> DEFINE n == Cadence(agents[a].state)
<1>1. n \in 1 .. 14
  BY CadenceType
<1>2. passed[a] \in SUBSET Nat
  BY DEF TypeInv, TypeOK
<1> HIDE DEF n
<1>3. CASE \E d \in Nat : passed[a] \subseteq {d}
  <2>1. PICK d \in Nat : passed[a] \in SUBSET {d}
    BY <1>3
  <2>2. Cardinality({d}) = 1 /\ IsFiniteSet({d})
    BY FS_Singleton
  <2>3. Cardinality(passed[a]) <= 1 /\ Cardinality(passed[a]) \in Nat
    BY <2>1, <2>2, FS_Subset, FS_CardinalityType
  <2>4. QED
    BY <1>1, <2>3 DEF n
<1>4. CASE \E i \in Of(a) : \A d \in passed[a] : d <= LastDay(i) + n
  <2>1. PICK i \in Of(a) : \A d \in passed[a] : d <= LastDay(i) + n
    BY <1>4
  <2> DEFINE l == LastDay(i)
  <2>2. l \in Nat
    BY <2>1, CreatedType DEF Of
  <2>3. \A d \in passed[a] : l < d /\ d <= l + n
    BY <2>1 DEF SkipInv, PassedOK
  <2> HIDE DEF l
  <2>4. passed[a] \in SUBSET ((l + 1) .. (l + n))
    BY <1>1, <1>2, <2>2, <2>3
  <2>5. /\ IsFiniteSet((l + 1) .. (l + n))
        /\ Cardinality((l + 1) .. (l + n)) = n
    BY <1>1, <2>2, FS_Interval
  <2>6. Cardinality(passed[a]) <= n
    BY <2>4, <2>5, FS_Subset
  <2>7. QED
    BY <2>6 DEF n
<1>5. QED
  BY <1>3, <1>4 DEF SkipInv, PassedOK, n

\* Steps that decide nothing about an agent: it stays passed over on the days
\* it was, or begins anew.
LEMMA PassedKeeps ==
  ASSUME TypeInv, SkipInv, NEW a \in Agents, Of(a)' = Of(a),
         \A i \in Of(a) : LastDay(i)' = LastDay(i), Today <= Today', Today' \in Nat,
         passed'[a] = {} \/ (passed'[a] = passed[a] /\ agents'[a] = agents[a])
  PROVE  PassedOK(a)'
<1>1. CASE passed'[a] = {}
  BY <1>1 DEF PassedOK
<1>2. CASE passed'[a] = passed[a] /\ agents'[a] = agents[a]
  <2>1. PassedOK(a) /\ Today \in Nat /\ passed[a] \in SUBSET Nat
    BY TodayType DEF SkipInv, TypeInv, TypeOK
  <2>2. \A i \in Of(a)', d \in passed'[a] : LastDay(i)' < d
    BY <1>2, <2>1 DEF PassedOK
  <2>3. \A d \in passed'[a] : d <= Today'
    BY <1>2, <2>1 DEF PassedOK
  <2>4. CASE \E d \in Nat : passed[a] \subseteq {d}
    BY <1>2, <2>2, <2>3, <2>4 DEF PassedOK
  <2>5. CASE \E i \in Of(a) : \A d \in passed[a] : d <= LastDay(i) + Cadence(agents[a].state)
    BY <1>2, <2>2, <2>3, <2>5 DEF PassedOK
  <2>6. QED
    BY <2>1, <2>4, <2>5 DEF PassedOK
<1>3. QED
  BY <1>1, <1>2

\* Steps after which the batch is at the same tenant, or at none.
LEMMA RoundKeeps ==
  ASSUME TypeInv, SkipInv, Today' = Today,
         \A a \in Agents : \A i \in Of(a) :
           i \in Of(a)' /\ decisions'[i].created = decisions[i].created,
         batch'.tenant # None => UNCHANGED <<batch.tenant, batch.now, batch.read>>,
         batch'.tenant # None =>
           \A a \in Agents : Seen(a)' => Seen(a) \/ WithinCadence(a, batch.read[a].state),
         \A a \in Agents : passed'[a] = {} \/ (passed'[a] = passed[a] /\ agents'[a] = agents[a])
  PROVE  RoundOK'
<1> SUFFICES ASSUME batch'.tenant # None
             PROVE  (/\ batch.now \div Day = Today
                     /\ \A a \in Agents : /\ Seen(a) => WithinCadence(a, batch.read[a].state)
                                          /\ agents[a] # batch.read[a] => passed[a] = {})'
  BY DEF RoundOK
<1>1. batch'.tenant = batch.tenant /\ batch'.now = batch.now /\ batch'.read = batch.read
  OBVIOUS
<1>2. /\ batch.now \div Day = Today
      /\ \A a \in Agents : /\ Seen(a) => WithinCadence(a, batch.read[a].state)
                           /\ agents[a] # batch.read[a] => passed[a] = {}
  BY <1>1 DEF SkipInv, RoundOK
<1>3. ASSUME NEW a \in Agents, WithinCadence(a, batch.read[a].state)
      PROVE  WithinCadence(a, batch.read[a].state)'
  BY <1>1, <1>3 DEF WithinCadence
<1>4. ASSUME NEW a \in Agents
      PROVE  (Seen(a) => WithinCadence(a, batch.read[a].state))'
  BY <1>2, <1>3
<1>5. ASSUME NEW a \in Agents
      PROVE  (agents[a] # batch.read[a] => passed[a] = {})'
  BY <1>1, <1>2
<1>6. QED
  BY <1>1, <1>2, <1>4, <1>5

\* The rows about an agent, when those that come to the log are made.
LEMMA OfGrows ==
  ASSUME TypeInv, NEW made \in Seq(Row), decisions' = decisions \o made
  PROVE  \A a \in Agents :
           /\ \A i \in Of(a) : i \in Of(a)' /\ decisions'[i].created = decisions[i].created
                               /\ LastDay(i)' = LastDay(i)
           /\ a \notin AgentsIn(made) => Of(a)' = Of(a)
<1>1. /\ DOMAIN decisions \subseteq DOMAIN decisions'
      /\ \A i \in DOMAIN decisions : decisions'[i] = decisions[i]
      /\ \A i \in DOMAIN decisions' \ DOMAIN decisions :
           i - Len(decisions) \in DOMAIN made
           /\ decisions'[i] = made[i - Len(decisions)]
  <2> DEFINE log == decisions \o made
  <2>1. /\ Len(decisions) \in Nat /\ Len(made) \in Nat /\ DOMAIN decisions \subseteq DOMAIN log
        /\ DOMAIN log = 1 .. Len(decisions) + Len(made)
        /\ \A i \in DOMAIN decisions : log[i] = decisions[i]
        /\ \A k \in DOMAIN made : log[Len(decisions) + k] = made[k]
        /\ \A i \in DOMAIN log \ DOMAIN decisions : i - Len(decisions) \in DOMAIN made
    BY LogGrows DEF TypeInv
  <2>2. log = decisions'
    OBVIOUS
  <2> HIDE DEF log
  <2>3. \A i \in DOMAIN log \ DOMAIN decisions : Len(decisions) + (i - Len(decisions)) = i
    BY <2>1
  <2>4. QED
    BY <2>1, <2>2, <2>3
<1>2. TAKE a \in Agents
<1>3. \A i \in Of(a) : i \in Of(a)' /\ decisions'[i].created = decisions[i].created
                       /\ LastDay(i)' = LastDay(i)
  BY <1>1 DEF Of, LastDay
<1>4. ASSUME a \notin AgentsIn(made), NEW i \in Of(a)' PROVE i \in Of(a)
  <2>1. i \in DOMAIN decisions' /\ decisions'[i].agent = a
    BY <1>4 DEF Of
  <2>2. i \in DOMAIN decisions
    BY <1>1, <1>4, <2>1 DEF AgentsIn
  <2>3. QED
    BY <1>1, <2>1, <2>2 DEF Of
<1>5. QED
  BY <1>3, <1>4

\* Steps that leave the log's rows about the agents, and the day, alone.
LEMMA SkipKeeps ==
  ASSUME TypeInv, SkipInv, Today' = Today, DOMAIN decisions' = DOMAIN decisions,
         \A i \in DOMAIN decisions : /\ decisions'[i].agent = decisions[i].agent
                                    /\ decisions'[i].created = decisions[i].created,
         batch'.tenant # None => UNCHANGED <<batch.tenant, batch.now, batch.read>>,
         batch'.tenant # None =>
           \A a \in Agents : Seen(a)' => Seen(a) \/ WithinCadence(a, batch.read[a].state),
         \A a \in Agents : passed'[a] = {} \/ (passed'[a] = passed[a] /\ agents'[a] = agents[a])
  PROVE  SkipInv'
<1>1. \A a \in Agents :
        /\ Of(a)' = Of(a)
        /\ \A i \in Of(a) : decisions'[i].created = decisions[i].created /\ LastDay(i)' = LastDay(i)
  BY DEF Of, LastDay
<1>2. RoundOK'
  BY <1>1, RoundKeeps
<1>3. Today \in Nat /\ Today <= Today'
  BY TodayType DEF TypeInv
<1>4. \A a \in Agents : PassedOK(a)'
  BY <1>1, <1>3, PassedKeeps
<1>5. QED
  BY <1>2, <1>4 DEF SkipInv

LEMMA SkipCommit ==
  ASSUME TypeInv, SkipInv, CommitTenant
  PROVE  SkipInv'
<1>1. /\ batch.tenant # None /\ batch.left = {} /\ batch.made \in Seq(Row)
      /\ decisions' = decisions \o batch.made /\ batch'.tenant = None
      /\ UNCHANGED <<clock, agents>>
  BY DEF CommitTenant, NoBatch, TypeInv, TypeOK
<1>2. Today' = Today /\ Today \in Nat
  BY <1>1, TodayType DEF Today, TypeInv
<1>3. RoundOK'
  BY <1>1 DEF RoundOK
<1>4. ASSUME NEW a \in Agents PROVE PassedOK(a)'
  <2>1. passed'[a] = IF a \in AgentsIn(batch.made) THEN {}
                     ELSE IF a \in PassedOver THEN passed[a] \cup {Today} ELSE passed[a]
    BY DEF CommitTenant
  <2>2. CASE a \in AgentsIn(batch.made)
    BY <2>1, <2>2 DEF PassedOK
  <2>3. ASSUME a \notin AgentsIn(batch.made)
        PROVE  Of(a)' = Of(a) /\ \A i \in Of(a) : LastDay(i)' = LastDay(i)
    BY <1>1, <2>3, OfGrows
  <2>4. CASE a \notin AgentsIn(batch.made) /\ a \notin PassedOver
    <3>1. passed'[a] = passed[a] /\ agents'[a] = agents[a]
      BY <1>1, <2>1, <2>4
    <3>2. Today <= Today'
      BY <1>2
    <3>3. QED
      BY <1>2, <2>3, <2>4, <3>1, <3>2, PassedKeeps
  <2>5. CASE a \notin AgentsIn(batch.made) /\ a \in PassedOver
    <3>1. passed'[a] = passed[a] \cup {Today}
      BY <2>1, <2>5
    <3>2. Of(a)' = Of(a) /\ \A i \in Of(a) : LastDay(i)' = LastDay(i)
      BY <2>3, <2>5
    <3>3. \A i \in Of(a) : LastDay(i) < Today
      BY <2>5 DEF PassedOver, LastDay
    <3>4. PassedOK(a) /\ passed[a] \in SUBSET Nat
      BY DEF SkipInv, TypeInv, TypeOK
    <3>5. \A i \in Of(a)', d \in passed'[a] : LastDay(i)' < d
      BY <3>1, <3>2, <3>3, <3>4 DEF PassedOK
    <3>6. \A d \in passed'[a] : d <= Today'
      BY <1>2, <3>1, <3>4 DEF PassedOK
    <3>7. CASE agents[a] # batch.read[a]
      <4>1. passed[a] = {}
        BY <1>1, <3>7 DEF SkipInv, RoundOK
      <4>2. passed'[a] \subseteq {Today}
        BY <3>1, <4>1
      <4>3. QED
        BY <1>2, <3>5, <3>6, <4>2 DEF PassedOK
    <3>8. CASE agents[a] = batch.read[a]
      <4> DEFINE n == Cadence(agents[a].state)
      <4>1. WithinCadence(a, agents[a].state) /\ batch.now \div Day = Today
        BY <1>1, <2>5, <3>8 DEF PassedOver, Seen, SkipInv, RoundOK
      <4>2. PICK i \in Of(a) : Days(decisions[i].created, batch.now) < n
        BY <4>1 DEF WithinCadence
      <4>3. decisions[i].created \in Nat /\ batch.now \in Int /\ n \in 1 .. 14
        BY <1>1, <4>2, CreatedType, TimesType, CadenceType DEF Of
      <4>4. \A c, t, k \in Int : (t - c) \div 48 < k => t \div 48 <= c \div 48 + k
        BY SMTT(60)
      <4> HIDE DEF n
      <4>5. Today <= LastDay(i) + n
        BY <4>1, <4>2, <4>3, <4>4 DEF Days, Day, LastDay
      <4>6. LastDay(i) \in Nat /\ i \in Of(a)' /\ LastDay(i)' = LastDay(i)
        BY <3>2, <4>2, CreatedType DEF Of
      <4>7. \A d \in passed'[a] : d <= LastDay(i)' + n
        BY <1>2, <3>1, <3>4, <4>3, <4>5, <4>6 DEF PassedOK
      <4>8. n' = n
        BY <1>1 DEF n
      <4>9. QED
        BY <3>5, <3>6, <4>6, <4>7, <4>8 DEF PassedOK, n
    <3>9. QED
      BY <3>7, <3>8
  <2>6. QED
    BY <2>2, <2>4, <2>5
<1>5. QED
  BY <1>3, <1>4 DEF SkipInv

LEMMA SkipEvaluation ==
  ASSUME TypeInv, SkipInv, NEW r \in Requests, CommitEvaluation(r)
  PROVE  SkipInv'
<1>1. r \in Sessions
  BY DEF Sessions
<1>2. /\ tx[r].made \in Seq(Row) /\ decisions' = decisions \o tx[r].made
      /\ UNCHANGED <<clock, agents, batch>>
      /\ passed' = [a \in Agents |-> IF a \in AgentsIn(tx[r].made) THEN {} ELSE passed[a]]
  BY <1>1 DEF CommitEvaluation, TypeInv, TypeOK
<1>3. Today' = Today /\ Today \in Nat /\ Today <= Today'
  BY <1>2, TodayType DEF Today, TypeInv
<1>4. \A a \in Agents :
        /\ \A i \in Of(a) : i \in Of(a)' /\ decisions'[i].created = decisions[i].created
                            /\ LastDay(i)' = LastDay(i)
        /\ a \notin AgentsIn(tx[r].made) => Of(a)' = Of(a)
  BY <1>2, OfGrows
<1>5. \A a \in Agents : passed'[a] = {} \/ (passed'[a] = passed[a] /\ agents'[a] = agents[a])
  BY <1>2
<1>6. \A a \in Agents : Seen(a)' => Seen(a)
  BY <1>2 DEF Seen
<1>7. RoundOK'
  BY <1>2, <1>3, <1>4, <1>5, <1>6, RoundKeeps
<1>8. ASSUME NEW a \in Agents PROVE PassedOK(a)'
  <2>1. CASE a \in AgentsIn(tx[r].made)
    BY <1>2, <2>1 DEF PassedOK
  <2>2. CASE a \notin AgentsIn(tx[r].made)
    BY <1>3, <1>4, <1>5, <2>2, PassedKeeps
  <2>3. QED
    BY <2>1, <2>2
<1>9. QED
  BY <1>7, <1>8 DEF SkipInv

LEMMA SkipBegin ==
  ASSUME TypeInv, SkipInv, NEW t \in Tenants, BeginTenant(t)
  PROVE  SkipInv'
<1>1. /\ batch'.tenant = t /\ batch'.now = clock /\ batch'.read = agents
      /\ batch'.left = {a \in Agents : TenantOf[a] = t}
      /\ UNCHANGED <<clock, agents, decisions, passed>>
  BY DEF BeginTenant, dbVars
<1>2. Today' = Today /\ Today \in Nat /\ Today <= Today'
  BY <1>1, TodayType DEF Today, TypeInv
<1>3. batch'.now \div Day = Today'
  BY <1>1 DEF Today
<1>4. \A a \in Agents : ~Seen(a)' /\ agents'[a] = batch'.read[a]
  BY <1>1 DEF Seen
<1>5. RoundOK'
  BY <1>3, <1>4 DEF RoundOK
<1>6. \A a \in Agents : Of(a)' = Of(a) /\ \A i \in Of(a) : LastDay(i)' = LastDay(i)
  BY <1>1 DEF Of, LastDay
<1>7. \A a \in Agents : PassedOK(a)'
  BY <1>1, <1>2, <1>6, PassedKeeps
<1>8. QED
  BY <1>5, <1>7 DEF SkipInv

LEMMA SkipPassOver ==
  ASSUME TypeInv, SkipInv, NEW b \in Agents, PassOver(b) \/ Evaluate(b)
  PROVE  SkipInv'
<1> DEFINE row == NewRow(b, batch.read[b], batch.now)
<1>1. /\ b \in batch.left /\ batch.tenant # None
      /\ UNCHANGED <<clock, agents, decisions, passed, batch.tenant, batch.now, batch.read>>
      /\ batch'.left = batch.left \ {b}
  BY DEF PassOver, Evaluate, dbVars, TypeInv, TypeOK, SessionsOK
<1>2. Today' = Today
  BY <1>1 DEF Today
<1>3. CASE PassOver(b)
  <2>1. /\ batch'.made = batch.made
        /\ batch.read[b].state \in {"lapsed", "terminated"} \/ WithinCadence(b, batch.read[b].state)
    BY <1>3 DEF PassOver, TypeInv, TypeOK
  <2>2. \A a \in Agents : Seen(a)' => Seen(a) \/ WithinCadence(a, batch.read[a].state)
    BY <1>1, <2>1 DEF Seen
  <2>3. QED
    BY <1>1, <1>2, <2>2, SkipKeeps
<1>4. CASE Evaluate(b)
  <2>1. batch'.made = Append(batch.made, row) /\ batch.made \in Seq(Row) /\ batch.read[b] \in AgentFacts
    BY <1>1, <1>4 DEF Evaluate, TypeInv, TypeOK, SessionsOK
  <2>2. row \in Row /\ row.agent = b
    BY <2>1, RowType DEF TypeInv
  <2> HIDE DEF row
  <2>3. /\ DOMAIN batch'.made = 1 .. Len(batch.made) + 1 /\ DOMAIN batch.made = 1 .. Len(batch.made)
        /\ batch'.made[Len(batch.made) + 1] = row /\ Len(batch.made) \in Nat
        /\ \A k \in 1 .. Len(batch.made) : batch'.made[k] = batch.made[k]
    BY <2>1, <2>2, AppendProperties, LenProperties
  <2>4. b \in AgentsIn(batch'.made) /\ AgentsIn(batch.made) \subseteq AgentsIn(batch'.made)
    BY <2>2, <2>3 DEF AgentsIn
  <2>5. \A a \in Agents : Seen(a)' => Seen(a)
    BY <1>1, <2>4 DEF Seen
  <2>6. QED
    BY <1>1, <1>2, <2>5, SkipKeeps
<1>5. QED
  BY <1>3, <1>4

LEMMA SkipTick ==
  ASSUME TypeInv, SkipInv, Tick
  PROVE  SkipInv'
<1>1. /\ clock \in Nat /\ clock' \in Nat /\ clock' > clock /\ UNCHANGED <<agents, decisions, passed>>
      /\ clock' \div Day > Today => batch = NoBatch
      /\ batch' = IF clock' \div Day > Today THEN Asked ELSE batch
  BY ConstantsAssumption DEF Tick, dbVars, TypeInv, TypeOK
<1>2. Today \in Nat /\ Today' \in Nat /\ Today <= Today'
  <2>1. \A x, y \in Nat : x \div 48 \in Nat /\ (x < y => x \div 48 <= y \div 48)
    OBVIOUS
  <2>2. Today = clock \div 48 /\ Today' = clock' \div 48
    BY DEF Today, Day
  <2>3. QED
    BY <1>1, <2>1, <2>2
<1>3. CASE Today' = Today
  <2>1. batch' = batch
    BY <1>1, <1>2, <1>3 DEF Today
  <2>2. \A a \in Agents : Seen(a)' => Seen(a)
    BY <2>1 DEF Seen
  <2>3. QED
    BY <1>1, <1>3, <2>1, <2>2, SkipKeeps
<1>4. CASE Today' # Today
  <2>1. batch' = Asked
    BY <1>1, <1>2, <1>4 DEF Today
  <2>2. batch'.tenant = None
    BY <2>1 DEF Asked, NoBatch
  <2>3. RoundOK'
    BY <2>2 DEF RoundOK
  <2>4. \A a \in Agents : Of(a)' = Of(a) /\ \A i \in Of(a) : LastDay(i)' = LastDay(i)
    BY <1>1 DEF Of, LastDay
  <2>5. \A a \in Agents : PassedOK(a)'
    BY <1>1, <1>2, <2>4, PassedKeeps
  <2>6. QED
    BY <2>3, <2>5 DEF SkipInv
<1>5. QED
  BY <1>3, <1>4

LEMMA SkipStep ==
  ASSUME TypeInv, SkipInv, [Next]_vars
  PROVE  SkipInv'
<1> DEFINE Same == UNCHANGED <<clock, decisions>>
           Kept == UNCHANGED <<agents, passed>>
<1>1. ASSUME Same, batch'.tenant # None => batch' = batch,
             \A a \in Agents : passed'[a] = {} \/ (passed'[a] = passed[a] /\ agents'[a] = agents[a])
      PROVE  SkipInv'
  <2>1. Today' = Today
    BY <1>1 DEF Today
  <2>2. batch'.tenant # None =>
          \A a \in Agents : Seen(a)' => Seen(a) \/ WithinCadence(a, batch.read[a].state)
    BY <1>1 DEF Seen
  <2>3. QED
    BY <1>1, <2>1, <2>2, SkipKeeps
<1>2. CASE UNCHANGED vars
  BY <1>1, <1>2 DEF vars, dbVars
<1>3. CASE TenantFails \/ CrashBatch
  <2>1. Same /\ Kept /\ batch'.tenant = None
    BY <1>3 DEF TenantFails, CrashBatch, Asked, NoBatch, dbVars
  <2>2. QED
    BY <1>1, <2>1
<1>4. ASSUME NEW r \in Requests, NEW a \in Agents, EvaluateNow(r, a) PROVE SkipInv'
  BY <1>1, <1>4 DEF EvaluateNow, dbVars
<1>5. ASSUME NEW w \in Executors, FetchDue(w) PROVE SkipInv'
  BY <1>1, <1>5 DEF FetchDue, dbVars
<1>6. ASSUME NEW s \in Sessions, Abort(s) PROVE SkipInv'
  BY <1>1, <1>6 DEF Abort, dbVars
<1>7. ASSUME NEW a \in Agents, NEW f \in AgentFacts, AgentChanges(a, f) PROVE SkipInv'
  <2>1. Same /\ batch' = batch /\ agents' = [agents EXCEPT ![a] = f]
        /\ passed' = [passed EXCEPT ![a] = {}]
    BY <1>7 DEF AgentChanges
  <2>2. \A b \in Agents : passed'[b] = {} \/ (passed'[b] = passed[b] /\ agents'[b] = agents[b])
    BY <2>1 DEF TypeInv, TypeOK
  <2>3. QED
    BY <1>1, <2>1, <2>2
<1>8. ASSUME NEW w \in Executors, CommitExecution(w) PROVE SkipInv'
  <2>1. /\ DOMAIN decisions' = DOMAIN decisions
        /\ \A i \in DOMAIN decisions : /\ decisions'[i].agent = decisions[i].agent
                                      /\ decisions'[i].created = decisions[i].created
    BY <1>8, ExecutedRows DEF CommitExecution, TypeInv
  <2>2. UNCHANGED <<clock, batch>> /\ Kept
    BY <1>8 DEF CommitExecution
  <2>3. Today' = Today /\ \A a \in Agents : Seen(a)' => Seen(a)
    BY <2>2 DEF Today, Seen
  <2>4. QED
    BY <2>1, <2>2, <2>3, SkipKeeps
<1>9. QED
  BY <1>2, <1>3, <1>4, <1>5, <1>6, <1>7, <1>8, SkipBegin, SkipPassOver, SkipCommit, SkipEvaluation,
     SkipTick DEF Next

\* The daily batch passes an agent over on at most as many days as the cadence
\* of its state says, although its decisions are created after the time it
\* measures from, the worker dies and runs again, the agent changes while the
\* batch holds the copy it loaded, and decisions on request come in between.
THEOREM SkippedWithinCadence == Spec => []SkipBound
<1>1. Spec => [](TypeInv /\ SkipInv)
  BY InitType, StepType, InitSkip, SkipStep, PTL DEF Spec
<1>2. TypeInv /\ SkipInv => SkipBound
  BY SkipsBounded
<1>3. QED
  BY <1>1, <1>2, PTL
=============================================================================
