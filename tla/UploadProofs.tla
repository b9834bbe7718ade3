----------------------------- MODULE UploadProofs -----------------------------
(***************************************************************************)
(* Proofs about IntegrationUpload, for any files and events, any number of *)
(* them under way, any tenants and mappings, and any number of restarts.   *)
(***************************************************************************)
EXTENDS IntegrationUpload, FiniteSetTheorems, SequenceTheorems, TLAPS

-----------------------------------------------------------------------------
(* What a transaction holds.                                               *)

Raw(u, i) == Request[u].rows[i]
Size(u) == Len(Request[u].rows)
Busy == {"find", "write", "insert"}

\* A transaction is a record; its rows, keys and codes are whatever the files hold.
IsTxn(t) ==
  t \in [pc : {t.pc}, at : {t.at}, row : {t.row}, type : {t.type}, known : {t.known}, dead : {t.dead},
         agents : {t.agents}, signals : {t.signals}, results : {t.results}]
IsSeq(s) == s \in Seq({s[i] : i \in DOMAIN s})

\* Row i was processed, or holds a value that no field can take.
Explains(u, t, i) ==
  t.results[i].result = "processed" \/ \E x \in DOMAIN Raw(u, i) : Raw(u, i)[x] = Bad

SignalOf(u, t, s) ==
  s.tenant = Tenant(u) /\ s.req = u /\ s.at \in 1..(t.at - 1) /\ t.results[s.at].result = "processed"
WriteOf(u, t, w) == w.req = u /\ w.at \in 1..t.at /\ (w.at < t.at => Explains(u, t, w.at))

\* Whatever a transaction is doing: one result per row so far, its signals and its agents'
\* data explained by these results, but for the row it is at.
Base(u, t) ==
  /\ IsTxn(t) /\ t.at \in Nat \ {0} /\ t.at <= Size(u) + 1
  /\ IsSeq(t.results) /\ Len(t.results) = t.at - 1
  /\ \A s \in t.signals : SignalOf(u, t, s)
  /\ \A s, r \in t.signals : s.key = r.key => s = r
  /\ \A c \in DOMAIN t.agents : WriteOf(u, t, t.agents[c])
Settled(t) == \A c \in DOMAIN t.agents : t.agents[c].at < t.at
RowFrom(u, t) == \A f \in DOMAIN t.row : \E x \in DOMAIN Raw(u, t.at) : t.row[f] = Raw(u, t.at)[x]

TxnOK(u, t) ==
  /\ Base(u, t) /\ t.pc \in Busy \cup {"idle", "row", "done"}
  /\ t.pc = "idle" => t = Idle
  /\ t.pc \in Busy => t.at <= Size(u) /\ RowFrom(u, t)
  /\ t.pc = "done" => t.at = Size(u) + 1
  /\ t.pc = "insert" => Key(t.type, t.row) \notin Keys(t.signals)
  /\ t.pc # "insert" => Settled(t)

\* Unless the session broke, a row counted for a key has a signal of that key.
KeysIn(t, keys) ==
  ~t.dead => \A i \in DOMAIN t.results : t.results[i].key # None => t.results[i].key \in Keys(t.signals) \cup keys
KeysTold(u, t) == KeysIn(t, StoredKeys(u))

\* What is committed was left by a transaction that ended, and its results explain it.
SignalTold(s, books) ==
  s.req \in Requests /\ books[s.req].pc = "done" /\ SignalOf(s.req, books[s.req], s)
WriteTold(w, books) ==
  /\ w.req \in Requests /\ books[w.req].pc = "done"
  /\ w.at \in 1..Size(w.req) /\ Explains(w.req, books[w.req], w.at)

UploadInv ==
  /\ DOMAIN txn = Requests /\ DOMAIN agents = Tenants
  /\ \A u \in Requests : TxnOK(u, txn[u]) /\ KeysTold(u, txn[u]) /\ (Done(u) => ~txn[u].dead)
  /\ \A s, r \in signals : s.tenant = r.tenant /\ s.key = r.key => s = r
  /\ \A s \in signals : SignalTold(s, txn)
  /\ \A u \in Requests : Done(u) => txn[u].signals \subseteq signals
  /\ \A u \in Requests : Open(u) => Keys(txn[u].signals) \cap StoredKeys(u) = {}
  /\ \A u, v \in Requests : Open(u) /\ v \in Peers(u) => Keys(txn[u].signals) \cap Keys(txn[v].signals) = {}
  /\ \A t \in Tenants : \A c \in DOMAIN agents[t] : agents[t][c] # None => WriteTold(agents[t][c], txn)

\* A source that no other tenant maps has the mapping of the tenant, while one of its files
\* is under way, and that or the default one at other times.
Alone(u) == \A t \in Tenants \ {Tenant(u)} : DOMAIN Overrides[t][Request[u].source] = {}
MappingInv ==
  /\ DOMAIN mapping = DOMAIN Defaults
  /\ \A u \in Requests : Alone(u) =>
       /\ mapping[Request[u].source] \in {Defaults[Request[u].source], Configured(u)}
       /\ Open(u) /\ Request[u].event = None => mapping[Request[u].source] = Configured(u)
       /\ AsConfigured(u)
-----------------------------------------------------------------------------
(* Records and sequences.                                                  *)

\* What a handler makes of its transaction, one operator per change.
Routed(t, row, type) == [t EXCEPT !.pc = "find", !.row = row, !.type = type]
Looked(t, known) == [t EXCEPT !.pc = "write", !.known = known]
Writing(t, u, c) == [t EXCEPT !.agents = Over(@, [x \in {c} |-> [req |-> u, at |-> t.at]])]
Inserting(t) == [t EXCEPT !.pc = "insert"]
Dropped(t) == [t EXCEPT !.agents = <<>>, !.signals = {}, !.dead = TRUE]
Holding(t, s) == [t EXCEPT !.signals = @ \cup {s}]
Ended(t) == [t EXCEPT !.pc = "done"]

\* Two records with the same fields but for those named.
SameBook(d, t) == d.at = t.at /\ d.results = t.results
SameData(d, t) == d.agents = t.agents /\ d.signals = t.signals /\ d.dead = t.dead
SameRow(d, t) == d.row = t.row /\ d.type = t.type /\ d.at = t.at

LEMMA Fields ==
  ASSUME NEW t, IsTxn(t)
  PROVE  /\ \A row, type : LET d == Routed(t, row, type)
              IN IsTxn(d) /\ d.pc = "find" /\ d.row = row /\ d.type = type /\ SameBook(d, t) /\ SameData(d, t)
         /\ \A known : LET d == Looked(t, known)
              IN IsTxn(d) /\ d.pc = "write" /\ SameRow(d, t) /\ SameBook(d, t) /\ SameData(d, t)
         /\ LET d == Inserting(t)
            IN IsTxn(d) /\ d.pc = "insert" /\ SameRow(d, t) /\ SameBook(d, t) /\ SameData(d, t)
         /\ LET d == Ended(t)
            IN IsTxn(d) /\ d.pc = "done" /\ SameRow(d, t) /\ SameBook(d, t) /\ SameData(d, t)
         /\ LET d == Dropped(t)
            IN /\ IsTxn(d) /\ d.pc = t.pc /\ SameRow(d, t) /\ SameBook(d, t)
               /\ d.agents = <<>> /\ d.signals = {} /\ d.dead = TRUE
<1>1. ASSUME NEW row, NEW type
      PROVE  LET d == Routed(t, row, type)
             IN IsTxn(d) /\ d.pc = "find" /\ d.row = row /\ d.type = type /\ SameBook(d, t) /\ SameData(d, t)
  BY DEF IsTxn, SameBook, SameData, Routed
<1>2. ASSUME NEW known
      PROVE  LET d == Looked(t, known)
             IN IsTxn(d) /\ d.pc = "write" /\ SameRow(d, t) /\ SameBook(d, t) /\ SameData(d, t)
  BY DEF IsTxn, SameBook, SameData, SameRow, Looked
<1>3. LET d == Inserting(t)
      IN IsTxn(d) /\ d.pc = "insert" /\ SameRow(d, t) /\ SameBook(d, t) /\ SameData(d, t)
  BY DEF IsTxn, SameBook, SameData, SameRow, Inserting
<1>4. LET d == Ended(t)
      IN IsTxn(d) /\ d.pc = "done" /\ SameRow(d, t) /\ SameBook(d, t) /\ SameData(d, t)
  BY DEF IsTxn, SameBook, SameData, SameRow, Ended
<1>5. LET d == Dropped(t)
      IN /\ IsTxn(d) /\ d.pc = t.pc /\ SameRow(d, t) /\ SameBook(d, t)
         /\ d.agents = <<>> /\ d.signals = {} /\ d.dead = TRUE
  BY DEF IsTxn, SameBook, SameRow, Dropped
<1>6. QED
  BY <1>1, <1>2, <1>3, <1>4, <1>5

LEMMA WritingFields ==
  ASSUME NEW t, IsTxn(t), NEW u, NEW c
  PROVE  LET d == Writing(t, u, c)
         IN  /\ IsTxn(d) /\ d.pc = t.pc /\ SameRow(d, t) /\ SameBook(d, t)
             /\ d.signals = t.signals /\ d.dead = t.dead
             /\ d.agents = Over(t.agents, [x \in {c} |-> [req |-> u, at |-> t.at]])
BY DEF IsTxn, SameBook, SameRow, Writing

LEMMA CountedFields ==
  ASSUME NEW t, IsTxn(t), NEW result, NEW key
  PROVE  LET d == Counted(t, result, key)
         IN  /\ IsTxn(d) /\ d.pc = "row" /\ d.at = t.at + 1 /\ SameData(d, t)
             /\ d.results = Append(t.results, [result |-> result, key |-> key])
BY DEF IsTxn, SameData, Counted

LEMMA CountedSignals ==
  ASSUME NEW t, IsTxn(t), NEW result, NEW key
  PROVE  Counted(t, result, key).signals = t.signals
BY DEF IsTxn, Counted

LEMMA HoldingFields ==
  ASSUME NEW t, IsTxn(t), NEW s
  PROVE  LET d == Holding(t, s)
         IN  /\ IsTxn(d) /\ d.pc = t.pc /\ SameRow(d, t) /\ SameBook(d, t)
             /\ d.agents = t.agents /\ d.dead = t.dead /\ d.signals = t.signals \cup {s}
BY DEF IsTxn, SameBook, SameRow, Holding

\* A row's result is put behind the others.
LEMMA AppendSeq ==
  ASSUME NEW s, IsSeq(s), NEW x
  PROVE  /\ IsSeq(Append(s, x)) /\ Len(Append(s, x)) = Len(s) + 1 /\ Len(s) \in Nat
         /\ DOMAIN s = 1..Len(s) /\ DOMAIN Append(s, x) = 1..(Len(s) + 1)
         /\ \A i \in 1..Len(s) : Append(s, x)[i] = s[i]
         /\ Append(s, x)[Len(s) + 1] = x
<1> DEFINE S == {s[i] : i \in DOMAIN s} \cup {x}
           a == Append(s, x)
<1>1. s \in Seq(S) /\ x \in S
  <2>1. {s[i] : i \in DOMAIN s} \subseteq S /\ x \in S
    OBVIOUS
  <2>2. QED
    BY <2>1, SeqMonotonic DEF IsSeq
<1> HIDE DEF S
<1>2. /\ a \in Seq(S) /\ Len(a) = Len(s) + 1 /\ Len(s) \in Nat
      /\ DOMAIN s = 1..Len(s) /\ DOMAIN a = 1..(Len(s) + 1)
      /\ \A i \in 1..Len(s) : a[i] = s[i] /\ a[Len(s) + 1] = x
  BY <1>1, AppendProperties, LenProperties
<1>3. a[Len(s) + 1] = x
  BY <1>1, AppendProperties
<1>4. IsSeq(a)
  <2> HIDE DEF a
  <2>1. {a[i] : i \in DOMAIN a} = Range(a)
    BY DEF Range
  <2>2. a \in Seq(Range(a))
    BY <1>2, SeqOfRange
  <2>3. QED
    BY <2>1, <2>2 DEF IsSeq
<1>5. QED
  BY <1>2, <1>3, <1>4 DEF a
-----------------------------------------------------------------------------
(* What a handler keeps of its transaction.                                *)

LEMMA SizeNat == \A u \in Requests : Size(u) \in Nat /\ DOMAIN Request[u].rows = 1..Size(u)
BY UploadAssumption, LenProperties DEF Size

LEMMA IdleOK ==
  ASSUME NEW u \in Requests
  PROVE  TxnOK(u, Idle) /\ KeysTold(u, Idle) /\ Idle.signals = {} /\ Idle.pc = "idle" /\ ~Idle.dead
<1>1. /\ IsTxn(Idle) /\ Idle.pc = "idle" /\ Idle.at = 1 /\ Idle.agents = <<>> /\ Idle.signals = {}
      /\ Idle.results = <<>> /\ ~Idle.dead
  BY DEF Idle, IsTxn
<1>2. DOMAIN Idle.agents = {} /\ DOMAIN Idle.results = {}
  BY <1>1
<1>3. IsSeq(Idle.results) /\ Len(Idle.results) = 0
  BY <1>1, EmptySeq DEF IsSeq
<1>4. Size(u) \in Nat
  BY SizeNat
<1>5. QED
  BY <1>1, <1>2, <1>3, <1>4 DEF TxnOK, Base, Settled, Busy, KeysTold, KeysIn

\* A change that adds nothing to the books.
LEMMA BaseSame ==
  ASSUME NEW u \in Requests, NEW t, NEW d, Base(u, t), IsTxn(d), SameBook(d, t),
         d.signals \subseteq t.signals, d.agents \in {t.agents, <<>>}
  PROVE  Base(u, d)
<1>1. d.at = t.at /\ d.results = t.results
  BY DEF SameBook
<1>2. DOMAIN d.agents = {} \/ d.agents = t.agents
  OBVIOUS
<1>3. QED
  BY <1>1, <1>2 DEF Base, SignalOf, WriteOf, Explains

\* The agent's row is written on behalf of the row at hand.
LEMMA BaseWriting ==
  ASSUME NEW u \in Requests, NEW t, NEW c, Base(u, t)
  PROVE  Base(u, Writing(t, u, c))
<1> DEFINE d == Writing(t, u, c)
           w == [req |-> u, at |-> t.at]
           g == [x \in {c} |-> w]
<1>1. /\ IsTxn(d) /\ d.at = t.at /\ d.results = t.results /\ d.signals = t.signals /\ d.agents = Over(t.agents, g)
  <2>1. IsTxn(t)
    BY DEF Base
  <2>2. QED
    BY <2>1 DEF IsTxn, Writing
<1>2. w.req = u /\ w.at = t.at
  OBVIOUS
<1>3. DOMAIN g = {c} /\ \A x \in {c} : g[x] = w
  OBVIOUS
<1> HIDE DEF d, w, g
<1>4. \A x \in DOMAIN d.agents : d.agents[x] = w \/ (x \in DOMAIN t.agents /\ d.agents[x] = t.agents[x])
  BY <1>1, <1>3 DEF Over
<1>5. t.at \in Nat \ {0}
  BY DEF Base
<1>6. WriteOf(u, d, w)
  BY <1>1, <1>2, <1>5 DEF WriteOf
<1>7. ASSUME NEW x \in DOMAIN d.agents PROVE WriteOf(u, d, d.agents[x])
  <2>1. CASE d.agents[x] = w
    BY <1>6, <2>1
  <2>2. CASE x \in DOMAIN t.agents /\ d.agents[x] = t.agents[x]
    BY <1>1, <2>2 DEF Base, WriteOf, Explains
  <2>3. QED
    BY <1>4, <2>1, <2>2
<1>8. QED
  BY <1>1, <1>7 DEF Base, SignalOf, d

\* The row's result explains what was written for it.
LEMMA CountedOK ==
  ASSUME NEW u \in Requests, NEW t, NEW result, NEW key, Base(u, t), t.at <= Size(u),
         \A c \in DOMAIN t.agents : t.agents[c].at = t.at =>
           result = "processed" \/ \E x \in DOMAIN Raw(u, t.at) : Raw(u, t.at)[x] = Bad
  PROVE  TxnOK(u, Counted(t, result, key)) /\ Counted(t, result, key).pc = "row"
<1> DEFINE d == Counted(t, result, key)
           x == [result |-> result, key |-> key]
<1>1. /\ IsTxn(d) /\ d.pc = "row" /\ d.at = t.at + 1 /\ d.agents = t.agents /\ d.signals = t.signals
      /\ d.results = Append(t.results, x)
  BY CountedFields DEF Base, SameData
<1>2. x.result = result
  OBVIOUS
<1> HIDE DEF d, x
<1>3. /\ t.at \in Nat \ {0} /\ IsSeq(t.results) /\ Len(t.results) = t.at - 1 /\ Size(u) \in Nat
  BY SizeNat DEF Base
<1>4. /\ IsSeq(d.results) /\ Len(d.results) = d.at - 1
      /\ \A i \in 1..(t.at - 1) : d.results[i] = t.results[i]
      /\ d.results[t.at].result = result
  <2>1. Len(t.results) + 1 = t.at
    BY <1>3
  <2>2. d.results[t.at] = x /\ Len(d.results) = t.at
    BY <1>1, <1>3, <2>1, AppendSeq
  <2>3. QED
    BY <1>1, <1>2, <1>3, <2>2, AppendSeq
<1>5. d.at \in Nat \ {0} /\ d.at <= Size(u) + 1
  BY <1>1, <1>3
<1>6. ASSUME NEW s \in d.signals PROVE SignalOf(u, d, s)
  <2>1. SignalOf(u, t, s)
    BY <1>1 DEF Base
  <2>2. s.at \in 1..(t.at - 1) /\ s.at \in 1..(d.at - 1)
    BY <1>1, <1>3, <2>1 DEF SignalOf
  <2>3. QED
    BY <1>4, <2>1, <2>2 DEF SignalOf
<1>7. ASSUME NEW c \in DOMAIN d.agents PROVE WriteOf(u, d, d.agents[c]) /\ d.agents[c].at < d.at
  <2> DEFINE w == t.agents[c]
  <2>1. WriteOf(u, t, w) /\ d.agents[c] = w
    BY <1>1 DEF Base
  <2>2. w.at \in 1..t.at /\ w.req = u
    BY <2>1 DEF WriteOf
  <2>3. Explains(u, d, w.at)
    <3>1. CASE w.at < t.at
      <4>1. Explains(u, t, w.at) /\ w.at \in 1..(t.at - 1)
        BY <1>3, <2>1, <2>2, <3>1 DEF WriteOf
      <4>2. QED
        BY <1>4, <4>1 DEF Explains
    <3>2. CASE w.at = t.at
      BY <1>1, <1>4, <3>2 DEF Explains
    <3>3. QED
      BY <1>3, <2>2, <3>1, <3>2
  <2>4. w.at \in 1..d.at /\ w.at < d.at
    BY <1>1, <1>3, <2>2
  <2>5. QED
    BY <2>1, <2>2, <2>3, <2>4 DEF WriteOf
<1>8. \A s, r \in d.signals : s.key = r.key => s = r
  BY <1>1 DEF Base
<1>9. Base(u, d) /\ Settled(d)
  BY <1>1, <1>4, <1>5, <1>6, <1>7, <1>8 DEF Base, Settled
<1>10. QED
  BY <1>1, <1>9 DEF TxnOK, Busy, d

LEMMA CountedIn ==
  ASSUME NEW t, IsTxn(t), IsSeq(t.results), NEW result, NEW key, NEW keys, KeysIn(t, keys),
         key # None /\ ~t.dead => key \in Keys(t.signals) \cup keys
  PROVE  KeysIn(Counted(t, result, key), keys)
<1> DEFINE d == Counted(t, result, key)
           x == [result |-> result, key |-> key]
<1>1. d.dead = t.dead /\ d.signals = t.signals /\ d.results = Append(t.results, x)
  BY CountedFields DEF SameData
<1>2. x.key = key
  OBVIOUS
<1> HIDE DEF d, x
<1>3. /\ DOMAIN t.results = 1..Len(t.results) /\ DOMAIN d.results = 1..(Len(t.results) + 1)
      /\ Len(t.results) \in Nat
      /\ \A i \in 1..Len(t.results) : d.results[i] = t.results[i]
      /\ d.results[Len(t.results) + 1] = x
  BY <1>1, AppendSeq
<1>4. \A i \in DOMAIN d.results : (i \in DOMAIN t.results /\ d.results[i] = t.results[i]) \/ d.results[i] = x
  BY <1>3
<1>5. KeysIn(d, keys)
  BY <1>1, <1>2, <1>4 DEF KeysIn
<1>6. QED
  BY <1>5 DEF d

LEMMA CountedTold ==
  ASSUME NEW u \in Requests, NEW t, NEW result, NEW key, Base(u, t), KeysTold(u, t),
         key # None /\ ~t.dead => key \in Keys(t.signals) \cup StoredKeys(u)
  PROVE  KeysTold(u, Counted(t, result, key))
BY CountedIn DEF Base, KeysTold

-----------------------------------------------------------------------------
(* The steps: one transaction moves, and the rest stay.                     *)

\* The keys a transaction holds that it did not hold before are no one else's.
Fresh(u, t) ==
  \A k \in Keys(t.signals) \ Keys(txn[u].signals) :
    k \notin StoredKeys(u) /\ \A v \in Peers(u) : k \notin Keys(txn[v].signals)

LEMMA PeersOf ==
  ASSUME NEW u \in Requests, NEW v \in Requests
  PROVE  v \in Peers(u) <=> v # u /\ Open(v) /\ Tenant(v) = Tenant(u)
BY DEF Peers

\* Request u goes on with transaction t; nothing is committed.
Moves(u, t) == txn' = [txn EXCEPT ![u] = t] /\ UNCHANGED <<agents, signals>>

LEMMA UploadMoves ==
  ASSUME UploadInv, NEW u \in Requests, ~Done(u), NEW t, Moves(u, t), TxnOK(u, t), KeysTold(u, t),
         t.pc # "done", Fresh(u, t)
  PROVE  UploadInv'
<1>1. /\ DOMAIN txn' = Requests /\ txn'[u] = t /\ \A v \in Requests \ {u} : txn'[v] = txn[v]
      /\ agents' = agents /\ signals' = signals
  BY DEF UploadInv, Moves
<1>2. /\ \A v \in Requests \ {u} : Open(v)' = Open(v) /\ Done(v)' = Done(v)
      /\ ~Done(u) /\ ~Done(u)'
      /\ \A v \in Requests : StoredKeys(v)' = StoredKeys(v)
  BY <1>1 DEF Open, Done, StoredKeys
<1>3. \A v \in Requests : TxnOK(v, txn'[v]) /\ KeysIn(txn'[v], StoredKeys(v)') /\ (Done(v)' => ~txn'[v].dead)
  <2> SUFFICES ASSUME NEW v \in Requests
               PROVE  TxnOK(v, txn'[v]) /\ KeysIn(txn'[v], StoredKeys(v)') /\ (Done(v)' => ~txn'[v].dead)
    OBVIOUS
  <2>1. CASE v = u
    BY <1>1, <1>2, <2>1 DEF KeysTold
  <2>2. CASE v # u
    BY <1>1, <1>2, <2>2 DEF UploadInv, KeysTold
  <2>3. QED
    BY <2>1, <2>2
<1>4. ASSUME NEW s \in signals' PROVE SignalTold(s, txn')
  <2>1. SignalTold(s, txn)
    BY <1>1 DEF UploadInv
  <2>2. QED
    BY <1>1, <1>2, <2>1 DEF SignalTold, Done
<1>5. \A v \in Requests : Done(v)' => txn'[v].signals \subseteq signals'
  BY <1>1, <1>2 DEF UploadInv
<1>6. /\ Open(u) \/ Keys(txn[u].signals) = {}
      /\ Keys(txn[u].signals) \cap StoredKeys(u) = {}
  <2>1. CASE Open(u)
    BY <2>1 DEF UploadInv
  <2>2. CASE ~Open(u)
    <3>1. txn[u].pc = "idle" /\ TxnOK(u, txn[u])
      BY <1>2, <2>2 DEF Open, Done, UploadInv
    <3>2. txn[u] = Idle /\ Idle.signals = {}
      BY <3>1, IdleOK DEF TxnOK
    <3>3. QED
      BY <3>2 DEF Keys
  <2>3. QED
    BY <2>1, <2>2
<1>7. ASSUME NEW v \in Requests, Open(v)' PROVE Keys(txn'[v].signals) \cap StoredKeys(v)' = {}
  <2>1. CASE v = u
    BY <1>1, <1>2, <1>6, <2>1 DEF Fresh
  <2>2. CASE v # u
    BY <1>1, <1>2, <1>7, <2>2 DEF UploadInv
  <2>3. QED
    BY <2>1, <2>2
<1>8. ASSUME NEW v \in Requests, NEW x \in Requests, Open(v)', x # v, Open(x)', Tenant(x) = Tenant(v)
      PROVE  Keys(txn'[v].signals) \cap Keys(txn'[x].signals) = {}
  <2>1. \A y \in Requests : y # u /\ Open(y) /\ Tenant(y) = Tenant(u) =>
          Keys(txn[u].signals) \cap Keys(txn[y].signals) = {} /\ Keys(t.signals) \cap Keys(txn[y].signals) = {}
    <3> SUFFICES ASSUME NEW y \in Requests, y # u, Open(y), Tenant(y) = Tenant(u)
                 PROVE  Keys(txn[u].signals) \cap Keys(txn[y].signals) = {} /\ Keys(t.signals) \cap Keys(txn[y].signals) = {}
      OBVIOUS
    <3>1. y \in Peers(u)
      BY PeersOf
    <3>2. Keys(txn[u].signals) \cap Keys(txn[y].signals) = {}
      BY <1>6, <3>1 DEF UploadInv
    <3>3. QED
      BY <3>1, <3>2 DEF Fresh
  <2>2. CASE v = u
    BY <1>1, <1>2, <1>8, <2>1, <2>2
  <2>3. CASE x = u
    BY <1>1, <1>2, <1>8, <2>1, <2>3
  <2>4. CASE v # u /\ x # u
    <3>1. Open(v) /\ x \in Peers(v)
      BY <1>2, <1>8, <2>4, PeersOf
    <3>2. QED
      BY <1>1, <2>4, <3>1 DEF UploadInv
  <2>5. QED
    BY <2>2, <2>3, <2>4
<1>9. \A v, x \in Requests : Open(v)' /\ x \in Peers(v)' => Keys(txn'[v].signals) \cap Keys(txn'[x].signals) = {}
  BY <1>8 DEF Peers
<1>10. ASSUME NEW z \in Tenants, NEW c \in DOMAIN agents'[z], agents'[z][c] # None
      PROVE  WriteTold(agents'[z][c], txn')
  <2>1. WriteTold(agents[z][c], txn)
    BY <1>1, <1>10 DEF UploadInv
  <2>2. QED
    BY <1>1, <1>2, <2>1 DEF WriteTold, Done
<1>11. DOMAIN agents' = Tenants /\ \A s, r \in signals' : s.tenant = r.tenant /\ s.key = r.key => s = r
  BY <1>1 DEF UploadInv
<1>12. QED
  BY <1>1, <1>3, <1>4, <1>5, <1>7, <1>9, <1>10, <1>11 DEF UploadInv, KeysTold

LEMMA UploadGo ==
  ASSUME UploadInv, NEW u \in Requests, Open(u), NEW t, Go(u, t), TxnOK(u, t), KeysTold(u, t),
         t.pc # "done", Fresh(u, t)
  PROVE  UploadInv'
<1>1. ~Done(u) /\ Moves(u, t)
  BY DEF Open, Done, Go, Moves
<1>2. QED
  BY <1>1, UploadMoves

\* A transaction that takes nothing on.
LEMMA FreshLess ==
  ASSUME NEW u \in Requests, NEW t, t.signals \subseteq txn[u].signals
  PROVE  Fresh(u, t)
BY DEF Fresh, Keys

LEMMA UploadAbort ==
  ASSUME UploadInv, NEW u \in Requests, Open(u), Abort(u)
  PROVE  UploadInv'
<1>1. TxnOK(u, Idle) /\ KeysTold(u, Idle) /\ Idle.signals = {} /\ Idle.pc = "idle"
  BY IdleOK
<1>2. Go(u, Idle) /\ Fresh(u, Idle)
  BY <1>1, FreshLess DEF Abort
<1> DEFINE t == Idle
<1>3. TxnOK(u, t) /\ KeysTold(u, t) /\ t.pc # "done" /\ Go(u, t) /\ Fresh(u, t)
  BY <1>1, <1>2
<1> HIDE DEF t
<1>4. QED
  BY <1>3, UploadGo

\* A row that fails: its transaction may have lost what it held, or hold what explains it.
LEMMA UploadFail ==
  ASSUME UploadInv, NEW u \in Requests, Open(u), NEW t, Fail(u, t), Base(u, t), KeysTold(u, t), t.at <= Size(u),
         t.signals \subseteq txn[u].signals,
         \A c \in DOMAIN t.agents : t.agents[c].at = t.at => \E x \in DOMAIN Raw(u, t.at) : Raw(u, t.at)[x] = Bad
  PROVE  UploadInv'
<1>1. CASE Request[u].event = None
  <2> DEFINE d == Counted(t, "failed", None)
  <2>1. Go(u, d)
    BY <1>1 DEF Fail
  <2>2. TxnOK(u, d) /\ d.pc = "row"
    BY CountedOK
  <2>3. KeysTold(u, d)
    BY CountedTold
  <2>4. d.signals = t.signals
    <3>1. IsTxn(t)
      BY DEF Base
    <3>2. QED
      BY <3>1, CountedSignals
  <2> HIDE DEF d
  <2>5. Fresh(u, d)
    BY <2>4, FreshLess
  <2>6. QED
    BY <2>1, <2>2, <2>3, <2>5, UploadGo
<1>2. CASE Request[u].event # None
  BY <1>2, UploadAbort DEF Fail
<1>3. QED
  BY <1>1, <1>2
-----------------------------------------------------------------------------
(* The handlers.                                                           *)

LEMMA OpenOK ==
  ASSUME UploadInv, NEW u \in Requests, Open(u)
  PROVE  /\ TxnOK(u, txn[u]) /\ Base(u, txn[u]) /\ IsTxn(txn[u]) /\ KeysTold(u, txn[u]) /\ IsSeq(txn[u].results)
         /\ txn[u].at \in Nat \ {0}
         /\ txn[u].pc # "insert" => Settled(txn[u])
         /\ txn[u].pc \in Busy => txn[u].at <= Size(u) /\ RowFrom(u, txn[u])
<1>1. TxnOK(u, txn[u]) /\ KeysTold(u, txn[u])
  BY DEF UploadInv
<1>2. QED
  BY <1>1 DEF TxnOK, Base

\* The values of a renamed row are those of the file.
LEMMA RenamedFrom ==
  ASSUME NEW raw, NEW names, NEW f \in DOMAIN Renamed(raw, names)
  PROVE  \E x \in DOMAIN raw : Renamed(raw, names)[f] = raw[x]
<1> DEFINE field(c) == IF c \in DOMAIN names THEN names[c] ELSE c
           x == CHOOSE c \in DOMAIN raw : field(c) = f
<1>1. f \in {field(c) : c \in DOMAIN raw}
  BY DEF Renamed
<1>2. Renamed(raw, names)[f] = raw[x]
  BY <1>1 DEF Renamed
<1>3. x \in DOMAIN raw
  BY <1>1
<1>4. QED
  BY <1>2, <1>3

\* A session that breaks holds nothing any more.
LEMMA UploadBreak ==
  ASSUME UploadInv, NEW u \in Requests, Open(u), Break(u), txn[u].at <= Size(u)
  PROVE  UploadInv'
<1> DEFINE t == Dropped(txn[u])
<1>1. Fail(u, t)
  BY DEF Break, Dropped
<1>2. /\ IsTxn(t) /\ SameBook(t, txn[u]) /\ t.agents = <<>> /\ t.signals = {} /\ t.dead = TRUE
  BY OpenOK, Fields
<1> HIDE DEF t
<1>3. Base(u, t) /\ KeysTold(u, t)
  BY <1>2, OpenOK, BaseSame DEF KeysTold, KeysIn
<1>4. t.at <= Size(u) /\ t.signals \subseteq txn[u].signals /\ DOMAIN t.agents = {}
  BY <1>2 DEF SameBook
<1>5. QED
  BY <1>1, <1>3, <1>4, UploadFail

\* The signal of the row at hand is stored already, or about to be inserted.
LEMMA UploadEmit ==
  ASSUME UploadInv, NEW u \in Requests, txn[u].pc \in Busy, NEW t, Emit(u, t), Base(u, t),
         SameRow(t, txn[u]), t.signals = txn[u].signals, t.dead = txn[u].dead, t.results = txn[u].results
  PROVE  UploadInv'
<1>1. Open(u)
  BY DEF Open, Busy
<1>2. /\ t.at <= Size(u) /\ RowFrom(u, t) /\ KeysTold(u, t) /\ IsTxn(t) /\ IsSeq(t.results)
      /\ KeyOf(u) = Key(t.type, t.row)
  <2>1. t.at <= Size(u) /\ RowFrom(u, t)
    BY <1>1, OpenOK DEF SameRow, RowFrom
  <2>2. KeysTold(u, t)
    BY <1>1, OpenOK DEF KeysTold, KeysIn
  <2>3. QED
    BY <2>1, <2>2 DEF Base, KeyOf, SameRow
<1>3. CASE KeyOf(u) \in StoredKeys(u) \cup Keys(t.signals)
  <2> DEFINE d == Counted(t, "processed", KeyOf(u))
  <2>1. Go(u, d)
    BY <1>3 DEF Emit
  <2>2. TxnOK(u, d) /\ d.pc = "row"
    BY <1>2, CountedOK
  <2>3. KeysTold(u, d)
    BY <1>2, <1>3, CountedTold
  <2>4. d.signals = t.signals
    BY <1>2, CountedSignals
  <2> HIDE DEF d
  <2>5. Fresh(u, d)
    BY <2>4, FreshLess
  <2>6. QED
    BY <1>1, <2>1, <2>2, <2>3, <2>5, UploadGo
<1>4. CASE KeyOf(u) \notin StoredKeys(u) \cup Keys(t.signals)
  <2> DEFINE d == Inserting(t)
  <2>1. Go(u, d)
    BY <1>4 DEF Emit, Inserting
  <2>2. IsTxn(d) /\ d.pc = "insert" /\ SameRow(d, t) /\ SameBook(d, t) /\ SameData(d, t)
    BY <1>2, Fields
  <2> HIDE DEF d
  <2>3. Base(u, d)
    BY <2>2, BaseSame DEF SameData
  <2>4. TxnOK(u, d) /\ KeysTold(u, d) /\ d.signals = t.signals
    <3>1. d.at <= Size(u) /\ RowFrom(u, d) /\ Key(d.type, d.row) = KeyOf(u)
      BY <1>2, <2>2 DEF SameRow, RowFrom
    <3>2. d.signals = t.signals /\ d.results = t.results /\ d.dead = t.dead
      BY <2>2 DEF SameData, SameBook
    <3>3. TxnOK(u, d)
      BY <1>4, <2>2, <2>3, <3>1, <3>2 DEF TxnOK, Busy
    <3>4. KeysTold(u, d)
      BY <1>2, <3>2 DEF KeysTold, KeysIn
    <3>5. QED
      BY <3>2, <3>3, <3>4
  <2>5. Fresh(u, d)
    BY <2>4, FreshLess
  <2>6. QED
    BY <1>1, <2>1, <2>2, <2>4, <2>5, UploadGo
<1>5. QED
  BY <1>3, <1>4

\* A row that fails before anything was written for it.
LEMMA UploadFailClean ==
  ASSUME UploadInv, NEW u \in Requests, Open(u), Fail(u, txn[u]), txn[u].at <= Size(u), Settled(txn[u])
  PROVE  UploadInv'
<1>1. txn[u].at \in Nat
  BY OpenOK
<1>2. \A c \in DOMAIN txn[u].agents : txn[u].agents[c].at < txn[u].at
  BY DEF Settled
<1>3. \A a, b : b \in Nat /\ a < b => a # b
  OBVIOUS
<1>4. \A c \in DOMAIN txn[u].agents : txn[u].agents[c].at # txn[u].at
  BY <1>1, <1>2, <1>3
<1>5. QED
  BY <1>4, OpenOK, UploadFail

LEMMA UploadTake ==
  ASSUME UploadInv, NEW u \in Requests, TakeRow(u)
  PROVE  UploadInv'
<1> DEFINE q == Request[u]
           raw == q.rows[txn[u].at]
           row == IF q.event = None THEN Renamed(raw, mapping[q.source]) ELSE raw
           type == IF q.event = None THEN DataType(q.source, row) ELSE q.event
           t == Routed(txn[u], row, type)
<1>1. /\ txn[u].pc = "row" /\ txn[u].at <= Size(u) /\ Open(u)
      /\ Fail(u, txn[u]) \/ Go(u, t)
  BY DEF TakeRow, More, Size, Open, Routed
<1>2. Settled(txn[u])
  BY <1>1, OpenOK
<1>3. \A f \in DOMAIN row : \E x \in DOMAIN raw : row[f] = raw[x]
  <2>1. CASE q.event = None
    <3>1. row = Renamed(raw, mapping[q.source])
      BY <2>1
    <3> HIDE DEF row, raw
    <3>2. QED
      BY <3>1, RenamedFrom
  <2>2. CASE q.event # None
    <3>1. row = raw
      BY <2>2
    <3>2. QED
      BY <3>1
  <2>3. QED
    BY <2>1, <2>2
<1>4. raw = Raw(u, txn[u].at)
  BY DEF Raw
<1> HIDE DEF row, type, raw
<1>5. CASE Fail(u, txn[u])
  BY <1>1, <1>2, <1>5, UploadFailClean
<1>6. CASE Go(u, t)
  <2>1. IsTxn(txn[u])
    BY <1>1, OpenOK
  <2>2. /\ IsTxn(t) /\ t.pc = "find" /\ t.row = row /\ SameBook(t, txn[u]) /\ SameData(t, txn[u])
    BY <2>1 DEF IsTxn, Routed, SameBook, SameData
  <2> HIDE DEF t
  <2>3. t.at = txn[u].at /\ t.agents = txn[u].agents /\ t.signals = txn[u].signals /\ t.dead = txn[u].dead
        /\ t.results = txn[u].results
    BY <2>2 DEF SameBook, SameData
  <2>4. RowFrom(u, t)
    BY <1>3, <1>4, <2>2, <2>3 DEF RowFrom
  <2>5. Base(u, t)
    BY <1>1, <2>2, <2>3, OpenOK, BaseSame
  <2>6. Settled(t)
    BY <1>2, <2>3 DEF Settled
  <2>7. TxnOK(u, t)
    BY <1>1, <2>2, <2>3, <2>4, <2>5, <2>6 DEF TxnOK, Busy
  <2>8. KeysTold(u, t)
    BY <1>1, <2>3, OpenOK DEF KeysTold, KeysIn
  <2>9. Fresh(u, t)
    BY <2>3, FreshLess
  <2>10. QED
    BY <1>1, <1>6, <2>2, <2>7, <2>8, <2>9, UploadGo
<1>7. QED
  BY <1>1, <1>5, <1>6

LEMMA UploadFind ==
  ASSUME UploadInv, NEW u \in Requests, FindAgent(u)
  PROVE  UploadInv'
<1> DEFINE known == Code(u) \in Visible(u)
<1>1. /\ txn[u].pc = "find" /\ txn[u].pc \in Busy /\ Open(u)
      /\ \/ Go(u, Looked(txn[u], known))
         \/ Go(u, Counted(txn[u], "processed", None))
         \/ Fail(u, txn[u])
         \/ Emit(u, txn[u])
  BY DEF FindAgent, Looked, Busy, Open
<1>2. /\ IsTxn(txn[u]) /\ Base(u, txn[u]) /\ KeysTold(u, txn[u]) /\ Settled(txn[u])
      /\ txn[u].at <= Size(u) /\ RowFrom(u, txn[u])
  BY <1>1, OpenOK
<1>3. CASE Go(u, Looked(txn[u], known))
  <2> DEFINE t == Looked(txn[u], known)
  <2> HIDE DEF known
  <2>1. IsTxn(t) /\ t.pc = "write" /\ SameRow(t, txn[u]) /\ SameBook(t, txn[u]) /\ SameData(t, txn[u])
    BY <1>2, Fields
  <2> HIDE DEF t
  <2>2. /\ t.at = txn[u].at /\ t.row = txn[u].row /\ t.agents = txn[u].agents /\ t.signals = txn[u].signals
        /\ t.dead = txn[u].dead /\ t.results = txn[u].results
    BY <2>1 DEF SameRow, SameBook, SameData
  <2>3. Base(u, t)
    BY <1>2, <2>1, <2>2, BaseSame
  <2>4. Settled(t) /\ RowFrom(u, t)
    BY <1>2, <2>2 DEF Settled, RowFrom
  <2>5. TxnOK(u, t)
    BY <1>2, <2>1, <2>2, <2>3, <2>4 DEF TxnOK, Busy
  <2>6. KeysTold(u, t)
    BY <1>2, <2>2 DEF KeysTold, KeysIn
  <2>7. Fresh(u, t)
    BY <2>2, FreshLess
  <2>8. Go(u, t)
    BY <1>3 DEF t
  <2>9. QED
    BY <1>1, <2>1, <2>5, <2>6, <2>7, <2>8, UploadGo
<1>4. CASE Go(u, Counted(txn[u], "processed", None))
  <2> DEFINE t == Counted(txn[u], "processed", None)
  <2>1. TxnOK(u, t) /\ t.pc = "row"
    BY <1>2, CountedOK
  <2>2. KeysTold(u, t)
    BY <1>2, CountedTold
  <2>3. t.signals = txn[u].signals
    BY <1>2, CountedSignals
  <2>4. Go(u, t)
    BY <1>4
  <2> HIDE DEF t
  <2>5. Fresh(u, t)
    BY <2>3, FreshLess
  <2>6. QED
    BY <1>1, <2>1, <2>2, <2>4, <2>5, UploadGo
<1>5. CASE Fail(u, txn[u])
  BY <1>1, <1>2, <1>5, UploadFailClean
<1>6. CASE Emit(u, txn[u])
  <2>1. SameRow(txn[u], txn[u])
    BY DEF SameRow
  <2>2. QED
    BY <1>1, <1>2, <1>6, <2>1, UploadEmit
<1>7. QED
  BY <1>1, <1>3, <1>4, <1>5, <1>6

\* The agent's own row explains what it wrote before it failed.
LEMMA UnknownIdBad ==
  ASSUME NEW u, NEW t, RowFrom(u, t), UnknownId(t.row)
  PROVE  \E x \in DOMAIN Raw(u, t.at) : Raw(u, t.at)[x] = Bad
<1>1. PICK f : Value(t.row, f) = Bad
  BY DEF UnknownId
<1>2. f \in DOMAIN t.row /\ t.row[f] = Bad
  BY <1>1, NoneAssumption DEF Value
<1>3. QED
  BY <1>2 DEF RowFrom

LEMMA UploadWrite ==
  ASSUME UploadInv, NEW u \in Requests, WriteAgent(u)
  PROVE  UploadInv'
<1> DEFINE c == Code(u)
           t == Writing(txn[u], u, c)
<1>1. /\ txn[u].pc = "write" /\ txn[u].pc \in Busy /\ Open(u)
      /\ \/ UnknownId(txn[u].row) /\ Fail(u, t)
         \/ Fail(u, txn[u])
         \/ Break(u)
         \/ Emit(u, t)
  BY DEF WriteAgent, Written, Writing, Busy, Open
<1> HIDE DEF c
<1>2. /\ IsTxn(txn[u]) /\ Base(u, txn[u]) /\ KeysTold(u, txn[u]) /\ Settled(txn[u])
      /\ txn[u].at <= Size(u) /\ RowFrom(u, txn[u])
  BY <1>1, OpenOK
<1>3. /\ IsTxn(t) /\ SameRow(t, txn[u]) /\ SameBook(t, txn[u])
      /\ t.signals = txn[u].signals /\ t.dead = txn[u].dead
  BY <1>2 DEF IsTxn, Writing, SameRow, SameBook
<1>4. Base(u, t)
  BY <1>2, BaseWriting
<1> HIDE DEF t
<1>5. t.at = txn[u].at /\ t.results = txn[u].results
  BY <1>3 DEF SameBook
<1>6. CASE UnknownId(txn[u].row) /\ Fail(u, t)
  <2>1. \E x \in DOMAIN Raw(u, t.at) : Raw(u, t.at)[x] = Bad
    BY <1>2, <1>5, <1>6, UnknownIdBad
  <2>2. KeysTold(u, t)
    BY <1>2, <1>3, <1>5 DEF KeysTold, KeysIn
  <2>3. QED
    BY <1>1, <1>2, <1>3, <1>4, <1>5, <1>6, <2>1, <2>2, UploadFail
<1>7. CASE Fail(u, txn[u])
  BY <1>1, <1>2, <1>7, UploadFailClean
<1>8. CASE Break(u)
  BY <1>1, <1>2, <1>8, UploadBreak
<1>9. CASE Emit(u, t)
  BY <1>1, <1>3, <1>4, <1>5, <1>9, UploadEmit
<1>10. QED
  BY <1>1, <1>6, <1>7, <1>8, <1>9

\* A signal of a row that was processed joins those held.
LEMMA HoldingOK ==
  ASSUME NEW u \in Requests, NEW t, NEW s, TxnOK(u, t), t.pc = "row", SignalOf(u, t, s),
         s.key \notin Keys(t.signals)
  PROVE  /\ TxnOK(u, Holding(t, s)) /\ Holding(t, s).pc = "row" /\ Holding(t, s).signals = t.signals \cup {s}
         /\ Holding(t, s).dead = t.dead /\ Holding(t, s).results = t.results
<1> DEFINE d == Holding(t, s)
<1>1. Base(u, t) /\ IsTxn(t) /\ Settled(t)
  BY DEF TxnOK, Base
<1>2. /\ IsTxn(d) /\ d.pc = "row" /\ SameBook(d, t) /\ d.agents = t.agents /\ d.dead = t.dead
      /\ d.signals = t.signals \cup {s}
  BY <1>1, HoldingFields
<1> HIDE DEF d
<1>3. d.at = t.at /\ d.results = t.results
  BY <1>2 DEF SameBook
<1>4. \A r \in d.signals : SignalOf(u, d, r)
  BY <1>1, <1>2, <1>3 DEF Base, SignalOf
<1>5. \A r, q \in d.signals : r.key = q.key => r = q
  <2>1. \A r \in t.signals : r.key # s.key
    BY DEF Keys
  <2>2. QED
    BY <1>1, <1>2, <2>1 DEF Base
<1>6. Base(u, d) /\ Settled(d)
  BY <1>1, <1>2, <1>3, <1>4, <1>5 DEF Base, WriteOf, Explains, Settled
<1>7. TxnOK(u, d)
  BY <1>2, <1>6 DEF TxnOK, Busy
<1>8. QED
  BY <1>2, <1>3, <1>7 DEF d

LEMMA UploadInsert ==
  ASSUME UploadInv, NEW u \in Requests, InsertSignal(u)
  PROVE  UploadInv'
<1> DEFINE k == KeyOf(u)
           s == [tenant |-> Tenant(u), key |-> k, req |-> u, at |-> txn[u].at]
           c == Counted(txn[u], "processed", k)
           d == Holding(c, s)
<1>1. /\ txn[u].pc = "insert" /\ txn[u].pc \in Busy /\ Open(u)
      /\ k \notin UNION {Keys(txn[v].signals) : v \in Peers(u)}
  BY DEF InsertSignal, Busy, Open
<1>2. /\ TxnOK(u, txn[u]) /\ IsTxn(txn[u]) /\ Base(u, txn[u]) /\ KeysTold(u, txn[u])
      /\ IsSeq(txn[u].results) /\ txn[u].at <= Size(u) /\ txn[u].at \in Nat \ {0}
  BY <1>1, OpenOK
<1>3. CASE k \in StoredKeys(u)
  <2>1. Break(u)
    BY <1>3 DEF InsertSignal
  <2>2. QED
    BY <1>1, <1>2, <2>1, UploadBreak
<1>4. CASE k \notin StoredKeys(u)
  <2>1. Go(u, d)
    BY <1>4 DEF InsertSignal, Holding
  <2>2. s.tenant = Tenant(u) /\ s.key = k /\ s.req = u /\ s.at = txn[u].at
    OBVIOUS
  <2>3. k \notin Keys(txn[u].signals)
    BY <1>1, <1>2 DEF TxnOK, KeyOf
  <2> HIDE DEF k, s
  <2>4. /\ IsTxn(c) /\ c.pc = "row" /\ c.at = txn[u].at + 1 /\ SameData(c, txn[u])
        /\ c.results = Append(txn[u].results, [result |-> "processed", key |-> k])
    BY <1>2, CountedFields
  <2>5. TxnOK(u, c)
    BY <1>2, CountedOK
  <2>6. KeysIn(c, StoredKeys(u) \cup {k})
    <3> DEFINE keys == StoredKeys(u) \cup {k}
    <3>1. KeysIn(txn[u], keys)
      BY <1>2 DEF KeysTold, KeysIn
    <3>2. k \in Keys(txn[u].signals) \cup keys
      OBVIOUS
    <3> HIDE DEF keys
    <3>3. KeysIn(c, keys)
      BY <1>2, <3>1, <3>2, CountedIn
    <3>4. QED
      BY <3>3 DEF keys
  <2> HIDE DEF c
  <2>7. c.signals = txn[u].signals
    BY <2>4 DEF SameData
  <2>8. SignalOf(u, c, s)
    <3>1. Len(txn[u].results) + 1 = txn[u].at /\ IsSeq(txn[u].results)
      BY <1>2 DEF Base
    <3>2. c.results[txn[u].at].result = "processed"
      BY <2>4, <3>1, AppendSeq
    <3>3. s.at \in 1..(c.at - 1)
      BY <1>2, <2>2, <2>4
    <3>4. QED
      BY <2>2, <3>2, <3>3 DEF SignalOf
  <2>9. s.key \notin Keys(c.signals)
    BY <2>2, <2>3, <2>7
  <2>10. TxnOK(u, d) /\ d.pc = "row" /\ d.signals = c.signals \cup {s} /\ d.dead = c.dead /\ d.results = c.results
    BY <2>4, <2>5, <2>8, <2>9, HoldingOK
  <2> HIDE DEF d
  <2>11. Keys(d.signals) = Keys(c.signals) \cup {k}
    BY <2>2, <2>10 DEF Keys
  <2>12. KeysTold(u, d)
    BY <2>6, <2>10, <2>11 DEF KeysTold, KeysIn
  <2>13. Fresh(u, d)
    BY <1>1, <1>4, <2>7, <2>11 DEF Fresh
  <2>14. QED
    BY <1>1, <2>1, <2>10, <2>12, <2>13, UploadGo
<1>5. QED
  BY <1>3, <1>4

\* Only a transaction at a row waits for another.
LEMMA UploadVictim ==
  ASSUME UploadInv, NEW u \in Requests, DeadlockVictim(u)
  PROVE  UploadInv'
<1>1. txn[u].pc \in Busy /\ Open(u) /\ Break(u)
  BY DEF DeadlockVictim, WaitsFor, Busy, Open
<1>2. txn[u].at <= Size(u)
  BY <1>1, OpenOK
<1>3. QED
  BY <1>1, <1>2, UploadBreak

LEMMA UploadBegin ==
  ASSUME UploadInv, NEW u \in Requests, Begin(u)
  PROVE  UploadInv'
<1> DEFINE t == [Idle EXCEPT !.pc = "row"]
<1>1. Moves(u, t) /\ txn[u].pc = "idle" /\ ~Done(u)
  BY DEF Begin, Moves, Done
<1>2. /\ IsTxn(t) /\ t.pc = "row" /\ t.at = 1 /\ t.agents = <<>> /\ t.signals = {}
      /\ t.results = <<>> /\ t.dead = FALSE
  BY DEF Idle, IsTxn
<1> HIDE DEF t
<1>3. DOMAIN t.agents = {} /\ DOMAIN t.results = {}
  BY <1>2
<1>4. IsSeq(t.results) /\ Len(t.results) = 0 /\ Size(u) \in Nat
  BY <1>2, EmptySeq, SizeNat DEF IsSeq
<1>5. TxnOK(u, t) /\ KeysTold(u, t)
  BY <1>2, <1>3, <1>4 DEF TxnOK, Base, Settled, Busy, KeysTold, KeysIn
<1>6. Fresh(u, t)
  BY <1>2, FreshLess
<1>7. QED
  BY <1>1, <1>2, <1>5, <1>6, UploadMoves

\* What is told of an ended transaction stays told.
LEMMA StaysTold ==
  ASSUME NEW books, \A v \in Requests : Done(v) => books[v] = txn[v]
  PROVE  /\ \A s : SignalTold(s, txn) => SignalTold(s, books)
         /\ \A w : WriteTold(w, txn) => WriteTold(w, books)
<1>1. ASSUME NEW s, SignalTold(s, txn) PROVE SignalTold(s, books)
  BY <1>1 DEF SignalTold, Done
<1>2. ASSUME NEW w, WriteTold(w, txn) PROVE WriteTold(w, books)
  BY <1>2 DEF WriteTold, Done
<1>3. QED
  BY <1>1, <1>2

LEMMA UploadCommit ==
  ASSUME UploadInv, NEW u \in Requests, Finish(u), ~txn[u].dead
  PROVE  UploadInv'
<1> DEFINE t == Ended(txn[u])
           z == Tenant(u)
<1>1. /\ txn[u].pc = "row" /\ Open(u) /\ ~Done(u) /\ ~(txn[u].at <= Size(u))
      /\ signals' = signals \cup txn[u].signals
      /\ agents' = [agents EXCEPT ![z] = Over(@, txn[u].agents)]
      /\ txn' = [txn EXCEPT ![u].pc = "done"]
  BY DEF Finish, Open, Done, More, Size
<1>2. DOMAIN txn = Requests /\ DOMAIN agents = Tenants /\ z \in Tenants
  BY UploadAssumption DEF UploadInv, Tenant
<1>3. DOMAIN txn' = Requests /\ txn'[u] = t /\ \A v \in Requests \ {u} : txn'[v] = txn[v]
  BY <1>1, <1>2 DEF Ended
<1>4. /\ DOMAIN agents' = Tenants /\ agents'[z] = Over(agents[z], txn[u].agents)
      /\ \A y \in Tenants \ {z} : agents'[y] = agents[y]
  BY <1>1, <1>2
<1>5. /\ TxnOK(u, txn[u]) /\ IsTxn(txn[u]) /\ Base(u, txn[u]) /\ KeysTold(u, txn[u]) /\ Settled(txn[u])
      /\ txn[u].at \in Nat \ {0} /\ Size(u) \in Nat
  BY <1>1, OpenOK, SizeNat
<1>6. txn[u].at = Size(u) + 1
  BY <1>1, <1>5 DEF Base
<1>7. IsTxn(t) /\ t.pc = "done" /\ SameBook(t, txn[u]) /\ SameData(t, txn[u])
  BY <1>5, Fields
<1> HIDE DEF t
<1>8. t.at = txn[u].at /\ t.results = txn[u].results /\ t.agents = txn[u].agents /\ t.signals = txn[u].signals
      /\ t.dead = txn[u].dead
  BY <1>7 DEF SameBook, SameData
<1>9. Base(u, t)
  BY <1>5, <1>7, <1>8, BaseSame
<1>10. TxnOK(u, t)
  BY <1>5, <1>6, <1>7, <1>8, <1>9 DEF TxnOK, Busy, Settled
<1>11. /\ \A v \in Requests \ {u} : (Open(v)' <=> Open(v)) /\ (Done(v)' <=> Done(v))
       /\ Done(u)' /\ ~Open(u)'
  BY <1>3, <1>7 DEF Open, Done
<1>12. \A v \in Requests :
         StoredKeys(v)' = StoredKeys(v) \cup (IF Tenant(v) = z THEN Keys(txn[u].signals) ELSE {})
  <2>1. \A s \in txn[u].signals : s.tenant = z
    BY <1>5 DEF Base, SignalOf
  <2> SUFFICES ASSUME NEW v \in Requests
               PROVE  StoredKeys(v)' = StoredKeys(v) \cup (IF Tenant(v) = z THEN Keys(txn[u].signals) ELSE {})
    OBVIOUS
  <2>2. StoredKeys(v)' = {s.key : s \in {r \in signals' : r.tenant = Tenant(v)}}
    BY DEF StoredKeys, Keys, Tenant
  <2>3. StoredKeys(v) = {s.key : s \in {r \in signals : r.tenant = Tenant(v)}}
        /\ Keys(txn[u].signals) = {s.key : s \in txn[u].signals}
    BY DEF StoredKeys, Keys
  <2> HIDE DEF z
  <2>4. CASE Tenant(v) = z
    BY <1>1, <2>1, <2>2, <2>3, <2>4
  <2>5. CASE Tenant(v) # z
    BY <1>1, <2>1, <2>2, <2>3, <2>5
  <2>6. QED
    BY <2>4, <2>5
<1>13. \A v \in Requests : TxnOK(v, txn'[v]) /\ KeysIn(txn'[v], StoredKeys(v)') /\ (Done(v)' => ~txn'[v].dead)
  <2> SUFFICES ASSUME NEW v \in Requests
               PROVE  TxnOK(v, txn'[v]) /\ KeysIn(txn'[v], StoredKeys(v)') /\ (Done(v)' => ~txn'[v].dead)
    OBVIOUS
  <2>1. StoredKeys(v) \subseteq StoredKeys(v)'
    BY <1>12
  <2>2. CASE v = u
    <3>1. KeysIn(t, StoredKeys(u)')
      BY <1>5, <1>8, <2>1, <2>2 DEF KeysTold, KeysIn
    <3>2. QED
      BY <1>3, <1>8, <1>10, <2>2, <3>1
  <2>3. CASE v # u
    <3>1. txn'[v] = txn[v] /\ TxnOK(v, txn[v]) /\ KeysTold(v, txn[v]) /\ (Done(v) => ~txn[v].dead)
      BY <1>3, <2>3 DEF UploadInv
    <3>2. KeysIn(txn[v], StoredKeys(v)')
      BY <2>1, <3>1 DEF KeysTold, KeysIn
    <3>3. QED
      BY <1>11, <2>3, <3>1, <3>2
  <2>4. QED
    BY <2>2, <2>3
<1>14. \A s, r \in signals' : s.tenant = r.tenant /\ s.key = r.key => s = r
  <2>1. \A s, r \in signals : s.tenant = r.tenant /\ s.key = r.key => s = r
    BY DEF UploadInv
  <2>2. \A s, r \in txn[u].signals : s.key = r.key => s = r
    BY <1>5 DEF Base
  <2>3. ASSUME NEW s \in signals, NEW r \in txn[u].signals, s.tenant = r.tenant, s.key = r.key PROVE FALSE
    <3>1. r.tenant = Tenant(u)
      BY <1>5 DEF Base, SignalOf
    <3>2. s.key \in StoredKeys(u) /\ r.key \in Keys(txn[u].signals)
      BY <2>3, <3>1 DEF StoredKeys, Keys
    <3>3. QED
      BY <1>1, <2>3, <3>2 DEF UploadInv
  <2>4. QED
    BY <1>1, <2>1, <2>2, <2>3
<1>15. \A v \in Requests : Done(v) => txn'[v] = txn[v]
  BY <1>1, <1>3
<1>16. \A s \in signals' : SignalTold(s, txn')
  <2>1. ASSUME NEW s \in signals PROVE SignalTold(s, txn')
    <3>1. SignalTold(s, txn)
      BY DEF UploadInv
    <3>2. QED
      BY <1>15, <3>1, StaysTold
  <2>2. ASSUME NEW s \in txn[u].signals PROVE SignalTold(s, txn')
    <3>1. SignalOf(u, t, s)
      BY <1>5, <1>8 DEF Base, SignalOf
    <3>2. s.req = u
      BY <3>1 DEF SignalOf
    <3>3. QED
      BY <1>3, <1>7, <3>1, <3>2 DEF SignalTold
  <2>3. QED
    BY <1>1, <2>1, <2>2
<1>17. \A v \in Requests : Done(v)' => txn'[v].signals \subseteq signals'
  <2> SUFFICES ASSUME NEW v \in Requests, Done(v)' PROVE txn'[v].signals \subseteq signals'
    OBVIOUS
  <2>1. CASE v = u
    BY <1>1, <1>3, <1>8, <2>1
  <2>2. CASE v # u
    <3>1. Done(v)
      BY <1>11, <2>2
    <3>2. txn[v].signals \subseteq signals
      BY <3>1 DEF UploadInv
    <3>3. QED
      BY <1>1, <1>3, <2>2, <3>2
  <2>3. QED
    BY <2>1, <2>2
<1>18. ASSUME NEW v \in Requests, Open(v)' PROVE Keys(txn'[v].signals) \cap StoredKeys(v)' = {}
  <2>1. v # u /\ Open(v) /\ txn'[v] = txn[v]
    BY <1>3, <1>11, <1>18
  <2>2. Keys(txn[v].signals) \cap StoredKeys(v) = {}
    BY <2>1 DEF UploadInv
  <2>3. Tenant(v) = z => Keys(txn[v].signals) \cap Keys(txn[u].signals) = {}
    <3>1. Tenant(v) = z => u \in Peers(v)
      BY <1>1, <2>1, PeersOf
    <3>2. QED
      BY <2>1, <3>1 DEF UploadInv
  <2> HIDE DEF z
  <2>4. QED
    BY <1>12, <2>1, <2>2, <2>3
<1>19. ASSUME NEW v \in Requests, NEW x \in Requests, Open(v)', x \in Peers(v)'
       PROVE  Keys(txn'[v].signals) \cap Keys(txn'[x].signals) = {}
  <2>1. Open(x)' /\ x # v /\ Tenant(x) = Tenant(v)
    BY <1>19 DEF Peers, Tenant
  <2>2. v # u /\ x # u /\ Open(v) /\ Open(x)
    BY <1>11, <1>19, <2>1
  <2>3. x \in Peers(v)
    BY <2>1, <2>2, PeersOf
  <2>4. QED
    BY <1>3, <2>2, <2>3 DEF UploadInv
<1>20. ASSUME NEW y \in Tenants, NEW c \in DOMAIN agents'[y], agents'[y][c] # None
       PROVE  WriteTold(agents'[y][c], txn')
  <2>1. ASSUME c \in DOMAIN agents[y], agents'[y][c] = agents[y][c] PROVE WriteTold(agents'[y][c], txn')
    <3>1. WriteTold(agents[y][c], txn)
      BY <1>20, <2>1 DEF UploadInv
    <3>2. QED
      BY <1>15, <2>1, <3>1, StaysTold
  <2>2. ASSUME c \in DOMAIN txn[u].agents, agents'[y][c] = txn[u].agents[c] PROVE WriteTold(agents'[y][c], txn')
    <3> DEFINE w == txn[u].agents[c]
    <3>1. WriteOf(u, txn[u], w) /\ w.at < txn[u].at
      BY <1>5, <2>2 DEF Base, Settled
    <3> HIDE DEF w
    <3>2. w.req = u /\ w.at \in 1..txn[u].at /\ Explains(u, txn[u], w.at)
      BY <3>1 DEF WriteOf
    <3>3. w.at \in 1..Size(u)
      BY <1>5, <1>6, <3>1, <3>2
    <3>4. Explains(u, t, w.at)
      BY <1>8, <3>2 DEF Explains
    <3>5. WriteTold(w, txn')
      BY <1>3, <1>7, <3>2, <3>3, <3>4 DEF WriteTold
    <3>6. QED
      BY <2>2, <3>5 DEF w
  <2>3. \/ c \in DOMAIN agents[y] /\ agents'[y][c] = agents[y][c]
        \/ c \in DOMAIN txn[u].agents /\ agents'[y][c] = txn[u].agents[c]
    <3>1. CASE y # z
      BY <1>4, <1>20, <3>1
    <3>2. CASE y = z
      <4> HIDE DEF z
      <4>1. agents'[y] = Over(agents[y], txn[u].agents)
        BY <1>4, <3>2
      <4>2. QED
        BY <1>20, <4>1 DEF Over
    <3>3. QED
      BY <3>1, <3>2
  <2>4. QED
    BY <2>1, <2>2, <2>3
<1>21. /\ \A v \in Requests : Open(v)' => Keys(txn'[v].signals) \cap StoredKeys(v)' = {}
       /\ \A v, x \in Requests : Open(v)' /\ x \in Peers(v)' => Keys(txn'[v].signals) \cap Keys(txn'[x].signals) = {}
       /\ \A y \in Tenants : \A c \in DOMAIN agents'[y] : agents'[y][c] # None => WriteTold(agents'[y][c], txn')
  BY <1>18, <1>19, <1>20
<1>22. QED
  BY <1>3, <1>4, <1>13, <1>14, <1>16, <1>17, <1>21 DEF UploadInv, KeysTold

LEMMA UploadFinish ==
  ASSUME UploadInv, NEW u \in Requests, Finish(u)
  PROVE  UploadInv'
<1>1. CASE txn[u].dead
  <2>1. Open(u) /\ Abort(u)
    BY <1>1 DEF Finish, Open
  <2>2. QED
    BY <2>1, UploadAbort
<1>2. CASE ~txn[u].dead
  BY <1>2, UploadCommit
<1>3. QED
  BY <1>1, <1>2

LEMMA UploadRestart ==
  ASSUME UploadInv, Restart
  PROVE  UploadInv'
<1>1. /\ DOMAIN txn' = Requests /\ agents' = agents /\ signals' = signals
      /\ \A v \in Requests : txn'[v] = IF Open(v) THEN Idle ELSE txn[v]
  BY DEF Restart
<1>2. \A v \in Requests : ~Open(v)' /\ (Done(v)' <=> Done(v)) /\ StoredKeys(v)' = StoredKeys(v)
  <2>1. Idle.pc = "idle"
    BY DEF Idle
  <2>2. QED
    BY <1>1, <2>1 DEF Open, Done, StoredKeys, Tenant
<1>3. \A v \in Requests : Done(v) => txn'[v] = txn[v]
  BY <1>1 DEF Open, Done
<1>4. \A v \in Requests : TxnOK(v, txn'[v]) /\ KeysIn(txn'[v], StoredKeys(v)') /\ (Done(v)' => ~txn'[v].dead)
  <2> SUFFICES ASSUME NEW v \in Requests
               PROVE  TxnOK(v, txn'[v]) /\ KeysIn(txn'[v], StoredKeys(v)') /\ (Done(v)' => ~txn'[v].dead)
    OBVIOUS
  <2>1. CASE Open(v)
    BY <1>1, <1>2, <2>1, IdleOK DEF KeysTold
  <2>2. CASE ~Open(v)
    BY <1>1, <1>2, <2>2 DEF UploadInv, KeysTold
  <2>3. QED
    BY <2>1, <2>2
<1>5. \A s \in signals' : SignalTold(s, txn')
  BY <1>1, <1>3, StaysTold DEF UploadInv
<1>6. \A v \in Requests : Done(v)' => txn'[v].signals \subseteq signals'
  BY <1>1, <1>2, <1>3 DEF UploadInv
<1>7. \A y \in Tenants : \A c \in DOMAIN agents'[y] : agents'[y][c] # None => WriteTold(agents'[y][c], txn')
  BY <1>1, <1>3, StaysTold DEF UploadInv
<1>8. DOMAIN agents' = Tenants /\ \A s, r \in signals' : s.tenant = r.tenant /\ s.key = r.key => s = r
  BY <1>1 DEF UploadInv
<1>9. QED
  BY <1>1, <1>2, <1>4, <1>5, <1>6, <1>7, <1>8 DEF UploadInv, KeysTold

LEMMA UploadInit == Init => UploadInv
<1> SUFFICES ASSUME Init PROVE UploadInv
  OBVIOUS
<1>1. /\ DOMAIN txn = Requests /\ DOMAIN agents = Tenants /\ signals = {}
      /\ \A u \in Requests : txn[u] = Idle
      /\ \A t \in Tenants : \A c \in DOMAIN agents[t] : agents[t][c] = None
  BY DEF Init
<1>2. \A u \in Requests : TxnOK(u, txn[u]) /\ KeysTold(u, txn[u]) /\ ~Open(u) /\ ~Done(u)
  BY <1>1, IdleOK DEF Open, Done
<1>3. QED
  BY <1>1, <1>2 DEF UploadInv

LEMMA UploadStep == UploadInv /\ [Next]_vars => UploadInv'
<1> SUFFICES ASSUME UploadInv, [Next]_vars PROVE UploadInv'
  OBVIOUS
<1>1. ASSUME NEW u \in Requests, Begin(u) PROVE UploadInv'
  BY <1>1, UploadBegin
<1>2. ASSUME NEW u \in Requests, TakeRow(u) PROVE UploadInv'
  BY <1>2, UploadTake
<1>3. ASSUME NEW u \in Requests, FindAgent(u) PROVE UploadInv'
  BY <1>3, UploadFind
<1>4. ASSUME NEW u \in Requests, WriteAgent(u) PROVE UploadInv'
  BY <1>4, UploadWrite
<1>5. ASSUME NEW u \in Requests, InsertSignal(u) PROVE UploadInv'
  BY <1>5, UploadInsert
<1>6. ASSUME NEW u \in Requests, DeadlockVictim(u) PROVE UploadInv'
  BY <1>6, UploadVictim
<1>7. ASSUME NEW u \in Requests, Finish(u) PROVE UploadInv'
  BY <1>7, UploadFinish
<1>8. CASE Restart
  BY <1>8, UploadRestart
<1>9. CASE UNCHANGED vars
  BY <1>9 DEF vars, UploadInv, StoredKeys, Open, Done, Peers, KeysTold
<1>10. QED
  BY <1>1, <1>2, <1>3, <1>4, <1>5, <1>6, <1>7, <1>8, <1>9 DEF Next

LEMMA UploadAlways == Spec => []UploadInv
BY UploadInit, UploadStep, PTL DEF Spec

-----------------------------------------------------------------------------
(* What a stored job says.                                                 *)

LEMMA UploadDone ==
  ASSUME UploadInv, NEW u \in Requests, Done(u)
  PROVE  /\ Base(u, txn[u]) /\ ~txn[u].dead /\ KeysTold(u, txn[u]) /\ txn[u].signals \subseteq signals
         /\ Len(txn[u].results) = Size(u) /\ DOMAIN txn[u].results = 1..Size(u) /\ Size(u) \in Nat
<1>1. TxnOK(u, txn[u]) /\ ~txn[u].dead /\ KeysTold(u, txn[u]) /\ txn[u].signals \subseteq signals
  BY DEF UploadInv
<1>2. Base(u, txn[u]) /\ txn[u].at = Size(u) + 1 /\ Size(u) \in Nat
  BY <1>1, SizeNat DEF TxnOK, Done
<1>3. IsSeq(txn[u].results) /\ Len(txn[u].results) = txn[u].at - 1
  BY <1>2 DEF Base
<1>4. DOMAIN txn[u].results = 1..Len(txn[u].results)
  BY <1>3, AppendSeq
<1>5. QED
  BY <1>1, <1>2, <1>3, <1>4

\* A key that was counted has one signal.
LEMMA OneSignal ==
  ASSUME UploadInv, NEW u \in Requests, Done(u), NEW i \in DOMAIN txn[u].results,
         txn[u].results[i].key # None
  PROVE  Cardinality({s \in signals : s.tenant = Tenant(u) /\ s.key = txn[u].results[i].key}) = 1
<1> DEFINE k == txn[u].results[i].key
           stored == {s \in signals : s.tenant = Tenant(u) /\ s.key = k}
<1>1. k \in Keys(txn[u].signals) \cup StoredKeys(u)
  BY UploadDone DEF KeysTold, KeysIn
<1>2. \A s \in txn[u].signals : s \in signals /\ s.tenant = Tenant(u)
  BY UploadDone DEF Base, SignalOf
<1>3. PICK s \in signals : s.tenant = Tenant(u) /\ s.key = k
  BY <1>1, <1>2 DEF Keys, StoredKeys
<1>4. \A r \in signals : r.tenant = Tenant(u) /\ r.key = k => r = s
  BY <1>3 DEF UploadInv
<1>5. stored = {s}
  BY <1>3, <1>4
<1>6. QED
  BY <1>5, FS_Singleton

LEMMA UploadReports == UploadInv => JobReport
<1> SUFFICES ASSUME UploadInv, NEW u \in Requests, Done(u)
             PROVE  /\ Len(txn[u].results) = Len(Request[u].rows)
                    /\ \A i \in DOMAIN txn[u].results :
                         /\ txn[u].results[i].key # None =>
                              Cardinality({s \in signals : s.tenant = Tenant(u) /\ s.key = txn[u].results[i].key}) = 1
                         /\ txn[u].results[i].result = "failed" => \A s \in signals : <<s.req, s.at>> # <<u, i>>
                    /\ \A i \in DOMAIN txn[u].results, c \in DOMAIN agents[Tenant(u)] :
                         agents[Tenant(u)][c] = [req |-> u, at |-> i] =>
                           \/ txn[u].results[i].result = "processed"
                           \/ Bad \in {Request[u].rows[i][x] : x \in DOMAIN Request[u].rows[i]}
  BY DEF JobReport
<1>1. Len(txn[u].results) = Len(Request[u].rows)
  BY UploadDone DEF Size
<1>2. ASSUME NEW i \in DOMAIN txn[u].results, txn[u].results[i].result = "failed",
             NEW s \in signals, s.req = u, s.at = i
      PROVE  FALSE
  <2>1. SignalOf(u, txn[u], s)
    BY <1>2 DEF UploadInv, SignalTold
  <2>2. QED
    BY <1>2, <2>1 DEF SignalOf
<1>3. ASSUME NEW i \in DOMAIN txn[u].results, NEW c \in DOMAIN agents[Tenant(u)],
             agents[Tenant(u)][c] = [req |-> u, at |-> i]
      PROVE  \/ txn[u].results[i].result = "processed"
             \/ Bad \in {Request[u].rows[i][x] : x \in DOMAIN Request[u].rows[i]}
  <2> DEFINE w == agents[Tenant(u)][c]
  <2>1. w \in [req : Requests, at : Nat] /\ w.req = u /\ w.at = i
    BY <1>3, UploadDone
  <2>2. Tenant(u) \in Tenants
    BY UploadAssumption DEF Tenant
  <2> HIDE DEF w
  <2>3. WriteTold(w, txn)
    BY <2>1, <2>2, NoneAssumption DEF UploadInv, w
  <2>4. Explains(u, txn[u], i)
    BY <2>1, <2>3 DEF WriteTold
  <2>5. QED
    BY <2>4 DEF Explains, Raw
<1>4. QED
  BY <1>1, <1>2, <1>3, OneSignal

\* The report of a job is what was stored, for any files and events in any order, with
\* deadlocks, broken sessions and restarts between their steps.
THEOREM JobsTellTheTruth == Spec => []JobReport
BY UploadAlways, UploadReports, PTL
-----------------------------------------------------------------------------
(* The mapping of a source that one tenant configures.                     *)

LEMMA OverSame ==
  ASSUME NEW f, NEW g
  PROVE  /\ DOMAIN g = {} /\ f = [x \in DOMAIN f |-> f[x]] => Over(f, g) = f
         /\ Over(Over(f, g), g) = Over(f, g)
         /\ Over(f, g) = [x \in DOMAIN Over(f, g) |-> Over(f, g)[x]]
<1>1. DOMAIN g = {} /\ f = [x \in DOMAIN f |-> f[x]] => Over(f, g) = f
  BY DEF Over
<1>2. DOMAIN Over(f, g) = DOMAIN f \cup DOMAIN g
  BY DEF Over
<1>3. \A x \in DOMAIN f \cup DOMAIN g : Over(f, g)[x] = IF x \in DOMAIN g THEN g[x] ELSE f[x]
  BY DEF Over
<1>4. Over(f, g) = [x \in DOMAIN f \cup DOMAIN g |-> Over(f, g)[x]]
  BY <1>2 DEF Over
<1>5. Over(Over(f, g), g) = [x \in DOMAIN f \cup DOMAIN g |-> Over(f, g)[x]]
  <2> DEFINE h == Over(f, g)
  <2>1. DOMAIN h \cup DOMAIN g = DOMAIN f \cup DOMAIN g
    BY <1>2
  <2>2. \A x \in DOMAIN g : h[x] = g[x]
    BY <1>3
  <2> HIDE DEF h
  <2>3. Over(h, g) = [x \in DOMAIN f \cup DOMAIN g |-> h[x]]
    BY <2>1, <2>2 DEF Over
  <2>4. QED
    BY <2>3 DEF h
<1>6. QED
  BY <1>1, <1>2, <1>4, <1>5

\* A transaction whose row was renamed as its tenant configured.
RowAs(u, t) ==
  t.pc \in Busy /\ Request[u].event = None => t.row = Renamed(Raw(u, t.at), Configured(u))

LEMMA MappingRow ==
  ASSUME NEW u \in Requests
  PROVE  AsConfigured(u) <=> RowAs(u, txn[u])
BY DEF AsConfigured, RowAs, Busy, Raw

\* A transaction that was under way goes on, and the dictionary stays.
LEMMA MappingGo ==
  ASSUME UploadInv, MappingInv, NEW u \in Requests, Open(u), NEW t, UNCHANGED mapping,
         txn' = [txn EXCEPT ![u] = t], Alone(u) => RowAs(u, t)
  PROVE  MappingInv'
<1>1. DOMAIN txn = Requests
  BY DEF UploadInv
<1>2. DOMAIN txn' = Requests /\ txn'[u] = t /\ \A v \in Requests \ {u} : txn'[v] = txn[v]
  BY <1>1
<1>3. \A v \in Requests : Open(v)' => Open(v)
  BY <1>2 DEF Open
<1>4. \A v \in Requests : Alone(v) => RowAs(v, txn'[v])
  <2>1. \A v \in Requests : Alone(v) => RowAs(v, txn[v])
    BY MappingRow DEF MappingInv
  <2>2. QED
    BY <1>2, <2>1
<1>5. \A v \in Requests : RowAs(v, txn'[v]) => AsConfigured(v)'
  BY DEF AsConfigured, RowAs, Busy, Raw, Configured, Tenant
<1>6. QED
  BY <1>3, <1>4, <1>5 DEF MappingInv, Alone, Configured, Tenant

\* A step of a row either ends it or leaves the row as it is.
RowKept(t, d) == d.pc \notin Busy \/ (t.pc \in Busy /\ d.row = t.row /\ d.at = t.at)

LEMMA MappingKept ==
  ASSUME UploadInv, MappingInv, NEW u \in Requests, Open(u), NEW t, Go(u, t), RowKept(txn[u], t)
  PROVE  MappingInv'
<1>1. Alone(u) => RowAs(u, txn[u])
  BY MappingRow DEF MappingInv
<1>2. Alone(u) => RowAs(u, t)
  BY <1>1 DEF RowAs, RowKept
<1>3. UNCHANGED mapping /\ txn' = [txn EXCEPT ![u] = t]
  BY DEF Go
<1>4. QED
  BY <1>2, <1>3, MappingGo

LEMMA MappingFail ==
  ASSUME UploadInv, MappingInv, NEW u \in Requests, Open(u), NEW t, IsTxn(t), Fail(u, t)
  PROVE  MappingInv'
<1>1. CASE Request[u].event = None
  <2> DEFINE d == Counted(t, "failed", None)
  <2>1. Go(u, d)
    BY <1>1 DEF Fail
  <2>2. d.pc = "row"
    BY CountedFields
  <2> HIDE DEF d
  <2>3. RowKept(txn[u], d)
    BY <2>2 DEF RowKept, Busy
  <2>4. QED
    BY <2>1, <2>3, MappingKept
<1>2. CASE Request[u].event # None
  <2> DEFINE d == Idle
  <2>1. Go(u, d)
    BY <1>2 DEF Fail, Abort
  <2>2. RowKept(txn[u], d)
    BY DEF RowKept, Busy, Idle
  <2> HIDE DEF d
  <2>3. QED
    BY <2>1, <2>2, MappingKept
<1>3. QED
  BY <1>1, <1>2

LEMMA MappingBreak ==
  ASSUME UploadInv, MappingInv, NEW u \in Requests, Open(u), Break(u)
  PROVE  MappingInv'
<1> DEFINE t == Dropped(txn[u])
<1>1. IsTxn(t) /\ Fail(u, t)
  BY OpenOK, Fields DEF Break, Dropped
<1> HIDE DEF t
<1>2. QED
  BY <1>1, MappingFail

LEMMA MappingEmit ==
  ASSUME UploadInv, MappingInv, NEW u \in Requests, txn[u].pc \in Busy, NEW t, Emit(u, t), IsTxn(t),
         SameRow(t, txn[u])
  PROVE  MappingInv'
<1>1. Open(u)
  BY DEF Open, Busy
<1>2. CASE KeyOf(u) \in StoredKeys(u) \cup Keys(t.signals)
  <2> DEFINE d == Counted(t, "processed", KeyOf(u))
  <2>1. Go(u, d) /\ d.pc = "row"
    BY <1>2, CountedFields DEF Emit
  <2> HIDE DEF d
  <2>2. RowKept(txn[u], d)
    BY <2>1 DEF RowKept, Busy
  <2>3. QED
    BY <1>1, <2>1, <2>2, MappingKept
<1>3. CASE KeyOf(u) \notin StoredKeys(u) \cup Keys(t.signals)
  <2> DEFINE d == Inserting(t)
  <2>1. Go(u, d) /\ SameRow(d, t)
    BY <1>3, Fields DEF Emit, Inserting
  <2> HIDE DEF d
  <2>2. RowKept(txn[u], d)
    BY <2>1 DEF RowKept, SameRow
  <2>3. QED
    BY <1>1, <2>1, <2>2, MappingKept
<1>4. QED
  BY <1>2, <1>3

LEMMA MappingTake ==
  ASSUME UploadInv, MappingInv, NEW u \in Requests, TakeRow(u)
  PROVE  MappingInv'
<1> DEFINE q == Request[u]
           raw == q.rows[txn[u].at]
           row == IF q.event = None THEN Renamed(raw, mapping[q.source]) ELSE raw
           type == IF q.event = None THEN DataType(q.source, row) ELSE q.event
           t == Routed(txn[u], row, type)
<1>1. Open(u) /\ (Fail(u, txn[u]) \/ Go(u, t))
  BY DEF TakeRow, More, Open, Routed
<1>2. IsTxn(txn[u])
  BY <1>1, OpenOK
<1>3. raw = Raw(u, txn[u].at)
  BY DEF Raw
<1>4. Alone(u) /\ Request[u].event = None => row = Renamed(raw, Configured(u))
  BY <1>1 DEF MappingInv
<1> HIDE DEF row, type, raw
<1>5. CASE Fail(u, txn[u])
  BY <1>1, <1>2, <1>5, MappingFail
<1>6. CASE Go(u, t)
  <2>1. t.row = row /\ t.at = txn[u].at
    BY <1>2 DEF IsTxn, Routed
  <2> HIDE DEF t
  <2>2. Alone(u) => RowAs(u, t)
    BY <1>3, <1>4, <2>1 DEF RowAs
  <2>3. UNCHANGED mapping /\ txn' = [txn EXCEPT ![u] = t]
    BY <1>6 DEF Go
  <2>4. QED
    BY <1>1, <2>2, <2>3, MappingGo
<1>7. QED
  BY <1>1, <1>5, <1>6

LEMMA MappingFind ==
  ASSUME UploadInv, MappingInv, NEW u \in Requests, FindAgent(u)
  PROVE  MappingInv'
<1> DEFINE known == Code(u) \in Visible(u)
<1>1. /\ txn[u].pc \in Busy /\ Open(u)
      /\ \/ Go(u, Looked(txn[u], known))
         \/ Go(u, Counted(txn[u], "processed", None))
         \/ Fail(u, txn[u])
         \/ Emit(u, txn[u])
  BY DEF FindAgent, Looked, Busy, Open
<1>2. IsTxn(txn[u])
  BY <1>1, OpenOK
<1> HIDE DEF known
<1>3. CASE Go(u, Looked(txn[u], known))
  <2> DEFINE t == Looked(txn[u], known)
  <2>1. Go(u, t) /\ SameRow(t, txn[u])
    BY <1>2, <1>3, Fields
  <2> HIDE DEF t
  <2>2. RowKept(txn[u], t)
    BY <1>1, <2>1 DEF RowKept, SameRow
  <2>3. QED
    BY <1>1, <2>1, <2>2, MappingKept
<1>4. CASE Go(u, Counted(txn[u], "processed", None))
  <2> DEFINE t == Counted(txn[u], "processed", None)
  <2>1. Go(u, t) /\ t.pc = "row"
    BY <1>2, <1>4 DEF IsTxn, Counted
  <2> HIDE DEF t
  <2>2. RowKept(txn[u], t)
    BY <2>1 DEF RowKept, Busy
  <2>3. QED
    BY <1>1, <2>1, <2>2, MappingKept
<1>5. CASE Fail(u, txn[u])
  BY <1>1, <1>2, <1>5, MappingFail
<1>6. CASE Emit(u, txn[u])
  <2>1. SameRow(txn[u], txn[u])
    BY DEF SameRow
  <2>2. QED
    BY <1>1, <1>2, <1>6, <2>1, MappingEmit
<1>7. QED
  BY <1>1, <1>3, <1>4, <1>5, <1>6

LEMMA MappingWrite ==
  ASSUME UploadInv, MappingInv, NEW u \in Requests, WriteAgent(u)
  PROVE  MappingInv'
<1> DEFINE c == Code(u)
           t == Writing(txn[u], u, c)
<1>1. /\ txn[u].pc \in Busy /\ Open(u)
      /\ Fail(u, t) \/ Fail(u, txn[u]) \/ Break(u) \/ Emit(u, t)
  BY DEF WriteAgent, Written, Writing, Busy, Open
<1>2. IsTxn(txn[u])
  BY <1>1, OpenOK
<1> HIDE DEF c
<1>3. IsTxn(t) /\ SameRow(t, txn[u])
  BY <1>2 DEF IsTxn, Writing, SameRow
<1> HIDE DEF t
<1>4. QED
  BY <1>1, <1>2, <1>3, MappingFail, MappingBreak, MappingEmit

LEMMA MappingInsert ==
  ASSUME UploadInv, MappingInv, NEW u \in Requests, InsertSignal(u)
  PROVE  MappingInv'
<1> DEFINE k == KeyOf(u)
           s == [tenant |-> Tenant(u), key |-> k, req |-> u, at |-> txn[u].at]
           c == Counted(txn[u], "processed", k)
           d == Holding(c, s)
<1>1. Open(u) /\ (Break(u) \/ Go(u, d))
  BY DEF InsertSignal, Open, Holding
<1>2. IsTxn(txn[u])
  BY <1>1, OpenOK
<1> HIDE DEF k, s
<1>3. IsTxn(c) /\ c.pc = "row"
  BY <1>2 DEF IsTxn, Counted
<1> HIDE DEF c
<1>4. d.pc = "row"
  BY <1>3, HoldingFields
<1> HIDE DEF d
<1>5. RowKept(txn[u], d)
  BY <1>4 DEF RowKept, Busy
<1>6. QED
  BY <1>1, <1>5, MappingBreak, MappingKept

LEMMA MappingBegin ==
  ASSUME UploadInv, MappingInv, NEW u \in Requests, Begin(u)
  PROVE  MappingInv'
<1> DEFINE t == [Idle EXCEPT !.pc = "row"]
           source == Request[u].source
<1>1. /\ DOMAIN txn = Requests /\ DOMAIN mapping = DOMAIN Defaults /\ source \in DOMAIN mapping
      /\ txn' = [txn EXCEPT ![u] = t] /\ t.pc = "row"
  BY UploadAssumption DEF Begin, UploadInv, MappingInv, Idle
<1>2. /\ txn'[u].pc = "row" /\ \A v \in Requests \ {u} : txn'[v] = txn[v]
  BY <1>1
<1>3. \A v \in Requests : Alone(v) => AsConfigured(v)'
  <2>1. ASSUME NEW v \in Requests, Alone(v) PROVE AsConfigured(v)'
    <3>1. CASE v = u
      BY <1>2, <3>1 DEF AsConfigured
    <3>2. CASE v # u
      <4>1. AsConfigured(v) /\ txn'[v] = txn[v]
        BY <1>2, <2>1, <3>2 DEF MappingInv
      <4>2. QED
        BY <4>1 DEF AsConfigured, Configured, Tenant
    <3>3. QED
      BY <3>1, <3>2
  <2>2. QED
    BY <2>1
<1> HIDE DEF t
<1>4. ASSUME NEW v \in Requests, Alone(v)
      PROVE  /\ mapping'[Request[v].source] \in {Defaults[Request[v].source], Configured(v)}
             /\ Open(v)' /\ Request[v].event = None => mapping'[Request[v].source] = Configured(v)
  <2> DEFINE f == Defaults[source]
             g == Overrides[Tenant(u)][source]
             m == mapping[source]
  <2>1. /\ mapping[Request[v].source] \in {Defaults[Request[v].source], Configured(v)}
        /\ Open(v) /\ Request[v].event = None => mapping[Request[v].source] = Configured(v)
    BY <1>4 DEF MappingInv
  <2>2. v # u => (Open(v)' <=> Open(v))
    BY <1>2 DEF Open
  <2>3. CASE Request[u].event # None
    <3>1. mapping' = mapping
      BY <2>3 DEF Begin
    <3>2. QED
      BY <2>1, <2>2, <2>3, <3>1
  <2>4. CASE Request[u].event = None /\ Request[v].source # source
    <3>1. mapping'[Request[v].source] = mapping[Request[v].source]
      BY <2>4 DEF Begin, Override
    <3>2. v # u
      BY <2>4
    <3>3. QED
      BY <2>1, <2>2, <3>1, <3>2
  <2>5. CASE Request[u].event = None /\ Request[v].source = source
    <3>1. mapping'[source] = Over(m, g)
      BY <1>1, <2>5 DEF Begin, Override
    <3>2. CASE Tenant(v) = Tenant(u)
      <4>1. Configured(v) = Over(f, g)
        BY <2>5, <3>2 DEF Configured
      <4>2. m \in {f, Over(f, g)}
        BY <2>1, <2>5, <4>1
      <4> HIDE DEF f, g, m
      <4>3. Over(m, g) = Over(f, g)
        BY <4>2, OverSame
      <4>4. QED
        BY <2>5, <3>1, <4>1, <4>3
    <3>3. CASE Tenant(v) # Tenant(u)
      <4> DEFINE h == Overrides[Tenant(v)][source]
      <4>1. Configured(v) = Over(f, h) /\ m \in {f, Over(f, h)}
        BY <2>1, <2>5 DEF Configured
      <4>2. DOMAIN g = {}
        BY <1>4, <2>5, <3>3, UploadAssumption DEF Alone, Tenant
      <4>3. f = [x \in DOMAIN f |-> f[x]]
        BY UploadAssumption
      <4>4. v # u
        BY <3>3
      <4>5. Open(v) => m = Configured(v) \/ Request[v].event # None
        BY <2>1, <2>5
      <4> HIDE DEF f, g, h, m
      <4>6. Over(m, g) = m
        BY <4>1, <4>2, <4>3, OverSame
      <4>7. mapping'[Request[v].source] = m /\ m \in {Defaults[source], Configured(v)}
        BY <2>5, <3>1, <4>1, <4>6 DEF f
      <4>8. QED
        BY <2>2, <2>5, <4>4, <4>5, <4>7
    <3>4. QED
      BY <3>2, <3>3
  <2>6. QED
    BY <2>3, <2>4, <2>5
<1>5. DOMAIN mapping' = DOMAIN Defaults
  BY <1>1 DEF Begin, Override
<1>6. QED
  BY <1>3, <1>4, <1>5 DEF MappingInv, Alone, Configured, Tenant

LEMMA MappingFinish ==
  ASSUME UploadInv, MappingInv, NEW u \in Requests, Finish(u)
  PROVE  MappingInv'
<1>1. Open(u)
  BY DEF Finish, Open
<1>2. CASE txn[u].dead
  <2> DEFINE d == Idle
  <2>1. Go(u, d)
    BY <1>2 DEF Finish, Abort
  <2>2. RowKept(txn[u], d)
    BY DEF RowKept, Busy, Idle
  <2> HIDE DEF d
  <2>3. QED
    BY <1>1, <2>1, <2>2, MappingKept
<1>3. CASE ~txn[u].dead
  <2> DEFINE t == Ended(txn[u])
  <2>1. UNCHANGED mapping /\ txn' = [txn EXCEPT ![u] = t]
    BY <1>3 DEF Finish, Ended, UploadInv
  <2>2. t.pc = "done"
    BY <1>1, OpenOK, Fields
  <2> HIDE DEF t
  <2>3. RowAs(u, t)
    BY <2>2 DEF RowAs, Busy
  <2>4. QED
    BY <1>1, <2>1, <2>3, MappingGo
<1>4. QED
  BY <1>2, <1>3

LEMMA MappingStart ==
  ASSUME mapping = Defaults, \A u \in Requests : ~Open(u)
  PROVE  MappingInv
BY UploadAssumption DEF MappingInv, AsConfigured, Open

LEMMA MappingInit == Init => MappingInv
<1>1. Init => \A u \in Requests : ~Open(u)
  BY DEF Init, Idle, Open
<1>2. QED
  BY <1>1, MappingStart DEF Init

LEMMA MappingRestart ==
  ASSUME Restart
  PROVE  MappingInv'
<1>1. mapping' = Defaults /\ \A u \in Requests : txn'[u] = IF Open(u) THEN Idle ELSE txn[u]
  BY DEF Restart
<1>2. \A u \in Requests : txn'[u].pc \in {"idle", "done"}
  BY <1>1 DEF Open, Idle
<1>3. \A u \in Requests : ~Open(u)' /\ AsConfigured(u)'
  BY <1>2 DEF Open, AsConfigured
<1>4. QED
  BY <1>1, <1>3, UploadAssumption DEF MappingInv

LEMMA MappingStep == UploadInv /\ MappingInv /\ [Next]_vars => MappingInv'
<1> SUFFICES ASSUME UploadInv, MappingInv, [Next]_vars PROVE MappingInv'
  OBVIOUS
<1>1. ASSUME NEW u \in Requests, Begin(u) PROVE MappingInv'
  BY <1>1, MappingBegin
<1>2. ASSUME NEW u \in Requests, TakeRow(u) PROVE MappingInv'
  BY <1>2, MappingTake
<1>3. ASSUME NEW u \in Requests, FindAgent(u) PROVE MappingInv'
  BY <1>3, MappingFind
<1>4. ASSUME NEW u \in Requests, WriteAgent(u) PROVE MappingInv'
  BY <1>4, MappingWrite
<1>5. ASSUME NEW u \in Requests, InsertSignal(u) PROVE MappingInv'
  BY <1>5, MappingInsert
<1>6. ASSUME NEW u \in Requests, DeadlockVictim(u) PROVE MappingInv'
  <2>1. Open(u) /\ Break(u)
    BY <1>6 DEF DeadlockVictim, WaitsFor, Open
  <2>2. QED
    BY <2>1, MappingBreak
<1>7. ASSUME NEW u \in Requests, Finish(u) PROVE MappingInv'
  BY <1>7, MappingFinish
<1>8. CASE Restart
  BY <1>8, MappingRestart
<1>9. CASE UNCHANGED vars
  BY <1>9 DEF vars, MappingInv, Alone, Open, AsConfigured, Configured, Tenant
<1>10. QED
  BY <1>1, <1>2, <1>3, <1>4, <1>5, <1>6, <1>7, <1>8, <1>9 DEF Next

\* A tenant that alone maps a source has its rows renamed as it configured, for any mappings
\* and however its files, events and restarts are interleaved.
THEOREM LoneMappingHolds == Spec => []MappedWhenAlone
<1>1. MappingInv => MappedWhenAlone
  BY DEF MappingInv, Alone, MappedWhenAlone
<1>2. QED
  BY UploadAlways, MappingInit, MappingStep, <1>1, PTL DEF Spec
=============================================================================
