------------------------ MODULE SettingsChangeProofs ------------------------
(***************************************************************************)
(* Proofs about SettingsChange, for every set of handlers, every section,  *)
(* proposal and configuration, and any number of change requests.  With    *)
(* one requester at a time a section has one pending change; with one      *)
(* verification at a time the settings are a ledger (SettingsLedger), its  *)
(* audit log tells how the configuration came about, and the guesses are   *)
(* limited, whatever else is in flight.  The last sections say when the    *)
(* rule between the fields of a section holds of what is stored.           *)
(***************************************************************************)
EXTENDS SettingsChange, TLAPS

-----------------------------------------------------------------------------
(* The invariant.                                                          *)

\* What session t of handler h relies on while it runs.
SessionOK(h, t) ==
  /\ t.step \in {"accepted", "inserted"} => t.proposal \in Proposals
  /\ t.step = "inserted" => t.id \in Ids /\ t.id < nextId /\ requests[t.id] = None
  /\ t.step \in {"guessing", "too_late", "applying", "cancelling"} =>
       t.id \in Ids /\ requests[t.id] # None
  /\ t.step \in {"guessing", "too_late", "applying"} => h \in Verifiers
  /\ t.step = "applying" => t.config \in Config
  /\ \A i \in t.expires : requests[i] # None

\* No two new requests take the same number.
OwnIds ==
  \A g, h \in Handlers :
    tx[g].step = "inserted" /\ tx[h].step = "inserted" /\ tx[g].id = tx[h].id => g = h

\* Numbers nobody has taken have no row.
Untaken == \A i \in Ids : i >= nextId => requests[i] = None

\* What verify_and_apply does not test: a pending request has a guess left.
GuessLeft == \A i \in Ids : IsPending(i) => requests[i].attempts < MaxGuesses

TypeInv ==
  /\ TypeOK
  /\ \A h \in Handlers : SessionOK(h, tx[h])
  /\ OwnIds
  /\ Untaken
  /\ GuessLeft

-----------------------------------------------------------------------------
(* Steps by their effect.                                                  *)

LEMMA ClosedType == Closed \in Session /\ \A h \in Handlers : SessionOK(h, Closed)
BY ConstantsAssumption DEF Closed, Session, SessionOK, Steps, MaxGuesses

LEMMA MergeType ==
  ASSUME NEW v \in SectionValues(Values), NEW w \in SectionValues(Values)
  PROVE  Merge(v, w) \in SectionValues(Values)
BY DEF Merge, SectionValues

\* Only the session of h changes, to one that may rely on what it needs.
LEMMA SessionStep ==
  ASSUME TypeInv, NEW h \in Handlers, NEW t \in Session, SessionOK(h, t), t.step # "inserted",
         tx' = [tx EXCEPT ![h] = t],
         UNCHANGED <<config, requests, audit, late, nextId>>, answered' \in [Ids -> Nat]
  PROVE  TypeInv'
<1>1. TypeOK'
  BY DEF TypeInv, TypeOK
<1>2. \A g \in Handlers : tx'[g] = IF g = h THEN t ELSE tx[g]
  BY DEF TypeInv, TypeOK
<1>3. ASSUME NEW g \in Handlers PROVE SessionOK(g, tx[g])'
  BY <1>2 DEF TypeInv, SessionOK
<1>4. OwnIds'
  BY <1>2 DEF TypeInv, OwnIds
<1>5. Untaken' /\ GuessLeft'
  BY DEF TypeInv, Untaken, GuessLeft, IsPending
<1>6. QED
  BY <1>1, <1>3, <1>4, <1>5 DEF TypeInv

\* The session of h writes columns of one row and ends.
LEMMA RowStep ==
  ASSUME TypeInv, NEW h \in Handlers, NEW i \in Ids, requests[i] # None,
         NEW row \in Request, row.status = "pending_otp" => row.attempts < MaxGuesses,
         requests' = [requests EXCEPT ![i] = row], Closes(h),
         config' \in Config, audit' \in Seq(AuditRow),
         UNCHANGED <<late, nextId>>, answered' \in [Ids -> Nat]
  PROVE  TypeInv'
<1>1. TypeOK'
  BY ClosedType DEF TypeInv, TypeOK, Closes
<1>2. \A g \in Handlers : tx'[g] = IF g = h THEN Closed ELSE tx[g]
  BY DEF TypeInv, TypeOK, Closes
<1>3. \A j \in Ids : requests'[j] = IF j = i THEN row ELSE requests[j]
  BY DEF TypeInv, TypeOK
<1>4. row # None
  BY ConstantsAssumption
<1>5. ASSUME NEW g \in Handlers PROVE SessionOK(g, tx[g])'
  <2>1. CASE g = h
    BY <2>1, <1>2 DEF SessionOK, Closed
  <2>2. CASE g # h
    <3>1. tx'[g] = tx[g] /\ SessionOK(g, tx[g]) /\ tx[g] \in Session
      BY <2>2, <1>2 DEF TypeInv, TypeOK
    <3>2. QED
      BY <3>1, <1>3, <1>4 DEF SessionOK, Session
  <2>3. QED
    BY <2>1, <2>2
<1>6. OwnIds'
  BY <1>2 DEF TypeInv, OwnIds, Closed
<1>7. Untaken' /\ GuessLeft'
  BY <1>3 DEF TypeInv, Untaken, GuessLeft, IsPending
<1>8. QED
  BY <1>1, <1>5, <1>6, <1>7 DEF TypeInv

-----------------------------------------------------------------------------
(* Type correctness.                                                       *)

LEMMA InitTypeInv == Init => TypeInv
<1> SUFFICES ASSUME Init PROVE TypeInv
  OBVIOUS
<1>1. TypeOK
  BY ClosedType, ConstantsAssumption DEF Init, TypeOK
<1>2. \A h \in Handlers : tx[h] = Closed
  BY DEF Init
<1>3. \A h \in Handlers : SessionOK(h, tx[h])
  BY <1>2, ClosedType
<1>4. OwnIds /\ Untaken /\ GuessLeft
  BY <1>2 DEF Init, OwnIds, Untaken, GuessLeft, IsPending, Closed
<1>5. QED
  BY <1>1, <1>3, <1>4 DEF TypeInv

LEMMA RequestTypeInv ==
  ASSUME TypeInv, NEW h \in Requesters,
         (\E p \in Proposals : RequestChange(h, p)) \/ InsertRequest(h) \/ CommitRequest(h)
  PROVE  TypeInv'
<1> h \in Handlers
  BY DEF Handlers
<1> TypeOK /\ tx[h] \in Session /\ SessionOK(h, tx[h])
  BY DEF TypeInv, TypeOK
<1>1. ASSUME NEW p \in Proposals, RequestChange(h, p) PROVE TypeInv'
  <2> DEFINE t == [Closed EXCEPT !.step = "accepted", !.proposal = p]
  <2>1. t \in Session /\ t.step = "accepted" /\ t.proposal = p /\ t.expires = {}
    BY ClosedType, ConstantsAssumption DEF Session, Steps, Closed
  <2>2. SessionOK(h, t)
    BY <2>1 DEF SessionOK
  <2>3. tx' = [tx EXCEPT ![h] = t] /\ UNCHANGED <<config, requests, audit, late, nextId, answered>>
    BY <1>1 DEF RequestChange, dbVars
  <2> HIDE DEF t
  <2>4. QED
    BY <2>1, <2>2, <2>3, SessionStep DEF TypeOK
<1>2. CASE InsertRequest(h)
  <2> DEFINE others == PendingIn(tx[h].proposal.section)
             t == [tx[h] EXCEPT !.step = "inserted", !.id = nextId, !.expires = others]
  <2>1. others \subseteq Ids /\ \A i \in others : requests[i] # None
    BY DEF PendingIn, IsPending
  <2>2. tx' = [tx EXCEPT ![h] = t] /\ nextId' = nextId + 1 /\ nextId \in Ids
        /\ tx[h].step = "accepted" /\ UNCHANGED <<config, requests, audit, late, answered>>
    BY <1>2 DEF InsertRequest, dbVars, Session
  <2> HIDE DEF others
  <2>3. t \in Session /\ t.step = "inserted" /\ t.id = nextId /\ t.expires = others
        /\ t.proposal = tx[h].proposal
    BY <2>1, <2>2 DEF Session, Steps
  <2> HIDE DEF t
  <2>4. nextId \in Nat /\ nextId' \in 1 .. MaxRequests + 1
    BY <2>2, ConstantsAssumption DEF Ids
  <2>5. TypeOK'
    BY <2>2, <2>3, <2>4 DEF TypeOK
  <2>6. \A g \in Handlers : tx'[g] = IF g = h THEN t ELSE tx[g]
    BY <2>2 DEF TypeOK
  <2>7. requests[nextId] = None
    BY <2>2, <2>4 DEF TypeInv, Untaken
  <2>8. \A i \in Ids : i \in Nat
    BY DEF Ids
  <2>9. ASSUME NEW g \in Handlers PROVE SessionOK(g, tx[g])'
    <3>1. CASE g = h
      <4>1. tx'[g] = t /\ tx[h].proposal \in Proposals /\ nextId < nextId'
        BY <3>1, <2>2, <2>4, <2>6 DEF SessionOK
      <4>2. \A i \in t.expires : requests'[i] # None
        BY <2>1, <2>2, <2>3
      <4>3. QED
        BY <4>1, <4>2, <2>2, <2>3, <2>7 DEF SessionOK
    <3>2. CASE g # h
      <4>1. tx'[g] = tx[g] /\ SessionOK(g, tx[g])
        BY <3>2, <2>6 DEF TypeInv
      <4>2. tx[g].step = "inserted" => tx[g].id < nextId'
        <5>1. ASSUME tx[g].step = "inserted" PROVE tx[g].id \in Nat /\ tx[g].id < nextId
          BY <4>1, <5>1, <2>8 DEF SessionOK
        <5>2. nextId' = nextId + 1 /\ nextId \in Nat
          BY <2>2, <2>4
        <5>3. QED
          BY <5>1, <5>2
      <4>3. QED
        BY <4>1, <4>2, <2>2 DEF SessionOK
    <3>3. QED
      BY <3>1, <3>2
  <2>10. OwnIds'
    <3>1. ASSUME NEW g \in Handlers, g # h, tx[g].step = "inserted" PROVE tx[g].id # nextId
      BY <3>1, <2>4, <2>8 DEF TypeInv, SessionOK
    <3>2. QED
      BY <3>1, <2>3, <2>6 DEF TypeInv, OwnIds
  <2>11. Untaken' /\ GuessLeft'
    <3>1. ASSUME NEW i \in Ids, i >= nextId' PROVE requests'[i] = None
      BY <3>1, <2>2, <2>4, <2>8 DEF TypeInv, Untaken
    <3>2. QED
      BY <3>1, <2>2 DEF TypeInv, Untaken, GuessLeft, IsPending
  <2>12. QED
    BY <2>5, <2>9, <2>10, <2>11 DEF TypeInv
<1>3. CASE CommitRequest(h)
  <2> DEFINE t == tx[h]
             row == [proposal |-> t.proposal, status |-> "pending_otp", attempts |-> 0]
  <2>1. t.id \in Ids /\ t.id < nextId /\ requests[t.id] = None /\ t.proposal \in Proposal
        /\ t.expires \subseteq Ids
    BY <1>3, ConstantsAssumption DEF CommitRequest, SessionOK, Session
  <2>2. row \in Request /\ row.status = "pending_otp" /\ row.attempts = 0 /\ row # None
    BY <2>1, ConstantsAssumption DEF Request, Statuses, MaxGuesses
  <2>3. \A i \in Ids : requests'[i] =
          IF i = t.id THEN row
          ELSE IF i \in t.expires THEN [requests[i] EXCEPT !.status = "expired"] ELSE requests[i]
    BY <1>3 DEF CommitRequest
  <2>4. ASSUME NEW i \in t.expires
        PROVE  LET r == [requests[i] EXCEPT !.status = "expired"] IN
               i \in Ids /\ r \in Request /\ r.status = "expired" /\ r # None
    <3>1. i \in Ids /\ requests[i] \in Request
      BY <2>1 DEF SessionOK, TypeOK
    <3>2. [requests[i] EXCEPT !.status = "expired"] \in Request
      BY <3>1 DEF Request, Statuses
    <3>3. QED
      BY <3>1, <3>2, ConstantsAssumption DEF Request
  <2> HIDE DEF row
  <2>5. requests' \in [Ids -> Request \cup {None}]
    <3>1. requests' = [i \in Ids |-> requests'[i]]
      BY <1>3 DEF CommitRequest
    <3>2. ASSUME NEW i \in Ids PROVE requests'[i] \in Request \cup {None}
      BY <2>2, <2>3, <2>4 DEF TypeOK
    <3>3. QED
      BY <3>1, <3>2
  <2>6. \A i \in Ids : requests[i] # None => requests'[i] # None
    BY <2>1, <2>2, <2>3, <2>4
  <2>7. UNCHANGED <<config, audit, late, nextId, answered>> /\ t.step = "inserted"
        /\ tx' = [tx EXCEPT ![h] = Closed]
    BY <1>3 DEF CommitRequest, Closes
  <2>8. TypeOK'
    BY <2>5, <2>7, ClosedType DEF TypeOK
  <2>9. \A g \in Handlers : tx'[g] = IF g = h THEN Closed ELSE tx[g]
    BY <2>7 DEF TypeOK
  <2>10. ASSUME NEW g \in Handlers PROVE SessionOK(g, tx[g])'
    <3>1. CASE g = h
      BY <3>1, <2>9 DEF SessionOK, Closed
    <3>2. CASE g # h
      <4>1. tx'[g] = tx[g] /\ SessionOK(g, tx[g]) /\ tx[g] \in Session
        BY <3>2, <2>9 DEF TypeInv, TypeOK
      <4>2. tx[g].step = "inserted" => tx[g].id # t.id
        BY <3>2, <2>7 DEF TypeInv, OwnIds
      <4>3. tx[g].step = "inserted" => tx[g].id \notin t.expires
        BY <4>1 DEF SessionOK
      <4>4. tx[g].step = "inserted" => requests'[tx[g].id] = None
        BY <4>1, <4>2, <4>3, <2>3 DEF SessionOK
      <4>5. \A i \in tx[g].expires : requests'[i] # None
        BY <4>1, <2>6 DEF SessionOK, Session
      <4>6. QED
        BY <4>1, <4>4, <4>5, <2>6, <2>7 DEF SessionOK
    <3>3. QED
      BY <3>1, <3>2
  <2>11. OwnIds'
    BY <2>9 DEF TypeInv, OwnIds, Closed
  <2>12. Untaken'
    <3>1. \A i \in Ids : i \in Nat /\ nextId \in Nat
      BY ConstantsAssumption DEF Ids, TypeOK
    <3>2. ASSUME NEW i \in Ids, i >= nextId PROVE requests'[i] = None
      <4>1. requests[i] = None /\ i # t.id
        BY <3>1, <3>2, <2>1 DEF TypeInv, Untaken
      <4>2. i \notin t.expires
        BY <4>1 DEF SessionOK
      <4>3. QED
        BY <4>1, <4>2, <2>3
    <3>3. QED
      BY <3>2, <2>7 DEF Untaken
  <2>13. GuessLeft'
    <3>1. ASSUME NEW i \in Ids, requests'[i] # None, requests'[i].status = "pending_otp"
          PROVE  requests'[i].attempts < MaxGuesses
      <4>1. CASE i = t.id
        <5>1. requests'[i] = row
          BY <4>1, <2>3
        <5>2. QED
          BY <5>1, <2>2 DEF MaxGuesses
      <4>2. CASE i # t.id /\ i \in t.expires
        <5>1. requests[i] \in Request /\ i \in Ids
          BY <4>2, <2>1 DEF SessionOK, TypeOK
        <5>2. requests'[i] = [requests[i] EXCEPT !.status = "expired"]
          BY <4>2, <2>3
        <5>3. requests'[i].status = "expired"
          BY <5>1, <5>2 DEF Request
        <5>4. QED
          BY <5>3, <3>1
      <4>3. CASE i # t.id /\ i \notin t.expires
        BY <4>3, <3>1, <2>3 DEF TypeInv, GuessLeft, IsPending
      <4>4. QED
        BY <4>1, <4>2, <4>3
    <3>2. QED
      BY <3>1 DEF GuessLeft, IsPending
  <2>14. QED
    BY <2>8, <2>10, <2>11, <2>12, <2>13 DEF TypeInv
<1>4. QED
  BY <1>1, <1>2, <1>3

\* What a session of h in one of these steps knows of its request.
LEMMA AtRequest ==
  ASSUME TypeInv, NEW h \in Handlers,
         tx[h].step \in {"guessing", "too_late", "applying", "cancelling"}
  PROVE  /\ tx[h].id \in Ids /\ requests[tx[h].id] \in Request
         /\ requests[tx[h].id] # None /\ tx[h].attempts \in 0 .. MaxGuesses - 1
BY ConstantsAssumption DEF TypeInv, TypeOK, SessionOK, Session

\* A row that is only given another final status.
LEMMA StatusStep ==
  ASSUME TypeInv, NEW h \in Handlers, NEW i \in Ids, requests[i] # None, requests[i] \in Request,
         requests' = [requests EXCEPT ![i].status = "expired"], Closes(h),
         UNCHANGED <<config, audit, late, nextId, answered>>
  PROVE  TypeInv'
<1> DEFINE row == [requests[i] EXCEPT !.status = "expired"]
<1>1. row \in Request /\ row.status = "expired"
  BY DEF Request, Statuses
<1>2. requests' = [requests EXCEPT ![i] = row]
  BY DEF TypeInv, TypeOK
<1> HIDE DEF row
<1>3. config' \in Config /\ audit' \in Seq(AuditRow) /\ answered' \in [Ids -> Nat]
  BY DEF TypeInv, TypeOK
<1>4. QED
  BY <1>1, <1>2, <1>3, RowStep

LEMMA BeginTypeInv ==
  ASSUME TypeInv, NEW h \in Handlers, NEW i \in Ids,
         (BeginVerify(h, i) /\ h \in Verifiers) \/ BeginCancel(h, i)
  PROVE  TypeInv'
<1>1. CASE BeginVerify(h, i) /\ h \in Verifiers
  <2> DEFINE step == IF i \in late THEN "too_late" ELSE "guessing"
             t == [Closed EXCEPT !.step = step, !.id = i, !.attempts = requests[i].attempts]
  <2>1. requests[i] # None /\ requests[i].attempts \in 0 .. MaxGuesses - 1
    BY <1>1 DEF BeginVerify, IsPending, TypeInv, TypeOK, GuessLeft, Request, MaxGuesses
  <2>2. step \in {"too_late", "guessing"}
    OBVIOUS
  <2>3. tx' = [tx EXCEPT ![h] = t] /\ UNCHANGED <<config, requests, audit, late, nextId, answered>>
    BY <1>1 DEF BeginVerify, dbVars
  <2> HIDE DEF step
  <2>4. t \in Session /\ t.step = step /\ t.id = i /\ t.expires = {}
    BY <2>1, <2>2, ClosedType DEF Session, Steps, Closed
  <2> HIDE DEF t
  <2>5. SessionOK(h, t)
    BY <1>1, <2>1, <2>2, <2>4 DEF SessionOK
  <2>6. QED
    BY <2>2, <2>3, <2>4, <2>5, SessionStep DEF TypeInv, TypeOK
<1>2. CASE BeginCancel(h, i)
  <2> DEFINE t == [Closed EXCEPT !.step = "cancelling", !.id = i]
  <2>1. requests[i] # None
    BY <1>2 DEF BeginCancel, IsPending
  <2>2. tx' = [tx EXCEPT ![h] = t] /\ UNCHANGED <<config, requests, audit, late, nextId, answered>>
    BY <1>2 DEF BeginCancel, dbVars
  <2>3. t \in Session /\ t.step = "cancelling" /\ t.id = i /\ t.expires = {}
    BY ClosedType DEF Session, Steps, Closed
  <2> HIDE DEF t
  <2>4. SessionOK(h, t)
    BY <2>1, <2>3 DEF SessionOK
  <2>5. QED
    BY <2>2, <2>3, <2>4, SessionStep DEF TypeInv, TypeOK
<1>3. QED
  BY <1>1, <1>2

LEMMA GuessTypeInv ==
  ASSUME TypeInv, NEW h \in Verifiers, WrongGuess(h) \/ RightGuess(h)
  PROVE  TypeInv'
<1> h \in Handlers
  BY DEF Handlers
<1> DEFINE i == tx[h].id
           r == requests[i]
<1>1. CASE WrongGuess(h)
  <2> DEFINE attempts == tx[h].attempts + 1
             status == IF attempts >= MaxGuesses THEN "rejected" ELSE r.status
             row == [r EXCEPT !.attempts = attempts, !.status = status]
  <2>1. i \in Ids /\ r \in Request /\ r # None /\ attempts \in 0 .. MaxGuesses
    BY <1>1, AtRequest DEF WrongGuess, MaxGuesses
  <2>2. requests' = [requests EXCEPT ![i] = row]
    BY <1>1, <2>1 DEF WrongGuess, TypeInv, TypeOK, Request
  <2>3. attempts < MaxGuesses \/ status = "rejected"
    BY <2>1 DEF MaxGuesses
  <2>4. status \in Statuses
    BY <2>1 DEF Statuses, Request
  <2> HIDE DEF attempts, status, r
  <2>5. row \in Request /\ row.status = status /\ row.attempts = attempts
    BY <2>1, <2>4 DEF Request
  <2> HIDE DEF row
  <2>6. answered' \in [Ids -> Nat] /\ UNCHANGED <<config, audit, late, nextId>> /\ Closes(h)
    BY <1>1, <2>1 DEF WrongGuess, TypeInv, TypeOK
  <2>7. config' \in Config /\ audit' \in Seq(AuditRow)
    BY <2>6 DEF TypeInv, TypeOK
  <2>8. requests[i] # None /\ (row.status = "pending_otp" => row.attempts < MaxGuesses)
    BY <2>1, <2>3, <2>5 DEF r
  <2>9. QED
    BY <2>1, <2>2, <2>5, <2>6, <2>7, <2>8, RowStep
<1>2. CASE RightGuess(h)
  <2> DEFINE t == [tx[h] EXCEPT !.step = "applying", !.config = config]
  <2>1. tx[h] \in Session /\ config \in Config /\ i \in Ids /\ requests[i] # None
        /\ SessionOK(h, tx[h])
    BY <1>2, AtRequest DEF RightGuess, TypeInv, TypeOK
  <2>2. tx' = [tx EXCEPT ![h] = t] /\ UNCHANGED <<config, requests, audit, late, nextId, answered>>
    BY <1>2, <2>1 DEF RightGuess, dbVars, Session
  <2>3. t \in Session /\ t.step = "applying" /\ t.config = config /\ t.id = i
        /\ t.expires = tx[h].expires
    BY <2>1 DEF Session, Steps
  <2> HIDE DEF t, i
  <2>4. SessionOK(h, t)
    BY <2>1, <2>3 DEF SessionOK
  <2>5. QED
    BY <2>2, <2>3, <2>4, SessionStep DEF TypeInv, TypeOK
<1>3. QED
  BY <1>1, <1>2

LEMMA ApplyTypeInv ==
  ASSUME TypeInv, NEW h \in Verifiers, ApplyChange(h)
  PROVE  TypeInv'
<1> h \in Handlers
  BY DEF Handlers
<1> DEFINE t == tx[h]
           r == requests[t.id]
           s == r.proposal.section
           before == t.config[s]
           after == Merge(before, r.proposal.values)
           row == [r EXCEPT !.status = "applied", !.attempts = t.attempts + 1]
           entry == [request |-> t.id, before |-> before, after |-> after]
<1>1. t.id \in Ids /\ r \in Request /\ requests[t.id] # None /\ t.attempts + 1 \in 0 .. MaxGuesses
  BY AtRequest DEF ApplyChange, MaxGuesses
<1>2. t.config \in Config
  BY DEF ApplyChange, TypeInv, SessionOK
<1>3. s \in Sections /\ r.proposal.values \in SectionValues(Values)
  BY <1>1 DEF Request, Proposal
<1>4. before \in SectionValues(Values)
  BY <1>2, <1>3 DEF Config
<1>5. after \in SectionValues(Values)
  BY <1>3, <1>4, MergeType
<1>6. row \in Request /\ row.status = "applied"
  BY <1>1 DEF Request, Statuses
<1>7. requests' = [requests EXCEPT ![t.id] = row]
  BY <1>1 DEF ApplyChange, TypeInv, TypeOK, Request
<1>8. config' = [t.config EXCEPT ![s] = after] /\ audit' = Append(audit, entry)
      /\ Closes(h) /\ UNCHANGED <<late, nextId, answered>>
  BY DEF ApplyChange
<1> HIDE DEF row, after, before, s
<1>9. config' \in Config
  BY <1>2, <1>5, <1>8 DEF Config
<1>10. entry \in AuditRow
  BY <1>1, <1>4, <1>5 DEF AuditRow
<1> HIDE DEF entry
<1>11. audit' \in Seq(AuditRow) /\ answered' \in [Ids -> Nat]
  BY <1>8, <1>10 DEF TypeInv, TypeOK
<1>12. QED
  BY <1>1, <1>6, <1>7, <1>8, <1>9, <1>11, RowStep

LEMMA NextTypeInv ==
  ASSUME TypeInv, [Next]_vars
  PROVE  TypeInv'
<1>1. ASSUME NEW h \in Requesters,
             (\E p \in Proposals : RequestChange(h, p)) \/ InsertRequest(h) \/ CommitRequest(h)
      PROVE  TypeInv'
  BY <1>1, RequestTypeInv
<1>2. ASSUME NEW h \in Verifiers, NEW i \in Ids, BeginVerify(h, i) PROVE TypeInv'
  BY <1>2, BeginTypeInv DEF Handlers
<1>3. ASSUME NEW h \in Verifiers, VerifyTooLate(h) PROVE TypeInv'
  BY <1>3, AtRequest, StatusStep DEF VerifyTooLate, Handlers
<1>4. ASSUME NEW h \in Verifiers, WrongGuess(h) \/ RightGuess(h) PROVE TypeInv'
  BY <1>4, GuessTypeInv
<1>5. ASSUME NEW h \in Verifiers, ApplyChange(h) PROVE TypeInv'
  BY <1>5, ApplyTypeInv
<1>6. ASSUME NEW h \in Cancellers, NEW i \in Ids, BeginCancel(h, i) PROVE TypeInv'
  BY <1>6, BeginTypeInv DEF Handlers
<1>7. ASSUME NEW h \in Cancellers, CommitCancel(h) PROVE TypeInv'
  BY <1>7, AtRequest, StatusStep DEF CommitCancel, Handlers
<1>8. ASSUME NEW h \in Handlers, Abort(h) PROVE TypeInv'
  <2>1. UNCHANGED <<config, requests, audit, late, nextId>> /\ answered' \in [Ids -> Nat]
        /\ tx' = [tx EXCEPT ![h] = Closed] /\ Closed.step # "inserted"
    BY <1>8 DEF Abort, Closes, Closed, dbVars, TypeInv, TypeOK
  <2>2. QED
    BY <2>1, ClosedType, SessionStep
<1>9. ASSUME NEW i \in Ids, OtpExpires(i) PROVE TypeInv'
  BY <1>9 DEF OtpExpires, dbVars, TypeInv, TypeOK, SessionOK, OwnIds, Untaken, GuessLeft, IsPending
<1>10. CASE UNCHANGED vars
  BY <1>10 DEF vars, dbVars, TypeInv, TypeOK, SessionOK, OwnIds, Untaken, GuessLeft, IsPending
<1>11. QED
  BY <1>1, <1>2, <1>3, <1>4, <1>5, <1>6, <1>7, <1>8, <1>9, <1>10 DEF Next

LEMMA TypeInvariance == Spec => []TypeInv
BY InitTypeInv, NextTypeInv, PTL DEF Spec

\* Every row and every session holds values of their types, whatever is in
\* flight together.
THEOREM SettingsTypeCorrect == Spec => []TypeOK
<1>1. TypeInv => TypeOK
  BY DEF TypeInv
<1>2. QED
  BY <1>1, TypeInvariance, PTL

\* verify_and_apply counts a guess without testing otp_attempts first: it
\* never counts one too many, because no pending request has used them up.
THEOREM AttemptsNeedNoTest == Spec => []GuessLeft
<1>1. TypeInv => GuessLeft
  BY DEF TypeInv
<1>2. QED
  BY <1>1, TypeInvariance, PTL
-----------------------------------------------------------------------------
(* One pending request per section.                                        *)

\* At most one request for a change is in flight.
OneRequester == \A g, h \in Requesters : g = h

\* What its INSERT adds to is about to expire: no other handler makes a
\* request pending.
PendingInv ==
  /\ OnePendingPerSection
  /\ \A h \in Requesters :
       tx[h].step = "inserted" => PendingIn(tx[h].proposal.section) \subseteq tx[h].expires

\* A row that was pending before, and asks for what it asked for.
StaysPending(i) == IsPending(i) /\ requests'[i].proposal = requests[i].proposal

LEMMA InitPending == Init => PendingInv
BY DEF Init, PendingInv, OnePendingPerSection, IsPending, PendingIn, Closed

\* Steps that make nothing pending.
LEMMA PendingKeeps ==
  ASSUME PendingInv, \A i \in Ids : IsPending(i)' => StaysPending(i),
         \A h \in Requesters : tx'[h].step = "inserted" => tx'[h] = tx[h]
  PROVE  PendingInv'
<1>1. OnePendingPerSection'
  BY DEF PendingInv, OnePendingPerSection, StaysPending
<1>2. ASSUME NEW h \in Requesters, tx'[h].step = "inserted",
             NEW i \in Ids, IsPending(i)', requests'[i].proposal.section = tx'[h].proposal.section
      PROVE  i \in tx'[h].expires
  BY <1>2 DEF PendingInv, PendingIn, StaysPending
<1>3. QED
  BY <1>1, <1>2 DEF PendingInv, PendingIn

\* A row given other attempts or a status that is not pending.
LEMMA PendingRow ==
  ASSUME TypeInv, NEW i \in Ids, NEW row \in Request, row.proposal = requests[i].proposal,
         requests[i] # None, row.status = "pending_otp" => requests[i].status = "pending_otp",
         requests' = [requests EXCEPT ![i] = row]
  PROVE  \A j \in Ids : IsPending(j)' => StaysPending(j)
<1>1. \A j \in Ids : requests'[j] = IF j = i THEN row ELSE requests[j]
  BY DEF TypeInv, TypeOK
<1>2. QED
  BY <1>1 DEF IsPending, StaysPending

LEMMA PendingVerify ==
  ASSUME TypeInv, NEW h \in Handlers,
         VerifyTooLate(h) \/ WrongGuess(h) \/ ApplyChange(h) \/ CommitCancel(h)
  PROVE  \A i \in Ids : IsPending(i)' => StaysPending(i)
<1> DEFINE i == tx[h].id
<1>1. i \in Ids /\ requests[i] \in Request /\ requests[i] # None
      /\ tx[h].attempts + 1 \in 0 .. MaxGuesses
  BY AtRequest DEF VerifyTooLate, WrongGuess, ApplyChange, CommitCancel, MaxGuesses
<1>2. CASE VerifyTooLate(h) \/ CommitCancel(h)
  <2> DEFINE row == [requests[i] EXCEPT !.status = "expired"]
  <2>1. /\ row \in Request /\ row.proposal = requests[i].proposal /\ row.status = "expired"
    BY <1>1 DEF Request, Statuses
  <2>2. requests' = [requests EXCEPT ![i] = row]
    BY <1>1, <1>2 DEF VerifyTooLate, CommitCancel, TypeInv, TypeOK
  <2> HIDE DEF row
  <2>3. QED
    BY <1>1, <2>1, <2>2, PendingRow
<1>3. CASE WrongGuess(h)
  <2> DEFINE attempts == tx[h].attempts + 1
             status == IF attempts >= MaxGuesses THEN "rejected" ELSE requests[i].status
             row == [requests[i] EXCEPT !.attempts = attempts, !.status = status]
  <2>1. status \in Statuses /\ status \in {"rejected", requests[i].status}
    BY <1>1 DEF Request, Statuses
  <2>2. requests' = [requests EXCEPT ![i] = row]
    BY <1>1, <1>3 DEF WrongGuess, TypeInv, TypeOK, Request
  <2> HIDE DEF status
  <2>3. /\ row \in Request /\ row.proposal = requests[i].proposal /\ row.status = status
    BY <1>1, <2>1 DEF Request
  <2> HIDE DEF row
  <2>4. QED
    BY <1>1, <2>1, <2>2, <2>3, PendingRow
<1>4. CASE ApplyChange(h)
  <2> DEFINE row == [requests[i] EXCEPT !.status = "applied", !.attempts = tx[h].attempts + 1]
  <2>1. /\ row \in Request /\ row.proposal = requests[i].proposal /\ row.status = "applied"
    BY <1>1 DEF Request, Statuses
  <2>2. requests' = [requests EXCEPT ![i] = row]
    BY <1>1, <1>4 DEF ApplyChange, TypeInv, TypeOK, Request
  <2> HIDE DEF row
  <2>3. QED
    BY <1>1, <2>1, <2>2, PendingRow
<1>5. QED
  BY <1>2, <1>3, <1>4

\* The insertion of a request makes no other row pending, and none of its section stays so: those
\* that were pending when the statement ran, it expired.
LEMMA CommitOthers ==
  ASSUME TypeInv, PendingInv, NEW h \in Requesters, CommitRequest(h),
         NEW i \in Ids, i # tx[h].id, IsPending(i)'
  PROVE  StaysPending(i) /\ requests[i].proposal.section # tx[h].proposal.section
<1> DEFINE t == tx[h]
<1>1. /\ PendingIn(t.proposal.section) \subseteq t.expires
      /\ \A j \in t.expires : requests[j] # None
  BY DEF CommitRequest, TypeInv, SessionOK, PendingInv, Handlers
<1>2. requests'[i] = IF i \in t.expires THEN [requests[i] EXCEPT !.status = "expired"] ELSE requests[i]
  BY DEF CommitRequest
<1>3. CASE i \in t.expires
  <2> DEFINE expired == [requests[i] EXCEPT !.status = "expired"]
  <2>1. requests[i] \in Request
    BY <1>1, <1>3 DEF TypeInv, TypeOK
  <2>2. expired.status = "expired"
    BY <2>1 DEF Request
  <2>3. requests'[i] = expired
    BY <1>2, <1>3
  <2> HIDE DEF expired
  <2>4. QED
    BY <2>2, <2>3 DEF IsPending
<1>4. CASE i \notin t.expires
  BY <1>1, <1>2, <1>4 DEF IsPending, StaysPending, PendingIn
<1>5. QED
  BY <1>3, <1>4

\* The new row is the only one pending in its section.
LEMMA PendingCommit ==
  ASSUME OneRequester, TypeInv, PendingInv, NEW h \in Requesters, CommitRequest(h)
  PROVE  PendingInv'
<1> DEFINE t == tx[h]
           row == [proposal |-> t.proposal, status |-> "pending_otp", attempts |-> 0]
<1>1. t.id \in Ids
  BY DEF CommitRequest, TypeInv, SessionOK, Handlers
<1>2. requests'[t.id] = row
  BY <1>1 DEF CommitRequest
<1>3. row.proposal = t.proposal
  OBVIOUS
<1> HIDE DEF row
<1>4. ASSUME NEW i \in Ids, i # t.id, IsPending(i)'
      PROVE  StaysPending(i) /\ requests[i].proposal.section # t.proposal.section
  BY <1>4, CommitOthers
<1>5. OnePendingPerSection'
  <2> SUFFICES ASSUME NEW i \in Ids, NEW j \in Ids, IsPending(i)', IsPending(j)', i # j,
                      requests'[i].proposal.section = requests'[j].proposal.section
               PROVE  FALSE
    BY DEF OnePendingPerSection
  <2>1. CASE i # t.id /\ j # t.id
    BY <1>4, <2>1 DEF StaysPending, PendingInv, OnePendingPerSection
  <2>2. CASE i = t.id
    BY <1>1, <1>2, <1>3, <1>4, <2>2 DEF StaysPending
  <2>3. CASE j = t.id
    BY <1>1, <1>2, <1>3, <1>4, <2>3 DEF StaysPending
  <2>4. QED
    BY <2>1, <2>2, <2>3
<1>6. \A g \in Requesters : tx'[g].step = "closed"
  BY DEF OneRequester, CommitRequest, Closes, Closed, TypeInv, TypeOK, Handlers
<1>7. QED
  BY <1>5, <1>6 DEF PendingInv

LEMMA PendingInsert ==
  ASSUME OneRequester, TypeInv, PendingInv, NEW h \in Requesters, InsertRequest(h)
  PROVE  PendingInv'
<1> DEFINE others == PendingIn(tx[h].proposal.section)
<1>1. tx[h] \in Session /\ h \in Handlers
  BY DEF TypeInv, TypeOK, Handlers
<1>2. tx' = [tx EXCEPT ![h].step = "inserted", ![h].id = nextId, ![h].expires = others]
      /\ requests' = requests
  BY DEF InsertRequest, dbVars
<1>3. OnePendingPerSection' /\ \A s : PendingIn(s)' = PendingIn(s)
  BY <1>2 DEF PendingInv, OnePendingPerSection, PendingIn, IsPending
<1> HIDE DEF others
<1>4. tx'[h].expires = others /\ tx'[h].proposal = tx[h].proposal
  BY <1>1, <1>2 DEF TypeInv, TypeOK, Session
<1>5. (PendingIn(tx[h].proposal.section) \subseteq tx[h].expires)'
  BY <1>2, <1>4 DEF others, PendingIn, IsPending
<1>6. (\A g \in Requesters :
         tx[g].step = "inserted" => PendingIn(tx[g].proposal.section) \subseteq tx[g].expires)'
  BY <1>5 DEF OneRequester
<1>7. QED
  BY <1>3, <1>6 DEF PendingInv

LEMMA PendingStep ==
  ASSUME OneRequester, TypeInv, PendingInv, [Next]_vars
  PROVE  PendingInv'
<1> DEFINE Rows == \A i \in Ids : IsPending(i)' => StaysPending(i)
           Sessions == \A h \in Requesters : tx'[h].step = "inserted" => tx'[h] = tx[h]
<1>1. ASSUME requests' = requests PROVE Rows
  BY <1>1 DEF IsPending, StaysPending
<1>2. ASSUME NEW h \in Handlers, NEW t, t.step # "inserted", tx' = [tx EXCEPT ![h] = t] PROVE Sessions
  <2>1. \A g \in Handlers : tx'[g] = IF g = h THEN t ELSE tx[g]
    BY <1>2 DEF TypeInv, TypeOK
  <2>2. QED
    BY <1>2, <2>1 DEF Handlers
<1>3. ASSUME NEW h \in Handlers, Closes(h) PROVE Sessions
  BY <1>2, <1>3 DEF Closes, Closed
<1>4. ASSUME NEW h \in Requesters, NEW p \in Proposals, RequestChange(h, p) PROVE PendingInv'
  <2> DEFINE t == [Closed EXCEPT !.step = "accepted", !.proposal = p]
  <2>1. t.step # "inserted" /\ tx' = [tx EXCEPT ![h] = t] /\ requests' = requests /\ h \in Handlers
    BY <1>4 DEF RequestChange, Closed, dbVars, Handlers
  <2> HIDE DEF t
  <2>2. QED
    BY <1>1, <1>2, <2>1, PendingKeeps
<1>5. ASSUME NEW h \in Verifiers, NEW i \in Ids, BeginVerify(h, i) PROVE PendingInv'
  <2> DEFINE step == IF i \in late THEN "too_late" ELSE "guessing"
             t == [Closed EXCEPT !.step = step, !.id = i, !.attempts = requests[i].attempts]
  <2>1. t.step # "inserted" /\ tx' = [tx EXCEPT ![h] = t] /\ requests' = requests /\ h \in Handlers
    BY <1>5 DEF BeginVerify, Closed, dbVars, Handlers
  <2> HIDE DEF t
  <2>2. QED
    BY <1>1, <1>2, <2>1, PendingKeeps
<1>6. ASSUME NEW h \in Verifiers, RightGuess(h) PROVE PendingInv'
  <2> DEFINE t == [tx[h] EXCEPT !.step = "applying", !.config = config]
  <2>1. tx[h] \in Session /\ h \in Handlers
    BY DEF TypeInv, TypeOK, Handlers
  <2>2. tx' = [tx EXCEPT ![h] = t] /\ UNCHANGED dbVars
    BY <1>6, <2>1 DEF RightGuess, Session
  <2>3. t.step = "applying"
    BY <2>1 DEF Session
  <2> HIDE DEF t
  <2>4. QED
    BY <1>1, <1>2, <2>1, <2>2, <2>3, PendingKeeps DEF dbVars
<1>7. ASSUME NEW h \in Cancellers, NEW i \in Ids, BeginCancel(h, i) PROVE PendingInv'
  <2> DEFINE t == [Closed EXCEPT !.step = "cancelling", !.id = i]
  <2>1. t.step # "inserted" /\ tx' = [tx EXCEPT ![h] = t] /\ requests' = requests /\ h \in Handlers
    BY <1>7 DEF BeginCancel, Closed, dbVars, Handlers
  <2> HIDE DEF t
  <2>2. QED
    BY <1>1, <1>2, <2>1, PendingKeeps
<1>8. ASSUME NEW h \in Handlers,
             VerifyTooLate(h) \/ WrongGuess(h) \/ ApplyChange(h) \/ CommitCancel(h)
      PROVE  PendingInv'
  <2>1. Rows
    BY <1>8, PendingVerify
  <2>2. Closes(h)
    BY <1>8 DEF VerifyTooLate, WrongGuess, ApplyChange, CommitCancel
  <2>3. QED
    BY <1>3, <2>1, <2>2, PendingKeeps
<1>9. ASSUME NEW h \in Handlers, Abort(h) PROVE PendingInv'
  BY <1>1, <1>3, <1>9, PendingKeeps DEF Abort, dbVars
<1>10. ASSUME UNCHANGED <<requests, tx>> PROVE PendingInv'
  BY <1>1, <1>10, PendingKeeps
<1>11. ASSUME NEW i \in Ids, OtpExpires(i) PROVE PendingInv'
  BY <1>10, <1>11 DEF OtpExpires, dbVars
<1>12. CASE UNCHANGED vars
  BY <1>10, <1>12 DEF vars, dbVars
<1>13. QED
  BY <1>4, <1>5, <1>6, <1>7, <1>8, <1>9, <1>11, <1>12, PendingInsert, PendingCommit
     DEF Next, Handlers

\* As long as one request for a change runs at a time, a section never has
\* two changes to verify: whatever verifications and cancels are in flight,
\* none of them makes a request pending that the UPDATE has not seen.
THEOREM OneChangeToVerify == OneRequester => (Spec => []OnePendingPerSection)
<1>1. ASSUME OneRequester PROVE Spec => []OnePendingPerSection
  <2>1. TypeInv /\ PendingInv /\ [Next]_vars => PendingInv'
    BY <1>1, PendingStep
  <2>2. PendingInv => OnePendingPerSection
    BY DEF PendingInv
  <2>3. QED
    BY <2>1, <2>2, InitPending, TypeInvariance, PTL DEF Spec
<1>2. QED
  BY <1>1
-----------------------------------------------------------------------------
(* The settings are a ledger.                                              *)

\* At most one verification is in flight.
OneVerifier == \A v, w \in Verifiers : v = w

\* The audit log has no merge of request i.
Unmerged(i) == \A n \in DOMAIN audit : audit[n].request # i

\* What can still be merged has not been, and a session that is about to
\* write the configuration holds it as it stands.
LedgerInv ==
  /\ \A i \in Ids : requests[i] = None \/ IsPending(i) => Unmerged(i)
  /\ \A h \in Handlers :
       /\ tx[h].step \in {"guessing", "applying"} => Unmerged(tx[h].id)
       /\ tx[h].step = "applying" => tx[h].config = config

\* What the requests ask for, the mapping's first component.
Asked == [i \in Ids |-> IF requests[i] = None THEN None ELSE requests[i].proposal]

-----------------------------------------------------------------------------
LEMMA InitLedger == Init => LedgerInv /\ Ledger!LedgerInit
<1> SUFFICES ASSUME Init PROVE LedgerInv /\ Ledger!LedgerInit
  OBVIOUS
<1>1. \A h \in Handlers : tx[h].step = "closed"
  BY DEF Init, Closed
<1>2. \A i \in Ids : Unmerged(i)
  BY DEF Init, Unmerged
<1>3. LedgerInv
  BY <1>1, <1>2 DEF LedgerInv
<1>4. Ledger!LedgerInit
  BY DEF Init, Ledger!LedgerInit
<1>5. QED
  BY <1>3, <1>4

\* A step that leaves configuration, audit log and proposals alone, reopens
\* no request, and opens at most the session of h on a pending one.
LEMMA QuietStep ==
  ASSUME TypeInv, LedgerInv, UNCHANGED <<config, audit>>,
         \A i \in Ids : requests'[i] = None \/ IsPending(i)' => requests[i] = None \/ IsPending(i),
         NEW h, NEW t, tx' = [tx EXCEPT ![h] = t],
         t.step = "guessing" => t.id \in Ids /\ (IsPending(t.id)
                                  \/ (h \in Handlers /\ tx[h].step = "guessing" /\ t.id = tx[h].id)),
         t.step = "applying" => h \in Handlers /\ tx[h].step = "guessing" /\ t.id = tx[h].id
                                /\ t.config = config
  PROVE  LedgerInv'
<1>1. \A g \in Handlers : tx'[g] = IF g = h THEN t ELSE tx[g]
  BY DEF TypeInv, TypeOK
<1>2. \A i : Unmerged(i)' <=> Unmerged(i)
  BY DEF Unmerged
<1>3. \A i \in Ids : (requests[i] = None \/ IsPending(i))' => Unmerged(i)'
  BY <1>2 DEF LedgerInv
<1>4. ASSUME NEW g \in Handlers
      PROVE  /\ tx'[g].step \in {"guessing", "applying"} => Unmerged(tx'[g].id)
             /\ tx'[g].step = "applying" => tx'[g].config = config
  <2>1. CASE g = h
    BY <2>1, <1>1 DEF LedgerInv
  <2>2. CASE g # h
    BY <2>2, <1>1 DEF LedgerInv
  <2>3. QED
    BY <2>1, <2>2
<1>5. QED
  BY <1>2, <1>3, <1>4 DEF LedgerInv

\* Such a step is a stutter of the ledger if it also leaves every proposal.
LEMMA QuietStutter ==
  ASSUME UNCHANGED <<config, audit>>, Asked' = Asked
  PROVE  UNCHANGED Ledger!ledgerVars
BY DEF Ledger!ledgerVars, Asked

\* Writing columns of a row that is there, other than the proposal.
LEMMA SameProposals ==
  ASSUME TypeInv, NEW i \in Ids, NEW row \in Request, requests[i] # None,
         row.proposal = requests[i].proposal, requests' = [requests EXCEPT ![i] = row]
  PROVE  Asked' = Asked
<1>1. row # None
  BY ConstantsAssumption
<1>2. \A j \in Ids : requests'[j] = IF j = i THEN row ELSE requests[j]
  BY DEF TypeInv, TypeOK
<1>3. \A j \in Ids : (IF requests'[j] = None THEN None ELSE requests'[j].proposal)
                       = (IF requests[j] = None THEN None ELSE requests[j].proposal)
  BY <1>1, <1>2
<1>4. QED
  BY <1>3 DEF Asked

-----------------------------------------------------------------------------
\* The insertion of a request is the ledger's step Asks.
LEMMA CommitIsAsk ==
  ASSUME TypeInv, LedgerInv, NEW h \in Requesters, CommitRequest(h)
  PROVE  LedgerInv' /\ Ledger!LedgerNext
<1> h \in Handlers
  BY DEF Handlers
<1> DEFINE t == tx[h]
           row == [proposal |-> t.proposal, status |-> "pending_otp", attempts |-> 0]
<1>1. /\ t.id \in Ids /\ requests[t.id] = None /\ t.proposal \in Proposals
      /\ \A i \in t.expires : requests[i] # None /\ i \in Ids
  BY DEF CommitRequest, TypeInv, SessionOK, TypeOK, Session
<1>2. \A i \in Ids : requests'[i] =
        IF i = t.id THEN row
        ELSE IF i \in t.expires THEN [requests[i] EXCEPT !.status = "expired"] ELSE requests[i]
  BY DEF CommitRequest
<1>3. row # None /\ row.proposal = t.proposal
  <2>1. row \in Request
    BY <1>1, ConstantsAssumption DEF Request, Statuses, MaxGuesses
  <2>2. QED
    BY <2>1, ConstantsAssumption
<1> HIDE DEF row
<1>4. \A i \in Ids : i # t.id /\ i \in t.expires =>
        /\ requests'[i] # None /\ requests'[i].proposal = requests[i].proposal
        /\ requests'[i].status = "expired"
  <2> SUFFICES ASSUME NEW i \in Ids, i # t.id, i \in t.expires
               PROVE  /\ requests'[i] # None /\ requests'[i].proposal = requests[i].proposal
                      /\ requests'[i].status = "expired"
    OBVIOUS
  <2>1. requests'[i] = [requests[i] EXCEPT !.status = "expired"]
    BY <1>2
  <2>2. requests[i] \in Request
    BY <1>1 DEF TypeInv, TypeOK
  <2>3. requests'[i] \in Request /\ requests'[i].proposal = requests[i].proposal
        /\ requests'[i].status = "expired"
    BY <2>1, <2>2 DEF Request, Statuses
  <2>4. QED
    BY <2>3, ConstantsAssumption
<1>5. \A i \in Ids : i # t.id /\ i \notin t.expires => requests'[i] = requests[i]
  BY <1>2
<1>6. requests'[t.id] = row
  BY <1>1, <1>2
<1>7. UNCHANGED <<config, audit>> /\ tx' = [tx EXCEPT ![h] = Closed] /\ Closed.step = "closed"
  BY DEF CommitRequest, Closes, Closed
<1>8. LedgerInv'
  <2>1. \A i \in Ids : requests'[i] = None \/ IsPending(i)' => requests[i] = None \/ IsPending(i)
    BY <1>1, <1>4, <1>5 DEF IsPending
  <2>2. QED
    BY <2>1, <1>7, QuietStep
<1>9. Ledger!Asks(t.id)
  <2>1. Asked[t.id] = None
    BY <1>1 DEF Asked
  <2>2. \A i \in Ids : Asked'[i] = IF i = t.id THEN t.proposal ELSE Asked[i]
    <3>1. ASSUME NEW i \in Ids, i # t.id, i \in t.expires PROVE Asked'[i] = Asked[i]
      BY <3>1, <1>1, <1>4 DEF Asked
    <3>2. ASSUME NEW i \in Ids, i # t.id, i \notin t.expires PROVE Asked'[i] = Asked[i]
      BY <3>2, <1>5 DEF Asked
    <3>3. Asked'[t.id] = t.proposal
      BY <1>1, <1>3, <1>6 DEF Asked
    <3>4. QED
      BY <3>1, <3>2, <3>3
  <2>3. Asked' = [Asked EXCEPT ![t.id] = t.proposal]
    BY <2>2 DEF Asked
  <2>4. QED
    BY <1>1, <1>7, <2>1, <2>3 DEF Ledger!Asks, Asked
<1>10. Ledger!LedgerNext
  BY <1>1, <1>9 DEF Ledger!LedgerNext, Ledger!Asks
<1>11. QED
  BY <1>8, <1>10

\* An application merges its own request and no other.
LEMMA OtherMerges ==
  ASSUME TypeInv, NEW h \in Verifiers, ApplyChange(h)
  PROVE  \A i \in Ids : i # tx[h].id /\ Unmerged(i) => Unmerged(i)'
<1> DEFINE p == requests[tx[h].id].proposal
           before == tx[h].config[p.section]
           entry == [request |-> tx[h].id, before |-> before, after |-> Merge(before, p.values)]
<1>1. audit' = Append(audit, entry) /\ entry.request = tx[h].id
  BY DEF ApplyChange
<1> HIDE DEF entry
<1>2. audit \in Seq(AuditRow)
  BY DEF TypeInv, TypeOK
<1> SUFFICES ASSUME NEW i \in Ids, i # tx[h].id, Unmerged(i), NEW n \in DOMAIN audit'
             PROVE  audit'[n].request # i
  BY DEF Unmerged
<1>3. CASE n \in DOMAIN audit
  <2>1. audit'[n] = audit[n]
    BY <1>1, <1>2, <1>3
  <2>2. QED
    BY <2>1, <1>3 DEF Unmerged
<1>4. CASE n \notin DOMAIN audit
  <2>1. audit'[n] = entry
    BY <1>1, <1>2, <1>4
  <2>2. QED
    BY <2>1, <1>1
<1>5. QED
  BY <1>3, <1>4

\* The application of a change is the ledger's step Merges.
LEMMA ApplyIsMerge ==
  ASSUME TypeInv, LedgerInv, OneVerifier, NEW h \in Verifiers, ApplyChange(h)
  PROVE  LedgerInv' /\ Ledger!LedgerNext
<1> h \in Handlers
  BY DEF Handlers
<1> DEFINE t == tx[h]
           r == requests[t.id]
           row == [r EXCEPT !.status = "applied", !.attempts = t.attempts + 1]
           s == r.proposal.section
           after == Merge(config[s], r.proposal.values)
           entry == [request |-> t.id, before |-> config[s], after |-> after]
<1>1. t.id \in Ids /\ r \in Request /\ r # None /\ t.attempts + 1 \in 0 .. MaxGuesses
  BY AtRequest DEF ApplyChange, MaxGuesses
<1>2. Unmerged(t.id) /\ t.config = config
  BY DEF ApplyChange, LedgerInv
<1>3. row \in Request /\ row.status = "applied" /\ row.proposal = r.proposal
  BY <1>1 DEF Request, Statuses
<1>4. requests' = [requests EXCEPT ![t.id] = row]
  BY <1>1 DEF ApplyChange, TypeInv, TypeOK, Request
<1>5. config' = [config EXCEPT ![s] = after] /\ audit' = Append(audit, entry)
      /\ tx' = [tx EXCEPT ![h] = Closed]
  BY <1>2 DEF ApplyChange, Closes
<1> HIDE DEF row, after
<1>6. Asked' = Asked
  BY <1>1, <1>3, <1>4, SameProposals
<1>7. Asked[t.id] = r.proposal /\ Asked[t.id] # None
  <2>1. r.proposal \in Proposal
    BY <1>1 DEF Request
  <2>2. QED
    BY <1>1, <2>1, ConstantsAssumption DEF Asked
<1>8. Ledger!Merges(t.id)
  BY <1>2, <1>5, <1>6, <1>7 DEF Ledger!Merges, Asked, Unmerged, after, Ledger!Merge, Merge, Fields, Ledger!Fields
<1>9. \A i \in Ids : i # t.id /\ Unmerged(i) => Unmerged(i)'
  BY OtherMerges
<1>10. LedgerInv'
  <2>1. \A i \in Ids : requests'[i] = IF i = t.id THEN row ELSE requests[i]
    BY <1>4 DEF TypeInv, TypeOK
  <2>2. row # None
    BY <1>3, ConstantsAssumption
  <2>3. ASSUME NEW i \in Ids, (requests[i] = None \/ IsPending(i))' PROVE Unmerged(i)'
    <3>1. i # t.id
      BY <2>1, <2>2, <2>3, <1>3 DEF IsPending
    <3>2. requests[i] = None \/ IsPending(i)
      BY <3>1, <2>1, <2>3 DEF IsPending
    <3>3. QED
      BY <3>1, <3>2, <1>9 DEF LedgerInv
  <2>4. \A g \in Handlers : tx'[g] = IF g = h THEN Closed ELSE tx[g]
    BY <1>5 DEF TypeInv, TypeOK
  <2>5. ASSUME NEW g \in Handlers PROVE tx'[g].step \notin {"guessing", "applying"}
    <3>1. CASE g = h
      BY <3>1, <2>4 DEF Closed
    <3>2. CASE g # h
      <4>1. g \notin Verifiers
        BY <3>2 DEF OneVerifier
      <4>2. SessionOK(g, tx[g])
        BY DEF TypeInv
      <4>3. QED
        BY <4>1, <4>2, <3>2, <2>4 DEF SessionOK
    <3>3. QED
      BY <3>1, <3>2
  <2>6. QED
    BY <2>3, <2>5 DEF LedgerInv
<1>11. QED
  BY <1>1, <1>8, <1>10 DEF Ledger!LedgerNext

-----------------------------------------------------------------------------
\* Giving a row another status that is not pending, or more attempts.
LEMMA WriteRow ==
  ASSUME TypeInv, LedgerInv, NEW h \in Handlers, NEW i \in Ids, requests[i] \in Request,
         NEW row \in Request, row.proposal = requests[i].proposal,
         row.status \in {requests[i].status, "expired", "rejected"},
         requests' = [requests EXCEPT ![i] = row], Closes(h), UNCHANGED <<config, audit>>
  PROVE  LedgerInv' /\ UNCHANGED Ledger!ledgerVars
<1>1. requests[i] # None /\ row # None
  BY ConstantsAssumption
<1>2. \A j \in Ids : requests'[j] = IF j = i THEN row ELSE requests[j]
  BY DEF TypeInv, TypeOK
<1>3. \A j \in Ids : requests'[j] = None \/ IsPending(j)' => requests[j] = None \/ IsPending(j)
  BY <1>1, <1>2 DEF IsPending
<1>4. LedgerInv'
  BY <1>3, QuietStep DEF Closes, Closed
<1>5. Asked' = Asked
  BY <1>1, SameProposals
<1>6. QED
  BY <1>4, <1>5, QuietStutter

\* A step of one session alone.
LEMMA SessionAlone ==
  ASSUME TypeInv, LedgerInv, UNCHANGED dbVars,
         NEW h, NEW t, tx' = [tx EXCEPT ![h] = t],
         t.step = "guessing" => t.id \in Ids /\ (IsPending(t.id)
                                  \/ (h \in Handlers /\ tx[h].step = "guessing" /\ t.id = tx[h].id)),
         t.step = "applying" => h \in Handlers /\ tx[h].step = "guessing" /\ t.id = tx[h].id
                                /\ t.config = config
  PROVE  LedgerInv' /\ UNCHANGED Ledger!ledgerVars
<1>1. UNCHANGED <<config, audit, requests>>
  BY DEF dbVars
<1>2. Asked' = Asked
  BY <1>1 DEF Asked
<1>3. \A i \in Ids : requests'[i] = None \/ IsPending(i)' => requests[i] = None \/ IsPending(i)
  BY <1>1 DEF IsPending
<1>4. LedgerInv'
  BY <1>1, <1>3, QuietStep
<1>5. QED
  BY <1>1, <1>2, <1>4, QuietStutter

LEMMA VerifyQuiet ==
  ASSUME TypeInv, LedgerInv, NEW h \in Verifiers,
         (\E i \in Ids : BeginVerify(h, i)) \/ VerifyTooLate(h) \/ WrongGuess(h) \/ RightGuess(h)
  PROVE  LedgerInv' /\ UNCHANGED Ledger!ledgerVars
<1> h \in Handlers
  BY DEF Handlers
<1>1. ASSUME NEW i \in Ids, BeginVerify(h, i) PROVE LedgerInv' /\ UNCHANGED Ledger!ledgerVars
  <2> DEFINE step == IF i \in late THEN "too_late" ELSE "guessing"
             t == [Closed EXCEPT !.step = step, !.id = i, !.attempts = requests[i].attempts]
  <2>1. IsPending(i) /\ tx' = [tx EXCEPT ![h] = t] /\ UNCHANGED dbVars
    BY <1>1 DEF BeginVerify
  <2>2. step # "applying" /\ t.step = step /\ t.id = i
    BY DEF Closed
  <2> HIDE DEF step, t
  <2>3. QED
    BY <2>1, <2>2, SessionAlone
<1>2. CASE VerifyTooLate(h)
  <2> DEFINE i == tx[h].id
             row == [requests[i] EXCEPT !.status = "expired"]
  <2>1. i \in Ids /\ requests[i] \in Request
    BY <1>2, AtRequest DEF VerifyTooLate
  <2>2. row \in Request /\ row.proposal = requests[i].proposal /\ row.status = "expired"
    BY <2>1 DEF Request, Statuses
  <2>3. requests' = [requests EXCEPT ![i] = row] /\ Closes(h) /\ UNCHANGED <<config, audit>>
    BY <1>2, <2>1 DEF VerifyTooLate, TypeInv, TypeOK
  <2> HIDE DEF row
  <2>4. QED
    BY <2>1, <2>2, <2>3, WriteRow
<1>3. CASE WrongGuess(h)
  <2> DEFINE i == tx[h].id
             attempts == tx[h].attempts + 1
             status == IF attempts >= MaxGuesses THEN "rejected" ELSE requests[i].status
             row == [requests[i] EXCEPT !.attempts = attempts, !.status = status]
  <2>1. i \in Ids /\ requests[i] \in Request /\ attempts \in 0 .. MaxGuesses
    BY <1>3, AtRequest DEF WrongGuess, MaxGuesses
  <2>2. requests' = [requests EXCEPT ![i] = row] /\ Closes(h) /\ UNCHANGED <<config, audit>>
    BY <1>3, <2>1 DEF WrongGuess, TypeInv, TypeOK, Request
  <2>3. status \in {requests[i].status, "rejected"} /\ status \in Statuses
    BY <2>1 DEF Request, Statuses
  <2> HIDE DEF attempts, status
  <2>4. row \in Request /\ row.proposal = requests[i].proposal /\ row.status = status
    BY <2>1, <2>3 DEF Request
  <2> HIDE DEF row
  <2>5. QED
    BY <2>1, <2>2, <2>3, <2>4, WriteRow
<1>4. CASE RightGuess(h)
  <2> DEFINE t == [tx[h] EXCEPT !.step = "applying", !.config = config]
  <2>1. tx[h] \in Session
    BY DEF TypeInv, TypeOK
  <2>2. tx' = [tx EXCEPT ![h] = t] /\ UNCHANGED dbVars /\ tx[h].step = "guessing"
    BY <1>4, <2>1 DEF RightGuess, Session
  <2>3. t.step = "applying" /\ t.id = tx[h].id /\ t.config = config
    BY <2>1 DEF Session
  <2> HIDE DEF t
  <2>4. QED
    BY <2>2, <2>3, SessionAlone
<1>5. QED
  BY <1>1, <1>2, <1>3, <1>4

LEMMA OthersQuiet ==
  ASSUME TypeInv, LedgerInv,
         \/ \E h \in Requesters : (\E p \in Proposals : RequestChange(h, p)) \/ InsertRequest(h)
         \/ \E h \in Cancellers : (\E i \in Ids : BeginCancel(h, i)) \/ CommitCancel(h)
         \/ \E h \in Handlers : Abort(h)
         \/ \E i \in Ids : OtpExpires(i)
         \/ UNCHANGED vars
  PROVE  LedgerInv' /\ UNCHANGED Ledger!ledgerVars
<1>1. ASSUME NEW h \in Requesters, NEW p \in Proposals, RequestChange(h, p)
      PROVE  LedgerInv' /\ UNCHANGED Ledger!ledgerVars
  <2> DEFINE t == [Closed EXCEPT !.step = "accepted", !.proposal = p]
  <2>1. tx' = [tx EXCEPT ![h] = t] /\ UNCHANGED dbVars
    BY <1>1 DEF RequestChange
  <2>2. t.step = "accepted"
    BY DEF Closed
  <2> HIDE DEF t
  <2>3. QED
    BY <2>1, <2>2, SessionAlone
<1>2. ASSUME NEW h \in Requesters, InsertRequest(h)
      PROVE  LedgerInv' /\ UNCHANGED Ledger!ledgerVars
  <2> DEFINE t == [tx[h] EXCEPT !.step = "inserted", !.id = nextId,
                                !.expires = PendingIn(tx[h].proposal.section)]
  <2>1. tx[h] \in Session
    BY DEF TypeInv, TypeOK, Handlers
  <2>2. tx' = [tx EXCEPT ![h] = t] /\ UNCHANGED dbVars
    BY <1>2, <2>1 DEF InsertRequest, Session
  <2>3. t.step = "inserted"
    BY <2>1 DEF Session
  <2> HIDE DEF t
  <2>4. QED
    BY <2>2, <2>3, SessionAlone
<1>3. ASSUME NEW h \in Cancellers, NEW i \in Ids, BeginCancel(h, i)
      PROVE  LedgerInv' /\ UNCHANGED Ledger!ledgerVars
  <2> DEFINE t == [Closed EXCEPT !.step = "cancelling", !.id = i]
  <2>1. tx' = [tx EXCEPT ![h] = t] /\ UNCHANGED dbVars
    BY <1>3 DEF BeginCancel
  <2>2. t.step = "cancelling"
    BY DEF Closed
  <2> HIDE DEF t
  <2>3. QED
    BY <2>1, <2>2, SessionAlone
<1>4. ASSUME NEW h \in Cancellers, CommitCancel(h)
      PROVE  LedgerInv' /\ UNCHANGED Ledger!ledgerVars
  <2> h \in Handlers
    BY DEF Handlers
  <2> DEFINE i == tx[h].id
             row == [requests[i] EXCEPT !.status = "expired"]
  <2>1. i \in Ids /\ requests[i] \in Request
    BY <1>4, AtRequest DEF CommitCancel
  <2>2. row \in Request /\ row.proposal = requests[i].proposal /\ row.status = "expired"
    BY <2>1 DEF Request, Statuses
  <2>3. requests' = [requests EXCEPT ![i] = row] /\ Closes(h) /\ UNCHANGED <<config, audit>>
    BY <1>4, <2>1 DEF CommitCancel, TypeInv, TypeOK
  <2> HIDE DEF row
  <2>4. QED
    BY <2>1, <2>2, <2>3, WriteRow
<1>5. ASSUME NEW h \in Handlers, Abort(h) PROVE LedgerInv' /\ UNCHANGED Ledger!ledgerVars
  <2>1. tx' = [tx EXCEPT ![h] = Closed] /\ UNCHANGED dbVars /\ Closed.step = "closed"
    BY <1>5 DEF Abort, Closes, Closed
  <2>2. QED
    BY <2>1, SessionAlone
<1>6. ASSUME UNCHANGED <<dbVars, tx>> PROVE LedgerInv' /\ UNCHANGED Ledger!ledgerVars
  <2>1. UNCHANGED <<config, audit, requests, tx>>
    BY <1>6 DEF dbVars
  <2>2. LedgerInv'
    BY <2>1 DEF LedgerInv, Unmerged, IsPending
  <2>3. Asked' = Asked
    BY <2>1 DEF Asked
  <2>4. QED
    BY <2>1, <2>2, <2>3, QuietStutter
<1>7. ASSUME NEW i \in Ids, OtpExpires(i) PROVE LedgerInv' /\ UNCHANGED Ledger!ledgerVars
  BY <1>6, <1>7 DEF OtpExpires
<1>8. CASE UNCHANGED vars
  BY <1>6, <1>8 DEF vars
<1>9. QED
  BY <1>1, <1>2, <1>3, <1>4, <1>5, <1>7, <1>8

LEMMA NextLedger ==
  ASSUME TypeInv, LedgerInv, OneVerifier, [Next]_vars
  PROVE  LedgerInv' /\ [Ledger!LedgerNext]_(Ledger!ledgerVars)
<1>1. ASSUME NEW h \in Requesters, CommitRequest(h) PROVE LedgerInv' /\ Ledger!LedgerNext
  BY <1>1, CommitIsAsk
<1>2. ASSUME NEW h \in Verifiers, ApplyChange(h) PROVE LedgerInv' /\ Ledger!LedgerNext
  BY <1>2, ApplyIsMerge
<1>3. QED
  BY <1>1, <1>2, VerifyQuiet, OthersQuiet DEF Next

\* As long as one verification runs at a time, verify_and_apply merges every
\* request at most once and loses no section, and the audit log records
\* exactly that, whatever requests, cancels, failures and late passwords do.
THEOREM SettingsAreALedger == OneVerifier => (Spec => LedgerPromise)
<1>1. ASSUME OneVerifier PROVE Spec => LedgerPromise
  <2>1. TypeInv /\ LedgerInv /\ [Next]_vars =>
          LedgerInv' /\ [Ledger!LedgerNext]_(Ledger!ledgerVars)
    BY <1>1, NextLedger
  <2>2. QED
    BY <2>1, InitLedger, TypeInvariance, PTL DEF Spec, LedgerPromise, Ledger!LedgerSpec
<1>2. QED
  BY <1>1
-----------------------------------------------------------------------------
(* With one verification at a time three wrong passwords end a request,    *)
(* whatever requests and cancels are in flight.                            *)

\* The row counts every answered guess, a session that may count one more
\* has the row's number, and a request that has used up its guesses is over.
GuessInv ==
  /\ \A i \in Ids :
       /\ requests[i] = None => answered[i] = 0
       /\ requests[i] # None => answered[i] <= requests[i].attempts
       /\ answered[i] = MaxGuesses => ~IsPending(i) /\ Unmerged(i)
  /\ \A h \in Handlers :
       tx[h].step \in {"guessing", "applying"} => tx[h].attempts = requests[tx[h].id].attempts

LEMMA InitGuess == Init => GuessInv
BY DEF Init, Closed, GuessInv, MaxGuesses

\* A step of one session alone, which starts from the row's number.
LEMMA AloneGuess ==
  ASSUME TypeInv, GuessInv, UNCHANGED <<dbVars, answered>>,
         NEW h, NEW t, tx' = [tx EXCEPT ![h] = t],
         t.step \in {"guessing", "applying"} => t.attempts = requests[t.id].attempts
  PROVE  GuessInv'
<1>1. \A g \in Handlers : tx'[g] = IF g = h THEN t ELSE tx[g]
  BY DEF TypeInv, TypeOK
<1>2. UNCHANGED <<requests, audit, answered>>
  BY DEF dbVars
<1>3. \A i : (Unmerged(i)' <=> Unmerged(i)) /\ (IsPending(i)' <=> IsPending(i))
  BY <1>2 DEF Unmerged, IsPending
<1>4. \A g \in Handlers : tx'[g].step \in {"guessing", "applying"} =>
        tx'[g].attempts = requests'[tx'[g].id].attempts
  BY <1>1, <1>2 DEF GuessInv
<1>5. QED
  BY <1>2, <1>3, <1>4 DEF GuessInv

\* A step that ends the session of h and keeps the number of every row.
LEMMA KeepsAttempts ==
  ASSUME TypeInv, GuessInv, NEW h, Closes(h), UNCHANGED <<audit, answered>>,
         \A i \in Ids : requests[i] # None =>
           /\ requests'[i] # None /\ requests'[i].attempts = requests[i].attempts
           /\ IsPending(i)' => IsPending(i),
         \A i \in Ids : requests[i] = None =>
           requests'[i] = None \/ requests'[i].attempts = 0
  PROVE  GuessInv'
<1>1. \A g \in Handlers : tx'[g] = IF g = h THEN Closed ELSE tx[g]
  BY DEF Closes, TypeInv, TypeOK
<1>2. \A i : Unmerged(i)' <=> Unmerged(i)
  BY DEF Unmerged
<1>3. ASSUME NEW i \in Ids
      PROVE  /\ requests'[i] = None => answered'[i] = 0
             /\ requests'[i] # None => answered'[i] <= requests'[i].attempts
             /\ answered'[i] = MaxGuesses => ~IsPending(i)' /\ Unmerged(i)'
  <2>1. CASE requests[i] = None
    BY <2>1 DEF GuessInv, MaxGuesses
  <2>2. CASE requests[i] # None
    BY <2>2, <1>2 DEF GuessInv
  <2>3. QED
    BY <2>1, <2>2
<1>4. ASSUME NEW g \in Handlers, tx'[g].step \in {"guessing", "applying"}
      PROVE  tx'[g].attempts = requests'[tx'[g].id].attempts
  <2>1. g # h /\ tx'[g] = tx[g]
    BY <1>1, <1>4 DEF Closed
  <2>2. tx[g].id \in Ids /\ requests[tx[g].id] # None
    BY <1>4, <2>1, AtRequest
  <2>3. QED
    BY <1>4, <2>1, <2>2 DEF GuessInv
<1>5. QED
  BY <1>3, <1>4 DEF GuessInv

\* An existing row given a status that is not pending.
LEMMA ExpiresGuess ==
  ASSUME TypeInv, GuessInv, NEW h \in Handlers, NEW i \in Ids, requests[i] \in Request,
         requests' = [requests EXCEPT ![i].status = "expired"], Closes(h),
         UNCHANGED <<audit, answered>>
  PROVE  GuessInv'
<1> DEFINE row == [requests[i] EXCEPT !.status = "expired"]
<1>1. row \in Request /\ row.status = "expired" /\ row.attempts = requests[i].attempts
  BY DEF Request, Statuses
<1>2. \A j \in Ids : requests'[j] = IF j = i THEN row ELSE requests[j]
  BY DEF TypeInv, TypeOK
<1> HIDE DEF row
<1>3. row # None /\ requests[i] # None
  BY <1>1, ConstantsAssumption
<1>4. QED
  BY <1>1, <1>2, <1>3, KeepsAttempts DEF IsPending

-----------------------------------------------------------------------------
LEMMA RequestGuess ==
  ASSUME TypeInv, GuessInv, NEW h \in Requesters,
         (\E p \in Proposals : RequestChange(h, p)) \/ InsertRequest(h) \/ CommitRequest(h)
  PROVE  GuessInv'
<1> h \in Handlers
  BY DEF Handlers
<1>1. ASSUME NEW p \in Proposals, RequestChange(h, p) PROVE GuessInv'
  <2> DEFINE t == [Closed EXCEPT !.step = "accepted", !.proposal = p]
  <2>1. tx' = [tx EXCEPT ![h] = t] /\ UNCHANGED <<dbVars, answered>>
    BY <1>1 DEF RequestChange
  <2>2. t.step = "accepted"
    BY DEF Closed
  <2> HIDE DEF t
  <2>3. QED
    BY <2>1, <2>2, AloneGuess
<1>2. CASE InsertRequest(h)
  <2> DEFINE t == [tx[h] EXCEPT !.step = "inserted", !.id = nextId,
                                !.expires = PendingIn(tx[h].proposal.section)]
  <2>1. tx[h] \in Session
    BY DEF TypeInv, TypeOK
  <2>2. tx' = [tx EXCEPT ![h] = t] /\ UNCHANGED <<dbVars, answered>>
    BY <1>2, <2>1 DEF InsertRequest, Session
  <2>3. t.step = "inserted"
    BY <2>1 DEF Session
  <2> HIDE DEF t
  <2>4. QED
    BY <2>2, <2>3, AloneGuess
<1>3. CASE CommitRequest(h)
  <2> DEFINE t == tx[h]
             row == [proposal |-> t.proposal, status |-> "pending_otp", attempts |-> 0]
  <2>1. /\ t.id \in Ids /\ requests[t.id] = None
        /\ \A i \in t.expires : requests[i] # None
    BY <1>3 DEF CommitRequest, TypeInv, SessionOK
  <2>2. \A i \in Ids : requests'[i] =
          IF i = t.id THEN row
          ELSE IF i \in t.expires THEN [requests[i] EXCEPT !.status = "expired"] ELSE requests[i]
    BY <1>3 DEF CommitRequest
  <2>3. row.attempts = 0
    OBVIOUS
  <2> HIDE DEF row
  <2>4. ASSUME NEW i \in Ids, requests[i] # None
        PROVE  /\ requests'[i] # None /\ requests'[i].attempts = requests[i].attempts
               /\ IsPending(i)' => IsPending(i)
    <3>1. requests[i] \in Request /\ i # t.id
      BY <2>1, <2>4 DEF TypeInv, TypeOK
    <3>2. CASE i \in t.expires
      <4> DEFINE expired == [requests[i] EXCEPT !.status = "expired"]
      <4>1. expired \in Request /\ expired.status = "expired"
            /\ expired.attempts = requests[i].attempts
        BY <3>1 DEF Request, Statuses
      <4>2. requests'[i] = expired
        BY <2>2, <3>1, <3>2
      <4> HIDE DEF expired
      <4>3. QED
        BY <4>1, <4>2, ConstantsAssumption DEF IsPending
    <3>3. CASE i \notin t.expires
      BY <2>2, <2>4, <3>1, <3>3 DEF IsPending
    <3>4. QED
      BY <3>2, <3>3
  <2>5. \A i \in Ids : requests[i] = None => requests'[i] = None \/ requests'[i].attempts = 0
    BY <2>1, <2>2, <2>3
  <2>6. Closes(h) /\ UNCHANGED <<audit, answered>>
    BY <1>3 DEF CommitRequest
  <2>7. QED
    BY <2>4, <2>5, <2>6, KeepsAttempts
<1>4. QED
  BY <1>1, <1>2, <1>3

\* After the one verification has ended, nothing is left to count a guess.
LEMMA NobodyGuesses ==
  ASSUME TypeInv, OneVerifier, NEW h \in Verifiers, Closes(h)
  PROVE  \A g \in Handlers : tx'[g].step \notin {"guessing", "applying"}
<1> SUFFICES ASSUME NEW g \in Handlers PROVE tx'[g].step \notin {"guessing", "applying"}
  OBVIOUS
<1>1. tx'[g] = IF g = h THEN Closed ELSE tx[g]
  BY DEF Closes, TypeInv, TypeOK
<1>2. CASE g = h
  BY <1>1, <1>2 DEF Closed
<1>3. CASE g # h
  <2>1. g \notin Verifiers
    BY <1>3 DEF OneVerifier
  <2>2. SessionOK(g, tx[g])
    BY DEF TypeInv
  <2>3. QED
    BY <2>1, <2>2, <1>1, <1>3 DEF SessionOK
<1>4. QED
  BY <1>2, <1>3

LEMMA WrongGuessKeeps ==
  ASSUME TypeInv, LedgerInv, GuessInv, OneVerifier, NEW h \in Verifiers, WrongGuess(h)
  PROVE  GuessInv'
<1> h \in Handlers
  BY DEF Handlers
<1> DEFINE i == tx[h].id
           attempts == tx[h].attempts + 1
           status == IF attempts >= MaxGuesses THEN "rejected" ELSE requests[i].status
           row == [requests[i] EXCEPT !.attempts = attempts, !.status = status]
<1>1. i \in Ids /\ requests[i] \in Request /\ requests[i] # None /\ attempts \in 0 .. MaxGuesses
  BY AtRequest DEF WrongGuess, MaxGuesses
<1>2. answered[i] \in Nat /\ answered[i] + 1 <= attempts /\ Unmerged(i)
  BY <1>1 DEF WrongGuess, GuessInv, LedgerInv, TypeInv, TypeOK, Request
<1>3. requests' = [requests EXCEPT ![i] = row] /\ Closes(h) /\ audit' = audit
      /\ answered' = [answered EXCEPT ![i] = @ + 1]
  BY <1>1 DEF WrongGuess, TypeInv, TypeOK, Request
<1>4. attempts = MaxGuesses => status = "rejected"
  BY DEF MaxGuesses
<1>5. status \in Statuses
  BY <1>1 DEF Request, Statuses
<1> HIDE DEF status, attempts
<1>6. row \in Request /\ row.attempts = attempts /\ row.status = status
  BY <1>1, <1>5 DEF Request
<1> HIDE DEF row
<1>7. row # None
  BY <1>6, ConstantsAssumption
<1>8. \A j \in Ids : /\ requests'[j] = IF j = i THEN row ELSE requests[j]
                     /\ answered'[j] = IF j = i THEN answered[i] + 1 ELSE answered[j]
  BY <1>1, <1>3 DEF TypeInv, TypeOK
<1>9. \A j : Unmerged(j)' <=> Unmerged(j)
  BY <1>3 DEF Unmerged
<1>10. ASSUME NEW j \in Ids
       PROVE  /\ requests'[j] = None => answered'[j] = 0
              /\ requests'[j] # None => answered'[j] <= requests'[j].attempts
              /\ answered'[j] = MaxGuesses => ~IsPending(j)' /\ Unmerged(j)'
  <2>1. CASE j = i
    <3>1. answered'[j] = MaxGuesses => attempts = MaxGuesses
      BY <2>1, <1>1, <1>2, <1>8 DEF MaxGuesses
    <3>2. QED
      BY <2>1, <3>1, <1>2, <1>4, <1>6, <1>7, <1>8, <1>9 DEF IsPending
  <2>2. CASE j # i
    BY <2>2, <1>8, <1>9 DEF GuessInv, IsPending
  <2>3. QED
    BY <2>1, <2>2
<1>11. QED
  BY <1>3, <1>10, NobodyGuesses DEF GuessInv

LEMMA ApplyKeeps ==
  ASSUME TypeInv, GuessInv, OneVerifier, NEW h \in Verifiers, ApplyChange(h)
  PROVE  GuessInv'
<1> h \in Handlers
  BY DEF Handlers
<1> DEFINE i == tx[h].id
           attempts == tx[h].attempts + 1
           row == [requests[i] EXCEPT !.status = "applied", !.attempts = attempts]
<1>1. i \in Ids /\ requests[i] \in Request /\ requests[i] # None /\ attempts \in 0 .. MaxGuesses
  BY AtRequest DEF ApplyChange, MaxGuesses
<1>2. answered[i] \in Nat /\ answered[i] < attempts
  BY <1>1 DEF ApplyChange, GuessInv, TypeInv, TypeOK, Request
<1>3. requests' = [requests EXCEPT ![i] = row] /\ Closes(h) /\ answered' = answered
  BY <1>1 DEF ApplyChange, TypeInv, TypeOK, Request
<1> HIDE DEF attempts
<1>4. row \in Request /\ row.attempts = attempts /\ row # None
  <2>1. row \in Request /\ row.attempts = attempts
    BY <1>1 DEF Request, Statuses
  <2> HIDE DEF row
  <2>2. QED
    BY <2>1, ConstantsAssumption
<1> HIDE DEF row
<1>5. \A j \in Ids : requests'[j] = IF j = i THEN row ELSE requests[j]
  BY <1>1, <1>3 DEF TypeInv, TypeOK
<1>6. \A j \in Ids : j # i /\ Unmerged(j) => Unmerged(j)'
  BY OtherMerges
<1>7. ASSUME NEW j \in Ids
      PROVE  /\ requests'[j] = None => answered'[j] = 0
             /\ requests'[j] # None => answered'[j] <= requests'[j].attempts
             /\ answered'[j] = MaxGuesses => ~IsPending(j)' /\ Unmerged(j)'
  <2>1. CASE j = i
    BY <2>1, <1>1, <1>2, <1>3, <1>4, <1>5 DEF MaxGuesses
  <2>2. CASE j # i
    BY <2>2, <1>3, <1>5, <1>6 DEF GuessInv, IsPending
  <2>3. QED
    BY <2>1, <2>2
<1>8. QED
  BY <1>3, <1>7, NobodyGuesses DEF GuessInv

LEMMA NextGuess ==
  ASSUME TypeInv, LedgerInv, GuessInv, OneVerifier, [Next]_vars
  PROVE  GuessInv'
<1>1. ASSUME NEW h \in Verifiers, NEW i \in Ids, BeginVerify(h, i) PROVE GuessInv'
  <2> DEFINE step == IF i \in late THEN "too_late" ELSE "guessing"
             t == [Closed EXCEPT !.step = step, !.id = i, !.attempts = requests[i].attempts]
  <2>1. tx' = [tx EXCEPT ![h] = t] /\ UNCHANGED <<dbVars, answered>>
    BY <1>1 DEF BeginVerify
  <2>2. t.id = i /\ t.attempts = requests[i].attempts
    BY DEF Closed
  <2> HIDE DEF t
  <2>3. QED
    BY <2>1, <2>2, AloneGuess
<1>2. ASSUME NEW h \in Verifiers, VerifyTooLate(h) PROVE GuessInv'
  BY <1>2, AtRequest, ExpiresGuess DEF VerifyTooLate, Handlers
<1>3. ASSUME NEW h \in Verifiers, RightGuess(h) PROVE GuessInv'
  <2> DEFINE t == [tx[h] EXCEPT !.step = "applying", !.config = config]
  <2>1. tx[h] \in Session /\ h \in Handlers
    BY DEF TypeInv, TypeOK, Handlers
  <2>2. tx' = [tx EXCEPT ![h] = t] /\ UNCHANGED <<dbVars, answered>> /\ tx[h].step = "guessing"
    BY <1>3, <2>1 DEF RightGuess, Session
  <2>3. t.attempts = tx[h].attempts /\ t.id = tx[h].id
    BY <2>1 DEF Session
  <2> HIDE DEF t
  <2>4. QED
    BY <2>1, <2>2, <2>3, AloneGuess DEF GuessInv
<1>4. ASSUME NEW h \in Cancellers, NEW i \in Ids, BeginCancel(h, i) PROVE GuessInv'
  <2> DEFINE t == [Closed EXCEPT !.step = "cancelling", !.id = i]
  <2>1. tx' = [tx EXCEPT ![h] = t] /\ UNCHANGED <<dbVars, answered>>
    BY <1>4 DEF BeginCancel
  <2>2. t.step = "cancelling"
    BY DEF Closed
  <2> HIDE DEF t
  <2>3. QED
    BY <2>1, <2>2, AloneGuess
<1>5. ASSUME NEW h \in Cancellers, CommitCancel(h) PROVE GuessInv'
  BY <1>5, AtRequest, ExpiresGuess DEF CommitCancel, Handlers
<1>6. ASSUME NEW h \in Handlers, Abort(h) PROVE GuessInv'
  <2>1. tx' = [tx EXCEPT ![h] = Closed] /\ UNCHANGED <<dbVars, answered>>
        /\ Closed.step = "closed"
    BY <1>6 DEF Abort, Closes, Closed
  <2>2. QED
    BY <2>1, AloneGuess
<1>7. ASSUME UNCHANGED <<dbVars, tx, answered>> PROVE GuessInv'
  BY <1>7 DEF dbVars, GuessInv, IsPending, Unmerged
<1>8. ASSUME NEW i \in Ids, OtpExpires(i) PROVE GuessInv'
  BY <1>7, <1>8 DEF OtpExpires
<1>9. CASE UNCHANGED vars
  BY <1>7, <1>9 DEF vars
<1>10. QED
  BY <1>1, <1>2, <1>3, <1>4, <1>5, <1>6, <1>8, <1>9, RequestGuess, WrongGuessKeeps, ApplyKeeps
     DEF Next

\* As long as one verification runs at a time, verify_and_apply answers at
\* most three wrong passwords per request, and the third ends the request
\* for good, although otp_attempts is read long before it is written.
THEOREM GuessesAreLimited == OneVerifier => (Spec => []GuessLimit)
<1>1. TypeInv /\ GuessInv => GuessLimit
  <2> SUFFICES ASSUME TypeInv, GuessInv, NEW i \in Ids
               PROVE  /\ answered[i] <= MaxGuesses
                      /\ answered[i] = MaxGuesses => ~IsPending(i) /\ Applications(i) = {}
    BY DEF GuessLimit
  <2>1. answered[i] <= MaxGuesses
    <3>1. CASE requests[i] = None
      BY <3>1 DEF GuessInv, MaxGuesses
    <3>2. CASE requests[i] # None
      <4>1. requests[i] \in Request /\ answered[i] \in Nat
        BY <3>2 DEF TypeInv, TypeOK
      <4>2. QED
        BY <3>2, <4>1 DEF GuessInv, Request, MaxGuesses
    <3>3. QED
      BY <3>1, <3>2
  <2>2. answered[i] = MaxGuesses => ~IsPending(i) /\ Applications(i) = {}
    BY DEF GuessInv, Unmerged, Applications
  <2>3. QED
    BY <2>1, <2>2
<1>2. ASSUME OneVerifier PROVE Spec => []GuessLimit
  <2>1. TypeInv /\ LedgerInv /\ GuessInv /\ [Next]_vars => LedgerInv' /\ GuessInv'
    BY <1>2, NextLedger, NextGuess
  <2>2. Init => LedgerInv /\ GuessInv
    BY InitLedger, InitGuess
  <2>3. QED
    BY <1>1, <2>1, <2>2, TypeInvariance, PTL DEF Spec
<1>3. QED
  BY <1>2
-----------------------------------------------------------------------------
(* The rule between the fields of a section.                               *)

\* A request is checked against the configuration as it stands and merged into a later one.  What
\* stands between the two is the UPDATE that expires the other requests of the section.
InFlight(r) == tx[r].step \in {"accepted", "inserted"}
Verifying(v) == tx[v].step \in {"guessing", "applying"}
Apart == \A r \in Requesters, v \in Verifiers : ~(InFlight(r) /\ Verifying(v))

\* The configurations the tenant may start with satisfy the rule.
ValidAtFirst == \A c \in Configs, s \in Sections : CrossValid(s, c[s], Whole)

\* Merged into the configuration as it stands, the proposal leaves a valid one.
Fits(p) == CrossValid(p.section, Merge(config[p.section], p.values), Whole)

\* Request i does, and no other of its section may still be applied.
Current(i) ==
  /\ i \in Ids /\ requests[i] # None
  /\ Fits(requests[i].proposal)
  /\ \A j \in Ids : IsPending(j) /\ requests[j].proposal.section = requests[i].proposal.section => j = i

FitInv ==
  /\ ConfigValid
  /\ \A i \in Ids : IsPending(i) => Fits(requests[i].proposal)
  /\ \A r \in Requesters : InFlight(r) => Fits(tx[r].proposal)
  /\ \A v \in Verifiers : Verifying(v) => Current(tx[v].id)

LEMMA InitFit == ValidAtFirst /\ Init => FitInv
<1> SUFFICES ASSUME ValidAtFirst, Init PROVE FitInv
  OBVIOUS
<1>1. \A h \in Handlers : tx[h].step = "closed"
  BY DEF Init, Closed
<1>2. ConfigValid
  BY DEF Init, ConfigValid, ValidAtFirst
<1>3. \A i \in Ids : ~IsPending(i)
  BY DEF Init, IsPending
<1>4. QED
  BY <1>1, <1>2, <1>3 DEF FitInv, InFlight, Verifying, Handlers

\* A step of one session that leaves configuration and proposals alone and makes nothing pending.
LEMMA FitSession ==
  ASSUME TypeInv, FitInv, UNCHANGED Ledger!ledgerVars,
         \A i \in Ids : IsPending(i)' => StaysPending(i),
         NEW h \in Handlers, NEW t, tx' = [tx EXCEPT ![h] = t],
         h \in Requesters /\ t.step \in {"accepted", "inserted"} => Fits(t.proposal),
         h \in Verifiers /\ t.step \in {"guessing", "applying"} => Current(t.id)
  PROVE  FitInv'
<1>1. config' = config /\ Asked' = Asked
  BY DEF Ledger!ledgerVars, Asked
<1>2. \A g \in Handlers : tx'[g] = IF g = h THEN t ELSE tx[g]
  BY DEF TypeInv, TypeOK
<1>3. ASSUME NEW i \in Ids, requests[i] # None
      PROVE  requests'[i] # None /\ requests'[i].proposal = requests[i].proposal
  <2>1. requests[i].proposal # None
    BY <1>3, ConstantsAssumption DEF TypeInv, TypeOK, Request
  <2>2. Asked[i] = requests[i].proposal /\ Asked'[i] = Asked[i]
    BY <1>1, <1>3 DEF Asked
  <2>3. Asked'[i] = IF requests'[i] = None THEN None ELSE requests'[i].proposal
    BY DEF Asked
  <2>4. QED
    BY <2>1, <2>2, <2>3
<1>4. ConfigValid'
  BY <1>1 DEF FitInv, ConfigValid
<1>5. ASSUME NEW i \in Ids, IsPending(i)' PROVE (Fits(requests[i].proposal))'
  <2>1. IsPending(i) /\ requests'[i].proposal = requests[i].proposal
    BY <1>5 DEF StaysPending
  <2>2. Fits(requests[i].proposal)
    BY <2>1 DEF FitInv
  <2>3. QED
    BY <1>1, <2>1, <2>2 DEF Fits
<1>6. ASSUME NEW i, Current(i)
      PROVE  /\ i \in Ids /\ requests'[i] # None
             /\ (Fits(requests[i].proposal))'
             /\ \A j \in Ids : IsPending(j)' /\ requests'[j].proposal.section = requests'[i].proposal.section => j = i
  <2>1. i \in Ids /\ requests'[i] # None /\ requests'[i].proposal = requests[i].proposal
    BY <1>3, <1>6 DEF Current
  <2>2. Fits(requests[i].proposal)
    BY <1>6 DEF Current
  <2>3. (Fits(requests[i].proposal))'
    BY <1>1, <2>1, <2>2 DEF Fits
  <2>4. \A j \in Ids : IsPending(j)' /\ requests'[j].proposal.section = requests'[i].proposal.section => j = i
    BY <1>6, <2>1 DEF Current, StaysPending
  <2>5. QED
    BY <2>1, <2>3, <2>4
<1>7. ASSUME NEW r \in Requesters, InFlight(r)' PROVE (Fits(tx[r].proposal))'
  <2>1. Fits(tx'[r].proposal)
    BY <1>2, <1>7 DEF InFlight, FitInv, Handlers
  <2>2. QED
    BY <1>1, <2>1 DEF Fits
<1>8. ASSUME NEW v \in Verifiers, Verifying(v)' PROVE (Current(tx[v].id))'
  <2> DEFINE i == tx'[v].id
  <2>1. Current(i)
    BY <1>2, <1>8 DEF Verifying, FitInv, Handlers
  <2> HIDE DEF i
  <2>2. QED
    BY <1>6, <2>1 DEF Current, i
<1>9. QED
  BY <1>4, <1>5, <1>7, <1>8 DEF FitInv

\* The new row is valid with the configuration as it stands, for no verification runs.
LEMMA FitCommit ==
  ASSUME OneRequester, TypeInv, PendingInv, FitInv, Apart, NEW h \in Requesters, CommitRequest(h)
  PROVE  FitInv'
<1> DEFINE t == tx[h]
<1>1. t.id \in Ids /\ InFlight(h) /\ config' = config /\ Fits(t.proposal) /\ h \in Handlers
  BY DEF CommitRequest, TypeInv, SessionOK, Handlers, InFlight, FitInv
<1>2. requests'[t.id] = [proposal |-> t.proposal, status |-> "pending_otp", attempts |-> 0]
  BY <1>1 DEF CommitRequest
<1>3. requests'[t.id].proposal = t.proposal
  BY <1>2
<1>4. ASSUME NEW i \in Ids, IsPending(i)' PROVE (Fits(requests[i].proposal))'
  <2>1. CASE i = t.id
    BY <1>1, <1>3, <2>1 DEF Fits
  <2>2. CASE i # t.id
    <3>1. StaysPending(i)
      BY <1>4, <2>2, CommitOthers
    <3>2. Fits(requests[i].proposal) /\ requests'[i].proposal = requests[i].proposal
      BY <3>1 DEF StaysPending, FitInv
    <3>3. QED
      BY <1>1, <3>2 DEF Fits
  <2>3. QED
    BY <2>1, <2>2
<1>5. \A g \in Handlers : tx'[g] = IF g = h THEN Closed ELSE tx[g]
  BY DEF CommitRequest, Closes, TypeInv, TypeOK
<1>6. ASSUME NEW v \in Verifiers, Verifying(v)' PROVE FALSE
  BY <1>1, <1>5, <1>6 DEF Verifying, Apart, Handlers, Closed
<1>7. ASSUME NEW r \in Requesters, InFlight(r)' PROVE FALSE
  BY <1>5, <1>7 DEF InFlight, OneRequester, Handlers, Closed
<1>8. ConfigValid'
  BY <1>1 DEF FitInv, ConfigValid
<1>9. QED
  BY <1>4, <1>6, <1>7, <1>8 DEF FitInv

\* The change is merged into the configuration it is valid with, and the other requests that may
\* still be applied are for other sections.
LEMMA FitApply ==
  ASSUME OneVerifier, TypeInv, LedgerInv, FitInv, Apart, NEW h \in Verifiers, ApplyChange(h)
  PROVE  FitInv'
<1> DEFINE i == tx[h].id
           p == requests[i].proposal
           s == p.section
           after == Merge(config[s], p.values)
<1>1. h \in Handlers /\ Verifying(h) /\ tx[h].config = config /\ Current(i)
  BY DEF ApplyChange, Handlers, Verifying, FitInv, LedgerInv
<1>2. s \in Sections /\ i \in Ids /\ requests[i] \in Request
  BY <1>1 DEF Current, TypeInv, TypeOK, Request, Proposal
<1>3. config' = [config EXCEPT ![s] = after]
  BY <1>1 DEF ApplyChange
<1>4. CrossValid(s, after, Whole)
  BY <1>1 DEF Current, Fits
<1>5. \A j \in Ids : IsPending(j)' => StaysPending(j)
  BY <1>1, PendingVerify
<1>6. requests'[i].status # "pending_otp"
  <2>1. requests' = [requests EXCEPT ![i].status = "applied", ![i].attempts = tx[h].attempts + 1]
    BY DEF ApplyChange
  <2>2. requests'[i].status = "applied"
    BY <1>2, <2>1 DEF TypeInv, TypeOK, Request
  <2>3. QED
    BY <2>2
<1>7. \A g \in Handlers : tx'[g] = IF g = h THEN Closed ELSE tx[g]
  BY <1>1 DEF ApplyChange, Closes, TypeInv, TypeOK
<1> HIDE DEF after
<1>8. \A q \in Sections : config'[q] = IF q = s THEN after ELSE config[q]
  BY <1>2, <1>3 DEF TypeInv, TypeOK, Config
<1>9. ConfigValid'
  BY <1>4, <1>8 DEF ConfigValid, FitInv
<1>10. ASSUME NEW j \in Ids, IsPending(j)' PROVE (Fits(requests[j].proposal))'
  <2>1. IsPending(j) /\ requests'[j].proposal = requests[j].proposal /\ j # i
    BY <1>5, <1>6, <1>10 DEF StaysPending, IsPending
  <2>2. requests[j].proposal.section # s /\ Fits(requests[j].proposal)
    BY <1>1, <2>1 DEF Current, FitInv
  <2>3. requests[j].proposal.section \in Sections
    BY <2>1 DEF IsPending, TypeInv, TypeOK, Request, Proposal
  <2>4. QED
    BY <1>8, <2>1, <2>2, <2>3 DEF Fits
<1>11. ASSUME NEW r \in Requesters, InFlight(r)' PROVE FALSE
  BY <1>1, <1>7, <1>11 DEF InFlight, Apart, Handlers, Closed
<1>12. ASSUME NEW v \in Verifiers, Verifying(v)' PROVE FALSE
  BY <1>7, <1>12 DEF Verifying, OneVerifier, Handlers, Closed
<1>13. QED
  BY <1>9, <1>10, <1>11, <1>12 DEF FitInv

LEMMA FitStep ==
  ASSUME OneRequester, OneVerifier, TypeInv, PendingInv, LedgerInv, FitInv, Apart, [Next]_vars
  PROVE  FitInv'
<1> DEFINE Rows == \A i \in Ids : IsPending(i)' => StaysPending(i)
<1>1. ASSUME requests' = requests PROVE Rows
  BY <1>1 DEF IsPending, StaysPending
<1>2. ASSUME NEW h \in Handlers, Closes(h), UNCHANGED Ledger!ledgerVars, Rows PROVE FitInv'
  BY <1>2, FitSession DEF Closes, Closed
<1>3. ASSUME NEW h \in Requesters, NEW p \in Proposals, RequestChange(h, p) PROVE FitInv'
  <2> DEFINE t == [Closed EXCEPT !.step = "accepted", !.proposal = p]
  <2>1. tx' = [tx EXCEPT ![h] = t] /\ requests' = requests /\ h \in Handlers /\ Fits(p)
    BY <1>3 DEF RequestChange, dbVars, Handlers, Fits
  <2>2. t.step = "accepted" /\ t.proposal = p
    BY DEF Closed
  <2>3. h \notin Verifiers
    BY ConstantsAssumption
  <2>4. UNCHANGED Ledger!ledgerVars
    BY <1>3, OthersQuiet
  <2> HIDE DEF t
  <2>5. QED
    BY <1>1, <2>1, <2>2, <2>3, <2>4, FitSession
<1>4. ASSUME NEW h \in Requesters, InsertRequest(h) PROVE FitInv'
  <2> DEFINE t == [tx[h] EXCEPT !.step = "inserted", !.id = nextId,
                                !.expires = PendingIn(tx[h].proposal.section)]
  <2>1. tx[h] \in Session /\ h \in Handlers
    BY DEF TypeInv, TypeOK, Handlers
  <2>2. tx' = [tx EXCEPT ![h] = t] /\ requests' = requests
    BY <1>4, <2>1 DEF InsertRequest, Session, dbVars
  <2>3. t.proposal = tx[h].proposal
    BY <2>1 DEF Session
  <2>4. Fits(tx[h].proposal)
    BY <1>4 DEF InsertRequest, FitInv, InFlight
  <2>5. UNCHANGED Ledger!ledgerVars /\ h \notin Verifiers
    BY <1>4, OthersQuiet, ConstantsAssumption
  <2> HIDE DEF t
  <2>6. QED
    BY <1>1, <2>1, <2>2, <2>3, <2>4, <2>5, FitSession
<1>5. ASSUME NEW h \in Verifiers, NEW i \in Ids, BeginVerify(h, i) PROVE FitInv'
  <2> DEFINE step == IF i \in late THEN "too_late" ELSE "guessing"
             t == [Closed EXCEPT !.step = step, !.id = i, !.attempts = requests[i].attempts]
  <2>1. tx' = [tx EXCEPT ![h] = t] /\ requests' = requests /\ h \in Handlers /\ IsPending(i)
    BY <1>5 DEF BeginVerify, dbVars, Handlers
  <2>2. t.id = i
    BY DEF Closed
  <2>3. Current(i)
    BY <2>1 DEF Current, FitInv, PendingInv, OnePendingPerSection, IsPending
  <2>4. UNCHANGED Ledger!ledgerVars /\ h \notin Requesters
    BY <1>5, VerifyQuiet, ConstantsAssumption
  <2> HIDE DEF t
  <2>5. QED
    BY <1>1, <2>1, <2>2, <2>3, <2>4, FitSession
<1>6. ASSUME NEW h \in Verifiers, RightGuess(h) PROVE FitInv'
  <2> DEFINE t == [tx[h] EXCEPT !.step = "applying", !.config = config]
  <2>1. tx[h] \in Session /\ h \in Handlers
    BY DEF TypeInv, TypeOK, Handlers
  <2>2. tx' = [tx EXCEPT ![h] = t] /\ requests' = requests
    BY <1>6, <2>1 DEF RightGuess, Session, dbVars
  <2>3. t.id = tx[h].id
    BY <2>1 DEF Session
  <2>4. Current(tx[h].id)
    BY <1>6 DEF RightGuess, FitInv, Verifying
  <2>5. UNCHANGED Ledger!ledgerVars /\ h \notin Requesters
    BY <1>6, VerifyQuiet, ConstantsAssumption
  <2> HIDE DEF t
  <2>6. QED
    BY <1>1, <2>1, <2>2, <2>3, <2>4, <2>5, FitSession
<1>7. ASSUME NEW h \in Verifiers, VerifyTooLate(h) \/ WrongGuess(h) PROVE FitInv'
  <2>1. h \in Handlers /\ UNCHANGED Ledger!ledgerVars
    BY <1>7, VerifyQuiet DEF Handlers
  <2>2. Closes(h) /\ Rows
    BY <1>7, <2>1, PendingVerify DEF VerifyTooLate, WrongGuess
  <2>3. QED
    BY <1>2, <2>1, <2>2
<1>8. ASSUME NEW h \in Cancellers, NEW i \in Ids, BeginCancel(h, i) PROVE FitInv'
  <2> DEFINE t == [Closed EXCEPT !.step = "cancelling", !.id = i]
  <2>1. tx' = [tx EXCEPT ![h] = t] /\ requests' = requests /\ h \in Handlers
    BY <1>8 DEF BeginCancel, dbVars, Handlers
  <2>2. t.step = "cancelling"
    BY DEF Closed
  <2>3. UNCHANGED Ledger!ledgerVars
    BY <1>8, OthersQuiet
  <2> HIDE DEF t
  <2>4. QED
    BY <1>1, <2>1, <2>2, <2>3, FitSession
<1>9. ASSUME NEW h \in Cancellers, CommitCancel(h) PROVE FitInv'
  <2>1. h \in Handlers /\ UNCHANGED Ledger!ledgerVars
    BY <1>9, OthersQuiet DEF Handlers
  <2>2. Closes(h) /\ Rows
    BY <1>9, <2>1, PendingVerify DEF CommitCancel
  <2>3. QED
    BY <1>2, <2>1, <2>2
<1>10. ASSUME NEW h \in Handlers, Abort(h) PROVE FitInv'
  <2>1. UNCHANGED Ledger!ledgerVars
    BY <1>10, OthersQuiet
  <2>2. Closes(h) /\ requests' = requests
    BY <1>10 DEF Abort, dbVars
  <2>3. QED
    BY <1>1, <1>2, <2>1, <2>2
<1>11. ASSUME UNCHANGED <<config, requests, tx>> PROVE FitInv'
  BY <1>11 DEF FitInv, ConfigValid, Fits, Current, IsPending, InFlight, Verifying
<1>12. ASSUME NEW i \in Ids, OtpExpires(i) PROVE FitInv'
  BY <1>11, <1>12 DEF OtpExpires, dbVars
<1>13. CASE UNCHANGED vars
  BY <1>11, <1>13 DEF vars, dbVars
<1>14. QED
  BY <1>3, <1>4, <1>5, <1>6, <1>7, <1>8, <1>9, <1>10, <1>12, <1>13, FitCommit, FitApply DEF Next

\* What is merged was checked against an older configuration, and still: as long as no verification
\* overlaps a request, one of each runs at a time, and the tenant starts with a valid
\* configuration, the rule between the fields of a section holds for ever.  Every request expires
\* the others of its section, so whatever is applied later was checked against the section as it
\* stands (request_settings_change and verify_and_apply).
THEOREM ApartKeepsValid ==
  OneRequester /\ OneVerifier /\ ValidAtFirst => (Spec /\ []Apart => []ConfigValid)
<1>1. ASSUME OneRequester, OneVerifier, ValidAtFirst PROVE Spec /\ []Apart => []ConfigValid
  <2>1. TypeInv /\ PendingInv /\ LedgerInv /\ FitInv /\ Apart /\ [Next]_vars
          => PendingInv' /\ LedgerInv' /\ FitInv'
    BY <1>1, PendingStep, NextLedger, FitStep
  <2>2. Init => PendingInv /\ LedgerInv /\ FitInv
    BY <1>1, InitPending, InitLedger, InitFit
  <2>3. FitInv => ConfigValid
    BY DEF FitInv
  <2>4. QED
    BY <2>1, <2>2, <2>3, TypeInvariance, PTL DEF Spec
<1>2. QED
  BY <1>1

-----------------------------------------------------------------------------
(* A section whose proposals name both fields of its rule needs no such    *)
(* care: what is valid alone is valid whatever it is merged into.          *)

\* The proposals for section s leave neither field out.
WholeOnly(s) == \A p \in Proposals : p.section = s => \A f \in Fields : p.values[f] # Absent

\* A proposal for section s is valid alone.
ValidAlone(s, p) == p.section = s => p.values \in [Fields -> Values] /\ CrossValid(s, p.values, Whole)

SectionInv(s) ==
  /\ CrossValid(s, config[s], Whole)
  /\ \A i \in Ids : requests[i] # None => ValidAlone(s, requests[i].proposal)
  /\ \A h \in Handlers :
       /\ tx[h].step \in {"accepted", "inserted"} => ValidAlone(s, tx[h].proposal)
       /\ tx[h].step = "applying" => CrossValid(s, tx[h].config[s], Whole)

\* It replaces the section.
LEMMA WholeReplaces ==
  ASSUME NEW v, NEW q \in [Fields -> Values]
  PROVE  Merge(v, q) = q
<1>1. \A f \in Fields : q[f] # Absent
  BY ConstantsAssumption
<1>2. QED
  BY <1>1 DEF Merge

\* Writing another status or more attempts keeps what a request asks for.
LEMMA KeepsProposals ==
  ASSUME TypeInv, NEW h \in Handlers,
         VerifyTooLate(h) \/ WrongGuess(h) \/ ApplyChange(h) \/ CommitCancel(h)
  PROVE  \A i \in Ids : requests'[i] # None =>
           requests[i] # None /\ requests'[i].proposal = requests[i].proposal
<1> DEFINE i == tx[h].id
<1>1. i \in Ids /\ requests[i] \in Request /\ requests[i] # None
  BY AtRequest DEF VerifyTooLate, WrongGuess, ApplyChange, CommitCancel
<1>2. \A j \in Ids : j # i => requests'[j] = requests[j]
  BY DEF VerifyTooLate, WrongGuess, ApplyChange, CommitCancel, TypeInv, TypeOK
<1>3. requests'[i].proposal = requests[i].proposal
  <2>1. CASE VerifyTooLate(h) \/ CommitCancel(h)
    BY <1>1, <2>1 DEF VerifyTooLate, CommitCancel, TypeInv, TypeOK, Request
  <2>2. CASE WrongGuess(h)
    BY <1>1, <2>2 DEF WrongGuess, TypeInv, TypeOK, Request
  <2>3. CASE ApplyChange(h)
    BY <1>1, <2>3 DEF ApplyChange, TypeInv, TypeOK, Request
  <2>4. QED
    BY <2>1, <2>2, <2>3
<1>4. QED
  BY <1>1, <1>2, <1>3

\* A step of one session that keeps or adds valid requests.
LEMMA SectionSession ==
  ASSUME NEW s \in Sections, TypeInv, SectionInv(s), CrossValid(s, config'[s], Whole),
         \A i \in Ids : requests'[i] # None =>
           \/ requests[i] # None /\ requests'[i].proposal = requests[i].proposal
           \/ ValidAlone(s, requests'[i].proposal),
         NEW h \in Handlers, NEW t, tx' = [tx EXCEPT ![h] = t],
         t.step \in {"accepted", "inserted"} => ValidAlone(s, t.proposal),
         t.step = "applying" => CrossValid(s, t.config[s], Whole)
  PROVE  SectionInv(s)'
<1>1. \A g \in Handlers : tx'[g] = IF g = h THEN t ELSE tx[g]
  BY DEF TypeInv, TypeOK
<1>2. ASSUME NEW i \in Ids, requests'[i] # None PROVE ValidAlone(s, requests'[i].proposal)
  BY <1>2 DEF SectionInv
<1>3. ASSUME NEW g \in Handlers
      PROVE  /\ tx'[g].step \in {"accepted", "inserted"} => ValidAlone(s, tx'[g].proposal)
             /\ tx'[g].step = "applying" => CrossValid(s, tx'[g].config[s], Whole)
  BY <1>1 DEF SectionInv
<1>4. QED
  BY <1>2, <1>3 DEF SectionInv, ValidAlone

LEMMA SectionStep ==
  ASSUME NEW s \in Sections, WholeOnly(s), TypeInv, SectionInv(s), [Next]_vars
  PROVE  SectionInv(s)'
<1> DEFINE Rows == \A i \in Ids : requests'[i] # None =>
                     \/ requests[i] # None /\ requests'[i].proposal = requests[i].proposal
                     \/ ValidAlone(s, requests'[i].proposal)
           Now == CrossValid(s, config'[s], Whole)
<1>1. ASSUME requests' = requests PROVE Rows
  BY <1>1
<1>2. ASSUME config' = config PROVE Now
  BY <1>2 DEF SectionInv
<1>3. ASSUME NEW h \in Handlers, Closes(h), Rows, Now PROVE SectionInv(s)'
  BY <1>3, SectionSession DEF Closes, Closed
<1>4. ASSUME NEW h \in Requesters, NEW p \in Proposals, RequestChange(h, p) PROVE SectionInv(s)'
  <2> DEFINE t == [Closed EXCEPT !.step = "accepted", !.proposal = p]
  <2>1. tx' = [tx EXCEPT ![h] = t] /\ requests' = requests /\ config' = config /\ h \in Handlers
    BY <1>4 DEF RequestChange, dbVars, Handlers
  <2>2. t.step = "accepted" /\ t.proposal = p
    BY DEF Closed
  <2>3. ASSUME p.section = s PROVE p.values \in [Fields -> Values] /\ CrossValid(s, p.values, Whole)
    <3>1. p.values \in [Fields -> Values \cup {Absent}]
      BY ConstantsAssumption DEF Proposal, SectionValues
    <3>2. \A f \in Fields : p.values[f] # Absent
      BY <2>3 DEF WholeOnly
    <3>3. p.values \in [Fields -> Values]
      BY <3>1, <3>2
    <3>4. CrossValid(s, Merge(config[s], p.values), Whole)
      BY <1>4, <2>3 DEF RequestChange
    <3>5. QED
      BY <3>3, <3>4, WholeReplaces
  <2>4. ValidAlone(s, p)
    BY <2>3 DEF ValidAlone
  <2> HIDE DEF t
  <2>5. QED
    BY <1>1, <1>2, <2>1, <2>2, <2>4, SectionSession
<1>5. ASSUME NEW h \in Requesters, InsertRequest(h) PROVE SectionInv(s)'
  <2> DEFINE t == [tx[h] EXCEPT !.step = "inserted", !.id = nextId,
                                !.expires = PendingIn(tx[h].proposal.section)]
  <2>1. tx[h] \in Session /\ h \in Handlers
    BY DEF TypeInv, TypeOK, Handlers
  <2>2. tx' = [tx EXCEPT ![h] = t] /\ requests' = requests /\ config' = config
    BY <1>5, <2>1 DEF InsertRequest, Session, dbVars
  <2>3. t.step = "inserted" /\ t.proposal = tx[h].proposal
    BY <2>1 DEF Session
  <2>4. ValidAlone(s, tx[h].proposal)
    BY <1>5, <2>1 DEF InsertRequest, SectionInv
  <2> HIDE DEF t
  <2>5. QED
    BY <1>1, <1>2, <2>1, <2>2, <2>3, <2>4, SectionSession
<1>6. ASSUME NEW h \in Requesters, CommitRequest(h) PROVE SectionInv(s)'
  <2> DEFINE t == tx[h]
  <2>1. h \in Handlers /\ config' = config /\ Closes(h) /\ t.id \in Ids
        /\ \A i \in t.expires : requests[i] # None /\ i \in Ids
    BY <1>6 DEF CommitRequest, TypeInv, TypeOK, Session, SessionOK, Handlers
  <2>2. ValidAlone(s, t.proposal)
    BY <1>6, <2>1 DEF CommitRequest, SectionInv
  <2>3. ASSUME NEW i \in Ids, requests'[i] # None
        PROVE  \/ requests[i] # None /\ requests'[i].proposal = requests[i].proposal
               \/ ValidAlone(s, requests'[i].proposal)
    <3>1. CASE i = t.id
      <4>1. requests'[i] = [proposal |-> t.proposal, status |-> "pending_otp", attempts |-> 0]
        BY <1>6, <3>1 DEF CommitRequest
      <4>2. requests'[i].proposal = t.proposal
        BY <4>1
      <4>3. QED
        BY <2>2, <4>2
    <3>2. CASE i # t.id /\ i \in t.expires
      <4>1. requests'[i] = [requests[i] EXCEPT !.status = "expired"] /\ requests[i] # None
        BY <1>6, <2>1, <3>2 DEF CommitRequest
      <4>2. requests[i] \in Request
        BY <4>1 DEF TypeInv, TypeOK
      <4>3. QED
        BY <4>1, <4>2 DEF Request
    <3>3. CASE i # t.id /\ i \notin t.expires
      BY <1>6, <2>3, <3>3 DEF CommitRequest
    <3>4. QED
      BY <3>1, <3>2, <3>3
  <2>4. QED
    BY <1>2, <1>3, <2>1, <2>3
<1>7. ASSUME NEW h \in Verifiers, NEW i \in Ids, BeginVerify(h, i) PROVE SectionInv(s)'
  <2> DEFINE step == IF i \in late THEN "too_late" ELSE "guessing"
             t == [Closed EXCEPT !.step = step, !.id = i, !.attempts = requests[i].attempts]
  <2>1. tx' = [tx EXCEPT ![h] = t] /\ requests' = requests /\ config' = config /\ h \in Handlers
    BY <1>7 DEF BeginVerify, dbVars, Handlers
  <2>2. t.step \in {"too_late", "guessing"}
    BY DEF Closed
  <2> HIDE DEF t
  <2>3. QED
    BY <1>1, <1>2, <2>1, <2>2, SectionSession
<1>8. ASSUME NEW h \in Verifiers, RightGuess(h) PROVE SectionInv(s)'
  <2> DEFINE t == [tx[h] EXCEPT !.step = "applying", !.config = config]
  <2>1. tx[h] \in Session /\ h \in Handlers
    BY DEF TypeInv, TypeOK, Handlers
  <2>2. tx' = [tx EXCEPT ![h] = t] /\ requests' = requests /\ config' = config
    BY <1>8, <2>1 DEF RightGuess, Session, dbVars
  <2>3. t.step = "applying" /\ t.config = config
    BY <2>1 DEF Session
  <2>4. CrossValid(s, config[s], Whole)
    BY DEF SectionInv
  <2> HIDE DEF t
  <2>5. QED
    BY <1>1, <1>2, <2>1, <2>2, <2>3, <2>4, SectionSession
<1>9. ASSUME NEW h \in Handlers, VerifyTooLate(h) \/ WrongGuess(h) \/ CommitCancel(h) PROVE SectionInv(s)'
  <2>1. Closes(h) /\ config' = config
    BY <1>9 DEF VerifyTooLate, WrongGuess, CommitCancel
  <2>2. Rows
    BY <1>9, KeepsProposals
  <2>3. QED
    BY <1>2, <1>3, <2>1, <2>2
<1>10. ASSUME NEW h \in Verifiers, ApplyChange(h) PROVE SectionInv(s)'
  <2> DEFINE p == requests[tx[h].id].proposal
             after == Merge(tx[h].config[p.section], p.values)
  <2>1. h \in Handlers /\ Closes(h) /\ tx[h].id \in Ids /\ requests[tx[h].id] # None
        /\ tx[h].config \in Config /\ CrossValid(s, tx[h].config[s], Whole)
    BY <1>10 DEF ApplyChange, Handlers, TypeInv, SessionOK, SectionInv
  <2>2. config' = [tx[h].config EXCEPT ![p.section] = after]
    BY <1>10 DEF ApplyChange
  <2>3. ValidAlone(s, p)
    BY <2>1 DEF SectionInv
  <2>4. ASSUME p.section = s PROVE after = p.values /\ CrossValid(s, p.values, Whole)
    BY <2>3, <2>4, WholeReplaces DEF ValidAlone
  <2> HIDE DEF p, after
  <2>5. config'[s] = IF p.section = s THEN after ELSE tx[h].config[s]
    BY <2>1, <2>2 DEF Config
  <2>6. Now
    BY <2>1, <2>4, <2>5
  <2>7. Rows
    BY <1>10, <2>1, KeepsProposals
  <2>8. QED
    BY <1>3, <2>1, <2>6, <2>7
<1>11. ASSUME NEW h \in Cancellers, NEW i \in Ids, BeginCancel(h, i) PROVE SectionInv(s)'
  <2> DEFINE t == [Closed EXCEPT !.step = "cancelling", !.id = i]
  <2>1. tx' = [tx EXCEPT ![h] = t] /\ requests' = requests /\ config' = config /\ h \in Handlers
    BY <1>11 DEF BeginCancel, dbVars, Handlers
  <2>2. t.step = "cancelling"
    BY DEF Closed
  <2> HIDE DEF t
  <2>3. QED
    BY <1>1, <1>2, <2>1, <2>2, SectionSession
<1>12. ASSUME NEW h \in Handlers, Abort(h) PROVE SectionInv(s)'
  BY <1>1, <1>2, <1>3, <1>12 DEF Abort, dbVars
<1>13. ASSUME UNCHANGED <<config, requests, tx>> PROVE SectionInv(s)'
  BY <1>13 DEF SectionInv
<1>14. ASSUME NEW i \in Ids, OtpExpires(i) PROVE SectionInv(s)'
  BY <1>13, <1>14 DEF OtpExpires, dbVars
<1>15. CASE UNCHANGED vars
  BY <1>13, <1>15 DEF vars, dbVars
<1>16. QED
  BY <1>4, <1>5, <1>6, <1>7, <1>8, <1>9, <1>10, <1>11, <1>12, <1>14, <1>15 DEF Next, Handlers

\* With proposals that name both fields of a section's rule, the section stays valid however many
\* requests, verifications and cancels overlap, even when they write over one another's sections:
\* what validate_section_changes accepted then holds of any configuration it is merged into.
THEOREM WholeProposalsStayValid ==
  ASSUME NEW s \in Sections, WholeOnly(s), ValidAtFirst
  PROVE  Spec => []CrossValid(s, config[s], Whole)
<1>1. Init => SectionInv(s)
  <2> SUFFICES ASSUME Init PROVE SectionInv(s)
    OBVIOUS
  <2>1. \A h \in Handlers : tx[h].step = "closed"
    BY DEF Init, Closed
  <2>2. \A i \in Ids : requests[i] = None
    BY DEF Init
  <2>3. CrossValid(s, config[s], Whole)
    BY DEF Init, ValidAtFirst
  <2>4. QED
    BY <2>1, <2>2, <2>3 DEF SectionInv
<1>2. TypeInv /\ SectionInv(s) /\ [Next]_vars => SectionInv(s)'
  BY SectionStep
<1>3. SectionInv(s) => CrossValid(s, config[s], Whole)
  BY DEF SectionInv
<1>4. QED
  BY <1>1, <1>2, <1>3, TypeInvariance, PTL DEF Spec
-----------------------------------------------------------------------------
(* The audit log is the history of the configuration.                      *)

\* What it says when the merges are `log`, the requests ask for `asks` and the configuration is `conf`.
Tells(log, asks, conf) ==
  LET section(n) == asks[log[n].request].section IN
  /\ \A n \in DOMAIN log :
       /\ asks[log[n].request] # None
       /\ log[n].after = Ledger!Merge(log[n].before, asks[log[n].request].values)
  /\ \A m, n \in DOMAIN log : log[m].request = log[n].request => m = n
  /\ \A m, n \in DOMAIN log :
       /\ m < n /\ section(m) = section(n)
       /\ \A k \in m + 1 .. n - 1 : section(k) # section(n)
       => log[n].before = log[m].after
  /\ \A n \in DOMAIN log :
       (\A k \in DOMAIN log : k > n => section(k) # section(n)) => conf[section(n)] = log[n].after

LEMMA HistoryTells ==
  /\ Ledger!AuditIsHistory <=> Tells(audit, Asked, config)
  /\ Ledger!AuditIsHistory' <=> Tells(audit', Asked', config')
BY DEF Ledger!AuditIsHistory, Ledger!SectionOf, Tells, Asked

\* A new request has no merge.
LEMMA AskTells ==
  ASSUME NEW log \in Seq(AuditRow), NEW asks, NEW new, NEW conf, NEW i,
         Tells(log, asks, conf), asks[i] = None, \A j \in Ids : j # i => new[j] = asks[j]
  PROVE  Tells(log, new, conf)
<1>1. \A n \in DOMAIN log : log[n] \in AuditRow
  OBVIOUS
<1>2. \A n \in DOMAIN log : log[n].request \in Ids /\ log[n].request # i
  BY <1>1 DEF AuditRow, Tells
<1>3. \A n \in DOMAIN log : new[log[n].request] = asks[log[n].request]
  BY <1>2
<1>4. DOMAIN log = 1 .. Len(log) /\ Len(log) \in Nat
  OBVIOUS
<1>5. \A m, n \in DOMAIN log : \A k \in m + 1 .. n - 1 : k \in DOMAIN log
  BY <1>4
<1>6. \A n \in DOMAIN log :
        /\ new[log[n].request] # None
        /\ log[n].after = Ledger!Merge(log[n].before, new[log[n].request].values)
  BY <1>3 DEF Tells
<1>7. ASSUME NEW m \in DOMAIN log, NEW n \in DOMAIN log, m < n,
             new[log[m].request].section = new[log[n].request].section,
             \A k \in m + 1 .. n - 1 : new[log[k].request].section # new[log[n].request].section
      PROVE  log[n].before = log[m].after
  <2>1. \A k \in m + 1 .. n - 1 : asks[log[k].request].section # asks[log[n].request].section
    BY <1>3, <1>5, <1>7
  <2>2. asks[log[m].request].section = asks[log[n].request].section
    BY <1>3, <1>7
  <2>3. QED
    BY <1>7, <2>1, <2>2 DEF Tells
<1>8. ASSUME NEW n \in DOMAIN log,
             \A k \in DOMAIN log : k > n => new[log[k].request].section # new[log[n].request].section
      PROVE  conf[new[log[n].request].section] = log[n].after
  BY <1>3, <1>8 DEF Tells
<1>9. \A m, n \in DOMAIN log : log[m].request = log[n].request => m = n
  BY DEF Tells
<1>10. QED
  BY <1>6, <1>7, <1>8, <1>9 DEF Tells

\* A merge into the section as it stands continues it.
LEMMA MergeTells ==
  ASSUME NEW log \in Seq(AuditRow), NEW asks, NEW conf, NEW i \in Ids, Tells(log, asks, conf),
         asks[i] # None, asks[i].section \in DOMAIN conf, \A n \in DOMAIN log : log[n].request # i,
         NEW entry, entry.request = i, entry.before = conf[asks[i].section],
         entry.after = Ledger!Merge(entry.before, asks[i].values)
  PROVE  Tells(Append(log, entry), asks, [conf EXCEPT ![asks[i].section] = entry.after])
<1> DEFINE s == asks[i].section
           longer == Append(log, entry)
           L == Len(log)
           old(n) == asks[log[n].request].section
           section(n) == asks[longer[n].request].section
           merged == [conf EXCEPT ![s] = entry.after]
<1>1. L \in Nat /\ DOMAIN log = 1 .. L /\ DOMAIN longer = 1 .. L + 1
      /\ longer[L + 1] = entry /\ \A n \in 1 .. L : longer[n] = log[n]
  OBVIOUS
<1>2. section(L + 1) = s /\ \A n \in 1 .. L : section(n) = old(n)
  BY <1>1
<1>3. merged[s] = entry.after /\ \A q : q # s => merged[q] = conf[q]
  OBVIOUS
<1> HIDE DEF longer, L
<1>4. \A n \in DOMAIN longer :
        /\ asks[longer[n].request] # None
        /\ longer[n].after = Ledger!Merge(longer[n].before, asks[longer[n].request].values)
  BY <1>1 DEF Tells
<1>5. \A m, n \in DOMAIN longer : longer[m].request = longer[n].request => m = n
  BY <1>1 DEF Tells
<1>6. ASSUME NEW m \in DOMAIN longer, NEW n \in DOMAIN longer, m < n, section(m) = section(n),
             \A k \in m + 1 .. n - 1 : section(k) # section(n)
      PROVE  longer[n].before = longer[m].after
  <2>1. m \in 1 .. L /\ longer[m] = log[m] /\ old(m) = section(m)
    BY <1>1, <1>2, <1>6
  <2>2. CASE n \in 1 .. L
    <3>1. \A k \in m + 1 .. n - 1 : old(k) # old(n)
      BY <1>1, <1>2, <1>6, <2>2
    <3>2. QED
      BY <1>1, <1>2, <1>6, <2>1, <2>2, <3>1 DEF Tells
  <2>3. CASE n = L + 1
    <3>1. old(m) = s /\ \A k \in DOMAIN log : k > m => old(k) # s
      BY <1>1, <1>2, <1>6, <2>1, <2>3
    <3>2. conf[old(m)] = log[m].after
      BY <1>1, <2>1, <3>1 DEF Tells
    <3>3. QED
      BY <1>1, <2>1, <2>3, <3>1, <3>2
  <2>4. QED
    BY <1>1, <2>2, <2>3
<1>7. ASSUME NEW n \in DOMAIN longer, \A k \in DOMAIN longer : k > n => section(k) # section(n)
      PROVE  merged[section(n)] = longer[n].after
  <2>1. CASE n \in 1 .. L
    <3>1. section(n) # s /\ \A k \in DOMAIN log : k > n => old(k) # old(n)
      BY <1>1, <1>2, <1>7, <2>1
    <3>2. conf[old(n)] = log[n].after
      BY <1>1, <2>1, <3>1 DEF Tells
    <3>3. QED
      BY <1>1, <1>2, <1>3, <2>1, <3>1, <3>2
  <2>2. CASE n = L + 1
    BY <1>1, <1>2, <1>3, <2>2
  <2>3. QED
    BY <1>1, <2>1, <2>2
<1> HIDE DEF merged
<1>8. Tells(longer, asks, merged)
  BY <1>4, <1>5, <1>6, <1>7 DEF Tells
<1>9. QED
  BY <1>8 DEF longer, merged

LEMMA HistoryStep ==
  ASSUME TypeInv, Ledger!AuditIsHistory, [Ledger!LedgerNext]_(Ledger!ledgerVars)
  PROVE  Ledger!AuditIsHistory'
<1>1. Tells(audit, Asked, config) /\ audit \in Seq(AuditRow)
  BY HistoryTells DEF TypeInv, TypeOK
<1>2. ASSUME NEW i \in Ids, Ledger!Asks(i) PROVE Tells(audit', Asked', config')
  <2>1. Asked[i] = None /\ audit' = audit /\ config' = config
        /\ \E p \in Proposals : Asked' = [Asked EXCEPT ![i] = p]
    BY <1>2 DEF Ledger!Asks, Asked
  <2>2. \A j \in Ids : j # i => Asked'[j] = Asked[j]
    BY <2>1
  <2>3. QED
    BY <1>1, <2>1, <2>2, AskTells
<1>3. ASSUME NEW i \in Ids, Ledger!Merges(i) PROVE Tells(audit', Asked', config')
  <2> DEFINE s == Asked[i].section
             after == Ledger!Merge(config[s], Asked[i].values)
             entry == [request |-> i, before |-> config[s], after |-> after]
  <2>1. /\ Asked[i] # None /\ Unmerged(i)
        /\ config' = [config EXCEPT ![s] = after] /\ audit' = Append(audit, entry) /\ Asked' = Asked
    BY <1>3 DEF Ledger!Merges, Asked, Unmerged
  <2>2. Asked[i] = requests[i].proposal /\ requests[i] # None
    BY <2>1 DEF Asked
  <2>3. s \in DOMAIN config
    BY <2>2 DEF TypeInv, TypeOK, Config, Request, Proposal
  <2>4. entry.request = i /\ entry.before = config[s] /\ entry.after = after
    OBVIOUS
  <2> HIDE DEF entry
  <2>5. Tells(Append(audit, entry), Asked, [config EXCEPT ![s] = entry.after])
    BY <1>1, <2>1, <2>3, <2>4, MergeTells DEF Unmerged
  <2>6. QED
    BY <2>1, <2>4, <2>5
<1>4. ASSUME UNCHANGED Ledger!ledgerVars PROVE Tells(audit', Asked', config')
  <2>1. audit' = audit /\ config' = config /\ Asked' = Asked
    BY <1>4 DEF Ledger!ledgerVars, Asked
  <2>2. QED
    BY <1>1, <2>1
<1>5. QED
  BY <1>2, <1>3, <1>4, HistoryTells DEF Ledger!LedgerNext

\* As long as one verification runs at a time, the audit log can be relied on: its entries are the
\* changes the configuration went through, section by section, with none lost, none twice, and the
\* configuration is what the last entries say (verify_and_apply's audit rows).
THEOREM AuditTellsConfig == OneVerifier => (Spec => []Ledger!AuditIsHistory)
<1>1. ASSUME OneVerifier PROVE Spec => []Ledger!AuditIsHistory
  <2>1. TypeInv /\ LedgerInv /\ Ledger!AuditIsHistory /\ [Next]_vars
          => LedgerInv' /\ Ledger!AuditIsHistory'
    BY <1>1, NextLedger, HistoryStep
  <2>2. Init => LedgerInv /\ Ledger!AuditIsHistory
    <3>1. Init => DOMAIN audit = {}
      BY DEF Init
    <3>2. Init => Tells(audit, Asked, config)
      BY <3>1 DEF Tells
    <3>3. QED
      BY <3>2, HistoryTells, InitLedger
  <2>3. QED
    BY <2>1, <2>2, TypeInvariance, PTL DEF Spec
<1>2. QED
  BY <1>1
=============================================================================
