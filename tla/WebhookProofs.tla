----------------------------- MODULE WebhookProofs -----------------------------
(***************************************************************************)
(* Proofs about WebhookIngestion, for any messages and batches, any number *)
(* of deliveries at a time, and any number of failures and restarts.       *)
(***************************************************************************)
EXTENDS WebhookIngestion, FiniteSetTheorems, SequenceTheorems, TLAPS

-----------------------------------------------------------------------------
(* Sequences.                                                              *)

LEMMA EmptyToSet == ToSet(<<>>) = {}
BY DEF ToSet

LEMMA ToSetType ==
  ASSUME NEW S, NEW s \in Seq(S)
  PROVE  ToSet(s) \subseteq S
BY LenProperties, ElementOfSeq DEF ToSet

LEMMA HeadTailSet ==
  ASSUME NEW S, NEW s \in Seq(S), s # <<>>
  PROVE  /\ Head(s) \in S /\ Head(s) = s[1] /\ Tail(s) \in Seq(S)
         /\ ToSet(s) = {Head(s)} \cup ToSet(Tail(s))
<1>1. /\ Len(s) \in Nat \ {0} /\ DOMAIN s = 1 .. Len(s) /\ Head(s) = s[1]
      /\ Tail(s) \in Seq(S) /\ DOMAIN Tail(s) = 1 .. Len(s) - 1
      /\ \A i \in 1 .. Len(s) - 1 : Tail(s)[i] = s[i + 1]
  BY HeadTailProperties, LenProperties, EmptySeq
<1>2. Head(s) \in S
  BY <1>1, ElementOfSeq
<1>3. ASSUME NEW i \in 1 .. Len(s) PROVE s[i] \in {Head(s)} \cup ToSet(Tail(s))
  <2>1. CASE i = 1
    BY <1>1, <2>1
  <2>2. CASE i # 1
    <3>1. i - 1 \in 1 .. Len(s) - 1 /\ (i - 1) + 1 = i
      BY <1>1, <2>2
    <3>2. Tail(s)[i - 1] = s[(i - 1) + 1]
      BY <1>1, <3>1
    <3>3. QED
      BY <1>1, <3>1, <3>2 DEF ToSet
  <2>3. QED
    BY <2>1, <2>2
<1>4. ASSUME NEW i \in 1 .. Len(s) - 1 PROVE Tail(s)[i] \in ToSet(s)
  <2>1. i + 1 \in 1 .. Len(s)
    BY <1>1
  <2>2. QED
    BY <1>1, <2>1 DEF ToSet
<1>5. s[1] \in ToSet(s)
  BY <1>1 DEF ToSet
<1>6. QED
  BY <1>1, <1>2, <1>3, <1>4, <1>5 DEF ToSet

LEMMA ConcatSet ==
  ASSUME NEW S, NEW s \in Seq(S), NEW t \in Seq(S)
  PROVE  s \o t \in Seq(S) /\ ToSet(s \o t) = ToSet(s) \cup ToSet(t)
<1> DEFINE u == s \o t
<1>1. /\ u \in Seq(S) /\ Len(u) = Len(s) + Len(t)
      /\ \A i \in 1 .. Len(s) + Len(t) : u[i] = IF i <= Len(s) THEN s[i] ELSE t[i - Len(s)]
  BY ConcatProperties
<1> HIDE DEF u
<1>2. /\ Len(s) \in Nat /\ Len(t) \in Nat /\ DOMAIN u = 1 .. Len(s) + Len(t)
      /\ DOMAIN s = 1 .. Len(s) /\ DOMAIN t = 1 .. Len(t)
  BY <1>1, LenProperties
<1>3. ASSUME NEW i \in DOMAIN u PROVE u[i] \in ToSet(s) \cup ToSet(t)
  <2>1. CASE i <= Len(s)
    BY <1>1, <1>2, <2>1 DEF ToSet
  <2>2. CASE ~(i <= Len(s))
    <3>1. i - Len(s) \in DOMAIN t /\ u[i] = t[i - Len(s)]
      BY <1>1, <1>2, <2>2
    <3>2. QED
      BY <3>1 DEF ToSet
  <2>3. QED
    BY <2>1, <2>2
<1>4. ASSUME NEW i \in DOMAIN s PROVE s[i] \in ToSet(u)
  <2>1. i \in DOMAIN u /\ u[i] = s[i]
    BY <1>1, <1>2
  <2>2. QED
    BY <2>1 DEF ToSet
<1>5. ASSUME NEW i \in DOMAIN t PROVE t[i] \in ToSet(u)
  <2>1. i + Len(s) \in DOMAIN u /\ ~(i + Len(s) <= Len(s)) /\ (i + Len(s)) - Len(s) = i
    BY <1>2
  <2>2. u[i + Len(s)] = t[(i + Len(s)) - Len(s)]
    BY <1>1, <1>2, <2>1
  <2>3. QED
    BY <2>1, <2>2 DEF ToSet
<1>6. QED
  BY <1>1, <1>3, <1>4, <1>5 DEF ToSet, u

LEMMA SingleSet ==
  ASSUME NEW S, NEW x \in S
  PROVE  <<x>> \in Seq(S) /\ ToSet(<<x>>) = {x}
<1>1. <<x>> \in Seq(S)
  OBVIOUS
<1>2. \A a : ToSet(<<a>>) = {a}
  BY DEF ToSet
<1>3. QED
  BY <1>1, <1>2

LEMMA AppendSet ==
  ASSUME NEW S, NEW s \in Seq(S), NEW x \in S
  PROVE  Append(s, x) \in Seq(S) /\ ToSet(Append(s, x)) = ToSet(s) \cup {x}
<1>1. Append(s, x) = s \o <<x>>
  BY AppendIsConcat
<1>2. <<x>> \in Seq(S) /\ ToSet(<<x>>) = {x}
  BY SingleSet
<1> DEFINE t == <<x>>
<1>3. t \in Seq(S) /\ ToSet(t) = {x} /\ Append(s, x) = s \o t
  BY <1>1, <1>2
<1> HIDE DEF t
<1>4. s \o t \in Seq(S) /\ ToSet(s \o t) = ToSet(s) \cup ToSet(t)
  BY <1>3, ConcatSet
<1>5. QED
  BY <1>3, <1>4

LEMMA WhenSet ==
  ASSUME NEW S, NEW condition, NEW x, condition => x \in S
  PROVE  /\ When(condition, x) \in Seq(S)
         /\ ToSet(When(condition, x)) = IF condition THEN {x} ELSE {}
<1>1. CASE condition
  BY <1>1, SingleSet DEF When
<1>2. CASE ~condition
  BY <1>2, EmptyToSet, EmptySeq DEF When
<1>3. QED
  BY <1>1, <1>2
-----------------------------------------------------------------------------
(* Types.                                                                  *)

TypeInv ==
  /\ unacked \subseteq Messages /\ stored \subseteq Signal /\ boot \in Nat \ {0} /\ quizzes \in Nat
  /\ hooks \in [Hooks -> Hook] /\ plain \in [Messages -> Nat]
  /\ quiz \in [Phones -> Quiz \cup {None}] /\ answers \in [Phones -> Nat]

-----------------------------------------------------------------------------
(* A completion is earned.                                                 *)

\* The signals a delivery holds, inserted or not, and all there are.
Held(h) == ToSet(hooks[h].rows) \cup ToSet(hooks[h].out)
AllSignals == stored \cup UNION {Held(h) : h \in Hooks}

\* Every completion that is stored or under way was paid with the answers of
\* one quiz; the quiz under way has paid for its questions so far.
Completions(p) == {r \in AllSignals : r.kind = "quiz" /\ Sender[r.msg] = p}
QuizInv ==
  \A p \in Phones :
    /\ IsFiniteSet(Completions(p))
    /\ Questions * Cardinality(Completions(p)) + (IF quiz[p] = None THEN 0 ELSE quiz[p].at) <= answers[p]
    /\ Cardinality(Completions(p)) + (IF quiz[p] = None THEN 0 ELSE 1) <= quizzes

-----------------------------------------------------------------------------
(* What was acknowledged is stored.                                        *)

\* A key starts with the kind of its signal and says what a lookup of it finds.
ReplyAt(r, b) == r.key = <<"reply", Sender[r.msg], b, Text[r.msg]>> /\ (b = 0 <=> Text[r.msg] = None)
KeyAt(r, starts) ==
  /\ r.key # None => r.key[1] = r.kind
  /\ r.kind = "reply" => \E b \in 0..starts : ReplyAt(r, b)
  /\ r.kind \in {"outcome", "analyzed"} =>
       r.key = IF Text[r.msg] = None THEN None ELSE <<r.kind, Text[r.msg]>>
KeyTold(r) == KeyAt(r, boot)

\* What a message calls for is in a set of signals.
ReplyIn(S, m) == \E r \in S : r.kind = "reply" /\ Sender[r.msg] = Sender[m] /\ Text[r.msg] = Text[m]
CallIn(S, kind, m) == \E r \in S : r.kind = kind /\ Text[r.msg] = Text[m]
PlainIn(S, kind, m) == \E r \in S : r.kind = kind /\ r.key = None /\ r.msg = m
Alarm(m) ==
  \/ Intent(m) = "stop" /\ Sender[m] \in Known
  \/ Intent(m) \in {"adm", "commission", "complaint"} /\ Sender[m] \in Assigned

\* A delivery holds what its handled messages call for, but for the keys that
\* are stored.
HandledTold(h, m) ==
  /\ Replied(m) => ReplyIn(stored \cup Held(h), m)
  /\ Alarm(m) => PlainIn(Held(h), "consent", m) \/ PlainIn(Held(h), "nudge", m)
  /\ Form[m] = "voice" =>
       \A kind \in {"outcome", "analyzed"} :
         IF Text[m] = None THEN PlainIn(Held(h), kind, m) ELSE CallIn(stored \cup Held(h), kind, m)

StoredInv ==
  /\ \A r \in AllSignals : KeyTold(r)
  /\ \A r \in stored : r.key # None
  /\ \A h \in Hooks : \A m \in ToSet(hooks[h].batch) \ ToSet(hooks[h].todo) : HandledTold(h, m)
  /\ EffectsStored
-----------------------------------------------------------------------------
(* The signals of a message.                                               *)

KindIs(r) == r.key # None => r.key[1] = r.kind

LEMMA SigFields ==
  ASSUME NEW kind, NEW m, NEW key
  PROVE  Sig(kind, m, key).kind = kind /\ Sig(kind, m, key).msg = m /\ Sig(kind, m, key).key = key
BY DEF Sig

\* The keys the code composes.
LEMMA KeysType ==
  ASSUME NEW m \in Messages, NEW b \in Nat
  PROVE  /\ <<"reply", Sender[m], b, Text[m]>> \in SignalKeys
         /\ <<"status", Sender[m], Text[m]>> \in SignalKeys
         /\ Tap[m] # None => <<"quiz", Sender[m], Tap[m].module>> \in SignalKeys
         /\ \A kind \in {"outcome", "analyzed", "recording"} : <<kind, Text[m]>> \in SignalKeys
<1> DEFINE texts == {Text[x] : x \in Messages}
           modules == {Tap[x].module : x \in {y \in Messages : Tap[y] # None}}
<1>1. Sender[m] \in Phones /\ Text[m] \in texts /\ (Tap[m] # None => Tap[m].module \in modules)
  BY DEF Phones
<1>2. SignalKeys = ({"reply"} \X Phones \X Nat \X texts) \cup ({"status"} \X Phones \X texts)
                   \cup ({"quiz"} \X Phones \X modules) \cup ({"outcome", "analyzed", "recording"} \X texts)
  BY DEF SignalKeys
<1> HIDE DEF texts, modules
<1>3. QED
  BY <1>1, <1>2

LEMMA SigType ==
  ASSUME NEW kind \in {"reply", "consent", "nudge", "status", "quiz", "outcome", "analyzed", "recording"},
         NEW m \in Messages, NEW key \in SignalKeys \cup {None}
  PROVE  Sig(kind, m, key) \in Signal
BY DEF Sig, Signal

LEMMA ReplySignalsType ==
  ASSUME TypeInv, NEW m \in Messages
  PROVE  LET reply == Sig("reply", m, ReplyKey(m))
             consent == Sig("consent", m, None)
             nudge == Sig("nudge", m, None)
         IN  /\ ReplySignals(m) \in Seq(Signal)
             /\ {reply, consent, nudge} \subseteq Signal
             /\ ToSet(ReplySignals(m)) =
                  (IF RevokesConsent(m) /\ Sender[m] \in Known THEN {consent} ELSE {}) \cup {reply}
                  \cup (IF Escalates(m) /\ Sender[m] \in Assigned THEN {nudge} ELSE {})
<1> DEFINE reply == Sig("reply", m, ReplyKey(m))
           consent == Sig("consent", m, None)
           nudge == Sig("nudge", m, None)
           c == RevokesConsent(m) /\ Sender[m] \in Known
           n == Escalates(m) /\ Sender[m] \in Assigned
<1>1. boot \in Nat /\ 0 \in Nat
  BY DEF TypeInv
<1>2. reply \in Signal /\ consent \in Signal /\ nudge \in Signal
  <2>1. ReplyKey(m) \in SignalKeys
    BY <1>1, KeysType DEF ReplyKey
  <2>2. QED
    BY <2>1, SigType
<1>3. ReplySignals(m) = When(c, consent) \o <<reply>> \o When(n, nudge)
  BY DEF ReplySignals
<1> DEFINE first == When(c, consent)
           middle == <<reply>>
           last == When(n, nudge)
<1> HIDE DEF reply, consent, nudge, c, n
<1>4. /\ When(c, consent) \in Seq(Signal) /\ ToSet(When(c, consent)) = IF c THEN {consent} ELSE {}
      /\ When(n, nudge) \in Seq(Signal) /\ ToSet(When(n, nudge)) = IF n THEN {nudge} ELSE {}
      /\ <<reply>> \in Seq(Signal) /\ ToSet(<<reply>>) = {reply}
  BY <1>2, WhenSet, SingleSet
<1>5. /\ first \in Seq(Signal) /\ middle \in Seq(Signal) /\ last \in Seq(Signal)
      /\ ReplySignals(m) = (first \o middle) \o last
  BY <1>3, <1>4
<1> HIDE DEF first, middle, last
<1>6. first \o middle \in Seq(Signal) /\ ToSet(first \o middle) = ToSet(first) \cup ToSet(middle)
  BY <1>5, ConcatSet
<1> DEFINE front == first \o middle
<1>7. front \in Seq(Signal) /\ ReplySignals(m) = front \o last
  BY <1>5, <1>6
<1> HIDE DEF front
<1>8. front \o last \in Seq(Signal) /\ ToSet(front \o last) = ToSet(front) \cup ToSet(last)
  BY <1>5, <1>7, ConcatSet
<1>9. ToSet(ReplySignals(m)) = (ToSet(first) \cup ToSet(middle)) \cup ToSet(last)
  BY <1>6, <1>7, <1>8 DEF front
<1>10. QED
  BY <1>2, <1>4, <1>7, <1>8, <1>9 DEF reply, consent, nudge, c, n, first, middle, last

LEMMA VoiceSignalsType ==
  ASSUME NEW m \in Messages
  PROVE  LET call(kind) == Sig(kind, m, CallKey(kind, m))
         IN  /\ VoiceSignals(m) \in Seq(Signal)
             /\ {call("outcome"), call("analyzed"), call("recording")} \subseteq Signal
             /\ ToSet(VoiceSignals(m)) = {call("outcome"), call("analyzed")}
                  \cup (IF "recording" \in Words[m] THEN {call("recording")} ELSE {})
<1> DEFINE outcome == Sig("outcome", m, CallKey("outcome", m))
           analyzed == Sig("analyzed", m, CallKey("analyzed", m))
           recording == Sig("recording", m, CallKey("recording", m))
           c == "recording" \in Words[m]
           first == <<outcome, analyzed>>
           last == When(c, recording)
<1>1. outcome \in Signal /\ analyzed \in Signal /\ recording \in Signal
  <2>1. \A kind \in {"outcome", "analyzed", "recording"} : CallKey(kind, m) \in SignalKeys \cup {None}
    BY KeysType DEF CallKey
  <2>2. QED
    BY <2>1, SigType
<1>2. VoiceSignals(m) = <<outcome, analyzed>> \o When(c, recording)
  BY DEF VoiceSignals
<1> HIDE DEF outcome, analyzed, recording, c
<1>3. /\ When(c, recording) \in Seq(Signal) /\ ToSet(When(c, recording)) = IF c THEN {recording} ELSE {}
  BY <1>1, WhenSet
<1>4. <<outcome, analyzed>> \in Seq(Signal) /\ ToSet(<<outcome, analyzed>>) = {outcome, analyzed}
  <2>1. <<outcome, analyzed>> \in Seq(Signal)
    BY <1>1
  <2>2. \A a, b : ToSet(<<a, b>>) = {a, b}
    BY DEF ToSet
  <2>3. QED
    BY <2>1, <2>2
<1>5. first \in Seq(Signal) /\ last \in Seq(Signal) /\ VoiceSignals(m) = first \o last
  BY <1>2, <1>3, <1>4
<1> HIDE DEF first, last
<1>6. first \o last \in Seq(Signal) /\ ToSet(first \o last) = ToSet(first) \cup ToSet(last)
  BY <1>5, ConcatSet
<1>7. VoiceSignals(m) \in Seq(Signal) /\ ToSet(VoiceSignals(m)) = ToSet(first) \cup ToSet(last)
  BY <1>5, <1>6
<1>8. QED
  BY <1>1, <1>3, <1>4, <1>7 DEF outcome, analyzed, recording, c, first, last

\* What the signals of a message say, and that they answer it.
LEMMA SignalsOf ==
  ASSUME TypeInv, NEW m \in Messages
  PROVE  /\ Signals(m) \in Seq(Signal)
         /\ \A r \in ToSet(Signals(m)) : r \in Signal /\ r.msg = m /\ KeyTold(r) /\ (r.kind = "quiz" => Finishes(m))
         /\ \A r, s \in ToSet(Signals(m)) : r.kind = "quiz" /\ s.kind = "quiz" => r = s
         /\ Replied(m) => ReplyIn(ToSet(Signals(m)), m)
         /\ Alarm(m) => PlainIn(ToSet(Signals(m)), "consent", m) \/ PlainIn(ToSet(Signals(m)), "nudge", m)
         /\ Form[m] = "voice" =>
              \A kind \in {"outcome", "analyzed"} :
                IF Text[m] = None THEN PlainIn(ToSet(Signals(m)), kind, m) ELSE CallIn(ToSet(Signals(m)), kind, m)
<1> DEFINE Goal(s) ==
             /\ s \in Seq(Signal)
             /\ \A r \in ToSet(s) : r \in Signal /\ r.msg = m /\ KeyTold(r) /\ (r.kind = "quiz" => Finishes(m))
             /\ \A r, q \in ToSet(s) : r.kind = "quiz" /\ q.kind = "quiz" => r = q
             /\ Replied(m) => ReplyIn(ToSet(s), m)
             /\ Alarm(m) => PlainIn(ToSet(s), "consent", m) \/ PlainIn(ToSet(s), "nudge", m)
             /\ Form[m] = "voice" =>
                  \A kind \in {"outcome", "analyzed"} :
                    IF Text[m] = None THEN PlainIn(ToSet(s), kind, m) ELSE CallIn(ToSet(s), kind, m)
<1>1. Alarm(m) => Form[m] = "text"
  BY DEF Alarm, Intent
<1>2. CASE Form[m] = "status"
  <2> DEFINE r == Sig("status", m, <<"status", Sender[m], Text[m]>>)
  <2>1. r.kind = "status" /\ r.msg = m /\ r.key = <<"status", Sender[m], Text[m]>> /\ r \in Signal
    <3>1. <<"status", Sender[m], Text[m]>> \in SignalKeys
      BY KeysType
    <3>2. QED
      BY <3>1, SigFields, SigType
  <2>2. KeyTold(r)
    BY <2>1 DEF KeyTold, KeyAt, ReplyAt
  <2>3. Signals(m) = When(Text[m] # "failed", r)
    BY <1>2 DEF Signals, StatusSignals
  <2> HIDE DEF r
  <2>4. Signals(m) \in Seq(Signal) /\ ToSet(Signals(m)) \subseteq {r}
    BY <2>1, <2>3, WhenSet
  <2>5. QED
    BY <1>1, <1>2, <2>1, <2>2, <2>4 DEF Replied
<1>3. CASE Form[m] = "voice"
  <2> DEFINE call(kind) == Sig(kind, m, CallKey(kind, m))
  <2>1. /\ Signals(m) \in Seq(Signal) /\ ToSet(Signals(m)) \subseteq Signal
        /\ {call("outcome"), call("analyzed")} \subseteq ToSet(Signals(m))
        /\ ToSet(Signals(m)) \subseteq {call("outcome"), call("analyzed"), call("recording")}
    BY <1>3, VoiceSignalsType DEF Signals
  <2>2. \A kind : /\ call(kind).kind = kind /\ call(kind).msg = m
                  /\ call(kind).key = IF Text[m] = None THEN None ELSE <<kind, Text[m]>>
    BY SigFields DEF CallKey
  <2> HIDE DEF call
  <2>3. \A kind \in {"outcome", "analyzed", "recording"} : KeyTold(call(kind))
    BY <2>2 DEF KeyTold, KeyAt, ReplyAt
  <2>4. \A kind \in {"outcome", "analyzed"} :
          IF Text[m] = None THEN PlainIn(ToSet(Signals(m)), kind, m) ELSE CallIn(ToSet(Signals(m)), kind, m)
    BY <2>1, <2>2 DEF PlainIn, CallIn
  <2>5. QED
    BY <1>1, <1>3, <2>1, <2>2, <2>3, <2>4 DEF Replied
<1>4. CASE Form[m] \notin {"status", "voice"} /\ IsTap(m)
  <2> DEFINE r == Sig("quiz", m, <<"quiz", Sender[m], Tap[m].module>>)
  <2>1. r.kind = "quiz" /\ r.msg = m /\ r.key = <<"quiz", Sender[m], Tap[m].module>> /\ r \in Signal
    <3>1. <<"quiz", Sender[m], Tap[m].module>> \in SignalKeys
      BY <1>4, KeysType DEF IsTap
    <3>2. QED
      BY <3>1, SigFields, SigType
  <2>2. KeyTold(r)
    BY <2>1 DEF KeyTold, KeyAt, ReplyAt
  <2>3. Signals(m) = When(Finishes(m), r)
    BY <1>4 DEF Signals
  <2> HIDE DEF r
  <2>4. Signals(m) \in Seq(Signal) /\ ToSet(Signals(m)) = IF Finishes(m) THEN {r} ELSE {}
    BY <2>1, <2>3, WhenSet
  <2>5. QED
    BY <1>1, <1>4, <2>1, <2>2, <2>4 DEF Replied, IsTap
<1>5. CASE Form[m] \notin {"status", "voice"} /\ ~IsTap(m)
  <2> DEFINE reply == Sig("reply", m, ReplyKey(m))
             consent == Sig("consent", m, None)
             nudge == Sig("nudge", m, None)
  <2>1. /\ Signals(m) \in Seq(Signal) /\ {reply, consent, nudge} \subseteq Signal
        /\ reply \in ToSet(Signals(m)) /\ ToSet(Signals(m)) \subseteq {reply, consent, nudge}
        /\ RevokesConsent(m) /\ Sender[m] \in Known => consent \in ToSet(Signals(m))
        /\ Escalates(m) /\ Sender[m] \in Assigned => nudge \in ToSet(Signals(m))
    BY <1>5, ReplySignalsType DEF Signals
  <2>2. /\ reply.kind = "reply" /\ reply.msg = m /\ reply.key = ReplyKey(m)
        /\ consent.kind = "consent" /\ consent.msg = m /\ consent.key = None
        /\ nudge.kind = "nudge" /\ nudge.msg = m /\ nudge.key = None
    BY SigFields
  <2> HIDE DEF reply, consent, nudge
  <2>3. KeyTold(reply) /\ KeyTold(consent) /\ KeyTold(nudge)
    <3>1. boot \in Nat \ {0}
      BY DEF TypeInv
    <3>2. \E b \in 0..boot : ReplyKey(m) = <<"reply", Sender[m], b, Text[m]>> /\ (b = 0 <=> Text[m] = None)
      BY <3>1 DEF ReplyKey
    <3>3. ReplyKey(m)[1] = "reply"
      BY DEF ReplyKey
    <3>4. QED
      BY <2>2, <3>2, <3>3 DEF KeyTold, KeyAt, ReplyAt
  <2>4. ReplyIn(ToSet(Signals(m)), m)
    BY <2>1, <2>2 DEF ReplyIn
  <2>5. ASSUME Alarm(m)
        PROVE  PlainIn(ToSet(Signals(m)), "consent", m) \/ PlainIn(ToSet(Signals(m)), "nudge", m)
    <3>1. \/ RevokesConsent(m) /\ Sender[m] \in Known
          \/ Escalates(m) /\ Sender[m] \in Assigned
      BY <2>5 DEF Alarm, RevokesConsent, Escalates
    <3>2. QED
      BY <2>1, <2>2, <3>1 DEF PlainIn
  <2>6. QED
    BY <1>5, <2>1, <2>2, <2>3, <2>4, <2>5
<1>6. Goal(Signals(m))
  BY <1>2, <1>3, <1>4, <1>5
<1>7. QED
  BY <1>6
-----------------------------------------------------------------------------
(* The steps, by what they do to a delivery.                               *)

Sets(h, d) == hooks' = [hooks EXCEPT ![h] = d]
Others(h) == \A g \in Hooks \ {h} : hooks'[g] = hooks[g]
Memory == <<quiz, answers, quizzes>>
Base == <<unacked, dbVars, boot>>

LEMMA SetsMoves ==
  ASSUME TypeInv, NEW h \in Hooks, NEW d \in Hook, Sets(h, d)
  PROVE  hooks' \in [Hooks -> Hook] /\ hooks'[h] = d /\ Others(h)
BY DEF TypeInv, Sets, Others

LEMMA HookType ==
  ASSUME TypeInv, NEW h \in Hooks
  PROVE  /\ hooks[h] \in Hook
         /\ hooks[h].batch \in Seq(Messages) /\ hooks[h].todo \in Seq(Messages)
         /\ hooks[h].out \in Seq(Signal) /\ hooks[h].rows \in Seq(Signal) /\ hooks[h].absent \in BOOLEAN
         /\ ToSet(hooks[h].batch) \subseteq Messages /\ ToSet(hooks[h].todo) \subseteq Messages
         /\ ToSet(hooks[h].out) \subseteq Signal /\ ToSet(hooks[h].rows) \subseteq Signal
<1>1. /\ hooks[h] \in Hook
      /\ hooks[h].batch \in Seq(Messages) /\ hooks[h].todo \in Seq(Messages)
      /\ hooks[h].out \in Seq(Signal) /\ hooks[h].rows \in Seq(Signal) /\ hooks[h].absent \in BOOLEAN
  BY DEF TypeInv, Hook
<1>2. QED
  BY <1>1, ToSetType

\* A delivery has an empty hook before and after it.
LEMMA ClosedHook ==
  /\ Closed \in Hook /\ ToSet(Closed.batch) = {} /\ ToSet(Closed.rows) = {} /\ ToSet(Closed.out) = {}
  /\ Closed.batch = <<>> /\ Closed.out = <<>> /\ ~Closed.absent
<1>1. <<>> \in Seq(Messages) /\ <<>> \in Seq(Signal)
  BY EmptySeq
<1>2. /\ Closed \in Hook /\ Closed.batch = <<>> /\ Closed.out = <<>> /\ Closed.rows = <<>> /\ ~Closed.absent
  BY <1>1 DEF Closed, Hook
<1>3. QED
  BY <1>2, EmptyToSet

LEMMA BeginMoves ==
  ASSUME TypeInv, NEW h \in Hooks, NEW b \in Batches, Begin(h, b)
  PROVE  /\ hooks' \in [Hooks -> Hook] /\ Others(h) /\ UNCHANGED <<Base, Memory>>
         /\ hooks'[h].batch = b /\ hooks'[h].todo = b /\ Held(h)' = {} /\ ~hooks'[h].absent
<1> DEFINE d == [Closed EXCEPT !.batch = b, !.todo = b]
<1>1. b \in Seq(Messages)
  BY IngestionAssumption
<1>2. /\ d \in Hook /\ d.batch = b /\ d.todo = b /\ d.out = <<>> /\ d.rows = <<>> /\ ~d.absent
  <2>1. <<>> \in Seq(Signal)
    BY EmptySeq
  <2>2. QED
    BY <1>1, <2>1 DEF Closed, Hook
<1>3. Sets(h, d) /\ UNCHANGED <<Base, Memory>>
  BY DEF Begin, Sets, Base, Memory, dbVars
<1> HIDE DEF d
<1>4. QED
  BY <1>2, <1>3, SetsMoves, EmptyToSet DEF Held

\* The next message is handled.
Handles(h, m) ==
  /\ ToSet(hooks[h].todo) = {m} \cup ToSet(hooks'[h].todo) /\ hooks[h].out = <<>>
  /\ hooks'[h].out = Signals(m)
  /\ hooks'[h].batch = hooks[h].batch /\ hooks'[h].rows = hooks[h].rows /\ hooks'[h].absent = hooks[h].absent
  /\ quiz' = Answered(m)
  /\ answers' = [answers EXCEPT ![Sender[m]] = IF IsTap(m) /\ quiz[Sender[m]] # None THEN @ + 1 ELSE @]
  /\ quizzes' = quizzes

LEMMA HandleMoves ==
  ASSUME TypeInv, NEW h \in Hooks, HandleItem(h)
  PROVE  /\ hooks' \in [Hooks -> Hook] /\ Others(h) /\ UNCHANGED Base
         /\ \E m \in Messages : Handles(h, m)
<1> DEFINE m == Head(hooks[h].todo)
           d == [hooks[h] EXCEPT !.todo = Tail(@), !.out = Signals(m)]
<1>1. /\ hooks[h].todo # <<>> /\ hooks[h].out = <<>>
      /\ hooks' = [hooks EXCEPT ![h].todo = Tail(@), ![h].out = Signals(m)]
      /\ quiz' = Answered(m)
      /\ answers' = [answers EXCEPT ![Sender[m]] = IF IsTap(m) /\ quiz[Sender[m]] # None THEN @ + 1 ELSE @]
      /\ quizzes' = quizzes /\ UNCHANGED Base
  BY DEF HandleItem, Base, dbVars, bounds
<1>2. /\ m \in Messages /\ Tail(hooks[h].todo) \in Seq(Messages)
      /\ ToSet(hooks[h].todo) = {m} \cup ToSet(Tail(hooks[h].todo))
  BY <1>1, HookType, HeadTailSet
<1>3. Signals(m) \in Seq(Signal)
  BY <1>2, SignalsOf
<1>4. /\ d \in Hook /\ d.todo = Tail(hooks[h].todo) /\ d.out = Signals(m)
      /\ d.batch = hooks[h].batch /\ d.rows = hooks[h].rows /\ d.absent = hooks[h].absent
  BY <1>2, <1>3, HookType DEF Hook
<1>5. Sets(h, d)
  BY <1>1 DEF Sets, TypeInv, Hook
<1> HIDE DEF d, m
<1>6. hooks' \in [Hooks -> Hook] /\ hooks'[h] = d /\ Others(h)
  BY <1>4, <1>5, SetsMoves
<1>7. Handles(h, m)
  BY <1>1, <1>2, <1>4, <1>6 DEF Handles, m
<1>8. QED
  BY <1>1, <1>2, <1>6, <1>7

\* A signal is on hand, r: it is dropped for one of its key, found absent, or inserted.
Same(h) == hooks'[h].batch = hooks[h].batch /\ hooks'[h].todo = hooks[h].todo
Drops(h, r) ==
  /\ Same(h) /\ hooks'[h].rows = hooks[h].rows /\ hooks'[h].absent = FALSE
  /\ ToSet(hooks[h].out) = {r} \cup ToSet(hooks'[h].out)
  /\ r.key # None /\ r.key \in Keys(stored) \cup Own(h)
Misses(h, r) ==
  /\ Same(h) /\ hooks'[h].rows = hooks[h].rows /\ hooks'[h].out = hooks[h].out
  /\ r = hooks[h].out[1] /\ r.key # None /\ hooks[h].out # <<>>
Puts(h, r) ==
  /\ Same(h) /\ hooks'[h].absent = FALSE
  /\ ToSet(hooks'[h].rows) = ToSet(hooks[h].rows) \cup {r}
  /\ ToSet(hooks[h].out) = {r} \cup ToSet(hooks'[h].out)

LEMMA EmitMoves ==
  ASSUME TypeInv, NEW h \in Hooks, LookUpKey(h) \/ InsertSignal(h)
  PROVE  /\ hooks' \in [Hooks -> Hook] /\ Others(h) /\ UNCHANGED <<Base, Memory>>
         /\ \E r \in Signal : Drops(h, r) \/ Misses(h, r) \/ Puts(h, r)
<1> DEFINE r == NextOut(h)
           dropped == [hooks[h] EXCEPT !.out = Tail(@)]
           missed == [hooks[h] EXCEPT !.absent = TRUE]
           put == [hooks[h] EXCEPT !.out = Tail(@), !.absent = FALSE, !.rows = Append(@, r)]
<1>1. hooks[h].out # <<>> /\ UNCHANGED <<Base, Memory>>
  BY DEF LookUpKey, InsertSignal, Base, Memory, dbVars, bounds
<1>2. /\ r \in Signal /\ r = hooks[h].out[1] /\ Tail(hooks[h].out) \in Seq(Signal)
      /\ ToSet(hooks[h].out) = {r} \cup ToSet(Tail(hooks[h].out))
  BY <1>1, HookType, HeadTailSet DEF NextOut
<1>3. Append(hooks[h].rows, r) \in Seq(Signal) /\ ToSet(Append(hooks[h].rows, r)) = ToSet(hooks[h].rows) \cup {r}
  BY <1>2, HookType, AppendSet
<1>4. \/ ~hooks[h].absent /\ r.key # None /\ r.key \in Keys(stored) \cup Own(h) /\ Sets(h, dropped)
      \/ r.key # None /\ Sets(h, missed)
      \/ Sets(h, put)
  <2>1. ASSUME LookUpKey(h)
        PROVE  \/ ~hooks[h].absent /\ r.key # None /\ r.key \in Keys(stored) \cup Own(h) /\ Sets(h, dropped)
               \/ r.key # None /\ Sets(h, missed)
    BY <2>1 DEF LookUpKey, Sets, TypeInv, Hook
  <2>2. ASSUME InsertSignal(h) PROVE Sets(h, put)
    BY <2>2 DEF InsertSignal, Sets, TypeInv, Hook
  <2>3. QED
    BY <2>1, <2>2
<1>5. /\ dropped \in Hook /\ dropped.batch = hooks[h].batch /\ dropped.todo = hooks[h].todo
      /\ dropped.out = Tail(hooks[h].out) /\ dropped.rows = hooks[h].rows /\ dropped.absent = hooks[h].absent
  BY <1>2, HookType DEF Hook
<1>6. /\ missed \in Hook /\ missed.batch = hooks[h].batch /\ missed.todo = hooks[h].todo
      /\ missed.out = hooks[h].out /\ missed.rows = hooks[h].rows
  BY HookType DEF Hook
<1>7. /\ put \in Hook /\ put.batch = hooks[h].batch /\ put.todo = hooks[h].todo
      /\ put.out = Tail(hooks[h].out) /\ put.rows = Append(hooks[h].rows, r) /\ put.absent = FALSE
  BY <1>2, <1>3, HookType DEF Hook
<1> HIDE DEF r, dropped, missed, put
<1>8. CASE ~hooks[h].absent /\ r.key # None /\ r.key \in Keys(stored) \cup Own(h) /\ Sets(h, dropped)
  <2>1. hooks' \in [Hooks -> Hook] /\ hooks'[h] = dropped /\ Others(h)
    BY <1>5, <1>8, SetsMoves
  <2>2. Drops(h, r)
    BY <1>2, <1>5, <1>8, <2>1, HookType DEF Drops, Same
  <2>3. QED
    BY <1>1, <1>2, <2>1, <2>2
<1>9. CASE r.key # None /\ Sets(h, missed)
  <2>1. hooks' \in [Hooks -> Hook] /\ hooks'[h] = missed /\ Others(h)
    BY <1>6, <1>9, SetsMoves
  <2>2. Misses(h, r)
    BY <1>1, <1>2, <1>6, <1>9, <2>1 DEF Misses, Same
  <2>3. QED
    BY <1>1, <1>2, <2>1, <2>2
<1>10. CASE Sets(h, put)
  <2>1. hooks' \in [Hooks -> Hook] /\ hooks'[h] = put /\ Others(h)
    BY <1>7, <1>10, SetsMoves
  <2>2. Puts(h, r)
    BY <1>2, <1>3, <1>7, <2>1 DEF Puts, Same
  <2>3. QED
    BY <1>1, <1>2, <2>1, <2>2
<1>11. QED
  BY <1>4, <1>8, <1>9, <1>10

LEMMA DropMoves ==
  ASSUME TypeInv, NEW h \in Hooks, Drop(h)
  PROVE  hooks' \in [Hooks -> Hook] /\ Others(h) /\ hooks'[h] = Closed
BY ClosedHook, SetsMoves DEF Drop, Sets

LEMMA RefuseMoves ==
  ASSUME TypeInv, NEW h \in Hooks, KeyConflict(h) \/ DeliveryFails(h)
  PROVE  /\ hooks' \in [Hooks -> Hook] /\ Others(h) /\ hooks'[h] = Closed /\ UNCHANGED <<Base, Memory>>
<1>1. Drop(h) /\ UNCHANGED <<Base, Memory>>
  BY DEF KeyConflict, DeliveryFails, Refuse, Base, Memory, dbVars, bounds
<1>2. QED
  BY <1>1, DropMoves

Plain(h, m) == {i \in DOMAIN hooks[h].rows : hooks[h].rows[i].key = None /\ hooks[h].rows[i].msg = m}

LEMMA AckMoves ==
  ASSUME TypeInv, NEW h \in Hooks, Acknowledge(h)
  PROVE  /\ hooks' \in [Hooks -> Hook] /\ Others(h) /\ hooks'[h] = Closed /\ UNCHANGED <<boot, Memory>>
         /\ hooks[h].todo = <<>> /\ hooks[h].out = <<>>
         /\ stored' = stored \cup {r \in ToSet(hooks[h].rows) : r.key # None}
         /\ plain' = [m \in Messages |-> plain[m] + Cardinality(Plain(h, m))]
         /\ unacked' = unacked \ ToSet(hooks[h].batch)
         /\ \A m \in Messages : IsFiniteSet(Plain(h, m)) /\ Cardinality(Plain(h, m)) \in Nat
<1>1. Drop(h)
  BY DEF Acknowledge
<1>2. ASSUME NEW m \in Messages PROVE IsFiniteSet(Plain(h, m)) /\ Cardinality(Plain(h, m)) \in Nat
  <2>1. Len(hooks[h].rows) \in Nat /\ DOMAIN hooks[h].rows = 1 .. Len(hooks[h].rows)
    BY HookType, LenProperties
  <2>2. IsFiniteSet(1 .. Len(hooks[h].rows))
    BY <2>1, FS_Interval
  <2>3. Plain(h, m) \subseteq 1 .. Len(hooks[h].rows)
    BY <2>1 DEF Plain
  <2>4. IsFiniteSet(Plain(h, m))
    BY <2>2, <2>3, FS_Subset
  <2>5. QED
    BY <2>4, FS_CardinalityType
<1>3. QED
  BY <1>1, <1>2, DropMoves DEF Acknowledge, Memory, bounds, Plain

LEMMA RestartMoves ==
  ASSUME TypeInv, Restart
  PROVE  /\ hooks' \in [Hooks -> Hook] /\ \A h \in Hooks : hooks'[h] = Closed
         /\ boot' = boot + 1 /\ quiz' = [p \in Phones |-> None]
         /\ UNCHANGED <<unacked, dbVars, answers, quizzes>>
BY ClosedHook DEF Restart

\* The quiz of the sender goes on by a question, or ends with its last one.
LEMMA AnsweredMoves ==
  ASSUME TypeInv, NEW m \in Messages
  PROVE  LET p == Sender[m]
             taken == IsTap(m) /\ quiz[p] # None
         IN  /\ Answered(m) \in [Phones -> Quiz \cup {None}]
             /\ \A o \in Phones \ {p} : Answered(m)[o] = quiz[o]
             /\ ~taken => Answered(m)[p] = quiz[p] /\ ~Finishes(m)
             /\ taken /\ Finishes(m) => Answered(m)[p] = None /\ quiz[p].at = Questions - 1
             /\ taken /\ ~Finishes(m) => Answered(m)[p] # None /\ Answered(m)[p].at = quiz[p].at + 1
<1> DEFINE p == Sender[m]
           q == quiz[p]
           next == [at |-> q.at + 1, right |-> q.right + (IF Tap[m].right THEN 1 ELSE 0)]
<1>1. p \in Phones /\ quiz \in [Phones -> Quiz \cup {None}] /\ Questions \in Nat \ {0} /\ None \notin Quiz
  BY IngestionAssumption, NoneAssumption DEF TypeInv, Phones
<1>2. q # None => q.at \in 0..(Questions - 1) /\ q.right \in Nat
  BY <1>1 DEF Quiz
<1>3. CASE ~(IsTap(m) /\ q # None)
  BY <1>1, <1>3 DEF Answered, Finishes
<1>4. CASE IsTap(m) /\ q # None /\ Finishes(m)
  <2>1. Answered(m) = [quiz EXCEPT ![p] = None]
    BY <1>4 DEF Answered
  <2>2. q.at = Questions - 1
    <3>1. q.at + 1 = Questions
      BY <1>4 DEF Finishes
    <3>2. QED
      BY <1>1, <1>2, <1>4, <3>1
  <2>3. QED
    BY <1>1, <1>4, <2>1, <2>2
<1>5. CASE IsTap(m) /\ q # None /\ ~Finishes(m)
  <2>1. Answered(m) = [quiz EXCEPT ![p] = next]
    BY <1>5 DEF Answered
  <2>2. next.at = q.at + 1 /\ q.at + 1 # Questions
    BY <1>5 DEF Finishes
  <2>3. next \in Quiz
    <3>1. q.at + 1 \in 0..(Questions - 1)
      BY <1>1, <1>2, <1>5, <2>2
    <3>2. q.right + (IF Tap[m].right THEN 1 ELSE 0) \in Nat
      BY <1>2, <1>5
    <3>3. QED
      BY <3>1, <3>2 DEF Quiz
  <2> HIDE DEF next, q
  <2>4. next # None
    BY <1>1, <2>3
  <2>5. QED
    BY <1>1, <1>5, <2>1, <2>2, <2>3, <2>4 DEF q
<1>6. QED
  BY <1>3, <1>4, <1>5

LEMMA InitType == Init => TypeInv
<1> SUFFICES ASSUME Init PROVE TypeInv
  OBVIOUS
<1>1. hooks \in [Hooks -> Hook]
  BY ClosedHook DEF Init
<1>2. QED
  BY <1>1 DEF Init, TypeInv

LEMMA TypeStep ==
  ASSUME TypeInv, [Next]_vars
  PROVE  TypeInv'
<1>1. ASSUME hooks' \in [Hooks -> Hook], UNCHANGED <<Base, Memory>> PROVE TypeInv'
  BY <1>1 DEF TypeInv, Base, Memory, dbVars
<1>2. ASSUME NEW p \in Known, StartQuiz(p) PROVE TypeInv'
  <2> DEFINE fresh == [at |-> 0, right |-> 0]
  <2>1. fresh \in Quiz
    BY IngestionAssumption DEF Quiz
  <2>2. quiz' = [quiz EXCEPT ![p] = fresh] /\ quizzes' = quizzes + 1
        /\ UNCHANGED <<unacked, hooks, dbVars, boot, answers>>
    BY <1>2 DEF StartQuiz
  <2> HIDE DEF fresh
  <2>3. quiz' \in [Phones -> Quiz \cup {None}]
    BY <2>1, <2>2 DEF TypeInv
  <2>4. quizzes' \in Nat /\ UNCHANGED <<unacked, hooks, stored, plain, boot, answers>>
    BY <2>2 DEF TypeInv, dbVars
  <2>5. QED
    BY <2>3, <2>4 DEF TypeInv
<1>3. ASSUME NEW h \in Hooks, HandleItem(h) PROVE TypeInv'
  <2>1. PICK m \in Messages : Handles(h, m)
    BY <1>3, HandleMoves
  <2>2. quiz' \in [Phones -> Quiz \cup {None}]
    BY <2>1, AnsweredMoves DEF Handles
  <2>3. answers' \in [Phones -> Nat] /\ quizzes' = quizzes
    BY <2>1 DEF Handles, TypeInv, Phones
  <2>4. hooks' \in [Hooks -> Hook] /\ UNCHANGED Base
    BY <1>3, HandleMoves
  <2>5. QED
    BY <2>2, <2>3, <2>4 DEF TypeInv, Base, dbVars
<1>4. ASSUME NEW h \in Hooks, Acknowledge(h) PROVE TypeInv'
  <2>1. /\ hooks' \in [Hooks -> Hook] /\ UNCHANGED <<boot, Memory>>
        /\ stored' = stored \cup {r \in ToSet(hooks[h].rows) : r.key # None}
        /\ plain' = [m \in Messages |-> plain[m] + Cardinality(Plain(h, m))]
        /\ unacked' = unacked \ ToSet(hooks[h].batch)
        /\ \A m \in Messages : Cardinality(Plain(h, m)) \in Nat
    BY <1>4, AckMoves
  <2>2. stored' \subseteq Signal
    BY <2>1, HookType DEF TypeInv
  <2>3. plain' \in [Messages -> Nat]
    BY <2>1 DEF TypeInv
  <2>4. QED
    BY <2>1, <2>2, <2>3 DEF TypeInv, Memory
<1>5. CASE Restart
  BY <1>5, RestartMoves DEF TypeInv, dbVars
<1>6. ASSUME NEW h \in Hooks, NEW b \in Batches, Deliver(h, b) \/ DeliverAgain(h, b) PROVE TypeInv'
  <2>1. Begin(h, b)
    BY <1>6 DEF Deliver, DeliverAgain
  <2>2. QED
    BY <1>1, <2>1, BeginMoves
<1>7. ASSUME NEW h \in Hooks, LookUpKey(h) \/ InsertSignal(h) PROVE TypeInv'
  BY <1>1, <1>7, EmitMoves
<1>8. ASSUME NEW h \in Hooks, KeyConflict(h) \/ DeliveryFails(h) PROVE TypeInv'
  BY <1>1, <1>8, RefuseMoves
<1>9. CASE UNCHANGED vars
  BY <1>1, <1>9 DEF vars, Base, Memory, dbVars, bounds, TypeInv
<1>10. QED
  BY <1>2, <1>3, <1>4, <1>5, <1>6, <1>7, <1>8, <1>9 DEF Next, Work

-----------------------------------------------------------------------------
(* A completion takes as many answers as the quiz has questions.           *)

AtOf(p) == IF quiz[p] = None THEN 0 ELSE quiz[p].at
OnOf(p) == IF quiz[p] = None THEN 0 ELSE 1
Earned(p) ==
  /\ IsFiniteSet(Completions(p))
  /\ Questions * Cardinality(Completions(p)) + AtOf(p) <= answers[p]
  /\ Cardinality(Completions(p)) + OnOf(p) <= quizzes

LEMMA QuizParts == QuizInv <=> \A p \in Phones : Earned(p)
BY DEF QuizInv, Earned, AtOf, OnOf

LEMMA AtType ==
  ASSUME TypeInv, NEW p \in Phones
  PROVE  /\ AtOf(p) \in Nat /\ AtOf(p) <= Questions - 1 /\ OnOf(p) \in {0, 1} /\ answers[p] \in Nat
         /\ quizzes \in Nat /\ Questions \in Nat \ {0}
<1>1. quiz[p] \in Quiz \cup {None} /\ Questions \in Nat \ {0} /\ answers[p] \in Nat /\ quizzes \in Nat
  BY IngestionAssumption DEF TypeInv
<1>2. quiz[p] # None => quiz[p].at \in 0..(Questions - 1)
  BY <1>1 DEF Quiz
<1>3. QED
  BY <1>1, <1>2 DEF AtOf, OnOf

\* What a step keeps, if no completion is added.
LEMMA EarnedKept ==
  ASSUME TypeInv, TypeInv', NEW p \in Phones, Earned(p), Completions(p)' \subseteq Completions(p),
         AtOf(p)' - AtOf(p) <= answers'[p] - answers[p], OnOf(p)' - OnOf(p) <= quizzes' - quizzes,
         AtOf(p)' \in Nat, OnOf(p)' \in {0, 1}, answers'[p] \in Nat, quizzes' \in Nat
  PROVE  Earned(p)'
<1> DEFINE c == Cardinality(Completions(p))
           c2 == Cardinality(Completions(p)')
<1>1. IsFiniteSet(Completions(p)') /\ c \in Nat /\ c2 \in Nat /\ c2 <= c
  BY FS_Subset, FS_CardinalityType DEF Earned
<1>2. AtOf(p) \in Nat /\ OnOf(p) \in {0, 1} /\ answers[p] \in Nat /\ quizzes \in Nat /\ Questions \in Nat
  BY AtType
<1>3. Questions * c + AtOf(p) <= answers[p] /\ c + OnOf(p) <= quizzes
  BY DEF Earned
<1> HIDE DEF c, c2
<1>4. \A q, x, y \in Nat : x <= y => q * x <= q * y /\ q * x \in Nat /\ q * y \in Nat
  OBVIOUS
<1>5. Questions * c2 <= Questions * c /\ Questions * c2 \in Nat /\ Questions * c \in Nat
  BY <1>1, <1>2, <1>4
<1>6. Questions * c2 + AtOf(p)' <= answers'[p] /\ c2 + OnOf(p)' <= quizzes'
  BY <1>1, <1>2, <1>3, <1>5
<1>7. QED
  BY <1>1, <1>6 DEF Earned, c2

\* The completions and all signals, when the deliveries but one stay.
LEMMA SignalsShrink ==
  ASSUME NEW h \in Hooks, Others(h), Held(h)' \subseteq Held(h), stored' \subseteq stored
  PROVE  AllSignals' \subseteq AllSignals
<1>1. \A g \in Hooks \ {h} : Held(g)' = Held(g)
  BY DEF Others, Held
<1>2. QED
  BY <1>1 DEF AllSignals

LEMMA CompletionsShrink ==
  ASSUME AllSignals' \subseteq AllSignals
  PROVE  \A p \in Phones : Completions(p)' \subseteq Completions(p)
BY DEF Completions

\* What a delivery holds before and after it emits a signal, and before it is closed.
LEMMA EmitHeld ==
  ASSUME NEW h \in Hooks, NEW r, Drops(h, r) \/ Misses(h, r) \/ Puts(h, r)
  PROVE  Held(h)' \subseteq Held(h)
BY DEF Drops, Misses, Puts, Held

LEMMA ClosedHeld ==
  ASSUME NEW h \in Hooks, hooks'[h] = Closed
  PROVE  Held(h)' = {}
BY ClosedHook DEF Held

LEMMA EarnedStill ==
  ASSUME TypeInv, TypeInv', QuizInv, AllSignals' \subseteq AllSignals, UNCHANGED Memory
  PROVE  QuizInv'
<1>1. UNCHANGED <<quiz, answers, quizzes>>
  BY DEF Memory
<1>2. \A p \in Phones : AtOf(p)' = AtOf(p) /\ OnOf(p)' = OnOf(p)
  BY <1>1 DEF AtOf, OnOf
<1>3. ASSUME NEW p \in Phones PROVE Earned(p)'
  <2>1. Earned(p)
    BY QuizParts
  <2>2. /\ Completions(p)' \subseteq Completions(p) /\ AtOf(p) \in Nat /\ OnOf(p) \in {0, 1}
        /\ answers[p] \in Nat /\ quizzes \in Nat
    BY CompletionsShrink, AtType
  <2>3. QED
    BY <1>1, <1>2, <2>1, <2>2, EarnedKept
<1>4. (\A p \in Phones : Earned(p)') => QuizInv'
  BY DEF QuizInv, Earned, AtOf, OnOf
<1>5. QED
  BY <1>3, <1>4

\* A message that finishes a quiz earns a completion with the quiz's answers.
LEMMA QuizHandle ==
  ASSUME TypeInv, TypeInv', QuizInv, NEW h \in Hooks, HandleItem(h)
  PROVE  QuizInv'
<1>1. PICK m \in Messages : Handles(h, m)
  BY HandleMoves
<1> DEFINE p == Sender[m]
           taken == IsTap(m) /\ quiz[p] # None
           new == ToSet(Signals(m))
<1>2. p \in Phones /\ Others(h) /\ stored' = stored /\ quizzes' = quizzes
  BY <1>1, HandleMoves DEF Phones, Handles, Base, dbVars
<1>3. Held(h)' = Held(h) \cup new
  <2>1. ToSet(hooks[h].out) = {}
    BY <1>1, EmptyToSet DEF Handles
  <2>2. QED
    BY <1>1, <2>1 DEF Handles, Held
<1>4. AllSignals' = AllSignals \cup new
  <2>1. \A g \in Hooks \ {h} : Held(g)' = Held(g)
    BY <1>2 DEF Others, Held
  <2>2. QED
    BY <1>2, <1>3, <2>1 DEF AllSignals
<1>5. /\ \A r \in new : r.msg = m /\ (r.kind = "quiz" => Finishes(m))
      /\ \A r, s \in new : r.kind = "quiz" /\ s.kind = "quiz" => r = s
  BY SignalsOf
<1> HIDE DEF new
<1>6. /\ \A o \in Phones \ {p} : quiz'[o] = quiz[o] /\ answers'[o] = answers[o]
      /\ ~taken => quiz'[p] = quiz[p] /\ answers'[p] = answers[p] /\ ~Finishes(m)
      /\ taken => answers'[p] = answers[p] + 1
      /\ taken /\ Finishes(m) => quiz'[p] = None /\ quiz[p].at = Questions - 1
      /\ taken /\ ~Finishes(m) => quiz'[p] # None /\ quiz'[p].at = quiz[p].at + 1
  <2>1. answers' = [answers EXCEPT ![p] = IF taken THEN @ + 1 ELSE @] /\ quiz' = Answered(m)
    BY <1>1 DEF Handles
  <2>2. DOMAIN answers = Phones
    BY DEF TypeInv
  <2>3. QED
    BY <1>2, <2>1, <2>2, AnsweredMoves
<1>7. \A o \in Phones : /\ AtOf(o)' = (IF quiz'[o] = None THEN 0 ELSE quiz'[o].at)
                        /\ OnOf(o)' = (IF quiz'[o] = None THEN 0 ELSE 1)
  BY DEF AtOf, OnOf
<1>8. \A o \in Phones : /\ AtOf(o) \in Nat /\ AtOf(o)' \in Nat /\ OnOf(o) \in {0, 1} /\ OnOf(o)' \in {0, 1}
                        /\ answers[o] \in Nat /\ answers'[o] \in Nat /\ quizzes \in Nat /\ Questions \in Nat
  <2>1. \A o \in Phones : AtOf(o)' \in Nat /\ OnOf(o)' \in {0, 1} /\ answers'[o] \in Nat
    <3>1. \A o \in Phones : quiz'[o] # None => quiz'[o].at \in Nat
      BY IngestionAssumption DEF TypeInv, Quiz
    <3>2. QED
      BY <1>7, <3>1 DEF TypeInv
  <2>2. QED
    BY <2>1, AtType
<1>9. \A o \in Phones : Earned(o)
  BY QuizParts
<1>10. ASSUME NEW o \in Phones, o # p \/ ~(taken /\ Finishes(m)) PROVE Earned(o)'
  <2>1. Completions(o)' \subseteq Completions(o)
    BY <1>4, <1>5, <1>6, <1>10 DEF Completions
  <2>2. OnOf(o)' = OnOf(o) /\ AtOf(o)' - AtOf(o) <= answers'[o] - answers[o]
    <3>1. CASE o # p \/ ~taken
      <4>1. quiz'[o] = quiz[o] /\ answers'[o] = answers[o]
        BY <1>6, <3>1
      <4>2. AtOf(o)' = AtOf(o) /\ OnOf(o)' = OnOf(o)
        BY <1>7, <4>1 DEF AtOf, OnOf
      <4>3. QED
        BY <1>8, <4>1, <4>2
    <3>2. CASE o = p /\ taken
      <4>1. quiz'[p] # None /\ quiz'[p].at = quiz[p].at + 1 /\ quiz[p] # None /\ answers'[p] = answers[p] + 1
        BY <1>6, <1>10, <3>2
      <4>2. AtOf(o)' = AtOf(o) + 1 /\ OnOf(o)' = OnOf(o)
        BY <1>7, <3>2, <4>1 DEF AtOf, OnOf
      <4>3. QED
        BY <1>8, <3>2, <4>1, <4>2
    <3>3. QED
      BY <3>1, <3>2
  <2>3. OnOf(o)' - OnOf(o) <= quizzes' - quizzes
    BY <1>2, <1>8, <2>2
  <2>4. answers'[o] \in Nat /\ quizzes' \in Nat /\ AtOf(o)' \in Nat /\ OnOf(o)' \in {0, 1} /\ Earned(o)
    BY <1>2, <1>8, <1>9
  <2>5. QED
    BY <2>1, <2>2, <2>3, <2>4, EarnedKept
<1>11. ASSUME taken, Finishes(m) PROVE Earned(p)'
  <2> DEFINE old == Completions(p)
             all == Completions(p)'
             c == Cardinality(old)
             c2 == Cardinality(all)
  <2>1. \E r : all \subseteq old \cup {r}
    <3>1. CASE \E r \in new : r.kind = "quiz"
      <4>1. PICK r \in new : r.kind = "quiz"
        BY <3>1
      <4>2. all \subseteq old \cup {r}
        BY <1>4, <1>5, <4>1 DEF Completions
      <4>3. QED
        BY <4>2
    <3>2. CASE ~\E r \in new : r.kind = "quiz"
      BY <1>4, <3>2 DEF Completions
    <3>3. QED
      BY <3>1, <3>2
  <2>2. IsFiniteSet(old) /\ Questions * c + AtOf(p) <= answers[p] /\ c + OnOf(p) <= quizzes
    BY <1>2, <1>9 DEF Earned
  <2>3. c \in Nat /\ IsFiniteSet(all) /\ c2 \in Nat /\ c2 <= c + 1
    <3>1. PICK r : all \subseteq old \cup {r}
      BY <2>1
    <3>2. /\ IsFiniteSet(old \cup {r})
          /\ Cardinality(old \cup {r}) = IF r \in old THEN c ELSE c + 1
      BY <2>2, FS_AddElement
    <3>3. IsFiniteSet(all) /\ c2 <= Cardinality(old \cup {r})
      BY <3>1, <3>2, FS_Subset
    <3>4. c \in Nat /\ c2 \in Nat
      BY <2>2, <3>3, FS_CardinalityType
    <3>5. QED
      BY <3>2, <3>3, <3>4
  <2>4. /\ AtOf(p) = Questions - 1 /\ OnOf(p) = 1 /\ AtOf(p)' = 0 /\ OnOf(p)' = 0
        /\ answers'[p] = answers[p] + 1 /\ quizzes' = quizzes
    BY <1>2, <1>6, <1>7, <1>11 DEF AtOf, OnOf
  <2> HIDE DEF old, all, c, c2
  <2>5. answers[p] \in Nat /\ quizzes \in Nat /\ Questions \in Nat
    BY <1>2, <1>8
  <2>6. Questions * c2 + 0 <= answers'[p] /\ c2 + 0 <= quizzes'
    <3>1. \A q, x \in Nat : q * (x + 1) = q * x + q /\ q * x \in Nat
      OBVIOUS
    <3>2. \A q, x, y \in Nat : x <= y => q * x <= q * y /\ q * x \in Nat
      OBVIOUS
    <3>3. Questions * c2 <= Questions * (c + 1) /\ Questions * c2 \in Nat
      BY <2>3, <2>5, <3>2
    <3>4. Questions * (c + 1) = Questions * c + Questions /\ Questions * c \in Nat
      BY <2>3, <2>5, <3>1
    <3>5. QED
      BY <2>2, <2>3, <2>4, <2>5, <3>3, <3>4
  <2>7. QED
    BY <2>3, <2>4, <2>6 DEF Earned, all, c2
<1>12. \A o \in Phones : Earned(o)'
  BY <1>2, <1>10, <1>11
<1>13. (\A o \in Phones : Earned(o)') => QuizInv'
  BY DEF QuizInv, Earned, AtOf, OnOf
<1>14. QED
  BY <1>12, <1>13

LEMMA InitQuiz == Init => QuizInv
<1> SUFFICES ASSUME Init PROVE QuizInv
  OBVIOUS
<1>1. \A h \in Hooks : Held(h) = {}
  BY ClosedHook DEF Init, Held
<1>2. \A p \in Phones : Completions(p) = {}
  BY <1>1 DEF Init, Completions, AllSignals
<1>3. IsFiniteSet({}) /\ Cardinality({}) = 0 /\ Questions * 0 = 0
  BY FS_EmptySet, IngestionAssumption
<1>4. QED
  BY <1>2, <1>3 DEF Init, QuizInv

LEMMA QuizStart ==
  ASSUME TypeInv, TypeInv', QuizInv, NEW p \in Known, StartQuiz(p)
  PROVE  QuizInv'
<1> DEFINE fresh == [at |-> 0, right |-> 0]
<1>1. /\ quiz' = [quiz EXCEPT ![p] = fresh] /\ quizzes' = quizzes + 1
      /\ UNCHANGED <<hooks, stored, answers>>
  BY DEF StartQuiz, dbVars
<1>2. fresh.at = 0
  OBVIOUS
<1> HIDE DEF fresh
<1>3. \A o \in Phones : quiz'[o] = quiz[o] \/ (quiz'[o] = fresh /\ o = p)
  BY <1>1 DEF TypeInv
<1>4. AllSignals' \subseteq AllSignals
  BY <1>1 DEF AllSignals, Held
<1>5. ASSUME NEW o \in Phones PROVE Earned(o)'
  <2>1. /\ AtOf(o) \in Nat /\ OnOf(o) \in {0, 1} /\ answers[o] \in Nat /\ quizzes \in Nat /\ Earned(o)
        /\ Completions(o)' \subseteq Completions(o)
    BY <1>4, AtType, QuizParts, CompletionsShrink
  <2>2. (AtOf(o)' = AtOf(o) /\ OnOf(o)' = OnOf(o)) \/ (AtOf(o)' = 0 /\ OnOf(o)' \in {0, 1})
    BY <1>2, <1>3 DEF AtOf, OnOf
  <2>3. /\ AtOf(o)' - AtOf(o) <= answers'[o] - answers[o] /\ OnOf(o)' - OnOf(o) <= quizzes' - quizzes
        /\ AtOf(o)' \in Nat /\ OnOf(o)' \in {0, 1} /\ answers'[o] \in Nat /\ quizzes' \in Nat
    BY <1>1, <2>1, <2>2
  <2>4. QED
    BY <2>1, <2>3, EarnedKept
<1>6. (\A o \in Phones : Earned(o)') => QuizInv'
  BY DEF QuizInv, Earned, AtOf, OnOf
<1>7. QED
  BY <1>5, <1>6

\* The quizzes in memory go with the process.
LEMMA QuizRestart ==
  ASSUME TypeInv, TypeInv', QuizInv, Restart
  PROVE  QuizInv'
<1>1. /\ \A h \in Hooks : hooks'[h] = Closed
      /\ \A p \in Phones : quiz'[p] = None
      /\ UNCHANGED <<stored, answers, quizzes>>
  BY RestartMoves DEF dbVars
<1>2. \A h \in Hooks : Held(h)' = {}
  BY <1>1, ClosedHeld
<1>3. AllSignals' \subseteq AllSignals
  BY <1>1, <1>2 DEF AllSignals
<1>4. ASSUME NEW p \in Phones PROVE Earned(p)'
  <2>1. /\ AtOf(p) \in Nat /\ OnOf(p) \in {0, 1} /\ answers[p] \in Nat /\ quizzes \in Nat /\ Earned(p)
        /\ Completions(p)' \subseteq Completions(p)
    BY <1>3, AtType, QuizParts, CompletionsShrink
  <2>2. AtOf(p)' = 0 /\ OnOf(p)' = 0
    BY <1>1 DEF AtOf, OnOf
  <2>3. /\ AtOf(p)' - AtOf(p) <= answers'[p] - answers[p] /\ OnOf(p)' - OnOf(p) <= quizzes' - quizzes
    BY <1>1, <2>1, <2>2
  <2>4. QED
    BY <1>1, <2>1, <2>2, <2>3, EarnedKept
<1>5. (\A p \in Phones : Earned(p)') => QuizInv'
  BY DEF QuizInv, Earned, AtOf, OnOf
<1>6. QED
  BY <1>4, <1>5

LEMMA QuizStep ==
  ASSUME TypeInv, TypeInv', QuizInv, [Next]_vars
  PROVE  QuizInv'
<1>1. ASSUME NEW h \in Hooks, hooks'[h] = Closed, Others(h), UNCHANGED Memory,
             stored' \subseteq stored \cup ToSet(hooks[h].rows)
      PROVE  QuizInv'
  <2>1. Held(h)' = {} /\ \A g \in Hooks \ {h} : Held(g)' = Held(g)
    BY <1>1, ClosedHeld DEF Others, Held
  <2>2. AllSignals' \subseteq AllSignals
    BY <1>1, <2>1 DEF AllSignals, Held
  <2>3. QED
    BY <1>1, <2>2, EarnedStill
<1>2. ASSUME NEW h \in Hooks, NEW b \in Batches, Deliver(h, b) \/ DeliverAgain(h, b) PROVE QuizInv'
  <2>1. Begin(h, b)
    BY <1>2 DEF Deliver, DeliverAgain
  <2>2. Others(h) /\ Held(h)' \subseteq Held(h) /\ stored' \subseteq stored /\ UNCHANGED Memory
    BY <2>1, BeginMoves DEF Base, dbVars
  <2>3. QED
    BY <2>2, SignalsShrink, EarnedStill
<1>3. ASSUME NEW h \in Hooks, LookUpKey(h) \/ InsertSignal(h) PROVE QuizInv'
  <2>1. Others(h) /\ Held(h)' \subseteq Held(h) /\ stored' \subseteq stored /\ UNCHANGED Memory
    BY <1>3, EmitMoves, EmitHeld DEF Base, dbVars
  <2>2. QED
    BY <2>1, SignalsShrink, EarnedStill
<1>4. ASSUME NEW h \in Hooks, KeyConflict(h) \/ DeliveryFails(h) PROVE QuizInv'
  BY <1>1, <1>4, RefuseMoves DEF Base, dbVars
<1>5. ASSUME NEW h \in Hooks, Acknowledge(h) PROVE QuizInv'
  <2>1. /\ hooks'[h] = Closed /\ Others(h) /\ UNCHANGED Memory
        /\ stored' = stored \cup {r \in ToSet(hooks[h].rows) : r.key # None}
    BY <1>5, AckMoves
  <2>2. QED
    BY <1>1, <2>1
<1>6. CASE UNCHANGED vars
  <2>1. UNCHANGED Memory /\ AllSignals' \subseteq AllSignals
    BY <1>6 DEF vars, Memory, bounds, dbVars, AllSignals, Held
  <2>2. QED
    BY <2>1, EarnedStill
<1>7. QED
  BY <1>2, <1>3, <1>4, <1>5, <1>6, QuizStart, QuizHandle, QuizRestart DEF Next, Work

\* However often taps and deliveries are repeated, refused or lost with the
\* process, a phone has a completion stored for as many answers as the quiz has
\* questions, and no more completions than quizzes were started.
THEOREM CompletionsAreEarned == Spec => []CompletionsEarned
<1>1. Spec => [](TypeInv /\ QuizInv)
  BY InitType, TypeStep, InitQuiz, QuizStep, PTL DEF Spec
<1>2. ASSUME TypeInv, QuizInv PROVE CompletionsEarned
  <2> SUFFICES ASSUME NEW p \in Phones
               PROVE  LET completions == Cardinality({r \in stored : r.kind = "quiz" /\ Sender[r.msg] = p})
                      IN  /\ Questions * completions + AtOf(p) <= answers[p] /\ completions <= quizzes
    BY DEF CompletionsEarned, AtOf
  <2> DEFINE own == {r \in stored : r.kind = "quiz" /\ Sender[r.msg] = p}
             n == Cardinality(own)
             c == Cardinality(Completions(p))
  <2>1. IsFiniteSet(Completions(p)) /\ Questions * c + AtOf(p) <= answers[p] /\ c + OnOf(p) <= quizzes
    BY <1>2, QuizParts DEF Earned
  <2>2. c \in Nat /\ n \in Nat /\ n <= c
    <3>1. own \subseteq Completions(p)
      BY DEF Completions, AllSignals
    <3>2. QED
      BY <2>1, <3>1, FS_Subset, FS_CardinalityType
  <2>3. /\ AtOf(p) \in Nat /\ OnOf(p) \in {0, 1} /\ answers[p] \in Nat /\ quizzes \in Nat /\ Questions \in Nat
    BY <1>2, AtType
  <2> HIDE DEF own, n, c
  <2>4. \A q, x, y \in Nat : x <= y => q * x <= q * y /\ q * x \in Nat /\ q * y \in Nat
    OBVIOUS
  <2>5. Questions * n <= Questions * c /\ Questions * n \in Nat /\ Questions * c \in Nat
    BY <2>2, <2>3, <2>4
  <2>6. Questions * n + AtOf(p) <= answers[p] /\ n <= quizzes
    BY <2>1, <2>2, <2>3, <2>5
  <2>7. QED
    BY <2>6 DEF own, n
<1>3. QED
  BY <1>1, <1>2, PTL
-----------------------------------------------------------------------------
(* What was acknowledged is on record.                                     *)

LEMMA SignalFields ==
  ASSUME NEW r \in Signal
  PROVE  /\ r.msg \in Messages /\ r.key \in SignalKeys \cup {None}
         /\ r = [kind |-> r.kind, msg |-> r.msg, key |-> r.key]
BY DEF Signal

\* The key of a reply, or of a call that has an id, is one.
LEMMA KeyThere ==
  ASSUME TypeInv, NEW r \in Signal, KeyTold(r)
  PROVE  /\ r.kind = "reply" => r.key # None
         /\ r.kind \in {"outcome", "analyzed"} /\ Text[r.msg] # None => r.key # None
<1>1. r.msg \in Messages /\ boot \in Nat /\ None \notin SignalKeys
  BY SignalFields, NoneAssumption DEF TypeInv
<1>2. ASSUME r.kind = "reply" PROVE r.key # None
  <2>1. PICK b \in 0..boot : ReplyAt(r, b)
    BY <1>2 DEF KeyTold, KeyAt
  <2>2. b \in Nat
    BY <1>1
  <2>3. <<"reply", Sender[r.msg], b, Text[r.msg]>> \in SignalKeys
    BY <1>1, <2>2, KeysType
  <2>4. QED
    BY <1>1, <2>1, <2>3 DEF ReplyAt
<1>3. ASSUME r.kind \in {"outcome", "analyzed"}, Text[r.msg] # None PROVE r.key # None
  <2>1. r.key = <<r.kind, Text[r.msg]>>
    BY <1>3 DEF KeyTold, KeyAt
  <2>2. r.key \in SignalKeys
    BY <1>1, <1>3, <2>1, KeysType
  <2>3. QED
    BY <1>1, <2>2
<1>4. QED
  BY <1>2, <1>3

\* Signals of one key say the same.
LEMMA SameKey ==
  ASSUME NEW r \in Signal, NEW s \in Signal, KeyTold(r), KeyTold(s), r.key # None, s.key = r.key
  PROVE  /\ s.kind = r.kind
         /\ r.kind = "reply" => Sender[s.msg] = Sender[r.msg] /\ Text[s.msg] = Text[r.msg]
         /\ r.kind \in {"outcome", "analyzed"} => Text[s.msg] = Text[r.msg]
<1>1. s.kind = r.kind
  BY DEF KeyTold, KeyAt
<1>2. ASSUME r.kind = "reply" PROVE Sender[s.msg] = Sender[r.msg] /\ Text[s.msg] = Text[r.msg]
  <2>1. PICK b \in 0..boot : ReplyAt(r, b)
    BY <1>2 DEF KeyTold, KeyAt
  <2>2. PICK c \in 0..boot : ReplyAt(s, c)
    BY <1>1, <1>2 DEF KeyTold, KeyAt
  <2>3. /\ r.key[2] = Sender[r.msg] /\ r.key[4] = Text[r.msg]
        /\ s.key[2] = Sender[s.msg] /\ s.key[4] = Text[s.msg]
    BY <2>1, <2>2 DEF ReplyAt
  <2>4. QED
    BY <2>3
<1>3. ASSUME r.kind \in {"outcome", "analyzed"} PROVE Text[s.msg] = Text[r.msg]
  <2>1. r.key = <<r.kind, Text[r.msg]>> /\ s.key = <<s.kind, Text[s.msg]>>
    BY <1>1, <1>3 DEF KeyTold, KeyAt
  <2>2. r.key[2] = Text[r.msg] /\ s.key[2] = Text[s.msg]
    BY <2>1
  <2>3. QED
    BY <2>2
<1>4. QED
  BY <1>1, <1>2, <1>3

LEMMA AllSignalsType ==
  ASSUME TypeInv
  PROVE  AllSignals \subseteq Signal /\ stored \subseteq AllSignals /\ \A h \in Hooks : Held(h) \subseteq AllSignals
BY HookType DEF TypeInv, AllSignals, Held

\* A message has one reply per life of the process: the seed is all that differs.
LEMMA ReplyBound ==
  ASSUME NEW S, S \subseteq Signal, NEW starts \in Nat \ {0}, \A r \in S : KeyAt(r, starts), NEW m \in Messages
  PROVE  Cardinality({r \in S : r.kind = "reply" /\ r.msg = m}) <= starts
<1> DEFINE replies == {r \in S : r.kind = "reply" /\ r.msg = m}
           seeds == IF Text[m] = None THEN 0 .. 0 ELSE 1 .. starts
           seed == [r \in replies |-> r.key[3]]
<1>1. IsFiniteSet(seeds) /\ Cardinality(seeds) <= starts /\ Cardinality(seeds) \in Nat
  <2>1. /\ IsFiniteSet(0 .. 0) /\ Cardinality(0 .. 0) = 1
        /\ IsFiniteSet(1 .. starts) /\ Cardinality(1 .. starts) = starts
    <3>1. 0 \in Int /\ 1 \in Int /\ starts \in Int /\ ~(0 > 0) /\ ~(1 > starts) /\ 0 - 0 + 1 = 1 /\ starts - 1 + 1 = starts
      OBVIOUS
    <3>2. \A a, b \in Int : /\ IsFiniteSet(a .. b)
                            /\ Cardinality(a .. b) = IF a > b THEN 0 ELSE b - a + 1
      BY FS_Interval
    <3>3. QED
      BY <3>1, <3>2
  <2>2. CASE Text[m] = None
    BY <2>1, <2>2
  <2>3. CASE Text[m] # None
    BY <2>1, <2>3
  <2>4. QED
    BY <2>2, <2>3
<1>2. ASSUME NEW r \in replies
      PROVE  /\ r.key[3] \in seeds
             /\ r = [kind |-> "reply", msg |-> m, key |-> <<"reply", Sender[m], r.key[3], Text[m]>>]
  <2>1. r \in S /\ r.kind = "reply" /\ r.msg = m /\ KeyAt(r, starts) /\ r \in Signal
    OBVIOUS
  <2>2. PICK b \in 0..starts : ReplyAt(r, b)
    BY <2>1 DEF KeyAt
  <2>3. r.key = <<"reply", Sender[m], b, Text[m]>> /\ (b = 0 <=> Text[m] = None)
    BY <2>1, <2>2 DEF ReplyAt
  <2>4. r.key[3] = b
    BY <2>3
  <2>5. b \in seeds
    BY <2>3
  <2>6. QED
    BY <2>1, <2>3, <2>4, <2>5, SignalFields
<1> HIDE DEF replies, seeds
<1>3. seed \in [replies -> seeds] /\ \A r \in replies : seed[r] = r.key[3]
  BY <1>2
<1> HIDE DEF seed
<1>4. \A r, s \in replies : seed[r] = seed[s] => r = s
  <2> SUFFICES ASSUME NEW r \in replies, NEW s \in replies, seed[r] = seed[s] PROVE r = s
    OBVIOUS
  <2>1. r.key[3] = s.key[3]
    BY <1>3
  <2>2. QED
    BY <1>2, <2>1
<1>5. seed \in Injection(replies, seeds)
  BY <1>3, <1>4 DEF Injection, IsInjective
<1>6. Cardinality(replies) <= Cardinality(seeds) /\ IsFiniteSet(replies)
  BY <1>1, <1>5, FS_Injection
<1>7. Cardinality(replies) \in Nat
  BY <1>6, FS_CardinalityType
<1>8. QED
  BY <1>1, <1>6, <1>7 DEF replies

\* A step that takes nothing off the record keeps it, and may restart the process.
EffectsKept == /\ stored \subseteq stored' /\ unacked' = unacked
               /\ \A m \in Messages : plain'[m] = plain[m]
KeysKept == \A r \in AllSignals' : KeyAt(r, boot')

LEMMA EffectsStay ==
  ASSUME TypeInv', EffectsStored, EffectsKept, KeysKept
  PROVE  EffectsStored'
<1>1. \A m \in Messages : Cardinality({r \in stored : r.kind = "reply" /\ r.msg = m})' <= boot'
  <2>1. stored' \subseteq Signal /\ boot' \in Nat \ {0} /\ \A r \in stored' : KeyAt(r, boot')
    BY DEF KeysKept, TypeInv, AllSignals
  <2>2. QED
    BY <2>1, ReplyBound
<1>2. \A m \in Messages : /\ HasReply(m) => HasReply(m)'
                          /\ \A kind : HasCall(kind, m) => HasCall(kind, m)'
  BY DEF EffectsKept, HasReply, HasCall
<1>3. QED
  BY <1>1, <1>2 DEF EffectsStored, EffectsKept

\* What is on record of a message that was acknowledged: EffectsStored, message by message.
OnRecord(m) ==
  /\ Replied(m) => HasReply(m)
  /\ Alarm(m) => plain[m] > 0
  /\ Form[m] = "voice" => IF Text[m] = None THEN plain[m] > 1
                          ELSE HasCall("outcome", m) /\ HasCall("analyzed", m)

LEMMA RecordStored ==
  ASSUME TypeInv, \A r \in AllSignals : KeyTold(r), \A m \in Messages \ unacked : OnRecord(m)
  PROVE  EffectsStored
<1>1. stored \subseteq Signal /\ boot \in Nat \ {0} /\ \A r \in stored : KeyAt(r, boot)
  BY DEF TypeInv, AllSignals, KeyTold
<1>2. \A m \in Messages : Cardinality({r \in stored : r.kind = "reply" /\ r.msg = m}) <= boot
  BY <1>1, ReplyBound
<1>3. QED
  BY <1>2 DEF EffectsStored, OnRecord, Alarm

\* A delivery whose handled messages are all told.
HookTold(h) == \A m \in ToSet(hooks[h].batch) \ ToSet(hooks[h].todo) : HandledTold(h, m)

LEMMA HookStays ==
  ASSUME NEW h \in Hooks, HookTold(h), stored \subseteq stored', Same(h), Held(h) \subseteq Held(h)'
  PROVE  HookTold(h)'
<1> SUFFICES ASSUME NEW m \in ToSet(hooks[h].batch) \ ToSet(hooks[h].todo) PROVE HandledTold(h, m)'
  BY DEF HookTold, Same
<1>1. HandledTold(h, m)
  BY DEF HookTold
<1>2. QED
  BY <1>1 DEF HandledTold, ReplyIn, CallIn, PlainIn

LEMMA HookCloses ==
  ASSUME NEW h \in Hooks, hooks'[h] = Closed
  PROVE  HookTold(h)' /\ Held(h)' = {}
BY ClosedHook DEF HookTold, Held

\* The keys stay what they are, and a new start of the process is one more seed.
LEMMA KeysStay ==
  ASSUME TypeInv, StoredInv, boot' \in Nat, boot <= boot', NEW S,
         \A r \in S : KeyTold(r), AllSignals' \subseteq AllSignals \cup S
  PROVE  KeysKept
<1> SUFFICES ASSUME NEW r \in AllSignals' PROVE KeyAt(r, boot')
  BY DEF KeysKept
<1>1. KeyAt(r, boot)
  BY DEF StoredInv, KeyTold
<1>2. boot \in Nat
  BY DEF TypeInv
<1>3. \A b \in 0..boot : b \in 0..boot'
  BY <1>2
<1>4. QED
  BY <1>1, <1>3 DEF KeyAt

\* A step of one delivery.
LEMMA StoredStep ==
  ASSUME TypeInv, TypeInv', StoredInv, NEW h \in Hooks, Others(h), KeysKept, stored \subseteq stored',
         \A r \in stored' : r.key # None, EffectsStored', HookTold(h)'
  PROVE  StoredInv'
<1>1. ASSUME NEW g \in Hooks \ {h} PROVE HookTold(g)'
  <2>1. HookTold(g)
    BY DEF StoredInv, HookTold
  <2>2. Same(g) /\ Held(g)' = Held(g)
    BY DEF Others, Same, Held
  <2>3. QED
    BY <2>1, <2>2, HookStays
<1>2. \A g \in Hooks : HookTold(g)'
  BY <1>1
<1>3. (\A r \in AllSignals : KeyTold(r))'
  BY DEF KeysKept, KeyTold
<1>4. QED
  BY <1>2, <1>3 DEF StoredInv, HookTold

\* A step of one delivery that stores nothing.
LEMMA StoredBase ==
  ASSUME TypeInv, TypeInv', StoredInv, NEW h \in Hooks, Others(h), UNCHANGED Base, HookTold(h)',
         NEW S, Held(h)' \subseteq Held(h) \cup S, \A r \in S : KeyTold(r)
  PROVE  StoredInv'
<1>1. stored' = stored /\ EffectsKept /\ boot' = boot
  BY DEF Base, dbVars, EffectsKept
<1>2. KeysKept
  <2>1. AllSignals' \subseteq AllSignals \cup S
    <3>1. \A g \in Hooks : Held(g)' \subseteq Held(g) \cup S
      BY DEF Others, Held
    <3>2. QED
      BY <1>1, <3>1 DEF AllSignals
  <2>2. boot \in Nat
    BY DEF TypeInv
  <2>3. QED
    BY <1>1, <2>1, <2>2, KeysStay
<1>3. EffectsStored'
  BY <1>1, <1>2, EffectsStay DEF StoredInv
<1>4. QED
  BY <1>1, <1>2, <1>3, StoredStep DEF StoredInv

LEMMA StoredHandle ==
  ASSUME TypeInv, TypeInv', StoredInv, NEW h \in Hooks, HandleItem(h)
  PROVE  StoredInv'
<1>1. Others(h) /\ UNCHANGED Base
  BY HandleMoves
<1>2. PICK m \in Messages : Handles(h, m)
  BY HandleMoves
<1> DEFINE new == ToSet(Signals(m))
<1>3. /\ hooks'[h].batch = hooks[h].batch /\ ToSet(hooks[h].todo) = {m} \cup ToSet(hooks'[h].todo)
      /\ Held(h)' = Held(h) \cup new /\ stored' = stored
  BY <1>1, <1>2, EmptyToSet DEF Handles, Held, Base, dbVars
<1>4. /\ \A r \in new : KeyTold(r)
      /\ Replied(m) => ReplyIn(new, m)
      /\ Alarm(m) => PlainIn(new, "consent", m) \/ PlainIn(new, "nudge", m)
      /\ Form[m] = "voice" => \A kind \in {"outcome", "analyzed"} :
           IF Text[m] = None THEN PlainIn(new, kind, m) ELSE CallIn(new, kind, m)
  BY SignalsOf
<1> HIDE DEF new
<1>5. HandledTold(h, m)'
  BY <1>3, <1>4 DEF HandledTold, ReplyIn, PlainIn, CallIn
<1>6. HookTold(h)'
  <2> SUFFICES ASSUME NEW x \in ToSet(hooks'[h].batch) \ ToSet(hooks'[h].todo) PROVE HandledTold(h, x)'
    BY DEF HookTold
  <2>1. CASE x = m
    BY <1>5, <2>1
  <2>2. CASE x # m
    <3>1. HandledTold(h, x)
      BY <1>3, <2>2 DEF StoredInv
    <3>2. QED
      BY <1>3, <3>1 DEF HandledTold, ReplyIn, PlainIn, CallIn
  <2>3. QED
    BY <2>1, <2>2
<1>7. QED
  BY <1>1, <1>3, <1>4, <1>6, StoredBase

\* A signal is dropped only where one that says the same is stored, or inserted before it.
LEMMA StoredDrop ==
  ASSUME TypeInv, StoredInv, NEW h \in Hooks, stored' = stored, NEW r \in Signal, Drops(h, r)
  PROVE  HookTold(h)' /\ Held(h)' \subseteq Held(h)
<1> DEFINE Was == stored \cup Held(h)
           Is == stored \cup Held(h)'
<1>1. /\ Held(h) = Held(h)' \cup {r} /\ Same(h) /\ r.key # None
      /\ Was \subseteq Signal /\ \A x \in Was : KeyTold(x)
  <2>1. Held(h) = Held(h)' \cup {r} /\ Same(h) /\ r.key # None
    BY DEF Drops, Held
  <2>2. Was \subseteq Signal /\ \A x \in Was : KeyTold(x)
    BY AllSignalsType DEF StoredInv
  <2>3. QED
    BY <2>1, <2>2
<1>2. PICK s \in Is : s.key = r.key
  <2>1. \E s \in stored \cup ToSet(hooks[h].rows) : s.key = r.key
    BY DEF Drops, Keys, Own
  <2>2. ToSet(hooks[h].rows) \subseteq Held(h)'
    BY DEF Drops, Held
  <2>3. QED
    BY <2>1, <2>2
<1>3. Is \subseteq Was /\ Was \subseteq Is \cup {r} /\ r \in Was
  BY <1>1
<1>4. \A x \in Held(h) : x.key = None => x \in Held(h)'
  BY <1>1
<1> HIDE DEF Was, Is
<1>5. /\ s.kind = r.kind
      /\ r.kind = "reply" => Sender[s.msg] = Sender[r.msg] /\ Text[s.msg] = Text[r.msg]
      /\ r.kind \in {"outcome", "analyzed"} => Text[s.msg] = Text[r.msg]
  <2>1. s \in Signal /\ KeyTold(s) /\ KeyTold(r)
    BY <1>1, <1>2, <1>3
  <2>2. QED
    BY <1>1, <1>2, <2>1, SameKey
<1>6. \A m : ReplyIn(Was, m) => ReplyIn(Is, m)
  <2> SUFFICES ASSUME NEW m, NEW x \in Was, x.kind = "reply", Sender[x.msg] = Sender[m], Text[x.msg] = Text[m]
               PROVE  ReplyIn(Is, m)
    BY DEF ReplyIn
  <2>1. CASE x = r
    BY <1>2, <1>5, <2>1 DEF ReplyIn
  <2>2. CASE x \in Is
    BY <2>2 DEF ReplyIn
  <2>3. QED
    BY <1>3, <2>1, <2>2
<1>7. \A m : \A kind \in {"outcome", "analyzed"} : CallIn(Was, kind, m) => CallIn(Is, kind, m)
  <2> SUFFICES ASSUME NEW m, NEW kind \in {"outcome", "analyzed"}, NEW x \in Was, x.kind = kind, Text[x.msg] = Text[m]
               PROVE  CallIn(Is, kind, m)
    BY DEF CallIn
  <2>1. CASE x = r
    BY <1>2, <1>5, <2>1 DEF CallIn
  <2>2. CASE x \in Is
    BY <2>2 DEF CallIn
  <2>3. QED
    BY <1>3, <2>1, <2>2
<1>8. \A kind, m : PlainIn(Held(h), kind, m) => PlainIn(Held(h), kind, m)'
  BY <1>4 DEF PlainIn
<1>9. HookTold(h)'
  <2> SUFFICES ASSUME NEW m \in ToSet(hooks[h].batch) \ ToSet(hooks[h].todo) PROVE HandledTold(h, m)'
    BY <1>1 DEF HookTold, Same
  <2>1. HandledTold(h, m)
    BY DEF StoredInv
  <2>2. /\ Replied(m) => ReplyIn(Was, m)
        /\ Form[m] = "voice" /\ Text[m] # None => \A kind \in {"outcome", "analyzed"} : CallIn(Was, kind, m)
    BY <2>1 DEF HandledTold, Was
  <2>3. /\ Replied(m) => ReplyIn(Is, m)
        /\ Form[m] = "voice" /\ Text[m] # None => \A kind \in {"outcome", "analyzed"} : CallIn(Is, kind, m)
    BY <1>6, <1>7, <2>2
  <2>4. /\ Replied(m) => ReplyIn(stored \cup Held(h), m)'
        /\ Form[m] = "voice" /\ Text[m] # None =>
             \A kind \in {"outcome", "analyzed"} : CallIn(stored \cup Held(h), kind, m)'
    BY <2>3 DEF Is
  <2>5. QED
    BY <1>8, <2>1, <2>4 DEF HandledTold
<1>10. QED
  BY <1>1, <1>9

LEMMA StoredEmit ==
  ASSUME TypeInv, TypeInv', StoredInv, NEW h \in Hooks, LookUpKey(h) \/ InsertSignal(h)
  PROVE  StoredInv'
<1>1. Others(h) /\ UNCHANGED Base /\ stored' = stored
  BY EmitMoves DEF Base, dbVars
<1>2. PICK r \in Signal : Drops(h, r) \/ Misses(h, r) \/ Puts(h, r)
  BY EmitMoves
<1>3. HookTold(h) /\ Held(h) \subseteq AllSignals
  BY AllSignalsType DEF StoredInv, HookTold
<1>4. HookTold(h)' /\ Held(h)' \subseteq Held(h)
  <2>1. CASE Drops(h, r)
    BY <1>1, <2>1, StoredDrop
  <2>2. CASE Misses(h, r) \/ Puts(h, r)
    <3>1. Same(h) /\ Held(h)' = Held(h)
      BY <2>2 DEF Misses, Puts, Held
    <3>2. QED
      BY <1>1, <1>3, <3>1, HookStays
  <2>3. QED
    BY <1>2, <2>1, <2>2
<1> DEFINE added == {}
<1>5. Held(h)' \subseteq Held(h) \cup added /\ \A x \in added : KeyTold(x)
  BY <1>4
<1> HIDE DEF added
<1>6. QED
  BY <1>1, <1>4, <1>5, StoredBase

LEMMA PairCount ==
  ASSUME NEW i, NEW j, i # j
  PROVE  Cardinality({i, j}) = 2
<1>1. IsFiniteSet({i}) /\ Cardinality({i}) = 1
  BY FS_Singleton
<1>2. Cardinality({i} \cup {j}) = 2
  <2>1. j \notin {i}
    OBVIOUS
  <2>2. Cardinality({i} \cup {j}) = Cardinality({i}) + 1
    BY <1>1, <2>1, FS_AddElement
  <2>3. QED
    BY <1>1, <2>2
<1>3. {i, j} = {i} \cup {j}
  OBVIOUS
<1>4. QED
  BY <1>2, <1>3

\* The commit: a reply, or a call with an id, has a key and goes to the keyed signals; a
\* signal without one is counted.
LEMMA StoredAck ==
  ASSUME TypeInv, TypeInv', StoredInv, NEW h \in Hooks, Acknowledge(h)
  PROVE  StoredInv'
<1> DEFINE rows == ToSet(hooks[h].rows)
           Was == stored \cup Held(h)
<1>1. /\ Others(h) /\ hooks'[h] = Closed /\ boot' = boot
      /\ ToSet(hooks[h].todo) = {} /\ Held(h) = rows
      /\ stored' = stored \cup {r \in rows : r.key # None}
      /\ unacked' = unacked \ ToSet(hooks[h].batch)
  BY AckMoves, EmptyToSet DEF Memory, Held
<1>2. \A m \in Messages : /\ plain[m] \in Nat /\ plain'[m] = plain[m] + Cardinality(Plain(h, m))
                          /\ IsFiniteSet(Plain(h, m)) /\ Cardinality(Plain(h, m)) \in Nat
  BY AckMoves DEF TypeInv
<1>3. /\ Was \subseteq Signal /\ rows \subseteq Was
      /\ \A r \in Was : r \in AllSignals /\ KeyTold(r) /\ (r.key # None => r \in stored')
  BY <1>1, AllSignalsType DEF StoredInv
<1>4. HookTold(h)' /\ Held(h)' = {}
  BY <1>1, HookCloses
<1>5. KeysKept
  <2>1. \A g \in Hooks : Held(g)' \subseteq Held(g)
    BY <1>1, <1>4 DEF Others, Held
  <2>2. AllSignals' \subseteq AllSignals \cup {} /\ \A r \in {} : KeyTold(r)
    BY <1>1, <1>3, <2>1 DEF AllSignals
  <2>3. boot \in Nat
    BY DEF TypeInv
  <2>4. QED
    BY <1>1, <2>2, <2>3, KeysStay
<1>6. ASSUME NEW m \in Messages, NEW kind, PlainIn(Held(h), kind, m)
      PROVE  \E i \in Plain(h, m) : hooks[h].rows[i].kind = kind
  BY <1>1, <1>6 DEF PlainIn, Plain, ToSet
<1> HIDE DEF rows, Was
<1>7. ASSUME NEW m \in Messages \ unacked PROVE OnRecord(m)'
  <2>1. OnRecord(m)
    BY <1>7 DEF StoredInv, EffectsStored, OnRecord, Alarm
  <2>2. plain'[m] >= plain[m] /\ plain[m] \in Nat /\ plain'[m] \in Nat
    BY <1>2
  <2>3. stored \subseteq stored'
    BY <1>1
  <2>4. QED
    BY <2>1, <2>2, <2>3 DEF OnRecord, HasReply, HasCall
<1>8. ASSUME NEW m \in ToSet(hooks[h].batch) PROVE OnRecord(m)'
  <2>1. m \in Messages
    BY HookType
  <2>2. HandledTold(h, m)
    BY <1>1 DEF StoredInv
  <2>3. Replied(m) => HasReply(m)'
    <3> SUFFICES ASSUME Replied(m) PROVE HasReply(m)'
      OBVIOUS
    <3>1. PICK r \in Was : r.kind = "reply" /\ Sender[r.msg] = Sender[m] /\ Text[r.msg] = Text[m]
      BY <2>2 DEF HandledTold, ReplyIn, Was
    <3>2. r \in stored'
      BY <1>3, <3>1, KeyThere
    <3>3. QED
      BY <3>1, <3>2 DEF HasReply
  <2>4. ASSUME NEW kind \in {"outcome", "analyzed"}, Form[m] = "voice", Text[m] # None PROVE HasCall(kind, m)'
    <3>1. PICK r \in Was : r.kind = kind /\ Text[r.msg] = Text[m]
      BY <2>2, <2>4 DEF HandledTold, CallIn, Was
    <3>2. r \in stored'
      BY <1>3, <2>4, <3>1, KeyThere
    <3>3. QED
      BY <3>1, <3>2 DEF HasCall
  <2>5. Alarm(m) => plain'[m] > 0
    <3> SUFFICES ASSUME Alarm(m) PROVE plain'[m] > 0
      OBVIOUS
    <3>1. Plain(h, m) # {}
      BY <1>6, <2>1, <2>2 DEF HandledTold
    <3>2. Cardinality(Plain(h, m)) # 0
      BY <1>2, <2>1, <3>1, FS_EmptySet
    <3>3. QED
      BY <1>2, <2>1, <3>2
  <2>6. Form[m] = "voice" /\ Text[m] = None => plain'[m] > 1
    <3> SUFFICES ASSUME Form[m] = "voice", Text[m] = None PROVE plain'[m] > 1
      OBVIOUS
    <3>1. PlainIn(Held(h), "outcome", m) /\ PlainIn(Held(h), "analyzed", m)
      BY <2>2 DEF HandledTold
    <3>2. PICK i \in Plain(h, m) : hooks[h].rows[i].kind = "outcome"
      BY <1>6, <2>1, <3>1
    <3>3. PICK j \in Plain(h, m) : hooks[h].rows[j].kind = "analyzed"
      BY <1>6, <2>1, <3>1
    <3>4. i # j
      BY <3>2, <3>3
    <3>5. Cardinality({i, j}) = 2 /\ Cardinality({i, j}) <= Cardinality(Plain(h, m))
      <4>1. Cardinality({i, j}) = 2
        BY <3>4, PairCount
      <4>2. {i, j} \subseteq Plain(h, m)
        OBVIOUS
      <4>3. QED
        BY <1>2, <2>1, <4>1, <4>2, FS_Subset
    <3>6. QED
      BY <1>2, <2>1, <3>5
  <2>7. QED
    BY <2>3, <2>4, <2>5, <2>6 DEF OnRecord
<1>9. EffectsStored'
  <2>1. \A m \in Messages \ unacked' : OnRecord(m)'
    BY <1>1, <1>7, <1>8
  <2>2. (\A r \in AllSignals : KeyTold(r))'
    BY <1>5 DEF KeysKept, KeyTold
  <2>3. stored' \subseteq Signal /\ boot' \in Nat \ {0} /\ \A r \in stored' : KeyAt(r, boot')
    BY <2>2 DEF TypeInv, AllSignals, KeyTold
  <2>4. \A m \in Messages : Cardinality({r \in stored : r.kind = "reply" /\ r.msg = m})' <= boot'
    BY <2>3, ReplyBound
  <2>5. QED
    BY <2>1, <2>4 DEF EffectsStored, OnRecord, Alarm
<1>10. QED
  <2>1. stored \subseteq stored' /\ \A r \in stored' : r.key # None
    BY <1>1 DEF StoredInv
  <2>2. QED
    BY <1>1, <1>4, <1>5, <1>9, <2>1, StoredStep

LEMMA InitStored == Init => StoredInv
<1> SUFFICES ASSUME Init PROVE StoredInv
  OBVIOUS
<1>1. unacked = Messages /\ stored = {} /\ \A h \in Hooks : hooks[h] = Closed
  BY DEF Init
<1>2. AllSignals = {} /\ \A h \in Hooks : ToSet(hooks[h].batch) = {}
  BY <1>1, ClosedHook DEF AllSignals, Held
<1>3. EffectsStored
  BY <1>1 DEF EffectsStored
<1>4. QED
  BY <1>1, <1>2, <1>3 DEF StoredInv

LEMMA StoredStart ==
  ASSUME TypeInv, TypeInv', StoredInv, Restart
  PROVE  StoredInv'
<1>1. /\ \A h \in Hooks : hooks'[h] = Closed
      /\ boot' = boot + 1 /\ boot \in Nat /\ UNCHANGED <<unacked, stored, plain>>
  BY RestartMoves DEF TypeInv, dbVars
<1>2. \A h \in Hooks : HookTold(h)' /\ Held(h)' = {}
  BY <1>1, HookCloses
<1>3. KeysKept
  <2> DEFINE added == {}
  <2>1. AllSignals' \subseteq AllSignals \cup added /\ \A r \in added : KeyTold(r)
    BY <1>1, <1>2 DEF AllSignals
  <2>2. boot' \in Nat /\ boot <= boot'
    BY <1>1
  <2> HIDE DEF added
  <2>3. QED
    BY <2>1, <2>2, KeysStay
<1>4. EffectsKept
  BY <1>1 DEF EffectsKept
<1>5. EffectsStored'
  BY <1>3, <1>4, EffectsStay DEF StoredInv
<1>6. (\A r \in AllSignals : KeyTold(r))' /\ \A r \in stored' : r.key # None
  BY <1>1, <1>3 DEF StoredInv, KeysKept, KeyTold
<1>7. QED
  BY <1>2, <1>5, <1>6 DEF StoredInv, HookTold

LEMMA StoredAlways ==
  ASSUME TypeInv, TypeInv', StoredInv, [Next]_vars
  PROVE  StoredInv'
<1>1. ASSUME NEW h \in Hooks, Others(h), UNCHANGED Base, Held(h)' = {}, HookTold(h)' PROVE StoredInv'
  <2>1. Held(h)' \subseteq Held(h) \cup {} /\ \A r \in {} : KeyTold(r)
    BY <1>1
  <2>2. QED
    BY <1>1, <2>1, StoredBase
<1>2. ASSUME UNCHANGED <<unacked, hooks, dbVars, boot>> PROVE StoredInv'
  <2>1. EffectsStored <=> EffectsStored'
    BY <1>2 DEF dbVars, EffectsStored, HasReply, HasCall
  <2>2. AllSignals' = AllSignals /\ \A r : KeyTold(r) <=> (KeyTold(r))'
    BY <1>2 DEF dbVars, AllSignals, Held, KeyTold
  <2>3. \A h, m : HandledTold(h, m) <=> (HandledTold(h, m))'
    BY <1>2 DEF dbVars, HandledTold, Held
  <2>4. QED
    BY <1>2, <2>1, <2>2, <2>3 DEF dbVars, StoredInv
<1>3. ASSUME NEW p \in Known, StartQuiz(p) PROVE StoredInv'
  BY <1>2, <1>3 DEF StartQuiz
<1>4. ASSUME NEW h \in Hooks, NEW b \in Batches, Deliver(h, b) \/ DeliverAgain(h, b) PROVE StoredInv'
  <2>1. Begin(h, b)
    BY <1>4 DEF Deliver, DeliverAgain
  <2>2. Others(h) /\ UNCHANGED Base /\ hooks'[h].batch = hooks'[h].todo /\ Held(h)' = {}
    BY <2>1, BeginMoves
  <2>3. HookTold(h)'
    BY <2>2 DEF HookTold
  <2>4. QED
    BY <1>1, <2>2, <2>3
<1>5. ASSUME NEW h \in Hooks, KeyConflict(h) \/ DeliveryFails(h) PROVE StoredInv'
  <2>1. Others(h) /\ UNCHANGED Base /\ hooks'[h] = Closed
    BY <1>5, RefuseMoves
  <2>2. QED
    BY <1>1, <2>1, HookCloses
<1>6. CASE UNCHANGED vars
  BY <1>2, <1>6 DEF vars
<1>7. QED
  BY <1>3, <1>4, <1>5, <1>6, StoredHandle, StoredEmit, StoredAck, StoredStart DEF Next, Work

\* A message the webhook acknowledged has had its effect on record, whatever was lost,
\* repeated, refused or begun anew on the way: the reply of its sender and text, at most once
\* per life of the process, the consent or the nudge of an agent, both signals of a call.
THEOREM AcknowledgedIsStored == Spec => []EffectsStored
<1>1. Spec => [](TypeInv /\ StoredInv)
  BY InitType, TypeStep, InitStored, StoredAlways, PTL DEF Spec
<1>2. StoredInv => EffectsStored
  BY DEF StoredInv
<1>3. QED
  BY <1>1, <1>2, PTL
=============================================================================
