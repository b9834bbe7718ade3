--------------------------- MODULE WebhookIngestion ---------------------------
(***************************************************************************)
(* The WhatsApp and voice webhooks.  A provider delivers messages, button  *)
(* taps, delivery statuses and call results, in batches, until they are    *)
(* acknowledged, and sometimes again.  Each delivery is one transaction    *)
(* that emits signals; a key in a unique index keeps a signal from being   *)
(* stored twice.  Quizzes and the seed of hash() live in the memory of the *)
(* API process and go with it.                                             *)
(*                                                                         *)
(* The text of a message is a model value; the words it matches are what   *)
(* the bot tells apart.  Tenants do not share keys: there is one.          *)
(***************************************************************************)
EXTENDS Naturals, Sequences, FiniteSets

CONSTANTS
  Messages,
  Form,       \* "text", "button", "image", "audio", "video", "status" or "voice"
  Words,      \* the patterns of the bot a text matches, or the payload of a button
  Text,       \* a text, a call id, or None
  Sender,     \* the phone it comes from
  Known,      \* the phones of agents
  Assigned,   \* those of agents with an ADM
  Tap,        \* a quiz button's [module, right], or None
  Batches,    \* the batches the provider may deliver
  Hooks,      \* deliveries that may be under way at a time
  Questions,  \* the length of a quiz
  MaxDups, MaxFaults, MaxQuizzes,   \* bounds
  None

ASSUME IngestionAssumption ==
  /\ Form \in [Messages -> {"text", "button", "image", "audio", "video", "status", "voice"}]
  /\ \A b \in Batches : b \in Seq(Messages) /\ b # <<>>
  /\ Assigned \subseteq Known
  /\ Questions \in Nat \ {0} /\ {MaxDups, MaxFaults, MaxQuizzes} \subseteq Nat

VARIABLES
  unacked,   \* messages the provider will deliver (again)
  refused,   \* batches whose last delivery failed
  hooks,     \* the deliveries' transactions
  stored,    \* committed signals with a key
  plain,     \* per message, its committed signals without one
  boot,      \* starts of the process: the seed of hash()
  quiz,      \* per phone, the active quiz in memory
  answers,   \* history, per phone: the answers its quizzes took
  quizzes, dups, faults

dbVars == <<stored, plain>>
bounds == <<quizzes, dups, faults>>
vars == <<unacked, refused, hooks, dbVars, boot, quiz, answers, bounds>>

Closed == [batch |-> <<>>, todo |-> <<>>, out |-> <<>>, absent |-> FALSE, rows |-> <<>>]
Open(h) == hooks[h] # Closed
Phones == {Sender[m] : m \in Messages}
ToSet(s) == {s[i] : i \in DOMAIN s}

\* Every key starts with the kind of its signal.
SignalKeys ==
  LET texts == {Text[m] : m \in Messages}
      modules == {Tap[m].module : m \in {x \in Messages : Tap[x] # None}}
  IN  ({"reply"} \X Phones \X Nat \X texts) \cup ({"status"} \X Phones \X texts)
      \cup ({"quiz"} \X Phones \X modules) \cup ({"outcome", "analyzed", "recording"} \X texts)
Signal ==
  [kind : {"reply", "consent", "nudge", "status", "quiz", "outcome", "analyzed", "recording"},
   msg : Messages, key : SignalKeys \cup {None}]
Hook ==
  [batch : Seq(Messages), todo : Seq(Messages), out : Seq(Signal), absent : BOOLEAN, rows : Seq(Signal)]
Quiz == [at : 0..(Questions - 1), right : Nat]

ASSUME NoneAssumption == None \notin SignalKeys \cup Quiz

Init ==
  /\ unacked = Messages /\ refused = {} /\ hooks = [h \in Hooks |-> Closed]
  /\ stored = {} /\ plain = [m \in Messages |-> 0] /\ boot = 1
  /\ quiz = [p \in Phones |-> None] /\ answers = [p \in Phones |-> 0]
  /\ quizzes = 0 /\ dups = 0 /\ faults = 0
-----------------------------------------------------------------------------
\* classify_intent: the first of these patterns that the text matches.
TextIntents == <<"stop", "commission", "complaint", "product", "training", "adm", "greeting">>
Intent(m) ==
  IF Form[m] = "button" THEN "button_click"
  ELSE IF Form[m] # "text" THEN "media_received"
  ELSE LET found == SelectSeq(TextIntents, LAMBDA i : i \in Words[m])
       IN  IF found = <<>> THEN "unknown" ELSE Head(found)

\* handle_message: what a response asks for besides its text.
RevokesConsent(m) == Intent(m) = "stop"
Escalates(m) ==
  \/ Intent(m) \in {"adm", "commission", "complaint"}
  \/ Form[m] = "image"
  \/ Form[m] = "button" /\ "adm_se_baat" \in Words[m] /\ quiz[Sender[m]] = None

\* hash() of a text depends on the process; that of no text is 0.
ReplyKey(m) == <<"reply", Sender[m], IF Text[m] = None THEN 0 ELSE boot, Text[m]>>
Sig(kind, m, key) == [kind |-> kind, msg |-> m, key |-> key]
When(condition, signal) == IF condition THEN <<signal>> ELSE <<>>

\* _handle_incoming_message without the quiz.
ReplySignals(m) ==
  When(RevokesConsent(m) /\ Sender[m] \in Known, Sig("consent", m, None))
  \o <<Sig("reply", m, ReplyKey(m))>>
  \o When(Escalates(m) /\ Sender[m] \in Assigned, Sig("nudge", m, None))

\* _handle_delivery_status; "failed" is only logged.
StatusSignals(m) == When(Text[m] # "failed", Sig("status", m, <<"status", Sender[m], Text[m]>>))

\* voice_webhook: the call id of a payload that has none is made up at every delivery.
CallKey(kind, m) == IF Text[m] = None THEN None ELSE <<kind, Text[m]>>
VoiceSignals(m) ==
  <<Sig("outcome", m, CallKey("outcome", m)), Sig("analyzed", m, CallKey("analyzed", m))>>
  \o When("recording" \in Words[m], Sig("recording", m, CallKey("recording", m)))

IsTap(m) == Form[m] = "button" /\ Tap[m] # None /\ Sender[m] \in Known
Finishes(m) == IsTap(m) /\ quiz[Sender[m]] # None /\ quiz[Sender[m]].at + 1 = Questions
Signals(m) ==
  IF Form[m] = "status" THEN StatusSignals(m)
  ELSE IF Form[m] = "voice" THEN VoiceSignals(m)
  ELSE IF IsTap(m) THEN When(Finishes(m), Sig("quiz", m, <<"quiz", Sender[m], Tap[m].module>>))
  ELSE ReplySignals(m)
-----------------------------------------------------------------------------
\* start_quiz, by the training flow; an active quiz is replaced.
StartQuiz(p) ==
  /\ quizzes < MaxQuizzes
  /\ quiz' = [quiz EXCEPT ![p] = [at |-> 0, right |-> 0]]
  /\ quizzes' = quizzes + 1
  /\ UNCHANGED <<unacked, refused, hooks, dbVars, boot, answers, dups, faults>>

\* Faulty variant: the quiz is left in place when its last question is answered.
AnsweredKeeping(m) ==
  LET q == quiz[Sender[m]]
  IN  IF ~IsTap(m) \/ q = None \/ Finishes(m) THEN quiz
      ELSE [quiz EXCEPT ![Sender[m]] = [at |-> q.at + 1, right |-> q.right]]

\* process_quiz_answer: the tap answers the current question, whichever it was for.
Answered(m) ==
  LET q == quiz[Sender[m]]
  IN  IF ~IsTap(m) \/ q = None THEN quiz
      ELSE [quiz EXCEPT ![Sender[m]] =
              IF Finishes(m) THEN None
              ELSE [at |-> q.at + 1, right |-> q.right + (IF Tap[m].right THEN 1 ELSE 0)]]

\* The provider posts a batch that is not acknowledged, or posts one once more.  A refused
\* one it posts again after a pause in which the transactions then open have ended.
Begin(h, b) ==
  /\ ~Open(h)
  /\ hooks' = [hooks EXCEPT ![h] = [Closed EXCEPT !.batch = b, !.todo = b]]
  /\ UNCHANGED <<unacked, refused, dbVars, boot, quiz, answers, quizzes, faults>>

Deliver(h, b) ==
  /\ Begin(h, b) /\ UNCHANGED dups
  /\ ToSet(b) \cap unacked # {}
  /\ \A g \in Hooks : IF b \in refused THEN ~Open(g) ELSE hooks[g].batch # b
DeliverAgain(h, b) == Begin(h, b) /\ dups < MaxDups /\ dups' = dups + 1

\* The next item of the batch: look at the sender and its quiz, compose the signals.
HandleItem(h) ==
  /\ hooks[h].todo # <<>> /\ hooks[h].out = <<>>
  /\ LET m == Head(hooks[h].todo)
     IN  /\ hooks' = [hooks EXCEPT ![h].todo = Tail(@), ![h].out = Signals(m)]
         /\ quiz' = Answered(m)
         /\ answers' = [answers EXCEPT ![Sender[m]] =
                          IF IsTap(m) /\ quiz[Sender[m]] # None THEN @ + 1 ELSE @]
  /\ UNCHANGED <<unacked, refused, dbVars, boot, bounds>>

Keys(rows) == {r.key : r \in rows} \ {None}
Own(h) == Keys(ToSet(hooks[h].rows))
NextOut(h) == Head(hooks[h].out)

\* Faulty variant: a signal that exists ends the handling of its message.
LookUpKeyReturning(h) ==
  /\ hooks[h].out # <<>> /\ ~hooks[h].absent /\ NextOut(h).key # None
  /\ IF NextOut(h).key \in Keys(stored) \cup Own(h)
     THEN hooks' = [hooks EXCEPT ![h].out = <<>>]
     ELSE hooks' = [hooks EXCEPT ![h].absent = TRUE]
  /\ UNCHANGED <<unacked, refused, dbVars, boot, quiz, answers, bounds>>

\* Faulty variant: nothing is looked up, the unique index is relied on.
LookUpKeyNever(h) ==
  /\ hooks[h].out # <<>> /\ ~hooks[h].absent /\ NextOut(h).key # None
  /\ hooks' = [hooks EXCEPT ![h].absent = TRUE]
  /\ UNCHANGED <<unacked, refused, dbVars, boot, quiz, answers, bounds>>

\* emit_signal, the lookup: what is stored, or was emitted by the same transaction.
LookUpKey(h) ==
  /\ hooks[h].out # <<>> /\ ~hooks[h].absent /\ NextOut(h).key # None
  /\ IF NextOut(h).key \in Keys(stored) \cup Own(h)
     THEN hooks' = [hooks EXCEPT ![h].out = Tail(@)]
     ELSE hooks' = [hooks EXCEPT ![h].absent = TRUE]
  /\ UNCHANGED <<unacked, refused, dbVars, boot, quiz, answers, bounds>>

\* emit_signal, the insert: it waits for an open transaction that inserted the same key.
InsertSignal(h) ==
  /\ hooks[h].out # <<>> /\ (hooks[h].absent \/ NextOut(h).key = None)
  /\ NextOut(h).key \notin Keys(stored) \cup UNION {Own(g) : g \in Hooks \ {h}}
  /\ hooks' = [hooks EXCEPT ![h].out = Tail(@), ![h].absent = FALSE,
                            ![h].rows = Append(@, NextOut(h))]
  /\ UNCHANGED <<unacked, refused, dbVars, boot, quiz, answers, bounds>>

Blocks(g, h) == hooks[h].absent /\ NextOut(h).key \in Own(g)
Drop(h) == hooks' = [hooks EXCEPT ![h] = Closed]
Refuse(h) == Drop(h) /\ refused' = refused \cup {hooks[h].batch}

\* The key was stored since the lookup, or two deliveries wait for each other.
KeyConflict(h) ==
  /\ hooks[h].absent
  /\ \/ NextOut(h).key \in Keys(stored)
     \/ \E g \in Hooks \ {h} : Blocks(g, h) /\ Blocks(h, g)
  /\ Refuse(h)
  /\ UNCHANGED <<unacked, dbVars, boot, quiz, answers, bounds>>

\* The commit and the 200; the provider forgets the batch.
Acknowledge(h) ==
  /\ Open(h) /\ hooks[h].todo = <<>> /\ hooks[h].out = <<>>
  /\ LET rows == hooks[h].rows
     IN  /\ stored' = stored \cup {r \in ToSet(rows) : r.key # None}
         /\ plain' = [m \in Messages |->
                        plain[m] + Cardinality({i \in DOMAIN rows : rows[i].key = None /\ rows[i].msg = m})]
  /\ unacked' = unacked \ ToSet(hooks[h].batch)
  /\ refused' = refused \ {hooks[h].batch} /\ Drop(h)
  /\ UNCHANGED <<boot, quiz, answers, bounds>>

DeliveryFails(h) ==
  /\ Open(h) /\ faults < MaxFaults /\ faults' = faults + 1
  /\ Refuse(h)
  /\ UNCHANGED <<unacked, dbVars, boot, quiz, answers, quizzes, dups>>

\* The process ends and starts again, with a new seed and no quizzes.
Restart ==
  /\ faults < MaxFaults /\ faults' = faults + 1
  /\ boot' = boot + 1
  /\ refused' = refused \cup {hooks[h].batch : h \in {g \in Hooks : Open(g)}}
  /\ hooks' = [h \in Hooks |-> Closed] /\ quiz' = [p \in Phones |-> None]
  /\ UNCHANGED <<unacked, dbVars, answers, quizzes, dups>>

Work(h) == HandleItem(h) \/ LookUpKey(h) \/ InsertSignal(h) \/ KeyConflict(h) \/ Acknowledge(h)

Next ==
  \/ \E p \in Known : StartQuiz(p)
  \/ \E h \in Hooks : (\E b \in Batches : Deliver(h, b) \/ DeliverAgain(h, b)) \/ Work(h) \/ DeliveryFails(h)
  \/ Restart
Spec == Init /\ [][Next]_vars

\* The process goes on with what it began, the provider delivers until acknowledged.
FairSpec ==
  /\ Spec
  /\ \A h \in Hooks : WF_vars(Work(h))
  /\ \A b \in Batches : WF_vars(\E h \in Hooks : Deliver(h, b))
-----------------------------------------------------------------------------
\* What was acknowledged is on record, whatever was lost, repeated or refused on the way: a
\* reply of that sender and text, for an agent's STOP the consent, for an escalation the nudge
\* if the agent has an ADM, for a call both its signals.  A message is stored as a reply once per life of the process.
HasReply(m) == \E r \in stored : r.kind = "reply" /\ Sender[r.msg] = Sender[m] /\ Text[r.msg] = Text[m]
HasCall(kind, m) == \E r \in stored : r.kind = kind /\ Text[r.msg] = Text[m]
Replied(m) == ~IsTap(m) /\ Form[m] \in {"text", "button", "image", "audio", "video"}
EffectsStored ==
  \A m \in Messages \ unacked :
    /\ Replied(m) =>
         HasReply(m) /\ Cardinality({r \in stored : r.kind = "reply" /\ r.msg = m}) <= boot
    /\ Intent(m) = "stop" /\ Sender[m] \in Known => plain[m] > 0
    /\ Intent(m) \in {"adm", "commission", "complaint"} /\ Sender[m] \in Assigned => plain[m] > 0
    /\ Form[m] = "voice" => IF Text[m] = None THEN plain[m] > 1
                            ELSE HasCall("outcome", m) /\ HasCall("analyzed", m)

\* A completion takes as many answers as the quiz has questions, however often taps and
\* deliveries are repeated or fail (process_quiz_answer, _emit_training_signal).
CompletionsEarned ==
  \A p \in Phones :
    LET completions == Cardinality({r \in stored : r.kind = "quiz" /\ Sender[r.msg] = p})
    IN  /\ Questions * completions + (IF quiz[p] = None THEN 0 ELSE quiz[p].at) <= answers[p]
        /\ completions <= quizzes

\* Every message is acknowledged in the end: deliveries that wait for each other's keys or
\* lose a race for one are repeated (emit_signal, whatsapp_webhook).
AllAcknowledged == \A m \in Messages : <>(m \notin unacked)
=============================================================================
