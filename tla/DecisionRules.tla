---------------------------- MODULE DecisionRules ----------------------------
(***************************************************************************)
(* What the decision engine decides for an agent: the chain of rules and   *)
(* the five constraints, as functions of what is known of the agent.       *)
(*                                                                         *)
(* Times are half hours since a midnight in UTC; India is 11 of them ahead.*)
(***************************************************************************)
EXTENDS Integers, Sequences

CONSTANT None   \* a value that is not there

Day == 48
Days(from, to) == (to - from) \div Day
-----------------------------------------------------------------------------
(* The rules.                                                              *)

States == {"onboarded", "licensed", "first_sale", "active", "productive", "at_risk", "dormant",
           "lapsed", "terminated"}
Consents == {"not_asked", "granted", "denied", "revoked", "expired"}

\* What evaluations read of an agent: its row, and the contacts of the month.
Facts(Times) ==
  [state : States, since : Times, positive : Times \cup {None}, contact : Times \cup {None},
   voice : Consents, whatsapp : Consents, contacts : Nat, policies : Nat,
   expiry : Times \cup {None}, adm : BOOLEAN]

\* The fields of DecisionInput that no caller fills keep their defaults.
Unfilled ==
  [previous |-> None, lastSale |-> None, reactivations |-> 0, modulesCompleted |-> 0,
   trainingHours |-> 0, admClass |-> "AVERAGE", dnd |-> FALSE]

Chain ==
  <<"URGENT_001", "URGENT_002", "OPP_001", "OPP_002", "OPP_003", "PROACTIVE_001",
    "PROACTIVE_002", "PROACTIVE_003", "PROACTIVE_004", "ADM_COMP_001">>
Rules == {Chain[k] : k \in DOMAIN Chain} \cup {"DEFAULT"}

\* The agents a rule applies to; `read` is when the evaluation started and
\* `now` when the rule is looked at.
Matches(rule, f, read, now) ==
  LET inState == Days(f.since, read)
      silent(n) == f.contact # None /\ Days(f.contact, now) >= n
  IN
  CASE rule = "URGENT_001" ->
         f.expiry # None /\ Days(now, f.expiry) < 60 /\ Unfilled.trainingHours > 10
    [] rule = "URGENT_002" ->
         f.state = "at_risk" /\ Unfilled.previous = "productive" /\ inState < 14
    [] rule = "OPP_001" ->
         f.state = "dormant" /\ f.positive # None /\ Days(f.positive, now) <= 7
    [] rule = "OPP_002" -> f.state = "onboarded" /\ inState > 3 /\ f.contact = None
    [] rule = "OPP_003" ->
         f.policies = 1 /\ Unfilled.lastSale # None /\ Days(Unfilled.lastSale, now) <= 3
    [] rule = "PROACTIVE_001" -> f.state = "licensed" /\ Unfilled.modulesCompleted < 3
    [] rule = "PROACTIVE_002" ->
         f.state = "active" /\ (silent(14) \/ (f.contact = None /\ inState >= 14))
    [] rule = "PROACTIVE_003" -> f.state = "dormant" /\ Unfilled.reactivations < 3
    [] rule = "PROACTIVE_004" -> f.state = "productive" /\ silent(30)
    [] rule = "ADM_COMP_001" -> Unfilled.admClass = "UNRESPONSIVE"

\* The first rule of the chain that applies.
FirstMatch(f, read, now) ==
  LET applies(k) == Matches(Chain[k], f, read, now) IN
  IF \E k \in DOMAIN Chain : applies(k)
  THEN Chain[CHOOSE k \in DOMAIN Chain : applies(k) /\ \A j \in 1 .. k - 1 : ~applies(j)]
  ELSE "DEFAULT"

ActionOf(rule) ==
  CASE rule \in {"URGENT_001", "PROACTIVE_003"} -> "start_playbook"
    [] rule \in {"URGENT_002", "OPP_001"} -> "send_nudge_to_adm"
    [] rule = "OPP_002" -> "schedule_voice_call"
    [] rule = "OPP_003" -> "celebrate"
    [] rule = "PROACTIVE_001" -> "send_training"
    [] rule \in {"PROACTIVE_002", "PROACTIVE_004"} -> "send_whatsapp"
    [] rule = "ADM_COMP_001" -> "escalate"
    [] rule = "DEFAULT" -> "do_nothing"
Actions == {ActionOf(r) : r \in Rules}

ChannelOf(rule) ==
  CASE rule \in {"URGENT_002", "OPP_001"} -> "whatsapp_adm"
    [] rule = "OPP_002" -> "voice_ai"
    [] rule = "DEFAULT" -> None
    [] OTHER -> "whatsapp_bot"
Channels == {"whatsapp_adm", "voice_ai", "whatsapp_bot"}

ASSUME NoneAssumption == None \notin Int \cup Channels \cup States
-----------------------------------------------------------------------------
(* The constraints.                                                        *)

Opening == 18   \* 09:00 in India, in half hours of its day
Closing == 42   \* 21:00
India == 11

InHours(t) == (t + India) % Day \in Opening .. Closing - 1

\* Faulty variant: a call too late in the evening is moved to the morning
\* of the same day.
DeferToSameDay(t) == ((t + India) \div Day) * Day + Opening - India

\* The next 09:00 in India, for a time outside the hours.
DeferTo(t) ==
  LET date == (t + India) \div Day
      late == (t + India) % Day >= Closing
  IN (IF late THEN date + 1 ELSE date) * Day + Opening - India

Blocked(f, channel) ==
  LET consent == CASE channel = "voice_ai" -> f.voice
                   [] channel \in {"whatsapp_bot", "whatsapp_adm"} -> f.whatsapp
                   [] OTHER -> "granted"
  IN \/ f.state \in {"lapsed", "terminated"}
     \/ consent \in {"denied", "revoked"}
     \/ channel = "voice_ai" /\ Unfilled.dnd

\* What is decided: the rule, the action, its channel and its time.  Outside
\* the calling hours a call is put off, before the contacts are counted.
Decide(f, read, now) ==
  LET rule == FirstMatch(f, read, now)
      channel == ChannelOf(rule)
      late == channel = "voice_ai" /\ ~InHours(now)
      nothing == [rule |-> rule, action |-> "do_nothing", channel |-> None, scheduled |-> now]
      chosen == [rule |-> rule, action |-> ActionOf(rule), channel |-> channel,
                 scheduled |-> IF late THEN DeferTo(now) ELSE now]
  IN IF Blocked(f, channel) \/ (~late /\ f.contacts >= 10) THEN nothing ELSE chosen
=============================================================================
