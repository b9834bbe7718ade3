---------------------------- MODULE WhatsAppLimits ----------------------------
(***************************************************************************)
(* The WhatsApp half of ChannelRateLimiter and the senders that use it:    *)
(* send_template_to_agent and send_text_to_agent check the consent, the    *)
(* tenant's counter of the current second and the agent's of the current   *)
(* day, call the provider, and count the message afterwards, one Redis     *)
(* pipeline per counter.  Only the tests send yet; what is sent, and by    *)
(* which of the two functions, makes no difference here.                   *)
(***************************************************************************)
EXTENDS Integers, FiniteSets, Functions

CONSTANTS
  Senders, Agents,
  Consenting,       \* agents whose consent is neither denied nor revoked
  MaxPerSecond,     \* WHATSAPP_MAX_PER_SECOND
  SecondTTL,
  MaxPerDay,        \* WHATSAPP_MAX_PER_DAY_PER_AGENT
  DayTTL,
  LastTime,         \* the time the clock stops
  MaxFailures,      \* bound on failures
  Nobody            \* a sender that is not sending

ASSUME WhatsAppAssumption ==
  /\ IsFiniteSet(Senders) /\ Senders # {} /\ Consenting \subseteq Agents /\ Nobody \notin Agents
  /\ {MaxPerSecond, MaxPerDay, LastTime, MaxFailures} \subseteq Nat
  /\ {SecondTTL, DayTTL} \subseteq Nat \ {0}

VARIABLES
  moment,
  second,    \* whatsapp:ps: value and expiry; 0 is "absent" for both
  daily,     \* whatsapp:daily, per agent
  sender,    \* per sender: the agent written to, and the next command
  messages,  \* per agent and time, the messages the provider took
  reported,  \* per agent, its WHATSAPP_MESSAGE_SENT signals
  failures   \* senders that died, and calls that raised after the message was taken

whatsAppVars == <<moment, second, daily, sender, messages, reported, failures>>

Moments == 0 .. LastTime
NoKey == [n |-> 0, dies |-> 0]
AtRest == [to |-> Nobody, at |-> "rest"]
SendPhases == {"daily", "send", "second", "day", "report"}

WhatsAppInit ==
  /\ moment = 0 /\ second = NoKey /\ daily = [a \in Agents |-> NoKey]
  /\ sender = [s \in Senders |-> AtRest]
  /\ messages = [a \in Agents |-> [t \in Moments |-> 0]]
  /\ reported = [a \in Agents |-> 0] /\ failures = 0

Goes(s, from, to) == sender[s].at = from /\ sender' = [sender EXCEPT ![s].at = to]
Stops(s, from) == sender[s].at = from /\ sender' = [sender EXCEPT ![s] = AtRest]
\* INCR and EXPIRE in one pipeline.
Bumped(key, ttl) == [n |-> key.n + 1, dies |-> moment + ttl]
-----------------------------------------------------------------------------
\* The consent of the call and the tenant's limit per second.
StartSend(s, a) ==
  /\ sender[s] = AtRest /\ a \in Consenting /\ second.n < MaxPerSecond
  /\ sender' = [sender EXCEPT ![s] = [to |-> a, at |-> "daily"]]
  /\ UNCHANGED <<moment, second, daily, messages, reported, failures>>

CheckDaily(s) ==
  /\ sender[s].at = "daily"
  /\ LET allowed == daily[sender[s].to].n < MaxPerDay
     IN  \/ allowed /\ Goes(s, "daily", "send")
         \/ ~allowed /\ Stops(s, "daily")
  /\ UNCHANGED <<moment, second, daily, messages, reported, failures>>

ProviderTakes(s) == messages' = [messages EXCEPT ![sender[s].to][moment] = @ + 1]

\* The provider takes the message and answers; it takes the message and the
\* call raises, out of time or over the answer; or it refuses, which raises.
\* The sender catches what is raised and returns without counting.
CallProvider(s) ==
  \/ /\ Goes(s, "send", "second") /\ ProviderTakes(s)
     /\ UNCHANGED <<moment, second, daily, reported, failures>>
  \/ /\ Stops(s, "send") /\ ProviderTakes(s)
     /\ failures < MaxFailures /\ failures' = failures + 1
     /\ UNCHANGED <<moment, second, daily, reported>>
  \/ /\ Stops(s, "send")
     /\ UNCHANGED <<moment, second, daily, messages, reported, failures>>

RecordSecond(s) ==
  /\ Goes(s, "second", "day")
  /\ second' = Bumped(second, SecondTTL)
  /\ UNCHANGED <<moment, daily, messages, reported, failures>>

\* Faulty variant: the day begins with the first message and ends whatever follows.
RecordDayFixed(s) ==
  /\ Goes(s, "day", "report")
  /\ daily' = [daily EXCEPT ![sender[s].to] =
                 IF @.n = 0 THEN Bumped(@, DayTTL) ELSE [@ EXCEPT !.n = @ + 1]]
  /\ UNCHANGED <<moment, second, messages, reported, failures>>

RecordDay(s) ==
  /\ Goes(s, "day", "report")
  /\ daily' = [daily EXCEPT ![sender[s].to] = Bumped(@, DayTTL)]
  /\ UNCHANGED <<moment, second, messages, reported, failures>>

\* The message id is new, so its signal is.
ReportSent(s) ==
  /\ Stops(s, "report")
  /\ reported' = [reported EXCEPT ![sender[s].to] = @ + 1]
  /\ UNCHANGED <<moment, second, daily, messages, failures>>

SenderDies(s) ==
  /\ failures < MaxFailures /\ sender[s] # AtRest
  /\ sender' = [sender EXCEPT ![s] = AtRest]
  /\ failures' = failures + 1
  /\ UNCHANGED <<moment, second, daily, messages, reported>>

Alive(key) == IF key.dies = moment + 1 THEN NoKey ELSE key
WhatsAppTick ==
  /\ moment < LastTime
  /\ moment' = moment + 1
  /\ second' = Alive(second) /\ daily' = [a \in Agents |-> Alive(daily[a])]
  /\ UNCHANGED <<sender, messages, reported, failures>>

WhatsAppNext ==
  \/ WhatsAppTick
  \/ \E s \in Senders :
       \/ \E a \in Agents : StartSend(s, a)
       \/ CheckDaily(s) \/ CallProvider(s) \/ RecordSecond(s)
       \/ RecordDay(s) \/ ReportSent(s) \/ SenderDies(s)

WhatsAppSpec == WhatsAppInit /\ [][WhatsAppNext]_whatsAppVars
-----------------------------------------------------------------------------
WhatsAppTypeOK ==
  /\ moment \in Moments /\ failures \in 0 .. MaxFailures
  /\ second \in [n : Nat, dies : Nat] /\ daily \in [Agents -> [n : Nat, dies : Nat]]
  /\ sender \in [Senders -> {AtRest} \cup [to : Agents, at : SendPhases]]
  /\ messages \in [Agents -> [Moments -> Nat]] /\ reported \in [Agents -> Nat]

Day == {t \in Moments : moment - DayTTL < t}

\* In any 24 hours an agent gets at most its limit, one message of every other
\* sender that had passed the check, and one for every sender that died before
\* it counted its message and every call that raised although the message was
\* taken (check_whatsapp_rate, record_whatsapp_message).
DailyLimit ==
  \A a \in Agents : SumFunctionOnSet(messages[a], Day) <= MaxPerDay + Cardinality(Senders) - 1 + failures
=============================================================================
