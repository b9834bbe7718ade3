----------------------------- MODULE VoiceLimits -----------------------------
(***************************************************************************)
(* The voice half of ChannelRateLimiter for one tenant: a counter of slots *)
(* in use and a sorted set of the calls of the last hour, both Redis keys  *)
(* with a time to live.  Every Redis command is a step of its own; the     *)
(* commands of one pipeline are one step.                                  *)
(*                                                                         *)
(* The callers are external (only the tests use the limiter yet): check,   *)
(* acquire, record and call, release.  A caller may die at any step.       *)
(***************************************************************************)
EXTENDS Integers, FiniteSets, Functions

CONSTANTS
  Callers,
  MaxConcurrent,  \* VOICE_MAX_CONCURRENT
  SlotTTL,        \* EXPIRE of the slot counter
  MaxPerHour,     \* VOICE_MAX_PER_HOUR
  Hour,           \* the sliding window
  HourTTL,        \* EXPIRE of the sorted set
  MaxTime,        \* the time the clock stops
  MaxCrashes,     \* bound on callers that die
  Never           \* a key that does not expire

ASSUME VoiceAssumption ==
  /\ IsFiniteSet(Callers) /\ Callers # {}
  /\ {SlotTTL, Hour, HourTTL} \subseteq Nat \ {0} /\ HourTTL > Hour
  /\ {MaxConcurrent, MaxPerHour, MaxTime, MaxCrashes} \subseteq Nat /\ Never \notin Nat

VARIABLES
  clock,
  slots,     \* voice:concurrent: its value (0 if absent) and when it expires
  hourly,    \* voice:hourly: members per score, and when it expires
  calls,     \* the times at which calls were started
  phase,     \* per caller, the command it is about to send
  crashes,   \* callers that died so far
  lapsed     \* history: the counter once expired under a caller that had incremented it

voiceVars == <<clock, slots, hourly, calls, phase, crashes, lapsed>>

Times == 0 .. MaxTime
\* "granted" and "denied" stand before EXPIRE, "undo" before the DECR of a denied
\* caller, "clamp" between a DECR below zero and SET 0.
Phases == {"idle", "hourly", "acquire", "granted", "denied", "undo",
           "record", "calling", "clamp"}
Absent == [n |-> 0, dies |-> Never]
EmptyWindow == [at |-> [t \in Times |-> 0], dies |-> Never]

VoiceInit ==
  /\ clock = 0 /\ slots = Absent /\ hourly = EmptyWindow
  /\ calls = {}
  /\ phase = [c \in Callers |-> "idle"] /\ crashes = 0 /\ lapsed = FALSE

Goto(c, from, to) == phase[c] = from /\ phase' = [phase EXCEPT ![c] = to]
Holding == {c \in Callers : phase[c] \in {"granted", "denied", "undo", "record", "calling"}}
Running == {c \in Callers : phase[c] \in {"granted", "record", "calling"}}
-----------------------------------------------------------------------------
\* check_voice_rate: GET the slot counter, then prune and count the window.
CheckVoiceConcurrent(c) ==
  /\ slots.n < MaxConcurrent
  /\ Goto(c, "idle", "hourly")
  /\ UNCHANGED <<clock, slots, hourly, calls, crashes, lapsed>>

InWindow(t) == clock - Hour < t /\ t <= clock
Count(per) == SumFunctionOnSet(per, {t \in Times : InWindow(t)})

CheckVoiceHourly(c) ==
  /\ Goto(c, "hourly", IF Count(hourly.at) >= MaxPerHour THEN "idle" ELSE "acquire")
  /\ hourly' = [hourly EXCEPT !.at = [t \in Times |-> IF InWindow(t) THEN @[t] ELSE 0]]
  /\ UNCHANGED <<clock, slots, calls, crashes, lapsed>>

\* Faulty variant: one call too many.
IncrSlotsInclusive(c) ==
  /\ Goto(c, "acquire", IF slots.n > MaxConcurrent THEN "denied" ELSE "granted")
  /\ slots' = [slots EXCEPT !.n = @ + 1]
  /\ UNCHANGED <<clock, hourly, calls, crashes, lapsed>>

\* acquire_voice_slot: INCR, EXPIRE, and DECR for a caller above the limit.
IncrSlots(c) ==
  /\ Goto(c, "acquire", IF slots.n + 1 > MaxConcurrent THEN "denied" ELSE "granted")
  /\ slots' = [slots EXCEPT !.n = @ + 1]
  /\ UNCHANGED <<clock, hourly, calls, crashes, lapsed>>

\* Faulty variant: only the first slot sets the expiry.
ExpireSlotsFirst(c) ==
  /\ \/ Goto(c, "granted", "record")
     \/ Goto(c, "denied", "undo")
  /\ slots' = IF slots.n = 1 THEN [slots EXCEPT !.dies = clock + SlotTTL] ELSE slots
  /\ UNCHANGED <<clock, hourly, calls, crashes, lapsed>>

\* EXPIRE does nothing to an absent key; a key that SET 0 left is not absent.
ExpireSlots(c) ==
  /\ \/ Goto(c, "granted", "record")
     \/ Goto(c, "denied", "undo")
  /\ slots' \in {[slots EXCEPT !.dies = clock + SlotTTL]} \cup ({slots} \cap {Absent})
  /\ UNCHANGED <<clock, hourly, calls, crashes, lapsed>>

DecrDenied(c) ==
  /\ Goto(c, "undo", "idle")
  /\ slots' = [slots EXCEPT !.n = @ - 1]
  /\ UNCHANGED <<clock, hourly, calls, crashes, lapsed>>

\* Faulty variant: the expiry of the sorted set is not renewed.
RecordVoiceCallOnce(c) ==
  /\ Goto(c, "record", "calling")
  /\ hourly' = [at   |-> [hourly.at EXCEPT ![clock] = @ + 1],
                dies |-> IF hourly.dies = Never THEN clock + HourTTL ELSE hourly.dies]
  /\ calls' = calls \cup {clock}
  /\ UNCHANGED <<clock, slots, crashes, lapsed>>

\* record_voice_call: a call with the score of another is the same member.
RecordVoiceCall(c) ==
  /\ Goto(c, "record", "calling")
  /\ \E new \in IF hourly.at[clock] > 0 THEN {0, 1} ELSE {1} :
       hourly' = [at |-> [hourly.at EXCEPT ![clock] = @ + new], dies |-> clock + HourTTL]
  /\ calls' = calls \cup {clock}
  /\ UNCHANGED <<clock, slots, crashes, lapsed>>

\* release_voice_slot: DECR, and SET 0, which also drops the expiry, if that is negative.
DecrSlots(c) ==
  /\ Goto(c, "calling", IF slots.n - 1 < 0 THEN "clamp" ELSE "idle")
  /\ slots' = [slots EXCEPT !.n = @ - 1]
  /\ UNCHANGED <<clock, hourly, calls, crashes, lapsed>>

ClampSlots(c) ==
  /\ Goto(c, "clamp", "idle")
  /\ slots' = Absent
  /\ UNCHANGED <<clock, hourly, calls, crashes, lapsed>>

CallerDies(c) ==
  /\ crashes < MaxCrashes /\ phase[c] # "idle"
  /\ phase' = [phase EXCEPT ![c] = "idle"]
  /\ crashes' = crashes + 1
  /\ UNCHANGED <<clock, slots, hourly, calls, lapsed>>

\* Redis drops the keys whose time has come.
VoiceTick ==
  /\ clock < MaxTime
  /\ clock' = clock + 1
  /\ slots' = IF slots.dies = clock + 1 THEN Absent ELSE slots
  /\ hourly' = IF hourly.dies = clock + 1 THEN EmptyWindow ELSE hourly
  /\ lapsed' = (lapsed \/ (slots.dies = clock + 1 /\ Holding # {}))
  /\ UNCHANGED <<calls, phase, crashes>>

VoiceNext ==
  \/ VoiceTick
  \/ \E c \in Callers :
       \/ CheckVoiceConcurrent(c) \/ CheckVoiceHourly(c)
       \/ IncrSlots(c) \/ ExpireSlots(c) \/ DecrDenied(c)
       \/ RecordVoiceCall(c) \/ DecrSlots(c) \/ ClampSlots(c) \/ CallerDies(c)

VoiceSpec == VoiceInit /\ [][VoiceNext]_voiceVars
-----------------------------------------------------------------------------
VoiceTypeOK ==
  /\ clock \in Times /\ slots \in [n : Int, dies : Nat \cup {Never}]
  /\ hourly \in [at : [Times -> Nat], dies : Nat \cup {Never}]
  /\ calls \subseteq Times /\ phase \in [Callers -> Phases]
  /\ crashes \in 0 .. MaxCrashes /\ lapsed \in BOOLEAN

\* Never more calls at a time than the limit, however the checks, increments and
\* releases of the callers interleave and whoever dies, as long as the counter does not
\* expire under them (acquire_voice_slot, release_voice_slot).
CallsWithinSlots == lapsed \/ Cardinality(Running) <= MaxConcurrent

\* A full counter will expire, so dead callers cannot block the tenant for good: that
\* takes as many deaths between INCR and EXPIRE as there are slots
\* (the "safety net" of acquire_voice_slot).
FullCounterExpires ==
  (/\ slots.n >= MaxConcurrent /\ slots.dies = Never
   /\ \A c \in Callers : phase[c] \notin {"granted", "denied"}) => crashes >= MaxConcurrent

CallsRemembered == \A t \in Times : t \in calls /\ InWindow(t) => hourly.at[t] > 0

\* The window of the last hour never forgets a call, and holds at most the limit and one
\* call of every other caller that had been cleared (check_voice_rate, record_voice_call).
HourlyLimit ==
  Count(hourly.at) <= MaxPerHour + Cardinality(Callers) - 1 /\ CallsRemembered
=============================================================================
