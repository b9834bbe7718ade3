---------------------------- MODULE CountingProofs ----------------------------
(***************************************************************************)
(* What holds, for any number of callers, senders, requests and rows, of   *)
(* what is limited or reported by counting: the rate limiter's slots, calls *)
(* and messages, the templates in service, and the figures of the reports. *)
(***************************************************************************)
EXTENDS VoiceLimits, WhatsAppLimits, TemplateVersions, ReportFigures, Functions, FiniteSetTheorems, SequenceTheorems, WellFoundedInduction, TLAPS

\* The counter covers everyone that has incremented it and not taken that back, so nobody
\* takes it below zero, until it expires under one of them.
SlotInv ==
  ~lapsed => /\ slots.n >= Cardinality(Holding)
             /\ Cardinality(Running) <= MaxConcurrent
             /\ \A c \in Callers : phase[c] # "clamp"

LEMMA HoldingFinite ==
  /\ IsFiniteSet(Holding) /\ IsFiniteSet(Running) /\ Running \subseteq Holding
  /\ Cardinality(Holding) \in Nat /\ Cardinality(Running) \in Nat
  /\ Cardinality(Running) <= Cardinality(Holding)
<1>1. Running \subseteq Holding /\ Holding \subseteq Callers
  BY DEF Running, Holding
<1>2. IsFiniteSet(Callers)
  BY VoiceAssumption
<1>3. IsFiniteSet(Holding) /\ IsFiniteSet(Running)
  BY <1>1, <1>2, FS_Subset
<1>4. QED
  BY <1>1, <1>3, FS_Subset, FS_CardinalityType

\* The same of the next state.
LEMMA HoldingFiniteNext ==
  /\ IsFiniteSet(Holding') /\ IsFiniteSet(Running')
  /\ Cardinality(Holding') \in Nat /\ Cardinality(Running') \in Nat
  /\ Cardinality(Running') <= Cardinality(Holding')
<1>1. Running' \subseteq Holding' /\ Holding' \subseteq Callers
  BY DEF Running, Holding
<1>2. IsFiniteSet(Callers)
  BY VoiceAssumption
<1>3. IsFiniteSet(Holding') /\ IsFiniteSet(Running')
  BY <1>1, <1>2, FS_Subset
<1>4. QED
  BY <1>1, <1>3, FS_Subset, FS_CardinalityType

-----------------------------------------------------------------------------
LEMMA InitVoiceType == VoiceInit => VoiceTypeOK
<1> SUFFICES ASSUME VoiceInit PROVE VoiceTypeOK
  OBVIOUS
<1>1. MaxTime \in Nat /\ MaxCrashes \in Nat
  BY VoiceAssumption
<1>2. clock \in Times /\ crashes \in 0 .. MaxCrashes
  BY <1>1 DEF VoiceInit, Times
<1>3. hourly \in [at : [Times -> Nat], dies : Nat \cup {Never}]
  BY DEF VoiceInit, EmptyWindow
<1>4. slots \in [n : Int, dies : Nat \cup {Never}]
  BY DEF VoiceInit, Absent
<1>5. QED
  BY <1>2, <1>3, <1>4 DEF VoiceInit, VoiceTypeOK, Phases

\* Each command of the limiter keeps the types.
LEMMA NextVoiceType == VoiceTypeOK /\ [VoiceNext]_voiceVars => VoiceTypeOK'
<1> SUFFICES ASSUME VoiceTypeOK, [VoiceNext]_voiceVars PROVE VoiceTypeOK'
  OBVIOUS
<1> USE VoiceAssumption DEF VoiceTypeOK
<1>1. ASSUME NEW c \in Callers, CheckVoiceConcurrent(c) PROVE VoiceTypeOK'
  BY <1>1 DEF CheckVoiceConcurrent, Goto, Phases
<1>2. ASSUME NEW c \in Callers, CheckVoiceHourly(c) PROVE VoiceTypeOK'
  <2>1. hourly' \in [at : [Times -> Nat], dies : Nat \cup {Never}]
    BY <1>2 DEF CheckVoiceHourly
  <2>2. phase' \in [Callers -> Phases]
    BY <1>2 DEF CheckVoiceHourly, Goto, Phases
  <2>3. QED
    BY <1>2, <2>1, <2>2 DEF CheckVoiceHourly
<1>3. ASSUME NEW c \in Callers, IncrSlots(c) PROVE VoiceTypeOK'
  BY <1>3 DEF IncrSlots, Goto, Phases
<1>4. ASSUME NEW c \in Callers, ExpireSlots(c) PROVE VoiceTypeOK'
  <2>1. phase' \in [Callers -> Phases]
    BY <1>4 DEF ExpireSlots, Goto, Phases
  <2>2. SlotTTL \in Nat /\ clock \in Nat
    BY DEF Times
  <2>3. slots' = [slots EXCEPT !.dies = clock + SlotTTL] \/ slots' = slots
    BY <1>4 DEF ExpireSlots
  <2>4. slots' \in [n : Int, dies : Nat \cup {Never}]
    BY <2>2, <2>3
  <2>5. QED
    BY <1>4, <2>1, <2>4 DEF ExpireSlots
<1>5. ASSUME NEW c \in Callers, DecrDenied(c) PROVE VoiceTypeOK'
  BY <1>5 DEF DecrDenied, Goto, Phases
<1>6. ASSUME NEW c \in Callers, RecordVoiceCall(c) PROVE VoiceTypeOK'
  <2>1. phase' \in [Callers -> Phases] /\ calls' \subseteq Times
    BY <1>6 DEF RecordVoiceCall, Goto, Phases
  <2>2. PICK new \in {0, 1} :
          hourly' = [at |-> [hourly.at EXCEPT ![clock] = @ + new], dies |-> clock + HourTTL]
    BY <1>6 DEF RecordVoiceCall
  <2>3. hourly' \in [at : [Times -> Nat], dies : Nat \cup {Never}]
    BY <2>2 DEF Times
  <2>4. QED
    BY <1>6, <2>1, <2>3 DEF RecordVoiceCall
<1>7. ASSUME NEW c \in Callers, DecrSlots(c) PROVE VoiceTypeOK'
  BY <1>7 DEF DecrSlots, Goto, Phases
<1>8. ASSUME NEW c \in Callers, ClampSlots(c) PROVE VoiceTypeOK'
  BY <1>8 DEF ClampSlots, Goto, Phases, Absent
<1>9. ASSUME NEW c \in Callers, CallerDies(c) PROVE VoiceTypeOK'
  BY <1>9 DEF CallerDies, Phases
<1>10. ASSUME VoiceTick PROVE VoiceTypeOK'
  BY <1>10 DEF VoiceTick, Times, Absent, EmptyWindow
<1>11. CASE UNCHANGED voiceVars
  BY <1>11 DEF voiceVars
<1>12. QED
  BY <1>1, <1>2, <1>3, <1>4, <1>5, <1>6, <1>7, <1>8, <1>9, <1>10, <1>11 DEF VoiceNext

\* The slots, the window and the callers keep their types (ChannelRateLimiter).
THEOREM VoiceTypeCorrect == VoiceSpec => []VoiceTypeOK
BY InitVoiceType, NextVoiceType, PTL DEF VoiceSpec
-----------------------------------------------------------------------------
NoClamp == \A c \in Callers : phase[c] # "clamp"

\* A step that keeps the counter, the holders and the running calls.
LEMMA SlotKeeps ==
  ASSUME SlotInv, lapsed' = lapsed, slots'.n = slots.n, Holding' = Holding, Running' = Running,
         NoClamp => NoClamp'
  PROVE  SlotInv'
BY DEF SlotInv, NoClamp

\* A step by which a holder stops holding and the counter goes down by one at most.
LEMMA SlotLeaves ==
  ASSUME VoiceTypeOK, SlotInv, lapsed' = lapsed, NEW c \in Holding,
         slots'.n \in Int, slots'.n >= slots.n - 1,
         Holding' = Holding \ {c}, Running' \subseteq Running, ~lapsed => NoClamp'
  PROVE  SlotInv'
<1> SUFFICES ASSUME ~lapsed PROVE SlotInv'
  BY DEF SlotInv
<1>1. Cardinality(Holding') = Cardinality(Holding) - 1
  BY HoldingFinite, FS_RemoveElement
<1>2. Cardinality(Running') <= Cardinality(Running)
  BY HoldingFinite, FS_Subset
<1>3. PICK h \in Nat, r \in Nat, k \in Nat :
        h = Cardinality(Holding) /\ r = Cardinality(Running) /\ k = Cardinality(Running')
  BY HoldingFinite, HoldingFiniteNext
<1>4. slots.n >= h /\ r <= MaxConcurrent
  BY <1>3 DEF SlotInv
<1>5. slots'.n >= h - 1 /\ k <= MaxConcurrent
  BY <1>2, <1>3, <1>4, VoiceAssumption DEF VoiceTypeOK
<1>6. QED
  BY <1>1, <1>3, <1>5 DEF SlotInv, NoClamp

\* INCR: the caller becomes a holder, and runs a call only if the counter has room for it.
LEMMA SlotIncr ==
  ASSUME VoiceTypeOK, SlotInv, NEW c \in Callers, IncrSlots(c)
  PROVE  SlotInv'
<1> SUFFICES ASSUME ~lapsed PROVE SlotInv'
  BY DEF SlotInv, IncrSlots
<1>1. phase[c] = "acquire" /\ c \notin Holding /\ slots'.n = slots.n + 1
  BY DEF IncrSlots, Goto, Holding, VoiceTypeOK
<1>2. Holding' = Holding \cup {c}
  BY <1>1 DEF IncrSlots, Goto, Holding, VoiceTypeOK
<1>3. Cardinality(Holding') = Cardinality(Holding) + 1
  BY <1>1, <1>2, HoldingFinite, FS_AddElement
<1>4. PICK h \in Nat, r \in Nat, k \in Nat :
        h = Cardinality(Holding) /\ r = Cardinality(Running) /\ k = Cardinality(Running')
  BY HoldingFinite, HoldingFiniteNext
<1>5. slots.n \in Int /\ slots.n >= h /\ r <= MaxConcurrent /\ k <= h + 1
  BY <1>3, <1>4, HoldingFiniteNext DEF SlotInv, VoiceTypeOK
<1>6. NoClamp'
  BY DEF NoClamp, SlotInv, IncrSlots, Goto, VoiceTypeOK
<1>7. k <= MaxConcurrent
  <2>1. CASE slots.n + 1 > MaxConcurrent
    <3>1. Running' = Running
      BY <1>1, <2>1 DEF IncrSlots, Goto, Running, VoiceTypeOK
    <3>2. QED
      BY <3>1, <1>4, <1>5
  <2>2. CASE ~(slots.n + 1 > MaxConcurrent)
    BY <2>2, <1>5, VoiceAssumption
  <2>3. QED
    BY <2>1, <2>2
<1>8. QED
  BY <1>1, <1>3, <1>4, <1>5, <1>6, <1>7 DEF SlotInv, NoClamp

\* Each step keeps the invariant; the commands of the release are the interesting ones: while
\* the key lives the counter is at least one before its DECR, so the clamp is never reached.
LEMMA NextSlot == VoiceTypeOK /\ SlotInv /\ [VoiceNext]_voiceVars => SlotInv'
<1> SUFFICES ASSUME VoiceTypeOK, SlotInv, [VoiceNext]_voiceVars PROVE SlotInv'
  OBVIOUS
<1>1. ASSUME NEW c \in Callers, CheckVoiceConcurrent(c) \/ CheckVoiceHourly(c) PROVE SlotInv'
  <2>1. /\ Holding' = Holding /\ Running' = Running /\ (NoClamp => NoClamp')
        /\ lapsed' = lapsed /\ slots'.n = slots.n
    BY <1>1 DEF CheckVoiceConcurrent, CheckVoiceHourly, Goto, Holding, Running, NoClamp, VoiceTypeOK
  <2>2. QED
    BY <2>1, SlotKeeps
<1>2. ASSUME NEW c \in Callers, ExpireSlots(c) \/ RecordVoiceCall(c) PROVE SlotInv'
  <2>1. slots'.n = slots.n /\ lapsed' = lapsed
    BY <1>2 DEF ExpireSlots, RecordVoiceCall, VoiceTypeOK
  <2>2. Holding' = Holding /\ Running' = Running /\ (NoClamp => NoClamp')
    BY <1>2 DEF ExpireSlots, RecordVoiceCall, Goto, Holding, Running, NoClamp, VoiceTypeOK
  <2>3. QED
    BY <2>1, <2>2, SlotKeeps
<1>3. ASSUME NEW c \in Callers, DecrDenied(c) PROVE SlotInv'
  <2>1. /\ c \in Holding /\ Holding' = Holding \ {c} /\ Running' = Running
        /\ slots'.n = slots.n - 1 /\ lapsed' = lapsed /\ (NoClamp => NoClamp')
    BY <1>3 DEF DecrDenied, Goto, Holding, Running, NoClamp, VoiceTypeOK
  <2>2. slots'.n \in Int /\ slots'.n >= slots.n - 1 /\ (~lapsed => NoClamp')
    BY <2>1 DEF VoiceTypeOK, SlotInv, NoClamp
  <2>3. QED
    BY <2>1, <2>2, SlotLeaves
<1>4. ASSUME NEW c \in Callers, DecrSlots(c) PROVE SlotInv'
  <2>1. /\ c \in Holding /\ Holding' = Holding \ {c} /\ Running' \subseteq Running
        /\ slots'.n = slots.n - 1 /\ lapsed' = lapsed
    BY <1>4 DEF DecrSlots, Goto, Holding, Running, VoiceTypeOK
  <2>2. slots'.n \in Int /\ slots'.n >= slots.n - 1
    BY <2>1 DEF VoiceTypeOK
  <2>3. ~lapsed => NoClamp'
    <3> SUFFICES ASSUME ~lapsed PROVE NoClamp'
      OBVIOUS
    <3>1. PICK h \in Nat : h = Cardinality(Holding) /\ h # 0
      BY <2>1, HoldingFinite, FS_EmptySet
    <3>2. ~(slots.n - 1 < 0)
      BY <3>1 DEF SlotInv, VoiceTypeOK
    <3>3. QED
      BY <1>4, <3>2 DEF DecrSlots, Goto, NoClamp, SlotInv, VoiceTypeOK
  <2>4. QED
    BY <2>1, <2>2, <2>3, SlotLeaves
<1>5. ASSUME NEW c \in Callers, ClampSlots(c) PROVE SlotInv'
  BY <1>5 DEF ClampSlots, Goto, SlotInv
<1>6. ASSUME NEW c \in Callers, CallerDies(c) PROVE SlotInv'
  <2>1. /\ lapsed' = lapsed /\ slots' = slots /\ Running' \subseteq Running /\ (NoClamp => NoClamp')
        /\ Holding' = Holding \ {c}
    BY <1>6 DEF CallerDies, Holding, Running, NoClamp, VoiceTypeOK
  <2>2. CASE c \in Holding
    <3>1. slots'.n \in Int /\ slots'.n >= slots.n - 1 /\ (~lapsed => NoClamp')
      BY <2>1 DEF VoiceTypeOK, SlotInv, NoClamp
    <3>2. QED
      BY <2>1, <2>2, <3>1, SlotLeaves
  <2>3. CASE c \notin Holding
    <3>1. Holding' = Holding /\ Running' = Running
      BY <1>6, <2>3 DEF CallerDies, Holding, Running, VoiceTypeOK
    <3>2. QED
      BY <2>1, <3>1, SlotKeeps
  <2>4. QED
    BY <2>2, <2>3
<1>7. ASSUME VoiceTick PROVE SlotInv'
  <2>1. Holding' = Holding /\ Running' = Running /\ (NoClamp => NoClamp')
    BY <1>7 DEF VoiceTick, Holding, Running, NoClamp
  <2>2. CASE slots.dies = clock + 1 /\ Holding # {}
    BY <1>7, <2>2 DEF VoiceTick, SlotInv
  <2>3. CASE slots.dies = clock + 1 /\ Holding = {}
    <3>1. slots'.n = 0 /\ Cardinality(Holding') = 0 /\ lapsed' = lapsed
      BY <1>7, <2>1, <2>3, FS_EmptySet DEF VoiceTick, Absent, VoiceTypeOK
    <3>2. QED
      BY <2>1, <3>1 DEF SlotInv, NoClamp
  <2>4. CASE slots.dies # clock + 1
    <3>1. slots' = slots /\ lapsed' = lapsed
      BY <1>7, <2>4 DEF VoiceTick, VoiceTypeOK
    <3>2. QED
      BY <2>1, <3>1, SlotKeeps
  <2>5. QED
    BY <2>2, <2>3, <2>4
<1>8. CASE UNCHANGED voiceVars
  BY <1>8 DEF voiceVars, SlotInv, Holding, Running
<1>9. QED
  BY <1>1, <1>2, <1>3, <1>4, <1>5, <1>6, <1>7, <1>8, SlotIncr DEF VoiceNext

\* However checks, increments, expiries and releases interleave and whoever dies, no more calls
\* run than the limit allows until the counter expires under its holders, for any number of
\* callers and any limit (acquire_voice_slot, release_voice_slot).
THEOREM SlotsLimitCalls == VoiceSpec => []CallsWithinSlots
<1>1. VoiceInit => SlotInv
  <2> SUFFICES ASSUME VoiceInit PROVE SlotInv
    OBVIOUS
  <2>1. Holding = {} /\ Running = {} /\ slots.n = 0
    BY DEF VoiceInit, Holding, Running, Absent
  <2>2. QED
    BY <2>1, FS_EmptySet, VoiceAssumption DEF SlotInv, VoiceInit
<1>2. SlotInv => CallsWithinSlots
  BY DEF SlotInv, CallsWithinSlots
<1>3. QED
  BY <1>1, <1>2, VoiceTypeCorrect, NextSlot, PTL DEF VoiceSpec
-----------------------------------------------------------------------------
\* Callers between INCR and EXPIRE.
Incremented == {c \in Callers : phase[c] \in {"granted", "denied"}}

\* A counter that does not expire counts only callers that have not sent EXPIRE yet, or died
\* before they could.
LapseInv == slots.dies = Never => slots.n <= Cardinality(Incremented) + crashes

LEMMA IncrementedFinite ==
  /\ IsFiniteSet(Incremented) /\ Cardinality(Incremented) \in Nat
  /\ IsFiniteSet(Incremented') /\ Cardinality(Incremented') \in Nat
<1>1. Incremented \subseteq Callers /\ Incremented' \subseteq Callers
  BY DEF Incremented
<1>2. QED
  BY <1>1, VoiceAssumption, FS_Subset, FS_CardinalityType

\* A step that sends neither INCR nor EXPIRE: the counter does not grow.
LEMMA LapseKeeps ==
  ASSUME VoiceTypeOK, LapseInv, Incremented' = Incremented, crashes' = crashes,
         slots'.n \in Int, slots'.n <= slots.n, slots'.dies = slots.dies
  PROVE  LapseInv'
<1>1. slots.n \in Int /\ crashes \in Nat
  BY DEF VoiceTypeOK
<1>2. QED
  BY <1>1, IncrementedFinite DEF LapseInv

LEMMA NextLapse == VoiceTypeOK /\ LapseInv /\ [VoiceNext]_voiceVars => LapseInv'
<1> SUFFICES ASSUME VoiceTypeOK, LapseInv, [VoiceNext]_voiceVars PROVE LapseInv'
  OBVIOUS
<1>1. slots \in [n : Int, dies : Nat \cup {Never}] /\ crashes \in Nat /\ clock \in Nat
      /\ phase \in [Callers -> Phases]
  BY DEF VoiceTypeOK, Times
<1>2. Absent.n = 0 /\ Absent.dies = Never
  BY DEF Absent
<1>3. ASSUME slots' = Absent, crashes' = crashes PROVE LapseInv'
  BY <1>1, <1>2, <1>3, IncrementedFinite DEF LapseInv
<1>4. ASSUME NEW c \in Callers, CheckVoiceConcurrent(c) \/ CheckVoiceHourly(c) \/ RecordVoiceCall(c)
      PROVE  LapseInv'
  <2>1. Incremented' = Incremented /\ crashes' = crashes /\ slots' = slots
    BY <1>1, <1>4 DEF CheckVoiceConcurrent, CheckVoiceHourly, RecordVoiceCall, Goto, Incremented
  <2>2. QED
    BY <1>1, <2>1, LapseKeeps
<1>5. ASSUME NEW c \in Callers, DecrDenied(c) \/ DecrSlots(c) PROVE LapseInv'
  <2>1. Incremented' = Incremented /\ crashes' = crashes /\ slots' = [slots EXCEPT !.n = @ - 1]
    BY <1>1, <1>5 DEF DecrDenied, DecrSlots, Goto, Incremented
  <2>2. slots'.n = slots.n - 1 /\ slots'.dies = slots.dies
    BY <1>1, <2>1
  <2>3. QED
    BY <1>1, <2>1, <2>2, LapseKeeps
<1>6. ASSUME NEW c \in Callers, IncrSlots(c) PROVE LapseInv'
  <2>1. /\ c \notin Incremented /\ Incremented' = Incremented \cup {c} /\ crashes' = crashes
        /\ slots' = [slots EXCEPT !.n = @ + 1]
    BY <1>1, <1>6 DEF IncrSlots, Goto, Incremented
  <2>2. slots'.n = slots.n + 1 /\ slots'.dies = slots.dies
    BY <1>1, <2>1
  <2>3. Cardinality(Incremented') = Cardinality(Incremented) + 1
    BY <2>1, IncrementedFinite, FS_AddElement
  <2>4. QED
    BY <1>1, <2>1, <2>2, <2>3, IncrementedFinite DEF LapseInv
<1>7. ASSUME NEW c \in Callers, ExpireSlots(c) PROVE LapseInv'
  <2>1. slots' = [slots EXCEPT !.dies = clock + SlotTTL] \/ slots' = Absent
    BY <1>7 DEF ExpireSlots
  <2>2. crashes' = crashes
    BY <1>7 DEF ExpireSlots
  <2>3. CASE slots' = [slots EXCEPT !.dies = clock + SlotTTL]
    <3>1. slots'.dies = clock + SlotTTL /\ clock + SlotTTL \in Nat
      BY <1>1, <2>3, VoiceAssumption
    <3>2. slots'.dies # Never
      BY <3>1, VoiceAssumption
    <3>3. QED
      BY <3>2 DEF LapseInv
  <2>4. QED
    BY <1>3, <2>1, <2>2, <2>3
<1>8. ASSUME NEW c \in Callers, ClampSlots(c) PROVE LapseInv'
  BY <1>3, <1>8 DEF ClampSlots
<1>9. ASSUME NEW c \in Callers, CallerDies(c) PROVE LapseInv'
  <2>1. Incremented' = Incremented \ {c} /\ crashes' = crashes + 1 /\ slots' = slots
    BY <1>1, <1>9 DEF CallerDies, Incremented
  <2>2. Cardinality(Incremented') >= Cardinality(Incremented) - 1
    <3>1. CASE c \in Incremented
      BY <2>1, <3>1, IncrementedFinite, FS_RemoveElement
    <3>2. CASE c \notin Incremented
      <4>1. Incremented' = Incremented
        BY <2>1, <3>2
      <4>2. QED
        BY <4>1, IncrementedFinite
    <3>3. QED
      BY <3>1, <3>2
  <2>3. QED
    BY <1>1, <2>1, <2>2, IncrementedFinite DEF LapseInv
<1>10. ASSUME VoiceTick PROVE LapseInv'
  <2>1. crashes' = crashes /\ Incremented' = Incremented
    BY <1>10 DEF VoiceTick, Incremented
  <2>2. slots' = Absent \/ slots' = slots
    BY <1>10 DEF VoiceTick
  <2>3. QED
    BY <1>1, <1>3, <2>1, <2>2, LapseKeeps
<1>11. CASE UNCHANGED voiceVars
  BY <1>11 DEF voiceVars, LapseInv, Incremented
<1>12. QED
  BY <1>4, <1>5, <1>6, <1>7, <1>8, <1>9, <1>10, <1>11 DEF VoiceNext

\* Dead callers cannot block a tenant for good, unless as many of them died between INCR and
\* EXPIRE as there are slots, for any number of callers and any limit (acquire_voice_slot).
THEOREM FullSlotsExpire == VoiceSpec => []FullCounterExpires
<1>1. VoiceInit => LapseInv
  <2> SUFFICES ASSUME VoiceInit PROVE LapseInv
    OBVIOUS
  <2>1. slots.n = 0 /\ crashes = 0
    BY DEF VoiceInit, Absent
  <2>2. QED
    BY <2>1, IncrementedFinite DEF LapseInv
<1>2. VoiceTypeOK /\ LapseInv => FullCounterExpires
  <2> SUFFICES ASSUME VoiceTypeOK, LapseInv, slots.n >= MaxConcurrent, slots.dies = Never,
                      \A c \in Callers : phase[c] \notin {"granted", "denied"}
               PROVE  crashes >= MaxConcurrent
    BY DEF FullCounterExpires
  <2>1. Incremented = {}
    BY DEF Incremented
  <2>2. slots.n <= crashes
    <3>1. crashes \in Nat
      BY DEF VoiceTypeOK
    <3>2. QED
      BY <2>1, <3>1, FS_EmptySet DEF LapseInv
  <2>3. slots.n \in Int /\ crashes \in Nat /\ MaxConcurrent \in Nat
    BY VoiceAssumption DEF VoiceTypeOK
  <2>4. QED
    BY <2>2, <2>3
<1>3. QED
  BY <1>1, <1>2, VoiceTypeCorrect, NextLapse, PTL DEF VoiceSpec
-----------------------------------------------------------------------------
\* A call of the last hour is in the window, which lives longer than the call stays there.
WindowInv ==
  \A t \in calls : /\ t <= clock
                   /\ t + Hour > clock => /\ hourly.at[t] > 0
                                          /\ hourly.dies # Never /\ hourly.dies >= t + HourTTL

LEMMA NextWindow == VoiceTypeOK /\ WindowInv /\ [VoiceNext]_voiceVars => WindowInv'
<1> SUFFICES ASSUME VoiceTypeOK, WindowInv, [VoiceNext]_voiceVars PROVE WindowInv'
  OBVIOUS
<1>1. /\ clock \in Nat /\ clock \in Times /\ hourly.at \in [Times -> Nat]
      /\ hourly.dies \in Nat \cup {Never}
      /\ Hour \in Nat /\ HourTTL \in Nat /\ HourTTL > Hour /\ Never \notin Nat
      /\ \A t \in calls : t \in Times /\ t \in Nat
  BY VoiceAssumption DEF VoiceTypeOK, Times
<1>2. ASSUME UNCHANGED <<clock, hourly, calls>> PROVE WindowInv'
  BY <1>2 DEF WindowInv
<1>3. ASSUME NEW c \in Callers, CheckVoiceHourly(c) PROVE WindowInv'
  <2>1. /\ hourly' = [hourly EXCEPT !.at = [t \in Times |-> IF InWindow(t) THEN @[t] ELSE 0]]
        /\ clock' = clock /\ calls' = calls
    BY <1>3 DEF CheckVoiceHourly
  <2>2. /\ hourly'.at = [t \in Times |-> IF InWindow(t) THEN hourly.at[t] ELSE 0]
        /\ hourly'.dies = hourly.dies
    BY <2>1 DEF VoiceTypeOK
  <2>3. \A t \in calls : t + Hour > clock => InWindow(t)
    BY <1>1 DEF InWindow, WindowInv
  <2>4. QED
    BY <1>1, <2>1, <2>2, <2>3 DEF WindowInv
<1>4. ASSUME NEW c \in Callers, RecordVoiceCall(c) PROVE WindowInv'
  <2>1. calls' = calls \cup {clock} /\ clock' = clock
    BY <1>4 DEF RecordVoiceCall
  <2>2. PICK new \in IF hourly.at[clock] > 0 THEN {0, 1} ELSE {1} :
          hourly' = [at |-> [hourly.at EXCEPT ![clock] = @ + new], dies |-> clock + HourTTL]
    BY <1>4 DEF RecordVoiceCall
  <2>3. /\ hourly'.at[clock] = hourly.at[clock] + new
        /\ \A t \in Times \ {clock} : hourly'.at[t] = hourly.at[t]
        /\ hourly'.dies = clock + HourTTL
    BY <1>1, <2>2
  <2>4. new \in Nat /\ hourly.at[clock] \in Nat /\ hourly.at[clock] + new > 0
    BY <1>1, <2>2
  <2>5. clock + HourTTL # Never
    BY <1>1
  <2>6. QED
    BY <1>1, <2>1, <2>3, <2>4, <2>5 DEF WindowInv
<1>5. ASSUME VoiceTick PROVE WindowInv'
  <2>1. clock' = clock + 1 /\ calls' = calls
    BY <1>5 DEF VoiceTick
  <2>2. CASE hourly.dies = clock + 1
    <3>1. \A t \in calls : t <= clock /\ (t + Hour > clock => clock + 1 >= t + HourTTL)
      BY <2>2 DEF WindowInv
    <3>2. \A t \in calls : ~(t + Hour > clock + 1)
      BY <1>1, <3>1
    <3>3. QED
      BY <1>1, <2>1, <3>1, <3>2 DEF WindowInv
  <2>3. CASE hourly.dies # clock + 1
    <3>1. hourly' = hourly
      BY <1>5, <2>3 DEF VoiceTick
    <3>2. QED
      BY <1>1, <2>1, <3>1 DEF WindowInv
  <2>4. QED
    BY <2>2, <2>3
<1>6. CASE UNCHANGED voiceVars
  BY <1>2, <1>6 DEF voiceVars
<1>7. ASSUME NEW c \in Callers,
             \/ CheckVoiceConcurrent(c) \/ IncrSlots(c) \/ ExpireSlots(c) \/ DecrDenied(c)
             \/ DecrSlots(c) \/ ClampSlots(c) \/ CallerDies(c)
      PROVE  WindowInv'
  BY <1>2, <1>7
     DEF CheckVoiceConcurrent, IncrSlots, ExpireSlots, DecrDenied, DecrSlots, ClampSlots, CallerDies
<1>8. QED
  BY <1>3, <1>4, <1>5, <1>6, <1>7 DEF VoiceNext

\* The sorted set forgets no call of the last hour, although it expires as a whole: whatever the
\* order of checks and records, for any window shorter than its time to live
\* (check_voice_rate, record_voice_call).
THEOREM WindowRemembers == VoiceSpec => []CallsRemembered
<1>1. VoiceInit => WindowInv
  BY DEF VoiceInit, WindowInv
<1>2. VoiceTypeOK /\ WindowInv => CallsRemembered
  <2> SUFFICES ASSUME VoiceTypeOK, WindowInv, NEW t \in Times, t \in calls, InWindow(t)
               PROVE  hourly.at[t] > 0
    BY DEF CallsRemembered
  <2>1. clock \in Nat /\ t \in Nat /\ Hour \in Nat
    BY VoiceAssumption DEF VoiceTypeOK, Times
  <2>2. t + Hour > clock
    BY <2>1 DEF InWindow
  <2>3. QED
    BY <2>2 DEF WindowInv
<1>3. QED
  BY <1>1, <1>2, VoiceTypeCorrect, NextWindow, PTL DEF VoiceSpec
-----------------------------------------------------------------------------
(* Sums over a finite set.  What holds of all its subsets is shown at one  *)
(* of the smallest that could break it.                                    *)

LEMMA LessOnNat == \A x, y \in Nat : x < y => <<x, y>> \in OpToRel(<, Nat)
BY DEF OpToRel

\* A set of natural numbers has a least one.
LEMMA LeastNat ==
  ASSUME NEW T \in SUBSET Nat, T # {}
  PROVE  \E n \in T : \A m \in T : n <= m
<1>1. PICK n \in T : \A m \in T : ~ (<<m, n>> \in OpToRel(<, Nat))
  BY NatLessThanWellFounded, WFMin
<1>2. \A m \in T : ~ (m < n)
  BY <1>1, LessOnNat
<1>3. QED
  BY <1>2

\* Of finite sets, one has no other inside.
LEMMA SmallestSet ==
  ASSUME NEW S, IsFiniteSet(S), NEW B \in SUBSET SUBSET S, B # {}
  PROVE  \E s \in B : \A t \in B : t \subseteq s => t = s
<1> DEFINE T == {Cardinality(s) : s \in B}
<1>1. \A s \in B : IsFiniteSet(s) /\ Cardinality(s) \in Nat
  BY FS_Subset, FS_CardinalityType
<1>2. T \in SUBSET Nat /\ T # {}
  BY <1>1
<1>3. PICK n \in T : \A m \in T : n <= m
  <2> HIDE DEF T
  <2>1. QED
    BY <1>2, LeastNat
<1>4. PICK s \in B : n = Cardinality(s)
  OBVIOUS
<1>5. ASSUME NEW t \in B, t \subseteq s PROVE t = s
  <2>1. IsFiniteSet(s) /\ t \in SUBSET s
    BY <1>1, <1>5
  <2>2. Cardinality(t) <= Cardinality(s) /\ (Cardinality(s) = Cardinality(t) => s = t)
    BY <2>1, FS_Subset
  <2>3. Cardinality(s) <= Cardinality(t)
    BY <1>3, <1>4
  <2>4. QED
    BY <1>1, <2>2, <2>3
<1>6. QED
  BY <1>5

\* The library's sum, taken apart: one more element at each step.
Any(s) == CHOOSE x \in s : TRUE
SumStep(f, g, s) == IF s = {} THEN 0 ELSE f[Any(s)] + g[s \ {Any(s)}]
Sums(f, S) == CHOOSE g : g = [s \in SUBSET S |-> SumStep(f, g, s)]
Sum(f, S) == SumFunctionOnSet(f, S)

LEMMA SumIs == \A f, S : Sum(f, S) = Sums(f, S)[S]
BY DEF Sum, SumFunctionOnSet, FoldFunctionOnSet, MapThenFoldSet, Sums, SumStep, Any

LEMMA AnyIn == \A s : s # {} => Any(s) \in s
BY DEF Any

\* The recursion has a solution for the subsets with n elements, for every n.
Small(S, n) == {s \in SUBSET S : Cardinality(s) <= n}
Solves(f, g, D) == g = [s \in D |-> SumStep(f, g, s)]

LEMMA SumsOnSmall ==
  ASSUME NEW f, NEW S, IsFiniteSet(S), NEW n \in Nat, NEW g, Solves(f, g, Small(S, n))
  PROVE  \E h : Solves(f, h, Small(S, n + 1))
<1> DEFINE D == Small(S, n)
           E == Small(S, n + 1)
           h == [s \in E |-> SumStep(f, g, s)]
<1>1. D \subseteq E
  BY FS_Subset, FS_CardinalityType DEF Small
<1>2. \A s \in D : g[s] = SumStep(f, g, s)
  BY DEF Solves
<1>3. \A s \in D : h[s] = g[s]
  BY <1>1, <1>2
<1>4. \A s \in E : s # {} => s \ {Any(s)} \in D
  <2> SUFFICES ASSUME NEW s \in E, s # {} PROVE s \ {Any(s)} \in D
    OBVIOUS
  <2>1. IsFiniteSet(s) /\ Any(s) \in s /\ Cardinality(s) \in Nat /\ Cardinality(s) <= n + 1
    BY AnyIn, FS_Subset, FS_CardinalityType DEF Small
  <2>2. Cardinality(s \ {Any(s)}) = Cardinality(s) - 1
    BY <2>1, FS_RemoveElement
  <2>3. QED
    BY <2>1, <2>2 DEF Small
<1>5. \A s \in E : SumStep(f, g, s) = SumStep(f, h, s)
  <2> HIDE DEF D, h
  <2>1. QED
    BY <1>3, <1>4 DEF SumStep
<1>6. Solves(f, h, E)
  <2>1. h = [s \in E |-> SumStep(f, h, s)]
    BY <1>5
  <2>2. QED
    BY <2>1 DEF Solves
<1>7. QED
  BY <1>6

LEMMA SumsSolve ==
  ASSUME NEW f, NEW S, IsFiniteSet(S)
  PROVE  Solves(f, Sums(f, S), SUBSET S)
<1> DEFINE B == {n \in Nat : ~ \E g : Solves(f, g, Small(S, n))}
<1>1. ASSUME B # {} PROVE FALSE
  <2>1. PICK n \in B : \A m \in B : n <= m
    <3>1. B \in SUBSET Nat
      OBVIOUS
    <3> HIDE DEF B
    <3>2. QED
      BY <1>1, <3>1, LeastNat
  <2>2. CASE n = 0
    <3>1. Small(S, 0) = {{}}
      BY FS_Subset, FS_CardinalityType, FS_EmptySet DEF Small
    <3> DEFINE g == [s \in Small(S, 0) |-> 0]
    <3>2. \A s \in Small(S, 0) : SumStep(f, g, s) = 0
      BY <3>1 DEF SumStep
    <3>3. Solves(f, g, Small(S, 0))
      BY <3>2 DEF Solves
    <3>4. QED
      BY <2>1, <2>2, <3>3
  <2>3. CASE n # 0
    <3>1. n - 1 \in Nat /\ (n - 1) + 1 = n /\ ~ (n <= n - 1)
      BY <2>3
    <3>2. PICK g : Solves(f, g, Small(S, n - 1))
      BY <2>1, <3>1
    <3>3. \E h : Solves(f, h, Small(S, (n - 1) + 1))
      BY <3>1, <3>2, SumsOnSmall
    <3>4. QED
      BY <3>1, <3>3
  <2>4. QED
    BY <2>2, <2>3
<1>2. Small(S, Cardinality(S)) = SUBSET S /\ Cardinality(S) \in Nat
  BY FS_Subset, FS_CardinalityType DEF Small
<1>3. \E g : Solves(f, g, Small(S, Cardinality(S)))
  <2> DEFINE n == Cardinality(S)
  <2>1. n \in Nat /\ n \notin B
    BY <1>1, <1>2
  <2> HIDE DEF n
  <2>2. QED
    BY <2>1 DEF n
<1>4. \E g : g = [s \in SUBSET S |-> SumStep(f, g, s)]
  BY <1>2, <1>3 DEF Solves
<1>5. QED
  BY <1>4 DEF Sums, Solves

\* The sum over a subset does not depend on the set it is a part of.
LEMMA SumsPart ==
  ASSUME NEW f, NEW S, IsFiniteSet(S), NEW T \in SUBSET S
  PROVE  Sums(f, S)[T] = Sum(f, T)
<1> DEFINE g == Sums(f, S)
           h == Sums(f, T)
           B == {s \in SUBSET T : g[s] # h[s]}
<1>1. IsFiniteSet(T)
  BY FS_Subset
<1>2. Solves(f, g, SUBSET S) /\ Solves(f, h, SUBSET T)
  BY <1>1, SumsSolve
<1> HIDE DEF g, h
<1>3. \A s \in SUBSET T : g[s] = SumStep(f, g, s) /\ h[s] = SumStep(f, h, s)
  BY <1>2 DEF Solves
<1>4. ASSUME B # {} PROVE FALSE
  <2>1. B \in SUBSET SUBSET T
    OBVIOUS
  <2> DEFINE C == B
  <2>2. PICK s \in C : \A t \in C : t \subseteq s => t = s
    <3> HIDE DEF B
    <3>1. QED
      BY <1>1, <1>4, <2>1, SmallestSet
  <2>3. s # {} /\ Any(s) \in s
    <3>1. g[s] # h[s] /\ s \in SUBSET T
      OBVIOUS
    <3>2. s # {}
      BY <1>3, <3>1 DEF SumStep
    <3>3. QED
      BY <3>2, AnyIn
  <2>4. s \ {Any(s)} \notin C /\ s \ {Any(s)} \in SUBSET T
    BY <2>2, <2>3
  <2>5. g[s \ {Any(s)}] = h[s \ {Any(s)}]
    BY <2>4
  <2>6. g[s] = h[s]
    <3>1. s \in SUBSET T
      OBVIOUS
    <3>2. QED
      BY <1>3, <2>5, <3>1 DEF SumStep
  <2>7. QED
    BY <2>6
<1>5. g[T] = h[T]
  BY <1>4
<1>6. QED
  BY <1>5, SumIs DEF g, h

\* The sum of nothing, and of one element and the others.
LEMMA SumRec ==
  ASSUME NEW f, NEW S, IsFiniteSet(S)
  PROVE  /\ S = {} => Sum(f, S) = 0
         /\ S # {} => Any(S) \in S /\ Sum(f, S) = f[Any(S)] + Sum(f, S \ {Any(S)})
<1> DEFINE g == Sums(f, S)
<1>1. Solves(f, g, SUBSET S)
  BY SumsSolve
<1>2. Sum(f, S) = g[S] /\ \A T \in SUBSET S : g[T] = Sum(f, T)
  BY SumIs, SumsPart
<1> HIDE DEF g
<1>3. g[S] = SumStep(f, g, S)
  BY <1>1 DEF Solves
<1>4. S # {} => g[S \ {Any(S)}] = Sum(f, S \ {Any(S)})
  BY <1>2
<1>5. QED
  BY <1>2, <1>3, <1>4, AnyIn DEF SumStep

LEMMA SumNone == \A f : Sum(f, {}) = 0
<1> SUFFICES ASSUME NEW f PROVE Sum(f, {}) = 0
  OBVIOUS
<1> DEFINE e == {}
<1>1. IsFiniteSet(e) /\ e = {}
  BY FS_EmptySet
<1> HIDE DEF e
<1>2. Sum(f, e) = 0
  BY <1>1, SumRec
<1>3. QED
  BY <1>1, <1>2

LEMMA SumNat ==
  ASSUME NEW S, IsFiniteSet(S), NEW f, \A x \in S : f[x] \in Nat
  PROVE  Sum(f, S) \in Nat
<1> DEFINE B == {s \in SUBSET S : Sum(f, s) \notin Nat}
<1>1. ASSUME B # {} PROVE FALSE
  <2>1. B \in SUBSET SUBSET S
    OBVIOUS
  <2>2. PICK s \in B : \A t \in B : t \subseteq s => t = s
    <3> HIDE DEF B
    <3>1. QED
      BY <1>1, <2>1, SmallestSet
  <2>3. s \in SUBSET S /\ Sum(f, s) \notin Nat /\ IsFiniteSet(s)
    BY FS_Subset
  <2>4. s # {} /\ Any(s) \in s /\ Sum(f, s) = f[Any(s)] + Sum(f, s \ {Any(s)})
    <3>1. s # {}
      BY <2>3, SumNone
    <3>2. QED
      BY <2>3, <3>1, SumRec
  <2>5. s \ {Any(s)} \notin B
    BY <2>2, <2>4
  <2>6. Sum(f, s \ {Any(s)}) \in Nat /\ f[Any(s)] \in Nat
    BY <2>3, <2>4, <2>5
  <2>7. QED
    BY <2>3, <2>4, <2>6
<1>2. QED
  BY <1>1

\* Any element may be the first.
LEMMA SumWith ==
  ASSUME NEW S, IsFiniteSet(S), NEW f, \A x \in S : f[x] \in Nat, NEW y \in S
  PROVE  Sum(f, S) = f[y] + Sum(f, S \ {y})
<1> DEFINE B == {s \in SUBSET S : \E x \in s : Sum(f, s) # f[x] + Sum(f, s \ {x})}
<1>1. ASSUME B # {} PROVE FALSE
  <2>1. B \in SUBSET SUBSET S
    OBVIOUS
  <2>2. PICK s \in B : \A t \in B : t \subseteq s => t = s
    <3> HIDE DEF B
    <3>1. QED
      BY <1>1, <2>1, SmallestSet
  <2>3. /\ s \in SUBSET S /\ IsFiniteSet(s)
        /\ \E x \in s : Sum(f, s) # f[x] + Sum(f, s \ {x})
    BY FS_Subset
  <2>4. PICK x \in s : Sum(f, s) # f[x] + Sum(f, s \ {x})
    BY <2>3
  <2> DEFINE a == Any(s)
             r == s \ {a, x}
  <2>5. a \in s /\ Sum(f, s) = f[a] + Sum(f, s \ {a})
    BY <2>3, <2>4, SumRec
  <2>6. a # x
    BY <2>4, <2>5
  <2>7. /\ s \ {a} \notin B /\ s \ {a} \in SUBSET S /\ x \in s \ {a} /\ (s \ {a}) \ {x} = r
        /\ s \ {x} \notin B /\ s \ {x} \in SUBSET S /\ a \in s \ {x} /\ (s \ {x}) \ {a} = r
    BY <2>2, <2>3, <2>5, <2>6
  <2>8. Sum(f, s \ {a}) = f[x] + Sum(f, r) /\ Sum(f, s \ {x}) = f[a] + Sum(f, r)
    BY <2>7
  <2>9. Sum(f, r) \in Nat /\ f[a] \in Nat /\ f[x] \in Nat
    <3>1. r \in SUBSET S /\ IsFiniteSet(r)
      BY <2>3, FS_Subset
    <3> HIDE DEF r
    <3>2. QED
      BY <2>3, <2>4, <2>5, <3>1, SumNat
  <2> HIDE DEF a, r
  <2>10. Sum(f, s) = f[x] + Sum(f, s \ {x})
    BY <2>5, <2>8, <2>9
  <2>11. QED
    BY <2>4, <2>10
<1>2. QED
  BY <1>1

\* A sum over T whose terms are zero, or those of S at most.
LEMMA SumAtMost ==
  ASSUME NEW S, NEW T, IsFiniteSet(S), IsFiniteSet(T), NEW f, NEW g,
         \A x \in S : g[x] \in Nat,
         \A x \in T : f[x] \in Nat /\ (f[x] = 0 \/ (x \in S /\ f[x] <= g[x]))
  PROVE  Sum(f, T) <= Sum(g, S)
<1> DEFINE Covers(s, t) == \A x \in t : f[x] = 0 \/ (x \in s /\ f[x] <= g[x])
           B == {t \in SUBSET T : \E s \in SUBSET S : Covers(s, t) /\ ~ (Sum(f, t) <= Sum(g, s))}
<1>1. ASSUME B # {} PROVE FALSE
  <2>1. B \in SUBSET SUBSET T
    OBVIOUS
  <2>2. PICK t \in B : \A r \in B : r \subseteq t => r = t
    <3> HIDE DEF B
    <3>1. QED
      BY <1>1, <2>1, SmallestSet
  <2>3. PICK s \in SUBSET S : Covers(s, t) /\ ~ (Sum(f, t) <= Sum(g, s))
    BY <2>2
  <2>4. /\ t \in SUBSET T /\ IsFiniteSet(t) /\ IsFiniteSet(s)
        /\ \A x \in t : f[x] \in Nat
        /\ \A x \in s : g[x] \in Nat
    BY <2>2, FS_Subset
  <2>5. Sum(f, t) \in Nat /\ Sum(g, s) \in Nat
    BY <2>4, SumNat
  <2>6. t # {}
    BY <2>3, <2>5, SumNone
  <2> DEFINE a == Any(t)
             r == t \ {a}
  <2>7. a \in t /\ Sum(f, t) = f[a] + Sum(f, r)
    BY <2>4, <2>6, SumRec
  <2>8. r \in SUBSET T /\ r \notin B
    BY <2>2, <2>4, <2>7
  <2>9. \A q \in SUBSET S : Covers(q, r) => Sum(f, r) <= Sum(g, q)
    BY <2>8
  <2>10. CASE f[a] = 0
    <3>1. Covers(s, r)
      BY <2>3
    <3>2. Sum(f, r) <= Sum(g, s)
      BY <2>3, <2>9, <3>1
    <3>3. Sum(f, r) \in Nat
      <4>1. IsFiniteSet(r) /\ \A x \in r : f[x] \in Nat
        BY <2>4, <2>8, FS_Subset
      <4>2. QED
        BY <4>1, SumNat
    <3> HIDE DEF a, r
    <3>4. QED
      BY <2>3, <2>5, <2>7, <2>10, <3>2, <3>3
  <2>11. CASE f[a] # 0
    <3> DEFINE q == s \ {a}
    <3>1. a \in s /\ f[a] <= g[a]
      BY <2>3, <2>7, <2>11
    <3>2. Covers(q, r) /\ q \in SUBSET S
      BY <2>3
    <3>3. Sum(f, r) <= Sum(g, q)
      BY <2>9, <3>2
    <3>4. Sum(g, s) = g[a] + Sum(g, q)
      BY <2>4, <3>1, SumWith
    <3>5. Sum(f, r) \in Nat /\ Sum(g, q) \in Nat
      <4>1. IsFiniteSet(r) /\ (\A x \in r : f[x] \in Nat) /\ IsFiniteSet(q) /\ (\A x \in q : g[x] \in Nat)
        BY <2>4, <2>8, <3>2, FS_Subset
      <4>2. QED
        BY <4>1, SumNat
    <3>6. f[a] \in Nat /\ g[a] \in Nat
      BY <2>4, <2>7, <3>1
    <3> HIDE DEF a, r, q
    <3>7. QED
      BY <2>3, <2>7, <3>1, <3>3, <3>4, <3>5, <3>6
  <2>12. QED
    BY <2>10, <2>11
<1>2. Covers(S, T)
  OBVIOUS
<1>3. T \notin B
  BY <1>1
<1>4. QED
  BY <1>2, <1>3

\* One term more, or one more in a term.
LEMMA SumOneMore ==
  ASSUME NEW S, IsFiniteSet(S), NEW f, NEW g, NEW y \in S,
         \A x \in S : f[x] \in Nat /\ g[x] \in Nat,
         f[y] <= g[y] + 1, \A x \in S \ {y} : f[x] <= g[x]
  PROVE  Sum(f, S) <= Sum(g, S) + 1
<1> DEFINE T == S \ {y}
<1>1. IsFiniteSet(T) /\ \A x \in T : f[x] \in Nat /\ g[x] \in Nat /\ f[x] <= g[x]
  BY FS_Subset
<1>2. Sum(f, S) = f[y] + Sum(f, T) /\ Sum(g, S) = g[y] + Sum(g, T)
  BY SumWith
<1> HIDE DEF T
<1>3. Sum(f, T) \in Nat /\ Sum(g, T) \in Nat /\ Sum(f, T) <= Sum(g, T)
  BY <1>1, SumNat, SumAtMost
<1>4. QED
  BY <1>2, <1>3
-----------------------------------------------------------------------------
(* The calls of an hour. *)

Window == {t \in Times : InWindow(t)}
Cleared == {c \in Callers : phase[c] \in {"acquire", "granted", "record"}}

\* Whoever was cleared has still to be counted, and was cleared below the limit.
HourInv ==
  /\ \A t \in Times : t > clock => hourly.at[t] = 0
  /\ Count(hourly.at) + Cardinality(Cleared) <= MaxPerHour + Cardinality(Callers) - 1

LEMMA TimesFinite == IsFiniteSet(Times) /\ \A t \in Times : t \in Nat
<1>1. MaxTime \in Int /\ 0 \in Int
  BY VoiceAssumption
<1>2. IsFiniteSet(0 .. MaxTime)
  BY <1>1, FS_Interval
<1>3. QED
  BY <1>1, <1>2 DEF Times

LEMMA CountIsSum == \A per : Count(per) = Sum(per, Window) /\ Count(per)' = Sum(per', Window')
BY DEF Count, Sum, Window

LEMMA ClearedFinite ==
  /\ IsFiniteSet(Cleared) /\ Cardinality(Cleared) \in Nat /\ Cardinality(Cleared) <= Cardinality(Callers)
  /\ IsFiniteSet(Cleared') /\ Cardinality(Cleared') \in Nat /\ Cardinality(Cleared') <= Cardinality(Callers)
  /\ Cardinality(Callers) \in Nat
<1>1. Cleared \subseteq Callers /\ Cleared' \subseteq Callers
  BY DEF Cleared
<1>2. QED
  BY <1>1, VoiceAssumption, FS_Subset, FS_CardinalityType

\* What the window of a clock adds up to.
LEMMA WindowNat ==
  ASSUME NEW per \in [Times -> Nat], NEW w \in SUBSET Times
  PROVE  IsFiniteSet(w) /\ Sum(per, w) \in Nat
<1>1. IsFiniteSet(w)
  BY TimesFinite, FS_Subset
<1>2. QED
  BY <1>1, SumNat

\* A step after which the window holds no more, and no caller is cleared newly.
LEMMA HourKeeps ==
  ASSUME VoiceTypeOK, VoiceTypeOK', HourInv, Sum(hourly'.at, Window') <= Sum(hourly.at, Window),
         Cleared' \subseteq Cleared, \A t \in Times : t > clock' => hourly'.at[t] = 0
  PROVE  HourInv'
<1> DEFINE n == Sum(hourly.at, Window)
           m == Sum(hourly'.at, Window')
           k == Cardinality(Cleared)
           j == Cardinality(Cleared')
           a == Cardinality(Callers)
<1>1. n \in Nat /\ m \in Nat
  <2>1. hourly.at \in [Times -> Nat] /\ hourly'.at \in [Times -> Nat]
    BY DEF VoiceTypeOK
  <2>2. Window \subseteq Times /\ Window' \subseteq Times
    BY DEF Window
  <2>3. QED
    BY <2>1, <2>2, WindowNat
<1>2. k \in Nat /\ j \in Nat /\ a \in Nat /\ j <= k
  BY ClearedFinite, FS_Subset
<1>3. n + k <= MaxPerHour + a - 1 /\ m <= n /\ MaxPerHour \in Nat
  BY CountIsSum, VoiceAssumption DEF HourInv
<1> HIDE DEF n, m, k, j, a
<1>4. m + j <= MaxPerHour + a - 1
  BY <1>1, <1>2, <1>3
<1>5. Count(hourly.at)' = m
  BY CountIsSum DEF m
<1>6. QED
  BY <1>4, <1>5 DEF HourInv, m, j, a

LEMMA NextHour ==
  ASSUME VoiceTypeOK, VoiceTypeOK', HourInv, [VoiceNext]_voiceVars
  PROVE  HourInv'
<1>1. /\ clock \in Nat /\ clock \in Times /\ hourly.at \in [Times -> Nat] /\ hourly'.at \in [Times -> Nat]
      /\ Hour \in Nat \ {0} /\ MaxPerHour \in Nat
      /\ Window \in SUBSET Times /\ IsFiniteSet(Window) /\ Window' \in SUBSET Times /\ IsFiniteSet(Window')
      /\ phase \in [Callers -> Phases]
  <2>1. Window \in SUBSET Times /\ Window' \in SUBSET Times
    BY DEF Window
  <2>2. QED
    BY <2>1, TimesFinite, FS_Subset, VoiceAssumption DEF VoiceTypeOK
<1>2. Sum(hourly.at, Window) \in Nat /\ Sum(hourly'.at, Window') \in Nat
  BY <1>1, WindowNat
<1>3. (\A t \in Window' : hourly'.at[t] = 0 \/ (t \in Window /\ hourly'.at[t] <= hourly.at[t]))
      => Sum(hourly'.at, Window') <= Sum(hourly.at, Window)
  <2> SUFFICES ASSUME \A t \in Window' : hourly'.at[t] = 0 \/ (t \in Window /\ hourly'.at[t] <= hourly.at[t])
               PROVE  Sum(hourly'.at, Window') <= Sum(hourly.at, Window)
    OBVIOUS
  <2> DEFINE f == hourly'.at
             g == hourly.at
             S == Window
             T == Window'
  <2>1. IsFiniteSet(S) /\ IsFiniteSet(T) /\ \A x \in S : g[x] \in Nat
    BY <1>1
  <2>2. \A x \in T : f[x] \in Nat /\ (f[x] = 0 \/ (x \in S /\ f[x] <= g[x]))
    BY <1>1
  <2> HIDE DEF f, g, S, T
  <2>3. Sum(f, T) <= Sum(g, S)
    BY <2>1, <2>2, SumAtMost
  <2>4. QED
    BY <2>3 DEF f, g, S, T
<1>4. ASSUME UNCHANGED <<clock, hourly>>, Cleared' \subseteq Cleared PROVE HourInv'
  <2>1. Window' = Window /\ hourly'.at = hourly.at
    BY <1>4 DEF Window, InWindow
  <2>2. Sum(hourly'.at, Window') <= Sum(hourly.at, Window)
    BY <1>2, <2>1
  <2>3. QED
    BY <1>4, <2>2, HourKeeps DEF HourInv
<1>5. ASSUME NEW c \in Callers, CheckVoiceHourly(c) PROVE HourInv'
  <2>1. /\ clock' = clock /\ Window' = Window
        /\ \A t \in Times : hourly'.at[t] = IF InWindow(t) THEN hourly.at[t] ELSE 0
    BY <1>5 DEF CheckVoiceHourly, VoiceTypeOK, Window, InWindow
  <2>2. Sum(hourly'.at, Window') <= Sum(hourly.at, Window)
    BY <1>1, <1>3, <2>1
  <2>3. \A t \in Times : t > clock' => hourly'.at[t] = 0
    BY <2>1 DEF HourInv
  <2>4. CASE Count(hourly.at) >= MaxPerHour
    <3>1. Cleared' \subseteq Cleared
      BY <1>1, <1>5, <2>4 DEF CheckVoiceHourly, Goto, Cleared
    <3>2. QED
      BY <2>2, <2>3, <3>1, HourKeeps
  <2>5. CASE ~(Count(hourly.at) >= MaxPerHour)
    <3> DEFINE n == Sum(hourly.at, Window)
               m == Sum(hourly'.at, Window')
               j == Cardinality(Cleared')
               a == Cardinality(Callers)
    <3>1. ~(n >= MaxPerHour) /\ m <= n /\ n \in Nat /\ m \in Nat /\ j \in Nat /\ a \in Nat /\ j <= a
      BY <1>2, <2>2, <2>5, CountIsSum, ClearedFinite
    <3> HIDE DEF n, m, j, a
    <3>2. m + j <= MaxPerHour + a - 1
      BY <1>1, <3>1
    <3>3. Count(hourly.at)' = m
      BY CountIsSum DEF m
    <3>4. QED
      BY <2>3, <3>2, <3>3 DEF HourInv, j, a
  <2>6. QED
    BY <2>4, <2>5
<1>6. ASSUME NEW c \in Callers, RecordVoiceCall(c) PROVE HourInv'
  <2>1. PICK new \in {0, 1} :
          hourly' = [at |-> [hourly.at EXCEPT ![clock] = @ + new], dies |-> clock + HourTTL]
    BY <1>6 DEF RecordVoiceCall
  <2>2. clock' = clock /\ Window' = Window
    BY <1>6 DEF RecordVoiceCall, Window, InWindow
  <2>3. /\ hourly'.at[clock] = hourly.at[clock] + new
        /\ \A t \in Times \ {clock} : hourly'.at[t] = hourly.at[t]
    BY <1>1, <2>1
  <2>4. clock \in Window
    <3>1. clock - Hour < clock
      BY <1>1
    <3>2. QED
      BY <1>1, <3>1 DEF Window, InWindow
  <2>5. c \in Cleared /\ Cleared' = Cleared \ {c}
    BY <1>1, <1>6 DEF RecordVoiceCall, Goto, Cleared
  <2>6. Cardinality(Cleared') = Cardinality(Cleared) - 1
    BY <2>5, ClearedFinite, FS_RemoveElement
  <2>7. Sum(hourly'.at, Window) <= Sum(hourly.at, Window) + 1
    <3> DEFINE f == hourly'.at
               g == hourly.at
               S == Window
    <3>1. IsFiniteSet(S) /\ clock \in S /\ \A x \in S : f[x] \in Nat /\ g[x] \in Nat
      BY <1>1, <2>4
    <3>2. f[clock] <= g[clock] + 1
      BY <1>1, <2>3
    <3>3. \A x \in S \ {clock} : f[x] <= g[x]
      BY <1>1, <2>3
    <3> HIDE DEF f, g, S
    <3>4. Sum(f, S) <= Sum(g, S) + 1
      BY <3>1, <3>2, <3>3, SumOneMore
    <3>5. QED
      BY <3>4 DEF f, g, S
  <2> DEFINE n == Sum(hourly.at, Window)
             m == Sum(hourly'.at, Window')
             k == Cardinality(Cleared)
             j == Cardinality(Cleared')
             a == Cardinality(Callers)
  <2>8. m <= n + 1 /\ n \in Nat /\ m \in Nat /\ j = k - 1 /\ k \in Nat /\ j \in Nat /\ a \in Nat
    BY <1>2, <2>2, <2>6, <2>7, ClearedFinite
  <2>9. n + k <= MaxPerHour + a - 1
    BY CountIsSum DEF HourInv
  <2> HIDE DEF n, m, k, j, a
  <2>10. m + j <= MaxPerHour + a - 1
    BY <1>1, <2>8, <2>9
  <2>11. Count(hourly.at)' = m
    BY CountIsSum DEF m
  <2>12. \A t \in Times : t > clock' => hourly'.at[t] = 0
    <3> SUFFICES ASSUME NEW t \in Times, t > clock PROVE hourly'.at[t] = 0
      BY <2>2
    <3>1. t # clock
      BY <1>1, TimesFinite
    <3>2. QED
      BY <2>3, <3>1 DEF HourInv
  <2>13. QED
    BY <2>10, <2>11, <2>12 DEF HourInv, j, a
<1>7. ASSUME VoiceTick PROVE HourInv'
  <2>1. clock' = clock + 1 /\ Cleared' = Cleared
    BY <1>7 DEF VoiceTick, Cleared
  <2>2. CASE hourly.dies = clock + 1
    <3>1. \A t \in Times : hourly'.at[t] = 0
      BY <1>7, <2>2 DEF VoiceTick, EmptyWindow
    <3>2. Sum(hourly'.at, Window') <= Sum(hourly.at, Window)
      BY <1>1, <1>3, <3>1
    <3>3. QED
      BY <2>1, <3>1, <3>2, HourKeeps
  <2>3. CASE hourly.dies # clock + 1
    <3>1. hourly' = hourly
      BY <1>7, <2>3 DEF VoiceTick
    <3>2. \A t \in Times : t > clock + 1 => hourly.at[t] = 0
      BY <1>1, TimesFinite DEF HourInv
    <3>3. \A t \in Window' : hourly.at[t] = 0 \/ (t \in Window /\ hourly.at[t] <= hourly.at[t])
      <4> SUFFICES ASSUME NEW t \in Window' PROVE hourly.at[t] = 0 \/ (t \in Window /\ hourly.at[t] <= hourly.at[t])
        OBVIOUS
      <4>1. t \in Times /\ t \in Nat /\ clock + 1 - Hour < t /\ t <= clock + 1 /\ hourly.at[t] \in Nat
        BY <1>1, <2>1, TimesFinite DEF Window, InWindow
      <4>2. CASE t > clock
        BY <4>1, <4>2 DEF HourInv
      <4>3. CASE ~(t > clock)
        BY <1>1, <4>1, <4>3 DEF Window, InWindow
      <4>4. QED
        BY <4>2, <4>3
    <3>4. Sum(hourly'.at, Window') <= Sum(hourly.at, Window)
      BY <1>3, <3>1, <3>3
    <3>5. QED
      BY <2>1, <3>1, <3>2, <3>4, HourKeeps
  <2>4. QED
    BY <2>2, <2>3
<1>8. CASE UNCHANGED voiceVars
  <2>1. UNCHANGED <<clock, hourly>> /\ Cleared' \subseteq Cleared
    BY <1>8 DEF voiceVars, Cleared
  <2>2. QED
    BY <1>4, <2>1
<1>9. ASSUME NEW c \in Callers,
             \/ CheckVoiceConcurrent(c) \/ IncrSlots(c) \/ ExpireSlots(c) \/ DecrDenied(c)
             \/ DecrSlots(c) \/ ClampSlots(c) \/ CallerDies(c)
      PROVE  HourInv'
  <2>1. UNCHANGED <<clock, hourly>>
    BY <1>9
       DEF CheckVoiceConcurrent, IncrSlots, ExpireSlots, DecrDenied, DecrSlots, ClampSlots, CallerDies
  <2>2. Cleared' \subseteq Cleared
    BY <1>1, <1>9
       DEF CheckVoiceConcurrent, IncrSlots, ExpireSlots, DecrDenied, DecrSlots, ClampSlots, CallerDies, Goto, Cleared
  <2>3. QED
    BY <1>4, <2>1, <2>2
<1>10. QED
  BY <1>5, <1>6, <1>7, <1>8, <1>9 DEF VoiceNext

\* Callers check the window before they are counted in it: however many of them do so at a time,
\* it holds at most the limit and one call of every other caller, and forgets none of the last
\* hour (check_voice_rate, record_voice_call).
THEOREM HourIsLimited == VoiceSpec => []HourlyLimit
<1>1. VoiceInit => HourInv
  <2> SUFFICES ASSUME VoiceInit PROVE HourInv
    OBVIOUS
  <2>1. hourly.at = [t \in Times |-> 0] /\ Cleared = {}
    BY DEF VoiceInit, EmptyWindow, Cleared
  <2>2. Sum(hourly.at, Window) = 0
    <3> DEFINE f == hourly.at
               S == Window
               e == {}
    <3>1. IsFiniteSet(S) /\ IsFiniteSet(e) /\ \A x \in S : f[x] = 0
      BY <2>1, TimesFinite, FS_Subset, FS_EmptySet DEF Window
    <3>2. Sum(f, e) = 0
      BY SumNone
    <3>3. Sum(f, S) \in Nat
      BY <3>1, SumNat
    <3>4. \A x \in e : f[x] \in Nat
      OBVIOUS
    <3>5. \A x \in S : f[x] \in Nat /\ (f[x] = 0 \/ (x \in e /\ f[x] <= f[x]))
      BY <3>1
    <3> HIDE DEF f, S, e
    <3>6. Sum(f, S) <= Sum(f, e)
      BY <3>1, <3>4, <3>5, SumAtMost
    <3>7. QED
      BY <3>2, <3>3, <3>6 DEF f, S
  <2>3. Cardinality(Callers) \in Nat \ {0} /\ MaxPerHour \in Nat /\ Cardinality(Cleared) = 0
    BY <2>1, ClearedFinite, VoiceAssumption, FS_EmptySet
  <2>4. 0 + 0 <= MaxPerHour + Cardinality(Callers) - 1
    BY <2>3
  <2>5. QED
    BY <2>1, <2>2, <2>3, <2>4, CountIsSum DEF HourInv
<1>2. VoiceTypeOK /\ HourInv /\ CallsRemembered => HourlyLimit
  <2> SUFFICES ASSUME VoiceTypeOK, HourInv, CallsRemembered
               PROVE  Count(hourly.at) <= MaxPerHour + Cardinality(Callers) - 1
    BY DEF HourlyLimit
  <2>1. Sum(hourly.at, Window) \in Nat
    <3>1. hourly.at \in [Times -> Nat] /\ Window \in SUBSET Times
      BY DEF VoiceTypeOK, Window
    <3>2. QED
      BY <3>1, WindowNat
  <2> DEFINE n == Count(hourly.at)
             k == Cardinality(Cleared)
             a == Cardinality(Callers)
  <2>2. n \in Nat /\ k \in Nat /\ a \in Nat /\ MaxPerHour \in Nat /\ n + k <= MaxPerHour + a - 1
    BY <2>1, CountIsSum, ClearedFinite, VoiceAssumption DEF HourInv
  <2> HIDE DEF n, k, a
  <2>3. n <= MaxPerHour + a - 1
    BY <2>2
  <2>4. QED
    BY <2>3 DEF n, a
<1>3. VoiceTypeOK /\ VoiceTypeOK' /\ HourInv /\ [VoiceNext]_voiceVars => HourInv'
  BY NextHour
<1>4. QED
  BY <1>1, <1>2, <1>3, VoiceTypeCorrect, WindowRemembers, PTL DEF VoiceSpec
-----------------------------------------------------------------------------
(* The messages of a day.                                                  *)

LEMMA MomentsFinite == IsFiniteSet(Moments) /\ (\A t \in Moments : t \in Nat) /\ 0 \in Moments
<1>1. LastTime \in Int /\ 0 \in Int /\ LastTime >= 0
  BY WhatsAppAssumption
<1>2. IsFiniteSet(0 .. LastTime)
  BY <1>1, FS_Interval
<1>3. QED
  BY <1>1, <1>2 DEF Moments

LEMMA InitWhatsAppType == WhatsAppInit => WhatsAppTypeOK
<1> SUFFICES ASSUME WhatsAppInit PROVE WhatsAppTypeOK
  OBVIOUS
<1>1. moment \in Moments /\ failures \in 0 .. MaxFailures
  BY MomentsFinite, WhatsAppAssumption DEF WhatsAppInit
<1>2. second \in [n : Nat, dies : Nat] /\ daily \in [Agents -> [n : Nat, dies : Nat]]
  BY DEF WhatsAppInit, NoKey
<1>3. sender \in [Senders -> {AtRest} \cup [to : Agents, at : SendPhases]]
  BY DEF WhatsAppInit
<1>4. messages \in [Agents -> [Moments -> Nat]] /\ reported \in [Agents -> Nat]
  BY DEF WhatsAppInit
<1>5. QED
  BY <1>1, <1>2, <1>3, <1>4 DEF WhatsAppTypeOK

\* A sender that goes on is writing to an agent, and goes on writing to it.
LEMMA GoesOn ==
  ASSUME WhatsAppTypeOK, NEW s \in Senders, NEW from \in SendPhases, NEW to \in SendPhases, Goes(s, from, to)
  PROVE  /\ sender[s].to \in Agents /\ sender[s].at = from
         /\ sender' \in [Senders -> {AtRest} \cup [to : Agents, at : SendPhases]]
         /\ sender'[s].to = sender[s].to /\ sender'[s].at = to
         /\ \A r \in Senders \ {s} : sender'[r] = sender[r]
<1>1. sender[s].at = from /\ from # "rest" /\ sender' = [sender EXCEPT ![s].at = to]
  BY DEF Goes, SendPhases
<1>2. sender \in [Senders -> {AtRest} \cup [to : Agents, at : SendPhases]]
  BY DEF WhatsAppTypeOK
<1>3. sender[s] \in [to : Agents, at : SendPhases]
  BY <1>1, <1>2 DEF AtRest
<1>4. sender'[s] \in [to : Agents, at : SendPhases] /\ sender'[s].to = sender[s].to /\ sender'[s].at = to
  BY <1>1, <1>2, <1>3
<1>5. \A r \in Senders \ {s} : sender'[r] = sender[r]
  BY <1>1, <1>2
<1>6. sender' \in [Senders -> {AtRest} \cup [to : Agents, at : SendPhases]]
  BY <1>1, <1>2, <1>4, <1>5
<1>7. QED
  BY <1>1, <1>3, <1>4, <1>5, <1>6

LEMMA GoesToRest ==
  ASSUME WhatsAppTypeOK, NEW s \in Senders, sender' = [sender EXCEPT ![s] = AtRest]
  PROVE  /\ sender' \in [Senders -> {AtRest} \cup [to : Agents, at : SendPhases]]
         /\ sender'[s] = AtRest /\ \A r \in Senders \ {s} : sender'[r] = sender[r]
BY DEF WhatsAppTypeOK

LEMMA NextWhatsAppType == WhatsAppTypeOK /\ [WhatsAppNext]_whatsAppVars => WhatsAppTypeOK'
<1> SUFFICES ASSUME WhatsAppTypeOK, [WhatsAppNext]_whatsAppVars PROVE WhatsAppTypeOK'
  OBVIOUS
<1>0. /\ moment \in Moments /\ moment \in Nat /\ {SecondTTL, DayTTL, MaxFailures, LastTime} \subseteq Nat
      /\ failures \in 0 .. MaxFailures /\ Consenting \subseteq Agents
      /\ second \in [n : Nat, dies : Nat] /\ daily \in [Agents -> [n : Nat, dies : Nat]]
      /\ sender \in [Senders -> {AtRest} \cup [to : Agents, at : SendPhases]]
      /\ messages \in [Agents -> [Moments -> Nat]] /\ reported \in [Agents -> Nat]
  BY WhatsAppAssumption, MomentsFinite DEF WhatsAppTypeOK
<1>1. ASSUME NEW s \in Senders, NEW a \in Agents, StartSend(s, a) PROVE WhatsAppTypeOK'
  <2>1. [to |-> a, at |-> "daily"] \in [to : Agents, at : SendPhases]
    BY DEF SendPhases
  <2>2. QED
    BY <1>0, <1>1, <2>1 DEF StartSend, WhatsAppTypeOK
<1>2. ASSUME NEW s \in Senders, CheckDaily(s) PROVE WhatsAppTypeOK'
  <2>1. Goes(s, "daily", "send") \/ sender' = [sender EXCEPT ![s] = AtRest]
    BY <1>2 DEF CheckDaily, Stops
  <2>2. sender' \in [Senders -> {AtRest} \cup [to : Agents, at : SendPhases]]
    BY <2>1, GoesOn, GoesToRest DEF SendPhases
  <2>3. QED
    BY <1>0, <1>2, <2>2 DEF CheckDaily, WhatsAppTypeOK
<1>3. ASSUME NEW s \in Senders, CallProvider(s) PROVE WhatsAppTypeOK'
  <2>1. CASE /\ Goes(s, "send", "second") /\ ProviderTakes(s)
             /\ UNCHANGED <<moment, second, daily, reported, failures>>
    <3>1. sender' \in [Senders -> {AtRest} \cup [to : Agents, at : SendPhases]] /\ sender[s].to \in Agents
      BY <2>1, GoesOn DEF SendPhases
    <3>2. messages' \in [Agents -> [Moments -> Nat]]
      BY <1>0, <2>1, <3>1 DEF ProviderTakes
    <3>3. UNCHANGED <<moment, second, daily, reported, failures>>
      BY <2>1
    <3>4. QED
      BY <1>0, <3>1, <3>2, <3>3 DEF WhatsAppTypeOK
  <2>2. CASE Stops(s, "send") /\ UNCHANGED <<moment, second, daily, messages, reported, failures>>
    <3>1. sender' \in [Senders -> {AtRest} \cup [to : Agents, at : SendPhases]]
      BY <2>2, GoesToRest DEF Stops
    <3>2. QED
      BY <1>0, <2>2, <3>1 DEF WhatsAppTypeOK
  <2>3. CASE /\ Stops(s, "send") /\ ProviderTakes(s)
             /\ failures < MaxFailures /\ failures' = failures + 1
             /\ UNCHANGED <<moment, second, daily, reported>>
    <3>1. sender' \in [Senders -> {AtRest} \cup [to : Agents, at : SendPhases]] /\ sender[s].to \in Agents
      <4>1. sender[s].at = "send"
        BY <2>3 DEF Stops
      <4>2. sender[s] # AtRest
        BY <4>1 DEF AtRest
      <4>3. QED
        BY <1>0, <2>3, <4>2, GoesToRest DEF Stops
    <3>2. messages' \in [Agents -> [Moments -> Nat]]
      BY <1>0, <2>3, <3>1 DEF ProviderTakes
    <3>3. failures' \in 0 .. MaxFailures
      BY <1>0, <2>3
    <3>4. QED
      BY <1>0, <2>3, <3>1, <3>2, <3>3 DEF WhatsAppTypeOK
  <2>4. QED
    BY <1>3, <2>1, <2>2, <2>3 DEF CallProvider
<1>4. ASSUME NEW s \in Senders, RecordSecond(s) PROVE WhatsAppTypeOK'
  <2>1. sender' \in [Senders -> {AtRest} \cup [to : Agents, at : SendPhases]]
    BY <1>4, GoesOn DEF RecordSecond, SendPhases
  <2>2. second' \in [n : Nat, dies : Nat]
    BY <1>0, <1>4 DEF RecordSecond, Bumped
  <2>3. QED
    BY <1>0, <1>4, <2>1, <2>2 DEF RecordSecond, WhatsAppTypeOK
<1>5. ASSUME NEW s \in Senders, RecordDay(s) PROVE WhatsAppTypeOK'
  <2>1. sender' \in [Senders -> {AtRest} \cup [to : Agents, at : SendPhases]] /\ sender[s].to \in Agents
    BY <1>5, GoesOn DEF RecordDay, SendPhases
  <2>2. daily' \in [Agents -> [n : Nat, dies : Nat]]
    <3>1. daily[sender[s].to] \in [n : Nat, dies : Nat] /\ DayTTL \in Nat
      BY <1>0, <2>1
    <3>2. Bumped(daily[sender[s].to], DayTTL) \in [n : Nat, dies : Nat]
      BY <1>0, <3>1 DEF Bumped
    <3>3. daily' = [daily EXCEPT ![sender[s].to] = Bumped(daily[sender[s].to], DayTTL)]
      BY <1>5 DEF RecordDay
    <3>4. QED
      BY <1>0, <2>1, <3>2, <3>3
  <2>3. QED
    BY <1>0, <1>5, <2>1, <2>2 DEF RecordDay, WhatsAppTypeOK
<1>6. ASSUME NEW s \in Senders, ReportSent(s) PROVE WhatsAppTypeOK'
  <2>1. sender' \in [Senders -> {AtRest} \cup [to : Agents, at : SendPhases]]
    BY <1>6, GoesToRest DEF ReportSent, Stops
  <2>2. reported' \in [Agents -> Nat]
    <3> DEFINE a == sender[s].to
    <3>1. reported' = [reported EXCEPT ![a] = reported[a] + 1] /\ (a \in Agents => reported[a] + 1 \in Nat)
      BY <1>0, <1>6 DEF ReportSent
    <3> HIDE DEF a
    <3>2. QED
      BY <1>0, <3>1
  <2>3. QED
    BY <1>0, <1>6, <2>1, <2>2 DEF ReportSent, WhatsAppTypeOK
<1>7. ASSUME NEW s \in Senders, SenderDies(s) PROVE WhatsAppTypeOK'
  <2>1. sender' \in [Senders -> {AtRest} \cup [to : Agents, at : SendPhases]]
    BY <1>7, GoesToRest DEF SenderDies
  <2>2. failures' \in 0 .. MaxFailures
    BY <1>0, <1>7 DEF SenderDies
  <2>3. QED
    BY <1>0, <1>7, <2>1, <2>2 DEF SenderDies, WhatsAppTypeOK
<1>8. ASSUME WhatsAppTick PROVE WhatsAppTypeOK'
  <2>1. moment' \in Moments
    BY <1>0, <1>8 DEF WhatsAppTick, Moments
  <2>2. second' \in [n : Nat, dies : Nat] /\ daily' \in [Agents -> [n : Nat, dies : Nat]]
    BY <1>0, <1>8 DEF WhatsAppTick, Alive, NoKey
  <2>3. QED
    BY <1>0, <1>8, <2>1, <2>2 DEF WhatsAppTick, WhatsAppTypeOK
<1>9. CASE UNCHANGED whatsAppVars
  BY <1>0, <1>9 DEF whatsAppVars, WhatsAppTypeOK
<1>10. QED
  BY <1>1, <1>2, <1>3, <1>4, <1>5, <1>6, <1>7, <1>8, <1>9 DEF WhatsAppNext

\* Who is past the check on behalf of an agent, and who has yet to count its message.
InPhase(x, a, P) == x.to = a /\ x.at \in P
SendersAt(ss, a, P) == {s \in Senders : InPhase(ss[s], a, P)}
Uncounted == {"second", "day"}
PastCheck == {"send", "second", "day"}

LEMMA SendersAtNat ==
  ASSUME NEW ss, NEW a, NEW P
  PROVE  /\ IsFiniteSet(SendersAt(ss, a, P)) /\ Cardinality(SendersAt(ss, a, P)) \in Nat
         /\ Cardinality(SendersAt(ss, a, P)) <= Cardinality(Senders) /\ Cardinality(Senders) \in Nat
<1>1. SendersAt(ss, a, P) \subseteq Senders /\ IsFiniteSet(Senders)
  BY WhatsAppAssumption DEF SendersAt
<1>2. QED
  BY <1>1, FS_Subset, FS_CardinalityType

\* One sender's step changes the number by at most one.
LEMMA OneSender ==
  ASSUME NEW ss, NEW rr, NEW a, NEW P, NEW s \in Senders, \A r \in Senders \ {s} : rr[r] = ss[r]
  PROVE  LET n == Cardinality(SendersAt(ss, a, P))
             m == Cardinality(SendersAt(rr, a, P))
         IN  /\ n \in Nat /\ m \in Nat
             /\ (InPhase(ss[s], a, P) <=> InPhase(rr[s], a, P)) => m = n
             /\ InPhase(ss[s], a, P) /\ ~InPhase(rr[s], a, P) => m = n - 1
             /\ ~InPhase(ss[s], a, P) /\ InPhase(rr[s], a, P) => m = n + 1
<1> DEFINE S == SendersAt(ss, a, P)
           T == SendersAt(rr, a, P)
<1>1. IsFiniteSet(S) /\ Cardinality(S) \in Nat /\ Cardinality(T) \in Nat
  BY SendersAtNat
<1>2. (InPhase(ss[s], a, P) <=> InPhase(rr[s], a, P)) => T = S
  BY DEF SendersAt
<1>3. InPhase(ss[s], a, P) /\ ~InPhase(rr[s], a, P) => s \in S /\ T = S \ {s}
  BY DEF SendersAt
<1>4. ~InPhase(ss[s], a, P) /\ InPhase(rr[s], a, P) => s \notin S /\ T = S \cup {s}
  BY DEF SendersAt
<1> HIDE DEF S, T
<1>5. /\ s \in S => Cardinality(S \ {s}) = Cardinality(S) - 1
      /\ s \notin S => Cardinality(S \cup {s}) = Cardinality(S) + 1
  BY <1>1, FS_RemoveElement, FS_AddElement
<1>6. QED
  BY <1>1, <1>2, <1>3, <1>4, <1>5 DEF S, T

\* The day that ends at a time.
DayTo(m) == {t \in Moments : m - DayTTL < t}

\* Of an agent, at moment m: its counter, its messages, the numbers of senders that have yet
\* to count one and of those past the check, and of those that died.  The counter covers the
\* messages of the day but for the uncounted and the dead; when it expires, the day that is
\* left has none but those.
DayOK(m, key, log, u, o, dead) ==
  /\ \A t \in Moments : t > m => log[t] = 0
  /\ Sum(log, DayTo(m)) <= key.n + u + dead
  /\ key.dies # 0 => Sum(log, DayTo(key.dies)) <= u + dead
  /\ key.n + o <= MaxPerDay + Cardinality(Senders) - 1

Keys == [n : Nat, dies : Nat]
Logs == [Moments -> Nat]

LEMMA DayNat ==
  ASSUME NEW log \in Logs, NEW m
  PROVE  IsFiniteSet(DayTo(m)) /\ Sum(log, DayTo(m)) \in Nat
<1>1. DayTo(m) \subseteq Moments
  BY DEF DayTo
<1>2. IsFiniteSet(DayTo(m)) /\ \A t \in DayTo(m) : log[t] \in Nat
  BY <1>1, MomentsFinite, FS_Subset DEF Logs
<1>3. QED
  BY <1>2, SumNat

\* A day in which nothing was sent.
LEMMA EmptyDay ==
  ASSUME NEW log \in Logs, NEW m, \A t \in DayTo(m) : log[t] = 0
  PROVE  Sum(log, DayTo(m)) = 0
<1> DEFINE S == DayTo(m)
           e == {}
<1>1. IsFiniteSet(S) /\ IsFiniteSet(e) /\ Sum(log, S) \in Nat
  BY DayNat, FS_EmptySet
<1>2. Sum(log, e) = 0
  BY SumNone
<1>3. \A x \in e : log[x] \in Nat
  OBVIOUS
<1>4. \A x \in S : log[x] \in Nat /\ (log[x] = 0 \/ (x \in e /\ log[x] <= log[x]))
  OBVIOUS
<1> HIDE DEF S, e
<1>5. Sum(log, S) <= Sum(log, e)
  BY <1>1, <1>3, <1>4, SumAtMost
<1>6. QED
  BY <1>1, <1>2, <1>5 DEF S

\* Time takes messages out of the day and brings none.
LEMMA LaterDay ==
  ASSUME NEW log \in Logs, NEW m \in Nat, \A t \in Moments : t > m => log[t] = 0
  PROVE  Sum(log, DayTo(m + 1)) <= Sum(log, DayTo(m))
<1>1. /\ IsFiniteSet(DayTo(m)) /\ IsFiniteSet(DayTo(m + 1))
      /\ \A t \in DayTo(m) : log[t] \in Nat
  BY DayNat DEF DayTo, Logs
<1>2. \A t \in DayTo(m + 1) : log[t] \in Nat /\ (log[t] = 0 \/ (t \in DayTo(m) /\ log[t] <= log[t]))
  <2> SUFFICES ASSUME NEW t \in DayTo(m + 1)
               PROVE  log[t] \in Nat /\ t \in DayTo(m) /\ log[t] <= log[t]
    OBVIOUS
  <2>1. t \in Moments /\ t \in Nat /\ m + 1 - DayTTL < t /\ log[t] \in Nat /\ DayTTL \in Nat
    BY MomentsFinite, WhatsAppAssumption DEF DayTo, Logs
  <2>2. m - DayTTL < t
    BY <2>1
  <2>3. QED
    BY <2>1, <2>2 DEF DayTo
<1>3. QED
  BY <1>1, <1>2, SumAtMost

LEMMA MaxNat == MaxPerDay \in Nat /\ DayTTL \in Nat \ {0} /\ Cardinality(Senders) \in Nat \ {0}
<1>1. IsFiniteSet(Senders) /\ Senders # {}
  BY WhatsAppAssumption
<1>2. Cardinality(Senders) \in Nat /\ Cardinality(Senders) # 0
  BY <1>1, FS_CardinalityType, FS_EmptySet
<1>3. QED
  BY <1>2, WhatsAppAssumption

\* A sender passes the check, stops or dies.
LEMMA DayPasses ==
  ASSUME NEW m \in Nat, NEW key \in Keys, NEW log \in Logs,
         NEW u \in Nat, NEW o \in Nat, NEW dead \in Nat, DayOK(m, key, log, u, o, dead),
         NEW v \in Nat, NEW p \in Nat, NEW late \in Nat, u + dead <= v + late,
         p <= o \/ (key.n < MaxPerDay /\ p <= Cardinality(Senders))
  PROVE  DayOK(m, key, log, v, p, late)
<1> DEFINE n == key.n
           x == Sum(log, DayTo(m))
           y == Sum(log, DayTo(key.dies))
           a == Cardinality(Senders)
<1>1. n \in Nat /\ x \in Nat /\ y \in Nat /\ a \in Nat \ {0} /\ MaxPerDay \in Nat
  BY DayNat, MaxNat DEF Keys
<1>2. /\ \A t \in Moments : t > m => log[t] = 0
      /\ x <= n + u + dead /\ (key.dies # 0 => y <= u + dead) /\ n + o <= MaxPerDay + a - 1
      /\ p <= o \/ (n < MaxPerDay /\ p <= a)
  BY DEF DayOK
<1> HIDE DEF n, x, y, a
<1>3. x <= n + v + late /\ (key.dies # 0 => y <= v + late) /\ n + p <= MaxPerDay + a - 1
  BY <1>1, <1>2
<1>4. QED
  BY <1>2, <1>3 DEF DayOK, n, x, y, a

\* The provider takes a message.
LEMMA DayTakes ==
  ASSUME NEW m \in Moments, NEW key \in Keys, NEW log \in Logs,
         NEW u \in Nat, NEW o \in Nat, NEW dead \in Nat, DayOK(m, key, log, u, o, dead),
         NEW more \in Logs, more[m] = log[m] + 1, \A t \in Moments \ {m} : more[t] = log[t]
  PROVE  DayOK(m, key, more, u + 1, o, dead)
<1>1. ASSUME NEW e PROVE Sum(more, DayTo(e)) <= Sum(log, DayTo(e)) + 1
  <2> DEFINE S == DayTo(e)
  <2>1. IsFiniteSet(S) /\ (\A t \in S : t \in Moments /\ more[t] \in Nat /\ log[t] \in Nat)
        /\ Sum(more, S) \in Nat /\ Sum(log, S) \in Nat
    BY DayNat DEF DayTo, Logs
  <2>2. \A t \in S \ {m} : more[t] <= log[t]
    BY <2>1
  <2>3. more[m] <= log[m] + 1 /\ log[m] \in Nat
    BY DEF Logs
  <2> HIDE DEF S
  <2>4. CASE m \in S
    <3>1. Sum(more, S) <= Sum(log, S) + 1
      BY <2>1, <2>2, <2>3, <2>4, SumOneMore
    <3>2. QED
      BY <3>1 DEF S
  <2>5. CASE m \notin S
    <3>1. \A t \in S : more[t] \in Nat /\ (more[t] = 0 \/ (t \in S /\ more[t] <= log[t]))
      BY <2>1, <2>2, <2>5
    <3>2. Sum(more, S) <= Sum(log, S)
      BY <2>1, <3>1, SumAtMost
    <3>3. Sum(more, S) <= Sum(log, S) + 1
      BY <2>1, <3>2
    <3>4. QED
      BY <3>3 DEF S
  <2>6. QED
    BY <2>4, <2>5
<1> DEFINE n == key.n
           x == Sum(log, DayTo(m))
           y == Sum(log, DayTo(key.dies))
           v == Sum(more, DayTo(m))
           w == Sum(more, DayTo(key.dies))
<1>2. n \in Nat /\ x \in Nat /\ y \in Nat /\ v \in Nat /\ w \in Nat
  BY DayNat DEF Keys
<1>3. /\ v <= x + 1 /\ w <= y + 1
      /\ x <= n + u + dead /\ (key.dies # 0 => y <= u + dead)
  BY <1>1 DEF DayOK
<1>4. \A t \in Moments : t > m => more[t] = 0
  <2> SUFFICES ASSUME NEW t \in Moments, t > m PROVE more[t] = 0
    OBVIOUS
  <2>1. t # m
    BY MomentsFinite
  <2>2. QED
    BY <2>1 DEF DayOK
<1> HIDE DEF n, x, y, v, w
<1>5. v <= n + (u + 1) + dead /\ (key.dies # 0 => w <= (u + 1) + dead)
  BY <1>2, <1>3
<1>6. QED
  BY <1>4, <1>5 DEF DayOK, n, v, w

\* A message is counted.
LEMMA DayCounts ==
  ASSUME NEW m \in Moments, NEW key \in Keys, NEW log \in Logs,
         NEW u \in Nat, NEW o \in Nat, NEW dead \in Nat, DayOK(m, key, log, u, o, dead),
         NEW v \in Nat, v = u - 1, NEW p \in Nat, p = o - 1
  PROVE  DayOK(m, [n |-> key.n + 1, dies |-> m + DayTTL], log, v, p, dead)
<1> DEFINE n == key.n
           x == Sum(log, DayTo(m))
           a == Cardinality(Senders)
<1>1. n \in Nat /\ x \in Nat /\ a \in Nat /\ MaxPerDay \in Nat /\ m \in Nat
  BY DayNat, MaxNat, MomentsFinite DEF Keys
<1>2. /\ \A t \in Moments : t > m => log[t] = 0
      /\ x <= n + u + dead /\ n + o <= MaxPerDay + a - 1
  BY DEF DayOK
<1>3. Sum(log, DayTo(m + DayTTL)) = 0
  <2>1. \A t \in DayTo(m + DayTTL) : log[t] = 0
    <3> SUFFICES ASSUME NEW t \in DayTo(m + DayTTL) PROVE log[t] = 0
      OBVIOUS
    <3>1. t \in Moments /\ t \in Nat /\ (m + DayTTL) - DayTTL < t /\ DayTTL \in Nat
      BY MomentsFinite, MaxNat DEF DayTo
    <3>2. t > m
      BY <1>1, <3>1
    <3>3. QED
      BY <1>2, <3>1, <3>2
  <2>2. QED
    BY <2>1, EmptyDay
<1> HIDE DEF n, x, a
<1>4. x <= (n + 1) + v + dead /\ (n + 1) + p <= MaxPerDay + a - 1 /\ 0 <= v + dead
  BY <1>1, <1>2
<1>5. QED
  BY <1>2, <1>3, <1>4 DEF DayOK, n, x, a

\* A moment passes, and the counter expires or not.
LEMMA DayPassesOn ==
  ASSUME NEW m \in Nat, NEW key \in Keys, NEW log \in Logs,
         NEW u \in Nat, NEW o \in Nat, NEW dead \in Nat, DayOK(m, key, log, u, o, dead)
  PROVE  DayOK(m + 1, IF key.dies = m + 1 THEN NoKey ELSE key, log, u, o, dead)
<1> DEFINE n == key.n
           x == Sum(log, DayTo(m))
           y == Sum(log, DayTo(m + 1))
           a == Cardinality(Senders)
<1>1. n \in Nat /\ x \in Nat /\ y \in Nat /\ a \in Nat /\ MaxPerDay \in Nat
  BY DayNat, MaxNat DEF Keys
<1>2. /\ \A t \in Moments : t > m => log[t] = 0
      /\ x <= n + u + dead /\ n + o <= MaxPerDay + a - 1
  BY DEF DayOK
<1>3. y <= x
  BY <1>2, LaterDay
<1>4. \A t \in Moments : t > m + 1 => log[t] = 0
  BY <1>2, MomentsFinite
<1>5. CASE key.dies = m + 1
  <2>1. y <= u + dead
    BY <1>5 DEF DayOK
  <2> HIDE DEF n, x, y, a
  <2>2. y <= 0 + u + dead /\ 0 + o <= MaxPerDay + a - 1
    BY <1>1, <1>2, <2>1
  <2>3. NoKey.n = 0 /\ NoKey.dies = 0
    BY DEF NoKey
  <2>4. DayOK(m + 1, NoKey, log, u, o, dead)
    BY <1>4, <2>2, <2>3 DEF DayOK, y, a
  <2>5. QED
    BY <1>5, <2>4
<1>6. CASE key.dies # m + 1
  <2> HIDE DEF n, x, y, a
  <2>1. y <= n + u + dead
    BY <1>1, <1>2, <1>3
  <2>2. DayOK(m + 1, key, log, u, o, dead)
    BY <1>4, <2>1 DEF DayOK, n, y
  <2>3. QED
    BY <1>6, <2>2
<1>7. QED
  BY <1>5, <1>6

DayInv ==
  \A a \in Agents :
    DayOK(moment, daily[a], messages[a], Cardinality(SendersAt(sender, a, Uncounted)),
          Cardinality(SendersAt(sender, a, PastCheck)), failures)

LEMMA CountGoes ==
  ASSUME WhatsAppTypeOK, NEW s \in Senders, NEW from \in SendPhases, NEW to \in SendPhases, Goes(s, from, to),
         NEW a, NEW P
  PROVE  LET n == Cardinality(SendersAt(sender, a, P))
             m == Cardinality(SendersAt(sender', a, P))
         IN  /\ n \in Nat /\ m \in Nat
             /\ (sender[s].to # a \/ (from \in P <=> to \in P)) => m = n
             /\ (sender[s].to = a /\ from \in P /\ to \notin P) => m = n - 1
             /\ (sender[s].to = a /\ from \notin P /\ to \in P) => m = n + 1
<1>1. /\ sender[s].at = from /\ sender'[s].to = sender[s].to /\ sender'[s].at = to
      /\ \A r \in Senders \ {s} : sender'[r] = sender[r]
  BY GoesOn
<1>2. /\ InPhase(sender[s], a, P) <=> sender[s].to = a /\ from \in P
      /\ InPhase(sender'[s], a, P) <=> sender[s].to = a /\ to \in P
  BY <1>1 DEF InPhase
<1> DEFINE n == Cardinality(SendersAt(sender, a, P))
           m == Cardinality(SendersAt(sender', a, P))
           here == InPhase(sender[s], a, P)
           there == InPhase(sender'[s], a, P)
<1>3. /\ n \in Nat /\ m \in Nat /\ ((here <=> there) => m = n)
      /\ (here /\ ~there => m = n - 1) /\ (~here /\ there => m = n + 1)
  BY <1>1, OneSender
<1>4. QED
  BY <1>2, <1>3

LEMMA CountRests ==
  ASSUME WhatsAppTypeOK, NEW s \in Senders, sender' = [sender EXCEPT ![s] = AtRest], NEW a \in Agents, NEW P
  PROVE  LET n == Cardinality(SendersAt(sender, a, P))
             m == Cardinality(SendersAt(sender', a, P))
         IN  /\ n \in Nat /\ m \in Nat /\ m <= n /\ n <= m + 1
             /\ sender[s].at \notin P => m = n
<1>1. sender'[s] = AtRest
  BY GoesToRest
<1>2. /\ InPhase(sender[s], a, P) => sender[s].at \in P
      /\ ~InPhase(sender'[s], a, P)
  BY <1>1, WhatsAppAssumption DEF InPhase, AtRest
<1>0. \A r \in Senders \ {s} : sender'[r] = sender[r]
  BY GoesToRest
<1> DEFINE n == Cardinality(SendersAt(sender, a, P))
           m == Cardinality(SendersAt(sender', a, P))
           here == InPhase(sender[s], a, P)
           there == InPhase(sender'[s], a, P)
<1>3. /\ n \in Nat /\ m \in Nat /\ ((here <=> there) => m = n)
      /\ (here /\ ~there => m = n - 1) /\ (~here /\ there => m = n + 1)
  <2> DEFINE ss == sender
             rr == sender'
  <2>1. \A r \in Senders \ {s} : rr[r] = ss[r]
    BY <1>0
  <2> HIDE DEF ss, rr
  <2>2. LET k == Cardinality(SendersAt(ss, a, P))
            l == Cardinality(SendersAt(rr, a, P))
        IN  /\ k \in Nat /\ l \in Nat
            /\ (InPhase(ss[s], a, P) <=> InPhase(rr[s], a, P)) => l = k
            /\ InPhase(ss[s], a, P) /\ ~InPhase(rr[s], a, P) => l = k - 1
            /\ ~InPhase(ss[s], a, P) /\ InPhase(rr[s], a, P) => l = k + 1
    BY <2>1, OneSender
  <2>3. QED
    BY <2>2 DEF ss, rr
<1>4. n \in Nat /\ m \in Nat /\ (m = n \/ m = n - 1) /\ (sender[s].at \notin P => m = n)
  BY <1>2, <1>3
<1> HIDE DEF n, m
<1>5. m <= n /\ n <= m + 1
  BY <1>4
<1>6. QED
  BY <1>4, <1>5 DEF n, m

\* Steps that write neither counter nor message: nobody takes a sender past the check but with
\* the counter below the limit, and only death takes one back.
LEMMA DayStays ==
  ASSUME WhatsAppTypeOK, DayInv, UNCHANGED <<moment, daily, messages>>, failures' \in Nat,
         \A a \in Agents :
            LET u == Cardinality(SendersAt(sender, a, Uncounted))
                v == Cardinality(SendersAt(sender', a, Uncounted))
                o == Cardinality(SendersAt(sender, a, PastCheck))
                p == Cardinality(SendersAt(sender', a, PastCheck))
            IN  u + failures <= v + failures' /\ (p <= o \/ daily[a].n < MaxPerDay)
  PROVE  DayInv'
<1> SUFFICES ASSUME NEW a \in Agents
             PROVE  DayOK(moment', daily'[a], messages'[a], Cardinality(SendersAt(sender', a, Uncounted)),
                          Cardinality(SendersAt(sender', a, PastCheck)), failures')
  BY DEF DayInv
<1> DEFINE u == Cardinality(SendersAt(sender, a, Uncounted))
           v == Cardinality(SendersAt(sender', a, Uncounted))
           o == Cardinality(SendersAt(sender, a, PastCheck))
           p == Cardinality(SendersAt(sender', a, PastCheck))
<1>1. u \in Nat /\ v \in Nat /\ o \in Nat /\ p \in Nat /\ p <= Cardinality(Senders)
  BY SendersAtNat
<1>2. u + failures <= v + failures' /\ (p <= o \/ (daily[a].n < MaxPerDay /\ p <= Cardinality(Senders)))
  BY <1>1
<1>3. DayOK(moment, daily[a], messages[a], u, o, failures)
  BY DEF DayInv
<1>4. moment \in Nat /\ daily[a] \in Keys /\ messages[a] \in Logs /\ failures \in Nat
  BY MomentsFinite DEF WhatsAppTypeOK, Keys, Logs
<1> HIDE DEF u, v, o, p
<1>5. DayOK(moment, daily[a], messages[a], v, p, failures')
  BY <1>1, <1>2, <1>3, <1>4, DayPasses
<1>6. QED
  BY <1>5 DEF v, p

LEMMA NextDay == WhatsAppTypeOK /\ WhatsAppTypeOK' /\ DayInv /\ [WhatsAppNext]_whatsAppVars => DayInv'
<1> SUFFICES ASSUME WhatsAppTypeOK, WhatsAppTypeOK', DayInv, [WhatsAppNext]_whatsAppVars PROVE DayInv'
  OBVIOUS
<1>0. failures \in Nat /\ failures' \in Nat /\ moment \in Moments /\ moment \in Nat
  BY MomentsFinite, WhatsAppAssumption DEF WhatsAppTypeOK
<1>1. ASSUME NEW s \in Senders, NEW b \in Agents, StartSend(s, b) PROVE DayInv'
  <2>1. /\ UNCHANGED <<moment, daily, messages, failures>> /\ sender[s] = AtRest
        /\ sender'[s] = [to |-> b, at |-> "daily"] /\ \A r \in Senders \ {s} : sender'[r] = sender[r]
    BY <1>1 DEF StartSend, WhatsAppTypeOK
  <2>2. ASSUME NEW a, NEW P, P \in {Uncounted, PastCheck}
        PROVE  /\ Cardinality(SendersAt(sender', a, P)) = Cardinality(SendersAt(sender, a, P))
               /\ Cardinality(SendersAt(sender, a, P)) \in Nat
    <3>1. ~InPhase(sender[s], a, P) /\ ~InPhase(sender'[s], a, P)
      BY <2>1, <2>2 DEF InPhase, AtRest, Uncounted, PastCheck
    <3>2. \A r \in Senders \ {s} : sender'[r] = sender[r]
      BY <2>1
    <3> DEFINE n == Cardinality(SendersAt(sender, a, P))
               m == Cardinality(SendersAt(sender', a, P))
    <3>3. n \in Nat /\ ((InPhase(sender[s], a, P) <=> InPhase(sender'[s], a, P)) => m = n)
      BY <3>2, OneSender
    <3>4. QED
      BY <3>1, <3>3
  <2>3. QED
    BY <1>0, <2>1, <2>2, DayStays
<1>2. ASSUME NEW s \in Senders, CheckDaily(s) PROVE DayInv'
  <2>1. UNCHANGED <<moment, daily, messages, failures>> /\ sender[s].at = "daily"
    BY <1>2 DEF CheckDaily
  <2>2. CASE Goes(s, "daily", "send") /\ daily[sender[s].to].n < MaxPerDay
    <3>1. ASSUME NEW a \in Agents
          PROVE  /\ Cardinality(SendersAt(sender', a, Uncounted)) = Cardinality(SendersAt(sender, a, Uncounted))
                 /\ \/ Cardinality(SendersAt(sender', a, PastCheck)) = Cardinality(SendersAt(sender, a, PastCheck))
                    \/ daily[a].n < MaxPerDay
                 /\ Cardinality(SendersAt(sender, a, Uncounted)) \in Nat
                 /\ Cardinality(SendersAt(sender, a, PastCheck)) \in Nat
      <4>1. {"daily", "send"} \subseteq SendPhases /\ {"daily", "send"} \cap Uncounted = {}
        BY DEF SendPhases, Uncounted
      <4>2. sender[s].to # a \/ daily[a].n < MaxPerDay
        BY <2>2
      <4>3. QED
        BY <2>2, <4>1, <4>2, CountGoes
    <3>2. QED
      BY <1>0, <2>1, <3>1, DayStays
  <2>3. CASE sender' = [sender EXCEPT ![s] = AtRest]
    <3>1. ASSUME NEW a \in Agents, NEW P, P \in {Uncounted, PastCheck}
          PROVE  /\ Cardinality(SendersAt(sender', a, P)) = Cardinality(SendersAt(sender, a, P))
                 /\ Cardinality(SendersAt(sender, a, P)) \in Nat
      <4>1. sender[s].at \notin P
        BY <2>1, <3>1 DEF Uncounted, PastCheck
      <4>2. QED
        BY <2>3, <4>1, CountRests
    <3>2. QED
      BY <1>0, <2>1, <3>1, DayStays
  <2>4. QED
    BY <1>2, <2>2, <2>3 DEF CheckDaily, Stops
<1>3. ASSUME NEW s \in Senders,
             \/ ReportSent(s) /\ failures' = failures /\ sender[s].at \notin Uncounted
             \/ Stops(s, "send") /\ UNCHANGED <<moment, daily, messages, failures>> /\ sender[s].at \notin Uncounted
             \/ SenderDies(s)
      PROVE  DayInv'
  <2>1. /\ UNCHANGED <<moment, daily, messages>> /\ sender' = [sender EXCEPT ![s] = AtRest]
        /\ failures' = failures + 1 \/ (failures' = failures /\ sender[s].at \notin Uncounted)
    BY <1>3 DEF ReportSent, SenderDies, Stops
  <2>2. ASSUME NEW a \in Agents
        PROVE  /\ Cardinality(SendersAt(sender, a, Uncounted)) + failures
                    <= Cardinality(SendersAt(sender', a, Uncounted)) + failures'
               /\ Cardinality(SendersAt(sender', a, PastCheck)) <= Cardinality(SendersAt(sender, a, PastCheck))
    <3> DEFINE u == Cardinality(SendersAt(sender, a, Uncounted))
               v == Cardinality(SendersAt(sender', a, Uncounted))
    <3>1. u \in Nat /\ v \in Nat /\ u <= v + 1 /\ (sender[s].at \notin Uncounted => v = u)
      BY <2>1, CountRests
    <3>2. Cardinality(SendersAt(sender', a, PastCheck)) <= Cardinality(SendersAt(sender, a, PastCheck))
      BY <2>1, CountRests
    <3>3. failures' = failures + 1 \/ (failures' = failures /\ v = u)
      BY <2>1, <3>1
    <3>4. u \in Nat /\ v \in Nat /\ u <= v + 1
      BY <3>1
    <3>5. failures \in Nat /\ failures' \in Nat
      BY <1>0
    <3> HIDE DEF u, v
    <3>6. u + failures <= v + failures'
      <4>1. \A i, j, d, e \in Nat : i <= j + 1 /\ (e = d + 1 \/ (e = d /\ j = i)) => i + d <= j + e
        OBVIOUS
      <4>2. QED
        BY <3>3, <3>4, <3>5, <4>1
    <3>7. QED
      BY <3>2, <3>6 DEF u, v
  <2>3. QED
    BY <1>0, <2>1, <2>2, DayStays
<1>4. ASSUME NEW s \in Senders, Goes(s, "send", "second"),
             ProviderTakes(s),
             UNCHANGED <<moment, second, daily, reported, failures>>
      PROVE  DayInv'
  <2> SUFFICES ASSUME NEW a \in Agents
               PROVE  DayOK(moment', daily'[a], messages'[a], Cardinality(SendersAt(sender', a, Uncounted)),
                            Cardinality(SendersAt(sender', a, PastCheck)), failures')
    BY DEF DayInv
  <2> DEFINE u == Cardinality(SendersAt(sender, a, Uncounted))
             v == Cardinality(SendersAt(sender', a, Uncounted))
             o == Cardinality(SendersAt(sender, a, PastCheck))
             p == Cardinality(SendersAt(sender', a, PastCheck))
  <2>1. /\ "send" \in SendPhases /\ "second" \in SendPhases /\ "send" \notin Uncounted /\ "second" \in Uncounted
        /\ "send" \in PastCheck /\ "second" \in PastCheck
    BY DEF SendPhases, Uncounted, PastCheck
  <2>2. /\ u \in Nat /\ v \in Nat /\ o \in Nat /\ p = o
        /\ (sender[s].to # a => v = u) /\ (sender[s].to = a => v = u + 1)
    BY <1>4, <2>1, CountGoes
  <2>3. DayOK(moment, daily[a], messages[a], u, o, failures)
    BY DEF DayInv
  <2>4. daily[a] \in Keys /\ messages[a] \in Logs /\ messages'[a] \in Logs
    BY DEF WhatsAppTypeOK, Keys, Logs
  <2>5. CASE sender[s].to # a
    <3>1. messages'[a] = messages[a]
      BY <1>4, <2>5 DEF WhatsAppTypeOK, ProviderTakes
    <3>2. QED
      BY <1>4, <2>2, <2>3, <2>5, <3>1
  <2>6. CASE sender[s].to = a
    <3>1. messages'[a][moment] = messages[a][moment] + 1 /\ \A t \in Moments \ {moment} : messages'[a][t] = messages[a][t]
      BY <1>0, <1>4, <2>6 DEF WhatsAppTypeOK, ProviderTakes
    <3> HIDE DEF u, v, o, p
    <3>2. DayOK(moment, daily[a], messages'[a], u + 1, o, failures)
      BY <1>0, <2>2, <2>3, <2>4, <3>1, DayTakes
    <3>3. v = u + 1 /\ p = o
      BY <2>2, <2>6
    <3>4. QED
      BY <1>4, <3>2, <3>3 DEF v, p
  <2>7. QED
    BY <2>5, <2>6
<1>12. ASSUME NEW s \in Senders, Stops(s, "send"),
              ProviderTakes(s),
              failures' = failures + 1, UNCHANGED <<moment, second, daily, reported>>
       PROVE  DayInv'
  <2> SUFFICES ASSUME NEW a \in Agents
               PROVE  DayOK(moment', daily'[a], messages'[a], Cardinality(SendersAt(sender', a, Uncounted)),
                            Cardinality(SendersAt(sender', a, PastCheck)), failures')
    BY DEF DayInv
  <2> DEFINE u == Cardinality(SendersAt(sender, a, Uncounted))
             v == Cardinality(SendersAt(sender', a, Uncounted))
             o == Cardinality(SendersAt(sender, a, PastCheck))
             p == Cardinality(SendersAt(sender', a, PastCheck))
  <2>1. sender[s].at = "send" /\ sender' = [sender EXCEPT ![s] = AtRest] /\ "send" \notin Uncounted
    BY <1>12 DEF Stops, Uncounted
  <2>2. u \in Nat /\ v = u /\ o \in Nat /\ p \in Nat /\ p <= o
    BY <2>1, CountRests
  <2>3. DayOK(moment, daily[a], messages[a], u, o, failures)
    BY DEF DayInv
  <2>4. daily[a] \in Keys /\ messages[a] \in Logs /\ messages'[a] \in Logs
    BY DEF WhatsAppTypeOK, Keys, Logs
  <2> HIDE DEF u, v, o, p
  <2>5. DayOK(moment, daily[a], messages'[a], u + 1, o, failures)
    <3>1. CASE sender[s].to # a
      <4>1. messages'[a] = messages[a]
        BY <1>12, <3>1 DEF WhatsAppTypeOK, ProviderTakes
      <4>2. u + 1 \in Nat /\ u + failures <= (u + 1) + failures /\ o <= o
        BY <1>0, <2>2
      <4>3. QED
        BY <1>0, <2>2, <2>3, <2>4, <4>1, <4>2, DayPasses
    <3>2. CASE sender[s].to = a
      <4>1. messages'[a][moment] = messages[a][moment] + 1 /\ \A t \in Moments \ {moment} : messages'[a][t] = messages[a][t]
        BY <1>0, <1>12, <3>2 DEF WhatsAppTypeOK, ProviderTakes
      <4>2. QED
        BY <1>0, <2>2, <2>3, <2>4, <4>1, DayTakes
    <3>3. QED
      BY <3>1, <3>2
  <2>6. /\ u + 1 \in Nat /\ (u + 1) + failures <= u + (failures + 1) /\ failures + 1 \in Nat
    BY <1>0, <2>2
  <2>7. DayOK(moment, daily[a], messages'[a], u, p, failures + 1)
    BY <1>0, <2>2, <2>4, <2>5, <2>6, DayPasses
  <2>8. QED
    BY <1>12, <2>2, <2>7 DEF v, p
<1>5. ASSUME NEW s \in Senders, RecordSecond(s) PROVE DayInv'
  <2>1. UNCHANGED <<moment, daily, messages, failures>> /\ Goes(s, "second", "day")
    BY <1>5 DEF RecordSecond
  <2>2. "second" \in SendPhases /\ "day" \in SendPhases /\ {"second", "day"} \subseteq Uncounted /\ {"second", "day"} \subseteq PastCheck
    BY DEF SendPhases, Uncounted, PastCheck
  <2>3. ASSUME NEW a \in Agents, NEW P, P \in {Uncounted, PastCheck}
        PROVE  /\ Cardinality(SendersAt(sender', a, P)) = Cardinality(SendersAt(sender, a, P))
               /\ Cardinality(SendersAt(sender, a, P)) \in Nat
    BY <2>1, <2>2, <2>3, CountGoes
  <2>4. QED
    BY <1>0, <2>1, <2>3, DayStays
<1>6. ASSUME NEW s \in Senders, RecordDay(s) PROVE DayInv'
  <2>0. /\ Goes(s, "day", "report") /\ UNCHANGED <<moment, messages, failures>>
        /\ daily' = [daily EXCEPT ![sender[s].to] = Bumped(daily[sender[s].to], DayTTL)]
    BY <1>6 DEF RecordDay
  <2> SUFFICES ASSUME NEW a \in Agents
               PROVE  DayOK(moment', daily'[a], messages'[a], Cardinality(SendersAt(sender', a, Uncounted)),
                            Cardinality(SendersAt(sender', a, PastCheck)), failures')
    BY DEF DayInv
  <2> DEFINE u == Cardinality(SendersAt(sender, a, Uncounted))
             v == Cardinality(SendersAt(sender', a, Uncounted))
             o == Cardinality(SendersAt(sender, a, PastCheck))
             p == Cardinality(SendersAt(sender', a, PastCheck))
  <2>1. /\ "day" \in SendPhases /\ "report" \in SendPhases /\ "day" \in Uncounted /\ "report" \notin Uncounted
        /\ "day" \in PastCheck /\ "report" \notin PastCheck
    BY DEF SendPhases, Uncounted, PastCheck
  <2>2. /\ u \in Nat /\ v \in Nat /\ o \in Nat /\ p \in Nat
        /\ (sender[s].to # a => v = u /\ p = o) /\ (sender[s].to = a => v = u - 1 /\ p = o - 1)
    BY <2>0, <2>1, CountGoes
  <2>3. DayOK(moment, daily[a], messages[a], u, o, failures)
    BY DEF DayInv
  <2>4. daily[a] \in Keys /\ messages[a] \in Logs /\ daily \in [Agents -> [n : Nat, dies : Nat]]
    BY DEF WhatsAppTypeOK, Keys, Logs
  <2>5. CASE sender[s].to # a
    <3>1. daily'[a] = daily[a]
      BY <2>0, <2>4, <2>5
    <3>2. QED
      BY <2>0, <2>2, <2>3, <2>5, <3>1
  <2>6. CASE sender[s].to = a
    <3>1. daily'[a] = [n |-> daily[a].n + 1, dies |-> moment + DayTTL]
      BY <2>0, <2>4, <2>6 DEF Bumped
    <3>2. v = u - 1 /\ p = o - 1
      BY <2>2, <2>6
    <3> HIDE DEF u, v, o, p
    <3>3. DayOK(moment, [n |-> daily[a].n + 1, dies |-> moment + DayTTL], messages[a], v, p, failures)
      BY <1>0, <2>2, <2>3, <2>4, <3>2, DayCounts
    <3>4. QED
      BY <2>0, <3>1, <3>3 DEF v, p
  <2>7. QED
    BY <2>5, <2>6
<1>7. ASSUME WhatsAppTick PROVE DayInv'
  <2> SUFFICES ASSUME NEW a \in Agents
               PROVE  DayOK(moment', daily'[a], messages'[a], Cardinality(SendersAt(sender', a, Uncounted)),
                            Cardinality(SendersAt(sender', a, PastCheck)), failures')
    BY DEF DayInv
  <2> DEFINE u == Cardinality(SendersAt(sender, a, Uncounted))
             o == Cardinality(SendersAt(sender, a, PastCheck))
  <2>1. u \in Nat /\ o \in Nat
    BY SendersAtNat
  <2>2. DayOK(moment, daily[a], messages[a], u, o, failures)
    BY DEF DayInv
  <2>3. daily[a] \in Keys /\ messages[a] \in Logs
    BY DEF WhatsAppTypeOK, Keys, Logs
  <2> HIDE DEF u, o
  <2>4. DayOK(moment + 1, IF daily[a].dies = moment + 1 THEN NoKey ELSE daily[a], messages[a], u, o, failures)
    BY <1>0, <2>1, <2>2, <2>3, DayPassesOn
  <2>5. /\ moment' = moment + 1 /\ UNCHANGED <<sender, messages, failures>>
        /\ daily'[a] = IF daily[a].dies = moment + 1 THEN NoKey ELSE daily[a]
    BY <1>7 DEF WhatsAppTick, Alive
  <2>6. QED
    BY <2>4, <2>5 DEF u, o
<1>8. CASE UNCHANGED whatsAppVars
  BY <1>8 DEF whatsAppVars, DayInv
<1>9. ASSUME NEW s \in Senders, CallProvider(s) PROVE DayInv'
  <2>1. Stops(s, "send") => sender[s].at \notin Uncounted
    BY DEF Stops, Uncounted
  <2>2. QED
    BY <1>3, <1>4, <1>9, <1>12, <2>1 DEF CallProvider
<1>10. ASSUME NEW s \in Senders, ReportSent(s) \/ SenderDies(s) PROVE DayInv'
  <2>1. ReportSent(s) => failures' = failures /\ sender[s].at \notin Uncounted
    BY DEF ReportSent, Stops, Uncounted
  <2>2. QED
    BY <1>3, <1>10, <2>1
<1>11. QED
  BY <1>1, <1>2, <1>5, <1>6, <1>7, <1>8, <1>9, <1>10 DEF WhatsAppNext

\* The types of the senders, of the counters and of what was sent.
THEOREM WhatsAppTypeCorrect == WhatsAppSpec => []WhatsAppTypeOK
<1>1. WhatsAppInit => WhatsAppTypeOK
  BY InitWhatsAppType
<1>2. WhatsAppTypeOK /\ [WhatsAppNext]_whatsAppVars => WhatsAppTypeOK'
  BY NextWhatsAppType
<1>3. QED
  BY <1>1, <1>2, PTL DEF WhatsAppSpec

\* However many senders write to an agent at a time, in any 24 hours it gets at most its limit,
\* one message of every other sender, and one for every sender that died before it counted its
\* message and every call that raised although the provider had taken it (check_whatsapp_rate,
\* record_whatsapp_message).
THEOREM DayIsLimited == WhatsAppSpec => []DailyLimit
<1>1. WhatsAppInit => DayInv
  <2> SUFFICES ASSUME WhatsAppInit, NEW a \in Agents
               PROVE  DayOK(moment, daily[a], messages[a], Cardinality(SendersAt(sender, a, Uncounted)),
                            Cardinality(SendersAt(sender, a, PastCheck)), failures)
    BY DEF DayInv
  <2>1. SendersAt(sender, a, Uncounted) = {} /\ SendersAt(sender, a, PastCheck) = {}
    BY DEF WhatsAppInit, SendersAt, InPhase, AtRest, Uncounted, PastCheck
  <2>2. Cardinality({}) = 0
    BY FS_EmptySet
  <2>3. messages[a] \in Logs /\ \A t \in Moments : messages[a][t] = 0
    BY DEF WhatsAppInit, Logs
  <2>4. Sum(messages[a], DayTo(moment)) = 0
    <3>1. \A t \in DayTo(moment) : messages[a][t] = 0
      BY <2>3 DEF DayTo
    <3>2. QED
      BY <2>3, <3>1, EmptyDay
  <2>5. daily[a].n = 0 /\ daily[a].dies = 0 /\ failures = 0
    BY DEF WhatsAppInit, NoKey
  <2>6. 0 <= MaxPerDay + Cardinality(Senders) - 1
    BY MaxNat
  <2>7. DayOK(moment, daily[a], messages[a], 0, 0, failures)
    BY <2>3, <2>4, <2>5, <2>6 DEF DayOK
  <2>8. QED
    BY <2>1, <2>2, <2>7
<1>2. WhatsAppTypeOK /\ DayInv => DailyLimit
  <2> SUFFICES ASSUME WhatsAppTypeOK, DayInv, NEW a \in Agents
               PROVE  SumFunctionOnSet(messages[a], Day) <= MaxPerDay + Cardinality(Senders) - 1 + failures
    BY DEF DailyLimit
  <2> DEFINE x == Sum(messages[a], DayTo(moment))
             n == daily[a].n
             u == Cardinality(SendersAt(sender, a, Uncounted))
             o == Cardinality(SendersAt(sender, a, PastCheck))
             c == Cardinality(Senders)
  <2>1. SumFunctionOnSet(messages[a], Day) = x
    BY DEF Sum, Day, DayTo
  <2>2. x \in Nat /\ n \in Nat /\ failures \in Nat
    <3>1. messages[a] \in Logs
      BY DEF WhatsAppTypeOK, Logs
    <3>2. QED
      BY <3>1, DayNat DEF WhatsAppTypeOK
  <2>3. u \in Nat /\ o \in Nat /\ u <= o
    <3> DEFINE S == SendersAt(sender, a, Uncounted)
               T == SendersAt(sender, a, PastCheck)
    <3>1. S \subseteq T
      BY DEF SendersAt, InPhase, Uncounted, PastCheck
    <3>2. IsFiniteSet(T) /\ Cardinality(S) \in Nat /\ Cardinality(T) \in Nat
      BY SendersAtNat
    <3> HIDE DEF S, T
    <3>3. Cardinality(S) <= Cardinality(T)
      BY <3>1, <3>2, FS_Subset
    <3>4. QED
      BY <3>2, <3>3 DEF S, T
  <2>4. x <= n + u + failures /\ n + o <= MaxPerDay + c - 1 /\ MaxPerDay \in Nat /\ c \in Nat
    BY MaxNat DEF DayInv, DayOK
  <2> HIDE DEF x, n, u, o, c
  <2>5. x <= MaxPerDay + c - 1 + failures
    BY <2>2, <2>3, <2>4
  <2>6. QED
    BY <2>1, <2>5 DEF c
<1>3. WhatsAppTypeOK /\ WhatsAppTypeOK' /\ DayInv /\ [WhatsAppNext]_whatsAppVars => DayInv'
  BY NextDay
<1>4. QED
  BY <1>1, <1>2, <1>3, WhatsAppTypeCorrect, PTL DEF WhatsAppSpec
-----------------------------------------------------------------------------
(* Templates. *)

Statuses == {"draft", "approved", "active", "archived"}
RowNames == Names \cup {NoName}
TemplateRow == [name : RowNames, version : Nat, status : Statuses, approved : BOOLEAN, deleted : BOOLEAN]
EditOps == {"approve", "activate", "update", "archive", "delete"}
Edit == [op : EditOps \cup {"done", "create"}, id : Nat, name : RowNames, read : Statuses,
         overtaken : BOOLEAN]

RowsInv ==
  /\ templates \in Seq(TemplateRow)
  /\ \A i \in DOMAIN templates : /\ templates[i].version \in 0 .. i
                                 /\ templates[i].status \in {"approved", "active"} => templates[i].approved
  /\ \A i, j \in Live : templates[i].name = templates[j].name /\ templates[i].version = templates[j].version
                          => i = j

\* A request knows its row as it is until another has changed it, and what it read allows
\* what it does.
EditsInv ==
  /\ edits \in [Editors -> Edit]
  /\ \A e \in Editors :
       IF edits[e].op \in EditOps
       THEN /\ edits[e].id \in DOMAIN templates
            /\ ~edits[e].overtaken => templates[edits[e].id].status = edits[e].read
            /\ edits[e].op = "approve" => edits[e].read = "draft"
            /\ edits[e].op = "activate" => edits[e].read = "approved" /\ templates[edits[e].id].approved
       ELSE edits[e].id = 0

TemplateInv == RowsInv /\ EditsInv

LEMMA DoneEdit == Done \in Edit /\ Done.op = "done" /\ Done.id = 0
BY DEF Done, Edit, RowNames, Statuses

LEMMA InitTemplates == TemplateInit => TemplateInv
<1> SUFFICES ASSUME TemplateInit PROVE TemplateInv
  OBVIOUS
<1>1. templates = <<>> /\ edits = [e \in Editors |-> Done]
  BY DEF TemplateInit
<1>2. RowsInv
  BY <1>1 DEF RowsInv, Live
<1>3. EditsInv
  BY <1>1, DoneEdit DEF EditsInv, EditOps
<1>4. QED
  BY <1>2, <1>3 DEF TemplateInv

LEMMA PlaceValues ==
  Place["draft"] = 1 /\ Place["approved"] = 2 /\ Place["active"] = 3 /\ Place["archived"] = 4
BY DEF Place

\* What each UPDATE leaves of a row.
LEMMA Written ==
  ASSUME NEW r \in TemplateRow
  PROVE  LET approved == [r EXCEPT !.status = "approved", !.approved = TRUE]
             active == [r EXCEPT !.status = "active"]
             archived == [r EXCEPT !.status = "archived"]
             deleted == [r EXCEPT !.deleted = TRUE]
         IN  /\ \A w \in {approved, active, archived, deleted} :
                  w \in TemplateRow /\ w.name = r.name /\ w.version = r.version
             /\ approved.status = "approved" /\ approved.approved /\ approved.deleted = r.deleted
             /\ active.status = "active" /\ active.approved = r.approved /\ active.deleted = r.deleted
             /\ archived.status = "archived" /\ archived.approved = r.approved
             /\ archived.deleted = r.deleted
             /\ deleted.status = r.status /\ deleted.approved = r.approved /\ deleted.deleted
BY DEF TemplateRow, Statuses

LEMMA Replaced ==
  ASSUME NEW S, NEW s \in Seq(S), NEW i \in DOMAIN s, NEW w \in S, NEW t, t = [s EXCEPT ![i] = w]
  PROVE  /\ i \in Nat \ {0} /\ t \in Seq(S) /\ DOMAIN t = DOMAIN s
         /\ t[i] = w /\ \A j \in DOMAIN s : j # i => t[j] = s[j]
OBVIOUS

\* What a request may write over the row r, given whether it still knows it.
Forward(r, w, known) ==
  /\ w.name = r.name /\ w.version = r.version
  /\ r.deleted => w.deleted
  /\ r.approved => w.approved
  /\ w.status \in {"approved", "active"} => w.approved
  /\ known => Place[w.status] >= Place[r.status]
  /\ known /\ r.status = "active" => w.status \in {"active", "archived"} \/ w.deleted

\* The row and the columns a request may write: forward from what it read, and approved before
\* it is active.
LEMMA ChangedRow ==
  ASSUME TemplateInv, NEW e \in Editors, CommitEdit(e), NEW i, i = edits[e].id
  PROVE  /\ i \in DOMAIN templates /\ i \in Nat \ {0}
         /\ templates' \in Seq(TemplateRow) /\ DOMAIN templates' = DOMAIN templates
         /\ \A j \in DOMAIN templates : j # i => templates'[j] = templates[j]
         /\ Forward(templates[i], templates'[i], ~edits[e].overtaken)
<1> DEFINE r == templates[i]
           known == ~edits[e].overtaken
<1>1. edits[e].op \in {"approve", "activate", "archive", "delete"} /\ edits[e] \in Edit
  BY DEF CommitEdit, TemplateInv, EditsInv
<1>2. /\ i \in DOMAIN templates
      /\ known => r.status = edits[e].read
      /\ edits[e].op = "approve" => edits[e].read = "draft"
      /\ edits[e].op = "activate" => edits[e].read = "approved" /\ r.approved
  BY <1>1 DEF TemplateInv, EditsInv, EditOps
<1>3. templates \in Seq(TemplateRow) /\ r \in TemplateRow
  BY <1>2 DEF TemplateInv, RowsInv
<1>4. r.status \in {"approved", "active"} => r.approved
  BY <1>2, <1>3 DEF TemplateInv, RowsInv
<1>5. r.status \in Statuses
  BY <1>3 DEF TemplateRow
<1>6. ASSUME NEW w \in TemplateRow, templates' = [templates EXCEPT ![i] = w], Forward(r, w, known)
      PROVE  /\ i \in Nat \ {0}
             /\ templates' \in Seq(TemplateRow) /\ DOMAIN templates' = DOMAIN templates
             /\ \A j \in DOMAIN templates : j # i => templates'[j] = templates[j]
             /\ Forward(r, templates'[i], known)
  BY <1>2, <1>3, <1>6, Replaced
<1>7. \E w \in TemplateRow : templates' = [templates EXCEPT ![i] = w] /\ Forward(r, w, known)
  <2>1. CASE edits[e].op = "approve"
    <3> DEFINE w == [r EXCEPT !.status = "approved", !.approved = TRUE]
    <3>1. templates' = [templates EXCEPT ![i] = w]
      BY <2>1, <1>2, <1>3 DEF CommitEdit
    <3>2. /\ w \in TemplateRow /\ w.name = r.name /\ w.version = r.version
          /\ w.status = "approved" /\ w.approved /\ w.deleted = r.deleted
      BY <1>3, Written
    <3> HIDE DEF w, r
    <3>3. Forward(r, w, known)
      BY <1>2, <2>1, <3>2, PlaceValues DEF Forward
    <3>4. QED
      BY <3>1, <3>2, <3>3
  <2>2. CASE edits[e].op = "activate"
    <3> DEFINE w == [r EXCEPT !.status = "active"]
    <3>1. templates' = [templates EXCEPT ![i] = w]
      BY <2>2 DEF CommitEdit
    <3>2. /\ w \in TemplateRow /\ w.name = r.name /\ w.version = r.version
          /\ w.status = "active" /\ w.approved = r.approved /\ w.deleted = r.deleted
      BY <1>3, Written
    <3> HIDE DEF w, r
    <3>3. Forward(r, w, known)
      BY <1>2, <2>2, <3>2, PlaceValues DEF Forward
    <3>4. QED
      BY <3>1, <3>2, <3>3
  <2>3. CASE edits[e].op = "archive" /\ edits[e].read = "archived"
    <3>1. templates' = [templates EXCEPT ![i] = r]
      <4>1. templates' = templates
        BY <2>3 DEF CommitEdit
      <4>2. QED
        BY <4>1, <1>2, <1>3
    <3> HIDE DEF r
    <3>2. Forward(r, r, known)
      BY <1>2, <1>4, <1>5, <2>3, PlaceValues DEF Forward, Statuses
    <3>3. QED
      BY <1>3, <3>1, <3>2
  <2>4. CASE edits[e].op = "archive" /\ edits[e].read # "archived"
    <3> DEFINE w == [r EXCEPT !.status = "archived"]
    <3>1. templates' = [templates EXCEPT ![i] = w]
      BY <2>4 DEF CommitEdit
    <3>2. /\ w \in TemplateRow /\ w.name = r.name /\ w.version = r.version
          /\ w.status = "archived" /\ w.approved = r.approved /\ w.deleted = r.deleted
      BY <1>3, Written
    <3> HIDE DEF w, r
    <3>3. Forward(r, w, known)
      BY <1>5, <3>2, PlaceValues DEF Forward, Statuses
    <3>4. QED
      BY <3>1, <3>2, <3>3
  <2>5. CASE edits[e].op = "delete"
    <3> DEFINE w == [r EXCEPT !.deleted = TRUE]
    <3>1. templates' = [templates EXCEPT ![i] = w]
      BY <2>5 DEF CommitEdit
    <3>2. /\ w \in TemplateRow /\ w.name = r.name /\ w.version = r.version
          /\ w.status = r.status /\ w.approved = r.approved /\ w.deleted
      BY <1>3, Written
    <3> HIDE DEF w, r
    <3>3. Forward(r, w, known)
      BY <1>4, <1>5, <3>2, PlaceValues DEF Forward, Statuses
    <3>4. QED
      BY <3>1, <3>2, <3>3
  <2>6. QED
    BY <1>1, <2>1, <2>2, <2>3, <2>4, <2>5
<1>8. QED
  BY <1>2, <1>6, <1>7

\* The insert of a version: the unique index keeps live rows apart.
LEMMA AddedRow ==
  ASSUME TemplateInv, NEW e \in Editors, CommitRow(e)
  PROVE  /\ RowsInv'
         /\ Len(templates') = Len(templates) + 1
         /\ \A j \in DOMAIN templates : templates'[j] = templates[j]
         /\ templates'[Len(templates) + 1].status = "draft"
<1> DEFINE n == Len(templates)
           i == edits[e].id
           version == IF i = 0 THEN 1 ELSE templates[i].version + 1
           new == Template(edits[e].name, version)
<1>1. /\ edits[e].op \in {"create", "update"} /\ ~Taken(edits[e].name, version)
      /\ templates' = Append(templates, new)
  BY DEF CommitRow
<1>2. templates \in Seq(TemplateRow) /\ n \in Nat /\ DOMAIN templates = 1 .. n
  BY DEF TemplateInv, RowsInv
<1>3. edits[e] \in Edit
  BY DEF TemplateInv, EditsInv
<1>4. i = 0 \/ i \in DOMAIN templates
  BY <1>1 DEF TemplateInv, EditsInv, EditOps
<1>5. version \in 0 .. n + 1
  <2>1. CASE i = 0
    BY <2>1, <1>2
  <2>2. CASE i # 0
    <3>1. i \in 1 .. n /\ templates[i].version \in 0 .. i
      BY <2>2, <1>2, <1>4 DEF TemplateInv, RowsInv
    <3>2. QED
      BY <2>2, <3>1, <1>2
  <2>3. QED
    BY <2>1, <2>2
<1>6. new \in TemplateRow /\ new.name = edits[e].name /\ new.version = version /\ new.status = "draft"
      /\ new.deleted = FALSE
  <2>1. edits[e].name \in RowNames /\ version \in Nat
    BY <1>2, <1>3, <1>5 DEF Edit
  <2> HIDE DEF version
  <2>2. QED
    BY <2>1 DEF Template, TemplateRow, Statuses
<1> HIDE DEF new, version
<1>7. /\ templates' \in Seq(TemplateRow) /\ Len(templates') = n + 1 /\ DOMAIN templates' = 1 .. n + 1
      /\ \A j \in DOMAIN templates : templates'[j] = templates[j]
      /\ templates'[n + 1] = new
  BY <1>1, <1>2, <1>6, AppendProperties
<1>8. \A j \in DOMAIN templates' : /\ templates'[j].version \in 0 .. j
                                   /\ templates'[j].status \in {"approved", "active"} => templates'[j].approved
  <2> SUFFICES ASSUME NEW j \in 1 .. n + 1
               PROVE  /\ templates'[j].version \in 0 .. j
                      /\ templates'[j].status \in {"approved", "active"} => templates'[j].approved
    BY <1>7
  <2>1. CASE j \in 1 .. n
    BY <2>1, <1>2, <1>7 DEF TemplateInv, RowsInv
  <2>2. CASE j = n + 1
    BY <2>2, <1>5, <1>6, <1>7
  <2>3. QED
    BY <2>1, <2>2, <1>2
<1>9. \A j, k \in Live' : templates'[j].name = templates'[k].name /\ templates'[j].version = templates'[k].version
                           => j = k
  <2>1. \A j \in Live' : j = n + 1 \/ j \in Live
    BY <1>2, <1>7 DEF Live
  <2>2. \A j \in Live : j \in 1 .. n /\ ~(templates[j].name = edits[e].name /\ templates[j].version = version)
    BY <1>1, <1>2 DEF Taken, Live
  <2>3. QED
    BY <2>1, <2>2, <1>2, <1>6, <1>7 DEF TemplateInv, RowsInv
<1>10. QED
  BY <1>6, <1>7, <1>8, <1>9 DEF RowsInv

\* A request that another one overtakes goes on with what it had read.
LEMMA Marked ==
  ASSUME NEW r \in Edit
  PROVE  LET w == [r EXCEPT !.overtaken = TRUE]
         IN  w \in Edit /\ w.op = r.op /\ w.id = r.id /\ w.read = r.read /\ w.overtaken
BY DEF Edit

\* What EditsInv says of one request and one list of rows.
Knows(r, rows) ==
  IF r.op \in EditOps
  THEN /\ r.id \in DOMAIN rows
       /\ ~r.overtaken => rows[r.id].status = r.read
       /\ r.op = "approve" => r.read = "draft"
       /\ r.op = "activate" => r.read = "approved" /\ rows[r.id].approved
  ELSE r.id = 0

LEMMA DoneKnows == ASSUME NEW rows PROVE Knows(Done, rows)
BY DoneEdit DEF Knows, EditOps

LEMMA EditsInvKnows ==
  /\ EditsInv <=> edits \in [Editors -> Edit] /\ \A e \in Editors : Knows(edits[e], templates)
  /\ EditsInv' <=> edits' \in [Editors -> Edit] /\ \A e \in Editors : Knows(edits'[e], templates')
BY DEF EditsInv, Knows

\* Each step keeps the invariant.
LEMMA NextTemplate == TemplateInv /\ [TemplateNext]_templateVars => TemplateInv'
<1> SUFFICES ASSUME TemplateInv, [TemplateNext]_templateVars PROVE TemplateInv'
  OBVIOUS
<1>1. templates \in Seq(TemplateRow) /\ edits \in [Editors -> Edit]
      /\ \A e \in Editors : Knows(edits[e], templates)
  BY EditsInvKnows DEF TemplateInv, RowsInv
<1>2. ASSUME templates' = templates, NEW e \in Editors, NEW r \in Edit, Knows(r, templates),
             edits' = [edits EXCEPT ![e] = r]
      PROVE  TemplateInv'
  <2>1. RowsInv'
    BY <1>2 DEF TemplateInv, RowsInv, Live
  <2>2. edits' \in [Editors -> Edit] /\ \A f \in Editors : Knows(edits'[f], templates')
    <3> HIDE DEF Knows
    <3>1. edits' \in [Editors -> Edit]
      BY <1>1, <1>2
    <3>2. ASSUME NEW f \in Editors PROVE Knows(edits'[f], templates')
      <4>1. edits'[f] = IF f = e THEN r ELSE edits[f]
        BY <1>1, <1>2
      <4>2. QED
        BY <4>1, <1>1, <1>2
    <3>3. QED
      BY <3>1, <3>2
  <2>3. QED
    BY <2>1, <2>2, EditsInvKnows DEF TemplateInv
<1>3. ASSUME NEW e \in Editors, NEW n \in Names, BeginCreate(e, n) PROVE TemplateInv'
  <2> DEFINE r == [Done EXCEPT !.op = "create", !.name = n]
  <2>1. r \in Edit /\ r.op = "create" /\ r.id = 0
    BY DoneEdit DEF Done, Edit, RowNames, Statuses
  <2>2. templates' = templates /\ edits' = [edits EXCEPT ![e] = r]
    BY <1>3 DEF BeginCreate
  <2> HIDE DEF r
  <2>3. Knows(r, templates)
    BY <2>1 DEF Knows, EditOps
  <2>4. QED
    BY <1>2, <2>1, <2>2, <2>3
<1>4. ASSUME NEW e \in Editors, NEW i \in DOMAIN templates, NEW n \in Names, NEW op \in EditOps,
             BeginEdit(e, i, op, n)
      PROVE  TemplateInv'
  <2> DEFINE r == [op |-> op, id |-> i, name |-> n, read |-> templates[i].status, overtaken |-> FALSE]
  <2>1. templates[i] \in TemplateRow /\ i \in Nat
    BY <1>1
  <2>2. templates[i].status \in Statuses
    BY <2>1 DEF TemplateRow
  <2>3. r \in Edit /\ r.op = op /\ r.id = i /\ r.read = templates[i].status /\ r.overtaken = FALSE
    BY <2>1, <2>2 DEF Edit, RowNames
  <2>4. templates' = templates /\ edits' = [edits EXCEPT ![e] = r] /\ Allowed(op, templates[i].status)
    BY <1>4 DEF BeginEdit
  <2>5. templates[i].status \in {"approved", "active"} => templates[i].approved
    BY DEF TemplateInv, RowsInv
  <2> HIDE DEF r
  <2>6. Knows(r, templates)
    BY <2>3, <2>4, <2>5 DEF Knows, Allowed, EditOps
  <2>7. QED
    BY <1>2, <2>3, <2>4, <2>6
<1>5. ASSUME NEW e \in Editors, AbortEdit(e) PROVE TemplateInv'
  BY <1>2, <1>5, DoneEdit, DoneKnows DEF AbortEdit
<1>6. ASSUME NEW e \in Editors, CommitRow(e) PROVE TemplateInv'
  <2>1. edits' = [f \in Editors |-> IF f = e THEN Done ELSE edits[f]]
    BY <1>6 DEF CommitRow, Ends
  <2>2. RowsInv' /\ Len(templates') = Len(templates) + 1
        /\ \A j \in DOMAIN templates : templates'[j] = templates[j]
    BY <1>6, AddedRow
  <2>3. DOMAIN templates \subseteq DOMAIN templates'
    <3>1. templates' \in Seq(TemplateRow)
      BY <2>2 DEF RowsInv
    <3>2. QED
      BY <1>1, <2>2, <3>1
  <2>4. ASSUME NEW f \in Editors PROVE edits'[f] \in Edit /\ Knows(edits'[f], templates')
    <3>1. CASE f = e
      BY <2>1, <3>1, DoneEdit, DoneKnows
    <3>2. CASE f # e
      <4>1. edits'[f] = edits[f] /\ edits[f] \in Edit /\ Knows(edits[f], templates)
        BY <1>1, <2>1, <3>2
      <4>2. QED
        BY <4>1, <2>2, <2>3 DEF Knows
    <3>3. QED
      BY <3>1, <3>2
  <2>5. edits' \in [Editors -> Edit]
    BY <2>1, <2>4
  <2>6. QED
    BY <2>2, <2>4, <2>5, EditsInvKnows DEF TemplateInv
<1>7. ASSUME NEW e \in Editors, CommitEdit(e) PROVE TemplateInv'
  <2> DEFINE i == edits[e].id
  <2>1. /\ i \in DOMAIN templates /\ i \in Nat \ {0}
        /\ templates' \in Seq(TemplateRow) /\ DOMAIN templates' = DOMAIN templates
        /\ \A j \in DOMAIN templates : j # i => templates'[j] = templates[j]
        /\ Forward(templates[i], templates'[i], ~edits[e].overtaken)
    BY <1>7, ChangedRow
  <2>2. edits' = [f \in Editors |-> IF f = e THEN Done
                                    ELSE IF i > 0 /\ edits[f].id = i
                                         THEN [edits[f] EXCEPT !.overtaken = TRUE] ELSE edits[f]]
    BY <1>7 DEF CommitEdit, Ends
  <2> HIDE DEF i
  <2>3. RowsInv'
    <3>1. ASSUME NEW j \in DOMAIN templates'
          PROVE  /\ templates'[j].version \in 0 .. j
                 /\ templates'[j].status \in {"approved", "active"} => templates'[j].approved
      BY <2>1 DEF TemplateInv, RowsInv, Forward
    <3>2. \A j \in DOMAIN templates : /\ templates'[j].name = templates[j].name
                                      /\ templates'[j].version = templates[j].version
                                      /\ templates[j].deleted => templates'[j].deleted
      BY <2>1 DEF Forward
    <3>3. Live' \subseteq Live
      BY <2>1, <3>2 DEF Live
    <3>4. Live \subseteq DOMAIN templates
      BY DEF Live
    <3>5. \A j, k \in Live : templates[j].name = templates[k].name /\ templates[j].version = templates[k].version
                               => j = k
      BY DEF TemplateInv, RowsInv
    <3>6. \A j, k \in Live' : templates'[j].name = templates'[k].name /\ templates'[j].version = templates'[k].version
                                => j = k
      BY <3>2, <3>3, <3>4, <3>5
    <3>7. QED
      BY <2>1, <3>1, <3>6 DEF RowsInv
  <2>4. ASSUME NEW f \in Editors PROVE edits'[f] \in Edit /\ Knows(edits'[f], templates')
    <3>1. CASE f = e
      BY <2>2, <3>1, DoneEdit, DoneKnows
    <3>2. CASE f # e /\ edits[f].id = i
      <4>1. edits'[f] = [edits[f] EXCEPT !.overtaken = TRUE]
        BY <2>1, <2>2, <3>2
      <4>2. edits[f] \in Edit /\ Knows(edits[f], templates)
        BY <1>1
      <4>3. edits'[f] \in Edit /\ edits'[f].op = edits[f].op /\ edits'[f].id = i
            /\ edits'[f].read = edits[f].read /\ edits'[f].overtaken
        BY <3>2, <4>1, <4>2, Marked
      <4>4. templates[i].approved => templates'[i].approved
        BY <2>1 DEF Forward
      <4>5. Knows(edits'[f], templates')
        BY <2>1, <3>2, <4>2, <4>3, <4>4 DEF Knows
      <4>6. QED
        BY <4>3, <4>5
    <3>3. CASE f # e /\ edits[f].id # i
      <4>1. edits'[f] = edits[f] /\ edits[f] \in Edit /\ Knows(edits[f], templates)
        BY <1>1, <2>2, <3>3
      <4>2. QED
        BY <2>1, <3>3, <4>1 DEF Knows
    <3>4. QED
      BY <3>1, <3>2, <3>3
  <2>5. edits' \in [Editors -> Edit]
    BY <2>2, <2>4
  <2>6. QED
    BY <2>3, <2>4, <2>5, EditsInvKnows DEF TemplateInv
<1>8. CASE UNCHANGED templateVars
  <2>1. templates' = templates /\ edits' = edits
    BY <1>8 DEF templateVars
  <2>2. RowsInv'
    BY <2>1 DEF TemplateInv, RowsInv, Live
  <2>3. QED
    BY <1>1, <2>1, <2>2, EditsInvKnows DEF TemplateInv
<1>9. QED
  BY <1>3, <1>4, <1>5, <1>6, <1>7, <1>8 DEF TemplateNext, EditOps

\* What a step does to the rows there are, unless a request that was overtaken ends.
LEMMA StepRows ==
  ASSUME TemplateInv, [TemplateNext]_templateVars, NEW i \in DOMAIN templates
  PROVE  /\ i \in DOMAIN templates'
         /\ templates'[i].name = templates[i].name /\ templates'[i].version = templates[i].version
         /\ \/ Overtaken(i)
            \/ /\ Place[templates'[i].status] >= Place[templates[i].status]
               /\ templates[i].status = "active" =>
                    templates'[i].status \in {"active", "archived"} \/ templates'[i].deleted
<1> DEFINE Stays == i \in DOMAIN templates' /\ templates'[i] = templates[i]
<1>1. templates \in Seq(TemplateRow) /\ i \in 1 .. Len(templates)
  BY DEF TemplateInv, RowsInv
<1>2. Place[templates[i].status] >= Place[templates[i].status]
  <2>1. templates[i] \in TemplateRow
    BY <1>1
  <2>2. templates[i].status \in Statuses
    BY <2>1 DEF TemplateRow
  <2>3. QED
    BY <2>2, PlaceValues DEF Statuses
<1>3. CASE Stays
  BY <1>2, <1>3
<1>4. ASSUME templates' = templates PROVE Stays
  BY <1>4
<1>5. ASSUME NEW e \in Editors, CommitRow(e) PROVE Stays
  <2>1. templates' \in Seq(TemplateRow) /\ Len(templates') = Len(templates) + 1
        /\ templates'[i] = templates[i]
    BY <1>5, AddedRow DEF RowsInv
  <2>2. QED
    BY <1>1, <2>1
<1>6. CASE \E e \in Editors : CommitEdit(e)
  <2>1. PICK e \in Editors : CommitEdit(e)
    BY <1>6
  <2> DEFINE k == edits[e].id
  <2>2. /\ k \in DOMAIN templates /\ DOMAIN templates' = DOMAIN templates
        /\ \A j \in DOMAIN templates : j # k => templates'[j] = templates[j]
        /\ Forward(templates[k], templates'[k], ~edits[e].overtaken)
    BY <2>1, ChangedRow
  <2>3. CASE i # k
    BY <1>3, <2>2, <2>3
  <2>4. CASE i = k /\ edits[e].overtaken
    <3>1. edits' = [f \in Editors |-> IF f = e THEN Done
                                      ELSE IF k > 0 /\ edits[f].id = k
                                           THEN [edits[f] EXCEPT !.overtaken = TRUE] ELSE edits[f]]
      BY <2>1 DEF CommitEdit, Ends
    <3>2. Overtaken(i)
      BY <2>4, <3>1 DEF Overtaken
    <3>3. QED
      BY <2>2, <2>4, <3>2 DEF Forward
  <2>5. CASE i = k /\ ~edits[e].overtaken
    BY <2>2, <2>5 DEF Forward
  <2>6. QED
    BY <2>3, <2>4, <2>5
<1>7. templates' = templates \/ \E e \in Editors : CommitRow(e) \/ CommitEdit(e)
  BY DEF TemplateNext, BeginCreate, BeginEdit, AbortEdit, templateVars
<1>8. QED
  BY <1>3, <1>4, <1>5, <1>6, <1>7

\* A set on which versions are bounded has a member with the greatest.
LEMMA Newest ==
  ASSUME NEW S, S # {}, NEW v, NEW top \in Nat, \A i \in S : v[i] \in 0 .. top
  PROVE  \E i \in S : \A j \in S : v[j] <= v[i]
<1> DEFINE T == {top - v[i] : i \in S}
           R == OpToRel(<, Nat)
<1>1. T \subseteq Nat /\ T # {}
  OBVIOUS
<1>2. IsWellFoundedOn(R, Nat)
  BY NatLessThanWellFounded
<1>3. \E x \in T : \A y \in T : ~ (<<y, x>> \in R)
  <2> HIDE DEF T, R
  <2> QED
    BY <1>1, <1>2, WFMin
<1>4. PICK x \in T : \A y \in T : ~ (<<y, x>> \in R)
  BY <1>3
<1>5. \A y \in T : ~(y < x)
  <2> SUFFICES ASSUME NEW y \in T, y < x PROVE FALSE
    OBVIOUS
  <2>1. <<y, x>> \in R
    BY <1>1 DEF OpToRel
  <2> QED
    BY <2>1, <1>4
<1>6. PICK i \in S : x = top - v[i]
  OBVIOUS
<1>7. ASSUME NEW j \in S PROVE v[j] <= v[i]
  <2>1. ~(top - v[j] < top - v[i])
    BY <1>5, <1>6
  <2> QED
    BY <2>1
<1>8. QED
  BY <1>7

LEMMA NewestRow ==
  ASSUME NEW rows \in Seq(TemplateRow), \A i \in DOMAIN rows : rows[i].version \in 0 .. i,
         NEW S, S \subseteq DOMAIN rows, S # {}
  PROVE  \E i \in S : \A j \in S : rows[j].version <= rows[i].version
<1> DEFINE v == [i \in S |-> rows[i].version]
<1>1. DOMAIN rows = 1 .. Len(rows) /\ Len(rows) \in Nat
  OBVIOUS
<1>2. \A i \in S : v[i] = rows[i].version /\ v[i] \in 0 .. Len(rows)
  BY <1>1
<1> HIDE DEF v
<1>3. \E i \in S : \A j \in S : v[j] <= v[i]
  BY <1>1, <1>2, Newest
<1>4. QED
  BY <1>2, <1>3

\* What is sent, in a state and after a step.
LEMMA SentIsNewest ==
  ASSUME RowsInv, NEW n
  PROVE  /\ Active(n) = {} => Sent(n) = 0
         /\ Active(n) # {} => /\ Sent(n) \in Active(n)
                             /\ \A j \in Active(n) : templates[j].version <= templates[Sent(n)].version
<1>1. CASE Active(n) = {}
  BY <1>1 DEF Sent
<1>2. CASE Active(n) # {}
  <2>1. \E i \in Active(n) : \A j \in Active(n) : templates[j].version <= templates[i].version
    <3>1. Active(n) \subseteq DOMAIN templates
      BY DEF Active, Live
    <3>2. QED
      BY <1>2, <3>1, NewestRow DEF RowsInv
  <2>2. QED
    BY <1>2, <2>1 DEF Sent
<1>3. QED
  BY <1>1, <1>2

LEMMA SentIsNewestNext ==
  ASSUME RowsInv', NEW n
  PROVE  /\ Active(n)' = {} => Sent(n)' = 0
         /\ Active(n)' # {} =>
              /\ Sent(n)' \in Active(n)'
              /\ \A j \in Active(n)' : templates'[j].version <= templates'[Sent(n)'].version
<1>1. CASE Active(n)' = {}
  BY <1>1 DEF Sent
<1>2. CASE Active(n)' # {}
  <2>1. \E i \in Active(n)' : \A j \in Active(n)' : templates'[j].version <= templates'[i].version
    <3>1. Active(n)' \subseteq DOMAIN templates'
      BY DEF Active, Live
    <3>2. QED
      BY <1>2, <3>1, NewestRow DEF RowsInv
  <2>2. QED
    BY <1>2, <2>1 DEF Sent
<1>3. QED
  BY <1>1, <1>2

\* A step of the workflow goes forward: what an overtaken request ends with aside, the row that
\* was sent is still active or was taken out of service, and any other that is sent is newer.
LEMMA StepForward ==
  ASSUME TemplateInv, TemplateInv', [TemplateNext]_templateVars, NEW n,
         NEW old, old = Sent(n), NEW new, new = Sent(n)'
  PROVE  /\ new # 0 => templates'[new].approved
         /\ old # 0 /\ new # old =>
              \/ new # 0 /\ templates'[new].version > templates[old].version
              \/ templates'[old].deleted \/ templates'[old].status = "archived" \/ Overtaken(old)
<1>1. /\ templates \in Seq(TemplateRow) /\ \A i \in DOMAIN templates : templates[i].version \in 0 .. i
      /\ templates' \in Seq(TemplateRow) /\ \A i \in DOMAIN templates' : templates'[i].version \in 0 .. i
  BY DEF TemplateInv, RowsInv
<1>2. /\ old # 0 => old \in Active(n)
      /\ new # 0 => new \in Active(n)'
      /\ \A j \in Active(n)' :
           new \in Active(n)' /\ templates'[j].version <= templates'[new].version
  BY SentIsNewest, SentIsNewestNext DEF TemplateInv
<1>3. new # 0 => templates'[new].approved
  BY <1>2 DEF Active, Live, TemplateInv, RowsInv
<1>4. ASSUME old # 0, new # old, ~templates'[old].deleted, templates'[old].status # "archived", ~Overtaken(old)
      PROVE  new # 0 /\ templates'[new].version > templates[old].version
  <2>1. old \in DOMAIN templates /\ templates[old].name = n /\ templates[old].status = "active"
    BY <1>2, <1>4 DEF Active, Live
  <2>2. /\ old \in DOMAIN templates' /\ templates'[old].name = n /\ templates'[old].status = "active"
        /\ templates'[old].version = templates[old].version
    BY <1>4, <2>1, StepRows
  <2>3. old \in Active(n)'
    BY <1>4, <2>2 DEF Active, Live
  <2>4. new \in Active(n)' /\ templates'[old].version <= templates'[new].version
    BY <1>2, <2>3
  <2>5. templates'[old].version # templates'[new].version
    <3>1. old \in Live' /\ new \in Live' /\ templates'[old].name = templates'[new].name
      BY <2>3, <2>4 DEF Active, Live
    <3>2. QED
      BY <1>4, <3>1 DEF TemplateInv, RowsInv
  <2>6. new \in DOMAIN templates' /\ new # 0
    BY <1>1, <2>4 DEF Active, Live
  <2>7. templates'[old].version \in Nat /\ templates'[new].version \in Nat
    BY <1>1, <2>2, <2>6
  <2>8. QED
    BY <2>2, <2>4, <2>5, <2>6, <2>7
<1>5. QED
  BY <1>3, <1>4

\* Whatever requests interleave on a template, its status goes forward but by a request that was
\* overtaken, what is sent was approved, and a name changes its row only to a newer one or when
\* the old one leaves service, for any number of names, requests and rows (approve_template,
\* activate_template, archive_template, update_template, get_active_template_by_name).
THEOREM TemplatesGoForward == TemplateSpec => WorkflowForward
<1>1. TemplateInv /\ TemplateInv' /\ [TemplateNext]_templateVars => WorkflowStep
  <2> SUFFICES ASSUME TemplateInv, TemplateInv', [TemplateNext]_templateVars PROVE WorkflowStep
    OBVIOUS
  <2>1. \A i \in DOMAIN templates :
          Place[templates'[i].status] >= Place[templates[i].status] \/ Overtaken(i)
    BY StepRows
  <2>2. QED
    BY <2>1, StepForward DEF WorkflowStep
<1>2. QED
  BY <1>1, InitTemplates, NextTemplate, PTL DEF TemplateSpec, WorkflowForward
-----------------------------------------------------------------------------
(* The figures of the reports.  What is counted by key adds up, over keys, *)
(* to the number with one of the keys.                                     *)

\* The elements that have one of the keys.
Keyed(X, key, K) == {x \in X : key[x] \in K}

LEMMA CountByKey ==
  ASSUME NEW X, IsFiniteSet(X), NEW key, NEW K, IsFiniteSet(K), NEW f,
         \A k \in K : f[k] = Cardinality(Keyed(X, key, {k}))
  PROVE  Sum(f, K) = Cardinality(Keyed(X, key, K))
<1> DEFINE With(k) == Keyed(X, key, {k})
           Within(s) == Keyed(X, key, s)
           B == {s \in SUBSET K : Sum(f, s) # Cardinality(Within(s))}
<1>1. ASSUME B # {} PROVE FALSE
  <2>1. B \in SUBSET SUBSET K
    OBVIOUS
  <2>2. PICK s \in B : \A t \in B : t \subseteq s => t = s
    <3> HIDE DEF B
    <3>1. QED
      BY <1>1, <2>1, SmallestSet
  <2>3. s \in SUBSET K /\ IsFiniteSet(s) /\ Sum(f, s) # Cardinality(Within(s))
    BY FS_Subset
  <2>4. CASE s = {}
    <3>1. Sum(f, s) = 0
      BY <2>3, <2>4, SumRec
    <3>2. Within(s) = {}
      BY <2>4 DEF Keyed
    <3>3. QED
      BY <2>3, <3>1, <3>2, FS_EmptySet
  <2>5. CASE s # {}
    <3>1. PICK y \in s : TRUE
      BY <2>5
    <3> DEFINE t == s \ {y}
    <3>2. t \subseteq s /\ t # s /\ t \in SUBSET K
      BY <2>3, <3>1
    <3>9. t \notin B
      <4> HIDE DEF B, t
      <4>1. QED
        BY <2>2, <3>2
    <3>3. Sum(f, t) = Cardinality(Within(t))
      <4> HIDE DEF t, Within
      <4>1. QED
        BY <3>2, <3>9
    <3>4. \A k \in s : f[k] = Cardinality(With(k)) /\ f[k] \in Nat /\ IsFiniteSet(With(k))
      <4>1. \A k \in s : With(k) \in SUBSET X /\ f[k] = Cardinality(With(k))
        BY <2>3 DEF Keyed
      <4> HIDE DEF With, B, t
      <4>2. \A k \in s : IsFiniteSet(With(k))
        BY <4>1, FS_Subset
      <4>3. \A k \in s : Cardinality(With(k)) \in Nat
        BY <4>2, FS_CardinalityType
      <4>4. QED
        BY <4>1, <4>2, <4>3
    <3>5. Sum(f, s) = f[y] + Sum(f, t)
      <4> HIDE DEF With, Within, B
      <4>1. \A k \in s : f[k] \in Nat
        BY <3>4
      <4>2. QED
        BY <2>3, <3>1, <4>1, SumWith
    <3>6. Within(s) = With(y) \cup Within(t) /\ With(y) \cap Within(t) = {}
      BY DEF Keyed
    <3>7. Cardinality(Within(s)) = Cardinality(With(y)) + Cardinality(Within(t))
      <4>1. IsFiniteSet(With(y)) /\ IsFiniteSet(Within(t))
        BY FS_Subset DEF Keyed
      <4>2. Cardinality(With(y)) \in Nat /\ Cardinality(Within(t)) \in Nat
        BY <4>1, FS_CardinalityType
      <4> DEFINE P == With(y)
                 Q == Within(t)
      <4> HIDE DEF With, Within, B, t, P, Q
      <4>3. Cardinality(P \cup Q) = Cardinality(P) + Cardinality(Q) - Cardinality(P \cap Q)
        BY <4>1, FS_Union DEF P, Q
      <4>4. Cardinality(P \cap Q) = 0
        BY <3>6, FS_EmptySet DEF P, Q
      <4>5. QED
        BY <3>6, <4>2, <4>3, <4>4 DEF P, Q
    <3>8. QED
      BY <2>3, <3>3, <3>4, <3>5, <3>7
  <2>6. QED
    BY <2>4, <2>5
<1>2. K \notin B
  BY <1>1
<1>3. QED
  BY <1>2

LEMMA SummedIs == \A f, keys : Summed(f, keys) = Sum(f, keys \cap DOMAIN f)
BY DEF Summed, Sum, SumFunctionOnSet, FoldFunctionOnSet, MapThenFoldSet

\* There are finitely many agents and signals.  A signal may be of no agent there is: the
\* column has no foreign key.
FiguresInv ==
  /\ agents \in Books /\ IsFiniteSet(signals) /\ signals \subseteq Samples
  /\ now \in Nat /\ now < DayLength /\ weekday \in 0..6

\* Recording keeps it.
LEMMA FiguresStep == FiguresInv /\ [Next]_vars => FiguresInv'
<1> SUFFICES ASSUME FiguresInv, [Next]_vars PROVE FiguresInv'
  OBVIOUS
<1>1. CASE UNCHANGED vars
  BY <1>1 DEF FiguresInv, vars
<1>2. ASSUME NEW s \in Samples, Record(s) PROVE FiguresInv'
  BY <1>2, FS_AddElement DEF FiguresInv, Record
<1>3. CASE Pass
  BY <1>3 DEF FiguresInv, Pass
<1>4. QED
  BY <1>1, <1>2, <1>3 DEF Next

LEMMA FiguresAlways == Spec => []FiguresInv
<1>1. Init => FiguresInv
  BY FS_EmptySet, FiguresAssumption DEF Init, FiguresInv
<1>2. QED
  BY <1>1, FiguresStep, PTL DEF Spec

\* A part of two finite sets has no more elements than these together.
LEMMA WithinTwo ==
  ASSUME NEW A, IsFiniteSet(A), NEW B, IsFiniteSet(B), NEW C \in SUBSET (A \cup B)
  PROVE  /\ IsFiniteSet(C) /\ Cardinality(C) \in Nat /\ Cardinality(A) \in Nat /\ Cardinality(B) \in Nat
         /\ Cardinality(C) <= Cardinality(A) + Cardinality(B)
<1>1. /\ IsFiniteSet(A \cup B)
      /\ Cardinality(A \cup B) = Cardinality(A) + Cardinality(B) - Cardinality(A \cap B)
  BY FS_Union
<1>2. IsFiniteSet(A \cap B) /\ IsFiniteSet(C) /\ Cardinality(C) <= Cardinality(A \cup B)
  BY <1>1, FS_Subset, FS_Intersection
<1>3. Cardinality(A \cap B) \in Nat /\ Cardinality(A) \in Nat /\ Cardinality(B) \in Nat /\ Cardinality(C) \in Nat
      /\ Cardinality(A \cup B) \in Nat
  BY <1>1, <1>2, FS_CardinalityType
<1>4. QED
  BY <1>1, <1>2, <1>3

LEMMA FiniteFigures ==
  ASSUME FiguresInv
  PROVE  /\ \A group \in SUBSET DOMAIN agents : IsFiniteSet(group) /\ Cardinality(group) \in Nat
         /\ \A set \in SUBSET signals : IsFiniteSet(set) /\ Cardinality(set) \in Nat
         /\ \A s \in signals : s.at \in Int
<1>1. IsFiniteSet(DOMAIN agents) /\ IsFiniteSet(signals)
  BY FiguresAssumption DEF FiguresInv
<1>2. \A s \in signals : s.at \in Int
  BY FiguresAssumption DEF FiguresInv
<1>3. QED
  BY <1>1, <1>2, FS_Subset, FS_CardinalityType

\* The times are in order: the pages count from no earlier than the reports, and the calendar
\* week begins within three months and before three days ago.
LEMMA TimesInOrder ==
  ASSUME FiguresInv
  PROVE  /\ \A days \in Nat : MidnightOf(days) \in Int /\ DaysAgo(days) \in Int
                              /\ MidnightOf(days) <= DaysAgo(days)
         /\ WeekStart \in Int /\ WeekEnd \in Int
         /\ DaysAgo(Quarter) <= WeekStart /\ WeekStart <= DaysAgo(3)
<1>1. DayLength \in Nat /\ now \in Nat /\ now < DayLength /\ weekday \in 0..6
  BY FiguresAssumption DEF FiguresInv
<1>2. \A days \in Nat : days * DayLength \in Nat
  BY <1>1
<1>3. weekday * DayLength \in Nat /\ weekday * DayLength <= 6 * DayLength
  BY <1>1
<1>4. QED
  BY <1>1, <1>2, <1>3 DEF MidnightOf, DaysAgo, WeekStart, WeekEnd, Quarter

\* A product with the larger of two factors is larger.
LEMMA MoreTimes ==
  ASSUME NEW p \in Nat, NEW q \in Nat, NEW d \in Nat, p <= q
  PROVE  p * d <= q * d
<1>1. \E k \in Nat : q = p + k
  <2>1. q - p \in Nat /\ q = p + (q - p)
    OBVIOUS
  <2>2. QED
    BY <2>1
<1>2. PICK k \in Nat : q = p + k
  BY <1>1
<1>3. q * d = p * d + k * d /\ k * d \in Nat /\ p * d \in Nat
  BY <1>2
<1>4. QED
  BY <1>3

\* A rate below one threshold is not above a higher one.
LEMMA ThresholdsApart ==
  ASSUME NEW n \in Nat, NEW d \in Nat, NEW p \in Nat, NEW q \in Nat, p <= q, n * Grain < p * d
  PROVE  ~ (n * Grain > q * d)
<1>1. p * d <= q * d /\ p * d \in Nat /\ q * d \in Nat
  BY MoreTimes
<1>2. n * Grain \in Nat
  BY FiguresAssumption
<1>3. QED
  BY <1>1, <1>2

\* What is rounded is a number of parts, half a part away at most.
LEMMA RoundedIsNear ==
  ASSUME NEW n \in Nat, NEW d \in Nat \ {0}
  PROVE  LET g == Rounded(<<n, d>>)
         IN  g \in Nat /\ 2 * (n * Grain) - 2 * (g * d) <= d /\ 2 * (g * d) - 2 * (n * Grain) <= d
<1> DEFINE parts == n * Grain
           down == parts \div d
           Near(g) == 2 * (parts - g * d) \in (0 - d)..d
<1>1. parts \in Nat
  BY FiguresAssumption
<1>2. Rounded(<<n, d>>) = CHOOSE g \in {down, down + 1} : Near(g)
  BY DEF Rounded
<1> HIDE DEF parts
<1>3. down \in Nat /\ down * d <= parts /\ parts < down * d + d
  <2>1. down \in Nat
    BY <1>1
  <2>2. down * d <= parts
    BY <1>1
  <2>3. parts < down * d + d
    BY <1>1
  <2>4. QED
    BY <2>1, <2>2, <2>3
<1> HIDE DEF down
<1>4. (down + 1) * d = down * d + d /\ down * d \in Nat
  BY <1>3
<1>5. Near(down) \/ Near(down + 1)
  BY <1>1, <1>3, <1>4
<1> DEFINE g == Rounded(<<n, d>>)
<1>6. g \in {down, down + 1} /\ Near(g)
  <2> HIDE DEF Near
  <2>1. QED
    BY <1>2, <1>5
<1> HIDE DEF g
<1>7. g \in Nat /\ g * d \in Nat
  BY <1>3, <1>6
<1>8. QED
  BY <1>1, <1>6, <1>7 DEF g, parts

\* Beside a threshold, a rate and what it is rounded to are on one side of it, or the rounded
\* one is on it.
LEMMA RoundedKeepsSide ==
  ASSUME NEW n \in Nat, NEW d \in Nat \ {0}, NEW t \in Nat
  PROVE  LET g == Rounded(<<n, d>>)
         IN  /\ g < t => Below(<<n, d>>, t)
             /\ g > t => Above(<<n, d>>, t)
             /\ Below(<<n, d>>, t) => g <= t
             /\ Above(<<n, d>>, t) => g >= t
<1> DEFINE g == Rounded(<<n, d>>)
           parts == n * Grain
<1>1. parts \in Nat
  BY FiguresAssumption
<1>2. g \in Nat /\ 2 * parts - 2 * (g * d) <= d /\ 2 * (g * d) - 2 * parts <= d
  BY RoundedIsNear
<1>3. /\ Below(<<n, d>>, t) <=> parts < t * d
      /\ Above(<<n, d>>, t) <=> parts > t * d
  BY DEF Below, Above
<1> HIDE DEF g, parts
<1>4. g * d \in Nat /\ t * d \in Nat /\ (g + 1) * d = g * d + d /\ (t + 1) * d = t * d + d
  BY <1>2
<1>5. g < t => g * d + d <= t * d
  <2>1. g < t => g + 1 \in Nat /\ g + 1 <= t
    BY <1>2
  <2>2. QED
    BY <1>4, <2>1, MoreTimes
<1>6. t < g => t * d + d <= g * d
  <2>1. t < g => t + 1 \in Nat /\ t + 1 <= g
    BY <1>2
  <2>2. QED
    BY <1>2, <1>4, <2>1, MoreTimes
<1>7. QED
  BY <1>1, <1>2, <1>3, <1>4, <1>5, <1>6 DEF g

\* The classification of the ranking, which does not round.
Ranked(activation, rate) ==
  IF Below(rate, Unresponsive) THEN "UNRESPONSIVE"
  ELSE IF Above(activation, High) /\ Above(rate, Responsive) THEN "HIGH_PERFORMER"
  ELSE IF ~Below(activation, Low) THEN "AVERAGE" ELSE "STRUGGLING"

\* How two classes of a manager may differ.
SameClass(own, ranked, activation, response) ==
  IF \/ response = Unresponsive /\ ranked = "UNRESPONSIVE"
     \/ response = Responsive /\ ranked = "HIGH_PERFORMER"
  THEN own = "AVERAGE"
  ELSE IF Below(activation, Low) /\ response \in Unresponsive..Supported
  THEN own = "AVERAGE" /\ ranked = "STRUGGLING"
  ELSE own = ranked

LEMMA ClassesDiffer ==
  ASSUME NEW a \in Nat, NEW b \in Nat, NEW c \in Nat, NEW d \in Nat \ {0}
  PROVE  LET g == Rounded(<<c, d>>)
         IN  SameClass(ClassifyAdm(<<a, b>>, g), Ranked(<<a, b>>, <<c, d>>), <<a, b>>, g)
<1> DEFINE g == Rounded(<<c, d>>)
           low == Below(<<a, b>>, Low)
           high == Above(<<a, b>>, High)
           unresponsive == Below(<<c, d>>, Unresponsive)
           responsive == Above(<<c, d>>, Responsive)
<1>1. low => ~high
  <2>1. a * Grain < Low * b => ~(a * Grain > High * b)
    BY FiguresAssumption, ThresholdsApart
  <2>2. QED
    BY <2>1 DEF Below, Above
<1>2. g \in Nat /\ Unresponsive \in Nat /\ Supported \in Nat /\ Responsive \in Nat
      /\ Unresponsive <= Supported /\ Supported <= Responsive
  BY RoundedIsNear, FiguresAssumption
<1>3. /\ g < Unresponsive => unresponsive
      /\ unresponsive => g <= Unresponsive
      /\ g > Responsive => responsive
      /\ responsive => g >= Responsive
  BY <1>2, RoundedKeepsSide
<1>4. ClassifyAdm(<<a, b>>, g) =
        IF g < Unresponsive THEN "UNRESPONSIVE"
        ELSE IF high /\ g > Responsive THEN "HIGH_PERFORMER"
        ELSE IF ~low THEN "AVERAGE"
        ELSE IF g > Supported THEN "STRUGGLING" ELSE "AVERAGE"
  BY DEF ClassifyAdm
<1>5. Ranked(<<a, b>>, <<c, d>>) =
        IF unresponsive THEN "UNRESPONSIVE"
        ELSE IF high /\ responsive THEN "HIGH_PERFORMER"
        ELSE IF ~low THEN "AVERAGE" ELSE "STRUGGLING"
  BY DEF Ranked
<1> HIDE DEF g, low, high, unresponsive, responsive
<1> DEFINE own == ClassifyAdm(<<a, b>>, g)
           ranked == Ranked(<<a, b>>, <<c, d>>)
<1> HIDE DEF own, ranked
<1>6. IF \/ g = Unresponsive /\ ranked = "UNRESPONSIVE"
         \/ g = Responsive /\ ranked = "HIGH_PERFORMER"
      THEN own = "AVERAGE"
      ELSE IF low /\ g \in Unresponsive..Supported
      THEN own = "AVERAGE" /\ ranked = "STRUGGLING"
      ELSE own = ranked
  BY <1>1, <1>2, <1>3, <1>4, <1>5 DEF own, ranked
<1>7. QED
  BY <1>6 DEF SameClass, own, ranked, low, g

\* A manager that was nudged and lost no agent is classed from the same rates in both places,
\* rounded in one.
LEMMA ClassesFrom ==
  ASSUME FiguresInv, NEW m, Of(m) # {}, In(Of(m), Excluded) = {}, Nudges("nudge_received", m) # {}
  PROVE  LET own == Effectiveness(m)
         IN  SameClass(own.class, Performance(m).class, own.activation, own.response)
<1> DEFINE a == Cardinality(In(Of(m), Activated))
           b == Cardinality(Of(m))
           c == Cardinality(Nudges("nudge_acted", m))
           d == Cardinality(Nudges("nudge_received", m))
<1>1. a \in Nat /\ b \in Nat /\ IsFiniteSet(Of(m))
  <2>1. Of(m) \in SUBSET DOMAIN agents /\ In(Of(m), Activated) \in SUBSET DOMAIN agents
    BY DEF Of, Kept, In
  <2>2. QED
    BY <2>1, FiniteFigures
<1>2. c \in Nat /\ d \in Nat /\ IsFiniteSet(Nudges("nudge_received", m))
  <2>1. Nudges("nudge_acted", m) \in SUBSET signals /\ Nudges("nudge_received", m) \in SUBSET signals
    BY DEF Nudges, Since
  <2>2. QED
    BY <2>1, FiniteFigures
<1>3. b # 0 /\ d # 0
  BY <1>1, <1>2, FS_EmptySet
<1>4. Of(m) \ In(Of(m), Excluded) = Of(m)
  OBVIOUS
<1>5. Cardinality(Of(m) \ In(Of(m), Excluded)) = b
  BY <1>4
<1>6. Rate(a, b) = <<a, b>> /\ Rate(c, d) = <<c, d>>
  BY <1>3 DEF Rate
<1>7. ActivationRate(Of(m)) = <<a, b>>
  BY <1>5, <1>6 DEF ActivationRate
<1>8. /\ Effectiveness(m).activation = <<a, b>> /\ Effectiveness(m).response = Rounded(<<c, d>>)
      /\ Effectiveness(m).class = ClassifyAdm(<<a, b>>, Rounded(<<c, d>>))
  BY <1>3, <1>6 DEF Effectiveness
<1>9. Performance(m).class = Ranked(<<a, b>>, <<c, d>>)
  <2>1. d > 0
    BY <1>2, <1>3
  <2>2. QED
    BY <1>6, <1>7, <2>1 DEF Performance, Ranked
<1> HIDE DEF a, b, c, d
<1>10. d \in Nat \ {0}
  BY <1>2, <1>3
<1>11. QED
  BY <1>1, <1>2, <1>8, <1>9, <1>10, ClassesDiffer

\* A manager that was nudged and lost no agent is in the same class on its own page and in the
\* ranking, whatever the thresholds and the rounding, but for low activation with a middling
\* response and for a response that is rounded onto a threshold (compute_adm_effectiveness,
\* _classify_adm, get_adm_performance).
THEOREM ClassesOfManagers == Spec => []ClassesAgree
<1>1. FiguresInv => ClassesAgree
  BY ClassesFrom DEF ClassesAgree, SameClass
<1>2. QED
  BY <1>1, FiguresAlways, PTL

\* A function of a finite set has finitely many values, no more than arguments.
LEMMA FewValues ==
  ASSUME NEW S, IsFiniteSet(S), NEW T, NEW f \in [S -> T]
  PROVE  IsFiniteSet(Range(f)) /\ Cardinality(Range(f)) <= Cardinality(S)
<1>1. f \in Surjection(S, Range(f))
  BY DEF Surjection, Range
<1>2. QED
  BY <1>1, FS_Surjection

\* What counts add up to, over some keys: the number with one of them.
LEMMA SummedCounts ==
  ASSUME NEW S, IsFiniteSet(S), NEW T, NEW key \in [S -> T], NEW keys
  PROVE  Summed(Counts(key), keys) = Cardinality(Keyed(S, key, keys))
<1> DEFINE f == Counts(key)
           K == keys \cap DOMAIN f
<1>1. DOMAIN key = S /\ DOMAIN f = Range(key)
  BY DEF Counts
<1>2. IsFiniteSet(K)
  <2>1. IsFiniteSet(DOMAIN f)
    BY <1>1, FewValues
  <2> HIDE DEF f
  <2>2. K \in SUBSET DOMAIN f
    OBVIOUS
  <2>3. QED
    BY <2>1, <2>2, FS_Subset
<1>3. \A k \in K : f[k] = Cardinality(Keyed(S, key, {k}))
  <2>1. \A k \in K : f[k] = Cardinality({x \in S : key[x] = k})
    BY <1>1 DEF Counts
  <2>2. \A k : {x \in S : key[x] = k} = Keyed(S, key, {k})
    BY DEF Keyed
  <2>3. QED
    BY <2>1, <2>2
<1>4. Summed(f, keys) = Sum(f, K)
  <2> HIDE DEF f
  <2>1. QED
    BY SummedIs
<1> HIDE DEF f
<1>5. Keyed(S, key, K) = Keyed(S, key, keys)
  BY <1>1 DEF Range, Keyed
<1> HIDE DEF K
<1>6. Sum(f, K) = Cardinality(Keyed(S, key, K))
  BY <1>2, <1>3, CountByKey
<1>7. QED
  BY <1>4, <1>5, <1>6 DEF f

\* The ranking counts no reactivation for two managers.
LEMMA SummedRanked ==
  ASSUME FiguresInv
  PROVE  Summed([m \in Managers |-> Performance(m).reactivations], Managers)
           <= Cardinality({s \in Since("lifecycle", Quarter) : Reactivates(s)})
<1> DEFINE all == {s \in Since("lifecycle", Quarter) : Reactivates(s)}
           X == {s \in all : s.agent \in Kept}
           key == [s \in X |-> agents[s.agent].adm]
           f == [m \in Managers |-> Performance(m).reactivations]
<1>1. all \in SUBSET signals /\ X \in SUBSET all
  BY DEF Since
<1>2. IsFiniteSet(all) /\ IsFiniteSet(X) /\ Cardinality(X) <= Cardinality(all)
  <2>1. IsFiniteSet(all)
    BY <1>1, FiniteFigures
  <2> HIDE DEF all, X
  <2>2. QED
    BY <1>1, <2>1, FS_Subset
<1>3. IsFiniteSet(Managers) /\ DOMAIN f = Managers
  BY FiguresAssumption
<1>4. \A m \in Managers : f[m] = Cardinality(Keyed(X, key, {m}))
  <2> SUFFICES ASSUME NEW m \in Managers PROVE f[m] = Cardinality(Keyed(X, key, {m}))
    OBVIOUS
  <2>1. f[m] = Cardinality({s \in Since("lifecycle", Quarter) : Reactivates(s) /\ s.agent \in Of(m)})
    BY DEF Performance
  <2>2. {s \in Since("lifecycle", Quarter) : Reactivates(s) /\ s.agent \in Of(m)} = Keyed(X, key, {m})
    BY DEF Of, Keyed
  <2>3. QED
    BY <2>1, <2>2
<1>5. Summed(f, Managers) = Sum(f, Managers)
  <2>1. Managers \cap DOMAIN f = Managers
    BY <1>3
  <2> HIDE DEF f
  <2>2. QED
    BY <2>1, SummedIs
<1> HIDE DEF key, f, all
<1>6. Sum(f, Managers) = Cardinality(Keyed(X, key, Managers))
  <2> HIDE DEF X
  <2>1. QED
    BY <1>2, <1>3, <1>4, CountByKey
<1>7. Keyed(X, key, Managers) \in SUBSET all /\ IsFiniteSet(all)
  BY <1>1, <1>2 DEF Keyed
<1>8. Cardinality(Keyed(X, key, Managers)) <= Cardinality(all)
  <2> HIDE DEF X
  <2>1. QED
    BY <1>7, FS_Subset
<1>9. QED
  BY <1>5, <1>6, <1>8 DEF all, f

\* The moves out of dormancy of a manager's week that do not say where to.
Unsaid(m) == {s \in InWeek("lifecycle", m) : s.prev = "dormant" /\ s.next = None}

\* The signals that count for a manager's ranking count on its own page, and those of its week
\* unless they do not say where to.
LEMMA OwnPageIsWider ==
  ASSUME FiguresInv, NEW m \in Managers
  PROVE  /\ Performance(m).reactivations <= ManagerReactivations(m)
         /\ Movement(m).reengaged <= ManagerReactivations(m) + Cardinality(Unsaid(m))
<1> DEFINE own == {s \in Since("lifecycle", Quarter) : s.agent \in Of(m) /\ s.prev = "dormant"
                                                      /\ s.next \notin {"dormant", None}}
           ranked == {s \in Since("lifecycle", Quarter) : Reactivates(s) /\ s.agent \in Of(m)}
           week == {s \in InWeek("lifecycle", m) : s.prev = "dormant" /\ s.next # "dormant"}
           rest == Unsaid(m)
<1>1. own \in SUBSET signals /\ ranked \in SUBSET own /\ rest \in SUBSET signals
  <2>1. \A s : Reactivates(s) => s.prev = "dormant" /\ s.next \notin {"dormant", None}
    BY FiguresAssumption DEF Reactivates
  <2>2. ranked \in SUBSET own
    BY <2>1
  <2>3. QED
    BY <2>2 DEF Since, Unsaid, InWeek
<1>2. week \in SUBSET (own \cup rest)
  <2> SUFFICES ASSUME NEW s \in week, s \notin rest PROVE s \in own
    OBVIOUS
  <2>1. s \in signals /\ s.type = "lifecycle" /\ s.at \in WeekStart..WeekEnd /\ s.agent \in Of(m)
        /\ s.prev = "dormant" /\ s.next # "dormant" /\ s.next # None
    BY DEF InWeek, Unsaid
  <2>2. s.at >= DaysAgo(Quarter)
    <3>1. Quarter \in Nat
      BY DEF Quarter
    <3>2. s.at \in Int /\ WeekStart \in Int /\ DaysAgo(Quarter) \in Int /\ DaysAgo(Quarter) <= WeekStart
          /\ WeekStart <= s.at
      BY <2>1, <3>1, FiniteFigures, TimesInOrder
    <3>3. QED
      BY <3>2
  <2>3. QED
    BY <2>1, <2>2 DEF Since
<1>3. IsFiniteSet(own) /\ IsFiniteSet(rest) /\ Cardinality(own) \in Nat /\ Cardinality(rest) \in Nat
  BY <1>1, FiniteFigures
<1>4. /\ Performance(m).reactivations = Cardinality(ranked)
      /\ Movement(m).reengaged = Cardinality(week) /\ ManagerReactivations(m) = Cardinality(own)
  BY DEF Performance, Movement, ManagerReactivations
<1> HIDE DEF own, ranked, week, rest
<1>5. Cardinality(ranked) <= Cardinality(own)
  BY <1>1, <1>3, FS_Subset
<1>6. Cardinality(week) <= Cardinality(own) + Cardinality(rest)
  BY <1>2, <1>3, WithinTwo
<1>7. QED
  BY <1>4, <1>5, <1>6 DEF rest

\* The reactivations of the month, those of an agent, and the agents of the ROI page.
LEMMA DashboardIsWider ==
  ASSUME FiguresInv
  PROVE  LET d == Dashboard(None)
         IN  /\ Cardinality(RoiReactivated) <= Summed(d.by_intervention, DOMAIN d.by_intervention)
             /\ Summed(d.by_intervention, DOMAIN d.by_intervention) <= d.reactivations
<1> DEFINE all == {s \in Since("lifecycle", Month) : Reactivates(s)}
           of == {t \in all : t.agent # None}
           key == [s \in of |-> ContactChannel(s.agent)]
           agent == [s \in of |-> s.agent]
           d == Dashboard(None)
<1>1. d.by_intervention = Counts(key) /\ d.reactivations = Cardinality(all)
  BY DEF Dashboard
<1>2. all \in SUBSET signals /\ of \in SUBSET all
  BY DEF Since
<1>3. IsFiniteSet(all) /\ IsFiniteSet(of) /\ Cardinality(of) <= Cardinality(all)
  <2>1. IsFiniteSet(all)
    BY <1>2, FiniteFigures
  <2> HIDE DEF all, of
  <2>2. QED
    BY <1>2, <2>1, FS_Subset
<1>4. RoiReactivated \in SUBSET Range(agent)
  BY DEF RoiReactivated, Reactivates, Range
<1>5. key \in [of -> Range(key)] /\ agent \in [of -> Range(agent)] /\ DOMAIN Counts(key) = Range(key)
  BY DEF Range, Counts
<1>6. \A s \in of : key[s] \in Range(key)
  BY DEF Range
<1> HIDE DEF key, agent, all, of, d
<1>7. Keyed(of, key, Range(key)) = of
  BY <1>6 DEF Keyed
<1>8. Summed(Counts(key), Range(key)) = Cardinality(of)
  BY <1>3, <1>5, <1>7, SummedCounts
<1>9. IsFiniteSet(Range(agent)) /\ Cardinality(Range(agent)) <= Cardinality(of)
  BY <1>3, <1>5, FewValues
<1>10. Cardinality(RoiReactivated) <= Cardinality(Range(agent))
  BY <1>4, <1>9, FS_Subset
<1>11. /\ Cardinality(RoiReactivated) \in Nat /\ Cardinality(Range(agent)) \in Nat
       /\ Cardinality(of) \in Nat /\ Cardinality(all) \in Nat
  BY <1>3, <1>4, <1>9, FS_Subset, FS_CardinalityType
<1>12. QED
  BY <1>1, <1>3, <1>5, <1>8, <1>9, <1>10, <1>11 DEF d

\* The figures for reactivations stand in the order of their definitions, for any agents,
\* managers and signals (get_system_roi, get_dashboard, get_adm_performance,
\* compute_adm_effectiveness, generate_weekly_summary).
THEOREM ReactivationsOrdered == Spec => []ReactivationsRelate
<1>1. FiguresInv => ReactivationsRelate
  <2> SUFFICES ASSUME FiguresInv PROVE ReactivationsRelate
    OBVIOUS
  <2> DEFINE ranked == [m \in Managers |-> Performance(m).reactivations]
  <2>1. \A m \in Managers : /\ ranked[m] <= ManagerReactivations(m)
                             /\ Movement(m).reengaged <= ManagerReactivations(m) + Cardinality(Unsaid(m))
    BY OwnPageIsWider
  <2>2. Summed(ranked, Managers) <= Cardinality({s \in Since("lifecycle", Quarter) : Reactivates(s)})
    BY SummedRanked
  <2> HIDE DEF ranked
  <2>3. QED
    BY <2>1, <2>2, DashboardIsWider DEF ReactivationsRelate, Unsaid, ranked
<1>2. QED
  BY <1>1, FiguresAlways, PTL

\* A signal counts for the same stages in the report and on the page.
LEMMA SameStages == \A s : StoredStages(s) = LiveStages(s)
<1> SUFFICES ASSUME NEW s PROVE StoredStages(s) = LiveStages(s)
  OBVIOUS
<1>1. CASE s.type \in {"call", "message"}
  BY <1>1 DEF StoredStages, LiveStages
<1>2. CASE s.type \in {"adm_call", "adm_visit"}
  BY <1>2 DEF StoredStages, LiveStages
<1>3. CASE s.type \in {"reply", "call_outcome"}
  BY <1>3 DEF StoredStages, LiveStages
<1>4. CASE s.type \in {"training", "training_external", "sold"}
  BY <1>4 DEF StoredStages, LiveStages
<1>5. CASE s.type \notin {"call", "message", "adm_call", "adm_visit", "reply", "call_outcome",
                          "training", "training_external", "sold"}
  BY <1>5 DEF StoredStages, LiveStages
<1>6. QED
  BY <1>1, <1>2, <1>3, <1>4, <1>5

AgentsOf(window) == {s.agent : s \in window}

\* The agents that reach a stage in a window.
Reach(stages, window, x) == {a \in AgentsOf(window) : x \in UNION {stages[s] : s \in {t \in window : t.agent = a}}}

LEMMA FiniteAgents ==
  ASSUME FiguresInv, NEW window \in SUBSET signals
  PROVE  IsFiniteSet(AgentsOf(window))
<1> DEFINE agent == [s \in window |-> s.agent]
<1>1. agent \in [window -> Range(agent)] /\ AgentsOf(window) \in SUBSET Range(agent) /\ IsFiniteSet(window)
  BY FiniteFigures DEF Range, AgentsOf
<1> HIDE DEF agent
<1>2. IsFiniteSet(Range(agent))
  BY <1>1, FewValues
<1>3. QED
  BY <1>1, <1>2, FS_Subset

LEMMA TotalIs ==
  ASSUME NEW stages, NEW window, NEW x \in Stages
  PROVE  Funnel(stages, window).total[x] = Cardinality(Reach(stages, window, x))
<1> DEFINE all == AgentsOf(window)
           reached == [a \in all |-> UNION {stages[s] : s \in {t \in window : t.agent = a}}]
<1>1. Funnel(stages, window).total = Row(reached, all)
  BY DEF Funnel, AgentsOf
<1>2. Row(reached, all)[x] = Cardinality({a \in all : x \in reached[a]})
  BY DEF Row
<1>3. {a \in all : x \in reached[a]} = Reach(stages, window, x)
  BY DEF Reach
<1>4. QED
  BY <1>1, <1>2, <1>3

\* Who reaches a stage in one window and not in another has a signal in only one of them.
LEMMA ReachApart ==
  ASSUME FiguresInv, NEW stages, NEW W \in SUBSET signals, NEW V \in SUBSET signals, NEW x \in Stages
  PROVE  CloseTo(Funnel(stages, W).total[x], Funnel(stages, V).total[x],
                 Cardinality(AgentsOf((W \ V) \cup (V \ W))))
<1> DEFINE edge == AgentsOf((W \ V) \cup (V \ W))
           p == Reach(stages, W, x)
           q == Reach(stages, V, x)
<1>1. p \in SUBSET (q \cup edge) /\ q \in SUBSET (p \cup edge)
  BY DEF Reach, AgentsOf
<1>2. IsFiniteSet(edge) /\ IsFiniteSet(p) /\ IsFiniteSet(q)
  <2>1. (W \ V) \cup (V \ W) \in SUBSET signals
    OBVIOUS
  <2>2. IsFiniteSet(edge) /\ IsFiniteSet(AgentsOf(W)) /\ IsFiniteSet(AgentsOf(V))
    BY <2>1, FiniteAgents
  <2>3. p \in SUBSET AgentsOf(W) /\ q \in SUBSET AgentsOf(V)
    BY DEF Reach
  <2> HIDE DEF p, q, edge
  <2>4. QED
    BY <2>2, <2>3, FS_Subset
<1>3. /\ Funnel(stages, W).total[x] = Cardinality(p)
      /\ Funnel(stages, V).total[x] = Cardinality(q)
  BY TotalIs
<1> HIDE DEF p, q, edge
<1>4. Cardinality(p) <= Cardinality(q) + Cardinality(edge) /\ Cardinality(q) <= Cardinality(p) + Cardinality(edge)
  BY <1>1, <1>2, WithinTwo
<1>5. QED
  BY <1>3, <1>4 DEF CloseTo, edge

\* The numbers of a row are natural.
LEMMA RowsAreCounts ==
  ASSUME FiguresInv, NEW stages, NEW window \in SUBSET signals
  PROVE  \A p \in DOMAIN Funnel(stages, window).by_playbook :
           /\ Funnel(stages, window).by_playbook[p].contacted \in Nat
           /\ Funnel(stages, window).by_playbook[p].engaged \in Nat
<1> DEFINE own(a) == {s \in window : s.agent = a}
           all == AgentsOf(window)
           reached == [a \in all |-> UNION {stages[s] : s \in own(a)}]
           playbooks(a) == {s.playbook : s \in own(a)} \ {None}
           f == [p \in UNION {playbooks(a) : a \in all} |-> Row(reached, {a \in all : p \in playbooks(a)})]
<1>1. Funnel(stages, window).by_playbook = f
  BY DEF Funnel, AgentsOf
<1>2. IsFiniteSet(all)
  BY FiniteAgents
<1>3. \A group \in SUBSET all : Row(reached, group).contacted \in Nat /\ Row(reached, group).engaged \in Nat
  <2> SUFFICES ASSUME NEW group \in SUBSET all
               PROVE  Row(reached, group).contacted \in Nat /\ Row(reached, group).engaged \in Nat
    OBVIOUS
  <2> DEFINE at(x) == {a \in group : x \in reached[a]}
  <2> HIDE DEF reached
  <2>1. \A x : at(x) \in SUBSET all
    OBVIOUS
  <2>2. \A x : Cardinality(at(x)) \in Nat
    <3> HIDE DEF all, at
    <3>1. \A x : IsFiniteSet(at(x))
      BY <1>2, <2>1, FS_Subset
    <3>2. QED
      BY <3>1, FS_CardinalityType
  <2>3. QED
    BY <2>2 DEF Row, Stages
<1> HIDE DEF reached
<1>4. \A p \in DOMAIN f : f[p] = Row(reached, {a \in all : p \in playbooks(a)})
  OBVIOUS
<1> HIDE DEF playbooks, all, f
<1>5. \A p \in DOMAIN f : f[p].contacted \in Nat /\ f[p].engaged \in Nat
  BY <1>3, <1>4
<1>6. QED
  BY <1>1, <1>5

LEMMA FunnelsAgree ==
  ASSUME FiguresInv
  PROVE  FunnelsMatch
<1> DEFINE stages == [s \in signals |-> LiveStages(s)]
           W == StoredWindow
           V == LiveWindow
           f == Funnel(stages, V)
           shown == {p \in DOMAIN f.by_playbook : f.by_playbook[p].contacted + f.by_playbook[p].engaged > 0}
           edge == (W \ V) \cup (V \ W)
<1>1. W \in SUBSET signals /\ V \in SUBSET signals
  BY DEF StoredWindow, LiveWindow
<1>2. StoredFunnel = Funnel(stages, W)
  <2>1. [s \in signals |-> StoredStages(s)] = stages
    BY SameStages
  <2>2. QED
    BY <2>1 DEF StoredFunnel
<1>3. LiveFunnel = [f EXCEPT !.by_playbook = [p \in shown |-> f.by_playbook[p]]]
  BY DEF LiveFunnel
<1>4. /\ LiveFunnel.total = f.total /\ LiveFunnel.by_channel = f.by_channel
      /\ LiveFunnel.by_playbook = [p \in shown |-> f.by_playbook[p]]
  <2>1. "by_playbook" \in DOMAIN f
    BY DEF Funnel
  <2> HIDE DEF f, shown
  <2>2. QED
    BY <1>3, <2>1
<1>5. \A p \in DOMAIN f.by_playbook :
        /\ f.by_playbook[p].contacted \in Nat /\ f.by_playbook[p].engaged \in Nat
  <2> HIDE DEF stages, V
  <2>1. QED
    BY <1>1, RowsAreCounts
<1>6. \A x \in Stages : CloseTo(StoredFunnel.total[x], LiveFunnel.total[x], Cardinality(AgentsOf(edge)))
  <2> HIDE DEF stages, W, V
  <2>1. QED
    BY <1>1, <1>2, <1>4, ReachApart
<1>7. edge = {} => StoredFunnel = f
  BY <1>2
<1> HIDE DEF f, edge
<1>8. \A p \in DOMAIN f.by_playbook :
        p \notin shown => f.by_playbook[p].contacted = 0 /\ f.by_playbook[p].engaged = 0
  BY <1>5
<1>9. QED
  BY <1>4, <1>6, <1>7, <1>8 DEF FunnelsMatch, AgentsOf, edge

ByReason(group) == Counts([a \in group |-> Reason(a)])
ByWhat(set) == Counts([s \in set |-> s.what])
Number(group, r) == Cardinality({a \in group : Reason(a) = r})
Told(set, r) == Cardinality({s \in set : s.what = r})

\* The agents of a group by reason, counted either way.
LEMMA CountsByReason ==
  \A group : ByReason(group) = [r \in {Reason(a) : a \in group} |-> Number(group, r)]
BY DEF ByReason, Counts, Range, Number

\* The month before by reason, counted either way.
LEMMA CountsByWhat ==
  \A set : ByWhat(set) = [r \in {s.what : s \in set} |-> Told(set, r)]
BY DEF ByWhat, Counts, Range, Told

\* A reason nobody has, and one nobody had, counts zero.
LEMMA NumberIsAt ==
  ASSUME NEW group, NEW r
  PROVE  At(ByReason(group), r) = Number(group, r)
<1>1. r \notin {Reason(a) : a \in group} => {a \in group : Reason(a) = r} = {}
  OBVIOUS
<1>2. QED
  BY <1>1, CountsByReason, FS_EmptySet DEF At, Number

LEMMA ToldIsAt ==
  ASSUME NEW set, NEW r
  PROVE  At(ByWhat(set), r) = Told(set, r)
<1>1. r \notin {s.what : s \in set} => {s \in set : s.what = r} = {}
  OBVIOUS
<1>2. QED
  BY <1>1, CountsByWhat, FS_EmptySet DEF At, Told

LEMMA DormancyAgrees == DormancyMatches
<1> DEFINE D == {a \in DOMAIN agents : agents[a].state = "dormant" /\ ~agents[a].deleted}
           B == StoredBefore
           known == {Reason(a) : a \in D}
           past(X) == {s.what : s \in X}
           regions == {Region(a) : a \in D}
           here(g) == {a \in D : Region(a) = g}
<1>1. In({a \in Kept : None = None \/ agents[a].region = None}, {"dormant"}) = D
  BY DEF In, Kept
<1>2. /\ StoredDormancy.reasons = [r \in known |-> Number(D, r)]
      /\ StoredDormancy.regions = [g \in regions |-> [r \in {Reason(a) : a \in here(g)} |-> Number(here(g), r)]]
      /\ StoredDormancy.trend = [r \in known \cup past(B) |-> Change(Number(D, r), Told(B, r))]
  BY DEF StoredDormancy, Number, Told
<1>3. DOMAIN ByReason(D) = known /\ \A X : DOMAIN ByWhat(X) = past(X)
  BY CountsByReason, CountsByWhat
<1>4. /\ LiveDormancy(None).reasons = ByReason(D)
      /\ LiveDormancy(None).regions = [g \in regions |-> ByReason(here(g))]
      /\ LiveDormancy(None).trend = [r \in known \cup past(LiveBefore) |->
                                       Change(At(ByReason(D), r), At(ByWhat(LiveBefore), r))]
  BY <1>1, <1>3 DEF LiveDormancy, ByReason, ByWhat
<1>5. \A r : At(ByReason(D), r) = Number(D, r) /\ \A X : At(ByWhat(X), r) = Told(X, r)
  <2> HIDE DEF D, B
  <2>1. QED
    BY NumberIsAt, ToldIsAt
<1>6. /\ ByReason(D) = [r \in known |-> Number(D, r)]
      /\ \A g : ByReason(here(g)) = [r \in {Reason(a) : a \in here(g)} |-> Number(here(g), r)]
  <2> HIDE DEF D, here
  <2>1. QED
    BY CountsByReason
<1> HIDE DEF D, here, known, past, regions
<1>7. /\ StoredDormancy.reasons = LiveDormancy(None).reasons
      /\ StoredDormancy.regions = LiveDormancy(None).regions
  BY <1>2, <1>4, <1>6
<1>8. StoredBefore = LiveBefore => StoredDormancy.trend = LiveDormancy(None).trend
  BY <1>2, <1>4, <1>5
<1>9. QED
  BY <1>7, <1>8 DEF DormancyMatches

\* What is counted since a midnight is what is counted since as many days ago, and what is
\* between the two.
LEMMA StoredIsWider ==
  ASSUME FiguresInv, NEW type, NEW days \in Nat
  PROVE  Since(type, days) \subseteq Stored(type, days) /\ Stored(type, days) \subseteq signals
<1> SUFFICES ASSUME NEW s \in Since(type, days) PROVE s \in Stored(type, days)
  BY DEF Stored
<1>1. s \in signals /\ s.type = type /\ s.at >= DaysAgo(days)
  BY DEF Since
<1>2. s.at \in Int /\ DaysAgo(days) \in Int /\ MidnightOf(days) \in Int /\ MidnightOf(days) <= DaysAgo(days)
  BY <1>1, FiniteFigures, TimesInOrder
<1>3. s.at >= MidnightOf(days)
  BY <1>1, <1>2
<1>4. QED
  BY <1>1, <1>3 DEF Stored

\* The reactivations of the snapshot are those of the dashboard and of the hours between.
LEMMA ReactivationsAdd ==
  ASSUME FiguresInv
  PROVE  Snapshot.reactivations =
           Dashboard(None).reactivations
           + Cardinality({s \in Stored("lifecycle", Month) \ Since("lifecycle", Month) : Reactivates(s)})
<1> DEFINE stored == {s \in Stored("lifecycle", Month) : Reactivates(s)}
           live == {s \in Since("lifecycle", Month) : Reactivates(s)}
           between == {s \in Stored("lifecycle", Month) \ Since("lifecycle", Month) : Reactivates(s)}
<1>1. Since("lifecycle", Month) \subseteq Stored("lifecycle", Month) /\ Stored("lifecycle", Month) \subseteq signals
  <2>1. Month \in Nat
    BY DEF Month
  <2>2. QED
    BY <2>1, StoredIsWider
<1>2. stored = live \cup between /\ live \cap between = {}
      /\ live \in SUBSET signals /\ between \in SUBSET signals
  BY <1>1
<1>3. Snapshot.reactivations = Cardinality(stored) /\ Dashboard(None).reactivations = Cardinality(live)
  BY DEF Snapshot, Dashboard
<1> HIDE DEF stored, live, between
<1>4. /\ IsFiniteSet(live) /\ IsFiniteSet(between)
      /\ Cardinality(live) \in Nat /\ Cardinality(between) \in Nat
  BY <1>2, FiniteFigures
<1>5. Cardinality(live \cup between) = Cardinality(live) + Cardinality(between) - Cardinality(live \cap between)
  BY <1>4, FS_Union
<1>6. Cardinality(live \cap between) = 0
  BY <1>2, FS_EmptySet
<1>7. QED
  BY <1>2, <1>3, <1>4, <1>5, <1>6 DEF between

\* The completion rates of the snapshot are those of the page, but for the modules of the hours
\* between.
LEMMA TrainingAgrees ==
  ASSUME FiguresInv
  PROVE  LET modules == {s.module : s \in {t \in Stored("training", Quarter) \ Since("training", Quarter) :
                                             t.agent # None}}
         IN  /\ DOMAIN Snapshot.training = DOMAIN LiveTraining \cup modules
             /\ \A u \in DOMAIN LiveTraining \ modules : Snapshot.training[u] = LiveTraining[u]
<1> DEFINE all == {s \in Stored("training", Quarter) : s.agent # None}
           page == TrainingSignals
           rest == {t \in Stored("training", Quarter) \ Since("training", Quarter) : t.agent # None}
           trained == {s.agent : s \in all}
           begun(m) == {a \in trained : \E s \in all : s.agent = a /\ s.module = m}
           done(m) == {a \in trained : \E s \in all : s.agent = a /\ s.module = m /\ Completes(s)}
           of(m) == {s \in page : s.module = m}
           some(m) == {s.agent : s \in of(m)}
           complete(m) == {s.agent : s \in {t \in of(m) : Completes(t)}}
           modules == {s.module : s \in rest}
<1>1. all = page \cup rest
  <2>1. Quarter \in Nat
    BY DEF Quarter
  <2>2. Since("training", Quarter) \subseteq Stored("training", Quarter)
    BY <2>1, StoredIsWider
  <2>3. QED
    BY <2>2 DEF TrainingSignals
<1>2. Snapshot.training = [m \in {s.module : s \in all} |-> Rate(Cardinality(done(m)), Cardinality(begun(m)))]
  BY DEF Snapshot
<1>3. LiveTraining = [m \in {s.module : s \in page} |-> Rate(Cardinality(complete(m)), Cardinality(some(m)))]
  BY DEF LiveTraining
<1> HIDE DEF all, page, rest
<1>4. \A m : m \notin modules => begun(m) = some(m) /\ done(m) = complete(m)
  BY <1>1
<1>5. {s.module : s \in all} = {s.module : s \in page} \cup modules
  BY <1>1
<1> HIDE DEF begun, done, some, complete
<1>6. /\ DOMAIN Snapshot.training = DOMAIN LiveTraining \cup modules
      /\ \A u \in DOMAIN LiveTraining \ modules : Snapshot.training[u] = LiveTraining[u]
  BY <1>2, <1>3, <1>4, <1>5
<1>7. QED
  BY <1>6 DEF rest

\* The snapshot beside the dashboard, the ranking and the training page.
LEMMA SnapshotAgrees ==
  ASSUME FiguresInv
  PROVE  SnapshotMatches
<1>1. {a \in Kept : None = None \/ agents[a].region = None} = Kept
  OBVIOUS
<1>2. /\ Snapshot.total = Cardinality(Kept) /\ Snapshot.by_state = StateCounts(Kept)
      /\ Snapshot.activation = CountedRate(StateCounts(Kept))
  BY DEF Snapshot
<1>3. /\ Dashboard(None).total = Cardinality(Kept) /\ Dashboard(None).by_state = StateCounts(Kept)
      /\ Dashboard(None).activation = CountedRate(StateCounts(Kept))
  BY <1>1 DEF Dashboard
<1>4. ASSUME NEW m \in Managers
      PROVE  /\ Snapshot.managers[m].total = Performance(m).total
             /\ Snapshot.managers[m].rate = Performance(m).rate
  <2>1. /\ Snapshot.managers[m].total = Cardinality(Of(m))
        /\ Snapshot.managers[m].rate = ActivationRate(Of(m))
    BY DEF Snapshot
  <2>2. Performance(m).total = Cardinality(Of(m)) /\ Performance(m).rate = ActivationRate(Of(m))
    BY DEF Performance
  <2>3. QED
    BY <2>1, <2>2
<1>5. \A x \in {"total", "by_state", "activation"} : Snapshot[x] = Dashboard(None)[x]
  BY <1>2, <1>3
<1>6. QED
  BY <1>4, <1>5, ReactivationsAdd, TrainingAgrees DEF SnapshotMatches

\* The reports the tasks store say what the pages show, but for what the signals at the edges of
\* the windows account for, for any agents, managers and signals and at any hour
\* (reports.py, analytics/service.py).
THEOREM ReportsSayTheSame == Spec => []StoredIsLive
<1>1. FiguresInv => StoredIsLive
  BY FunnelsAgree, DormancyAgrees, SnapshotAgrees DEF StoredIsLive
<1>2. QED
  BY <1>1, FiguresAlways, PTL
-----------------------------------------------------------------------------
(* The lists of the briefings.  A list in the order of a query has every   *)
(* agent of its set once; shown one position after the other.              *)

ListStep(u, order, set, i) ==
  IF i = 0 THEN <<>>
  ELSE IF order[i] \in set THEN Append(u[i - 1], order[i]) ELSE u[i - 1]
Lists(u, order, set, n) == u = [i \in 0..n |-> ListStep(u, order, set, i)]
Upto(order, set) == CHOOSE u : u = [i \in 0..Len(order) |-> ListStep(u, order, set, i)]

LEMMA InOrderIs == \A order, set : InOrder(order, set) = Upto(order, set)[Len(order)]
BY DEF InOrder, Upto, ListStep

LEMMA ListOneMore ==
  ASSUME NEW order, NEW set, NEW n \in Nat, NEW u, Lists(u, order, set, n)
  PROVE  \E v : Lists(v, order, set, n + 1)
<1> DEFINE v == [i \in 0..(n + 1) |-> ListStep(u, order, set, i)]
<1>1. \A i \in 0..n : i \in 0..(n + 1) /\ u[i] = ListStep(u, order, set, i)
  BY DEF Lists
<1>2. \A i \in 0..n : v[i] = u[i]
  BY <1>1
<1>3. \A i \in 0..(n + 1) : i # 0 => i - 1 \in 0..n
  OBVIOUS
<1>4. \A i \in 0..(n + 1) : ListStep(u, order, set, i) = ListStep(v, order, set, i)
  <2> HIDE DEF v
  <2>1. QED
    BY <1>2, <1>3 DEF ListStep
<1>5. v = [i \in 0..(n + 1) |-> ListStep(v, order, set, i)]
  BY <1>4
<1>6. Lists(v, order, set, n + 1)
  BY <1>5 DEF Lists
<1>7. QED
  BY <1>6

LEMMA UptoLists ==
  ASSUME NEW order \in Seq(Everyone), NEW set
  PROVE  Lists(Upto(order, set), order, set, Len(order))
<1> DEFINE B == {n \in Nat : ~ \E u : Lists(u, order, set, n)}
<1>1. ASSUME B # {} PROVE FALSE
  <2>1. PICK n \in B : \A m \in B : n <= m
    <3>1. B \in SUBSET Nat
      OBVIOUS
    <3> HIDE DEF B
    <3>2. QED
      BY <1>1, <3>1, LeastNat
  <2>2. CASE n = 0
    <3> DEFINE u == [i \in 0..0 |-> <<>>]
    <3>1. \A i \in 0..0 : ListStep(u, order, set, i) = <<>>
      BY DEF ListStep
    <3>2. Lists(u, order, set, 0)
      BY <3>1 DEF Lists
    <3>3. QED
      BY <2>1, <2>2, <3>2
  <2>3. CASE n # 0
    <3>1. n - 1 \in Nat /\ (n - 1) + 1 = n /\ ~ (n <= n - 1)
      BY <2>3
    <3>2. PICK u : Lists(u, order, set, n - 1)
      BY <2>1, <3>1
    <3>3. \E v : Lists(v, order, set, (n - 1) + 1)
      BY <3>1, <3>2, ListOneMore
    <3>4. QED
      BY <3>1, <3>3
  <2>4. QED
    BY <2>2, <2>3
<1>2. Len(order) \in Nat
  OBVIOUS
<1>3. \E u : Lists(u, order, set, Len(order))
  BY <1>1, <1>2
<1>4. QED
  BY <1>3 DEF Upto, Lists

\* A list without repetitions, of the elements of a set.
ListOf(s, set) ==
  /\ s \in Seq(Everyone)
  /\ \A i \in 1..Len(s) : s[i] \in set
  /\ \A a \in set : \E i \in 1..Len(s) : s[i] = a
  /\ \A i, j \in 1..Len(s) : s[i] = s[j] => i = j

Before(order, set, n) == {order[i] : i \in 1..n} \cap set

LEMMA ListAppends ==
  ASSUME NEW S, NEW T, NEW s, ListOf(s, S), NEW a \in Everyone, a \notin S, T = S \cup {a}
  PROVE  ListOf(Append(s, a), T)
<1> DEFINE t == Append(s, a)
<1>1. s \in Seq(Everyone) /\ Len(s) \in Nat
  BY DEF ListOf
<1>2. /\ t \in Seq(Everyone) /\ Len(t) = Len(s) + 1
      /\ \A i \in 1..Len(s) : t[i] = s[i]
      /\ t[Len(s) + 1] = a
  BY <1>1, AppendProperties
<1> HIDE DEF t
<1>3. \A i \in 1..Len(t) : i \in 1..Len(s) \/ i = Len(s) + 1
  BY <1>1, <1>2
<1>4. \A i \in 1..Len(s) : i \in 1..Len(t) /\ i # Len(s) + 1
  BY <1>1, <1>2
<1>5. Len(s) + 1 \in 1..Len(t)
  BY <1>1, <1>2
<1>6. \A i \in 1..Len(t) : t[i] \in T
  BY <1>2, <1>3 DEF ListOf
<1>7. \A b \in T : \E i \in 1..Len(t) : t[i] = b
  BY <1>2, <1>4, <1>5 DEF ListOf
<1>8. \A i, j \in 1..Len(t) : t[i] = t[j] => i = j
  BY <1>2, <1>3 DEF ListOf
<1>9. QED
  BY <1>2, <1>6, <1>7, <1>8 DEF ListOf, t

LEMMA InOrderLists ==
  ASSUME NEW order \in Orders, NEW set \in SUBSET Everyone
  PROVE  ListOf(InOrder(order, set), set)
<1> DEFINE u == Upto(order, set)
           N == Len(order)
           B == {n \in 0..N : ~ ListOf(u[n], Before(order, set, n))}
<1>1. /\ N \in Nat /\ DOMAIN order = 1..N /\ order \in Seq(Everyone)
      /\ Range(order) = Everyone /\ IsInjective(order)
  BY FiguresAssumption
<1>2. \A i \in 0..N : u[i] = ListStep(u, order, set, i)
  BY <1>1, UptoLists DEF Lists
<1> HIDE DEF u
<1>3. ASSUME B # {} PROVE FALSE
  <2>1. PICK n \in B : \A m \in B : n <= m
    <3>1. B \in SUBSET Nat
      BY <1>1
    <3> HIDE DEF B
    <3>2. QED
      BY <1>3, <3>1, LeastNat
  <2>2. n \in 0..N /\ ~ ListOf(u[n], Before(order, set, n)) /\ u[n] = ListStep(u, order, set, n)
    BY <1>2
  <2>3. CASE n = 0
    <3>1. u[n] = <<>> /\ Before(order, set, n) = {}
      BY <2>2, <2>3 DEF ListStep, Before
    <3>2. QED
      BY <2>2, <3>1 DEF ListOf
  <2>4. CASE n # 0
    <3> DEFINE m == n - 1
               a == order[n]
    <3>1. m \in 0..N /\ ~ (n <= m) /\ n \in 1..N
      BY <1>1, <2>2, <2>4
    <3>2. ListOf(u[m], Before(order, set, m))
      BY <2>1, <3>1
    <3>3. a \in Everyone
      BY <1>1, <3>1 DEF Range
    <3>4. a \notin Before(order, set, m)
      BY <1>1, <3>1 DEF Before, IsInjective
    <3>5. Before(order, set, n) = Before(order, set, m) \cup ({a} \cap set)
      BY <3>1 DEF Before
    <3>6. u[n] = IF a \in set THEN Append(u[m], a) ELSE u[m]
      BY <2>2, <2>4 DEF ListStep
    <3> HIDE DEF a, m
    <3>7. CASE a \in set
      <4>1. Before(order, set, n) = Before(order, set, m) \cup {a}
        BY <3>5, <3>7
      <4>2. ListOf(Append(u[m], a), Before(order, set, n))
        BY <3>2, <3>3, <3>4, <4>1, ListAppends
      <4>3. QED
        BY <2>2, <3>6, <3>7, <4>2
    <3>8. CASE a \notin set
      <4>1. Before(order, set, n) = Before(order, set, m)
        BY <3>5, <3>8
      <4>2. QED
        BY <2>2, <3>2, <3>6, <3>8, <4>1
    <3>9. QED
      BY <3>7, <3>8
  <2>5. QED
    BY <2>3, <2>4
<1>4. N \in 0..N /\ N \notin B
  BY <1>1, <1>3
<1>5. ListOf(u[N], Before(order, set, N))
  BY <1>4
<1>6. Before(order, set, N) = set
  BY <1>1 DEF Before, Range
<1>7. QED
  BY <1>5, <1>6, InOrderIs DEF u

\* Two lists, one after the other.
LEMMA ListsJoin ==
  ASSUME NEW S, NEW T, S \cap T = {}, NEW s, NEW t, ListOf(s, S), ListOf(t, T)
  PROVE  ListOf(s \o t, S \cup T)
<1> DEFINE x == s \o t
<1>1. /\ s \in Seq(Everyone) /\ t \in Seq(Everyone)
      /\ Len(s) \in Nat /\ Len(t) \in Nat
  BY DEF ListOf
<1>2. /\ x \in Seq(Everyone) /\ Len(x) = Len(s) + Len(t)
      /\ \A i \in 1 .. Len(s) + Len(t) : x[i] = IF i <= Len(s) THEN s[i] ELSE t[i - Len(s)]
  BY <1>1, ConcatProperties
<1> HIDE DEF x
<1>3. \A i \in 1..Len(x) : IF i <= Len(s) THEN i \in 1..Len(s) /\ x[i] = s[i]
                           ELSE i - Len(s) \in 1..Len(t) /\ x[i] = t[i - Len(s)]
  BY <1>1, <1>2
<1>4. /\ \A i \in 1..Len(s) : i \in 1..Len(x) /\ x[i] = s[i]
      /\ \A i \in 1..Len(t) : i + Len(s) \in 1..Len(x) /\ x[i + Len(s)] = t[i]
  <2>1. \A i \in 1..Len(s) : i \in 1..Len(x) /\ i \in 1 .. Len(s) + Len(t) /\ i <= Len(s)
    BY <1>1, <1>2
  <2>2. \A i \in 1..Len(t) : /\ i + Len(s) \in 1..Len(x) /\ i + Len(s) \in 1 .. Len(s) + Len(t)
                             /\ ~(i + Len(s) <= Len(s)) /\ (i + Len(s)) - Len(s) = i
    BY <1>1, <1>2
  <2>3. QED
    BY <1>2, <2>1, <2>2
<1>5. \A i \in 1..Len(x) : x[i] \in S \cup T
  BY <1>3 DEF ListOf
<1>6. \A a \in S \cup T : \E i \in 1..Len(x) : x[i] = a
  <2>1. \A a \in S : \E i \in 1..Len(x) : x[i] = a
    BY <1>4 DEF ListOf
  <2>2. ASSUME NEW a \in T PROVE \E i \in 1..Len(x) : x[i] = a
    <3>1. PICK i \in 1..Len(t) : t[i] = a
      BY DEF ListOf
    <3>2. i + Len(s) \in 1..Len(x) /\ x[i + Len(s)] = a
      BY <1>4, <3>1
    <3>3. QED
      BY <3>2
  <2>3. QED
    BY <2>1, <2>2
<1>7. ASSUME NEW i \in 1..Len(x), NEW j \in 1..Len(x), x[i] = x[j] PROVE i = j
  <2>1. CASE i <= Len(s) /\ j <= Len(s)
    BY <1>3, <1>7, <2>1 DEF ListOf
  <2>2. CASE ~(i <= Len(s)) /\ ~(j <= Len(s))
    <3>1. i - Len(s) = j - Len(s)
      BY <1>3, <1>7, <2>2 DEF ListOf
    <3>2. QED
      BY <1>1, <1>2, <3>1
  <2>3. \A k \in 1..Len(x) : IF k <= Len(s) THEN x[k] \in S ELSE x[k] \in T
    BY <1>3 DEF ListOf
  <2>4. ~(i <= Len(s) /\ ~(j <= Len(s))) /\ ~(~(i <= Len(s)) /\ j <= Len(s))
    BY <1>7, <2>3
  <2>5. QED
    BY <2>1, <2>2, <2>4
<1>8. QED
  BY <1>2, <1>5, <1>6, <1>7 DEF ListOf, x

\* What is kept of a list.
LEMMA FirstIs ==
  ASSUME NEW A, NEW s \in Seq(A), NEW n \in Nat
  PROVE  /\ First(s, n) \in Seq(A)
         /\ Len(First(s, n)) = IF Len(s) <= n THEN Len(s) ELSE n
         /\ \A i \in 1..Len(First(s, n)) : i \in 1..Len(s) /\ First(s, n)[i] = s[i]
<1> DEFINE k == IF Len(s) <= n THEN Len(s) ELSE n
<1>1. Len(s) \in Nat /\ \A i \in 1..Len(s) : s[i] \in A
  OBVIOUS
<1>2. Min({Len(s), n}) = k
  BY <1>1 DEF Min
<1>3. k \in Nat /\ k <= Len(s)
  BY <1>1
<1>4. First(s, n) = SubSeq(s, 1, k)
  BY <1>2 DEF First
<1> HIDE DEF k
<1>5. /\ SubSeq(s, 1, k) \in Seq(A) /\ Len(SubSeq(s, 1, k)) = IF 1 <= k THEN k - 1 + 1 ELSE 0
      /\ \A i \in 1 .. k - 1 + 1 : SubSeq(s, 1, k)[i] = s[1 + i - 1]
  <2>1. \A i \in 1..k : s[i] \in A
    BY <1>1, <1>3
  <2>2. 1 \in Int /\ k \in Int
    BY <1>3
  <2>3. QED
    BY <2>1, <2>2, SubSeqProperties
<1>6. Len(First(s, n)) = k
  BY <1>3, <1>4, <1>5
<1>7. \A i \in 1..k : i \in 1..Len(s) /\ First(s, n)[i] = s[i]
  <2>1. \A i \in 1..k : i \in 1 .. k - 1 + 1 /\ 1 + i - 1 = i /\ i \in 1..Len(s)
    BY <1>1, <1>3
  <2>2. QED
    BY <1>4, <1>5, <2>1
<1>8. QED
  BY <1>4, <1>5, <1>6, <1>7 DEF k

LEMMA OnceEach ==
  ASSUME NEW A, NEW s \in Seq(A), \A i, j \in 1..Len(s) : s[i] = s[j] => i = j
  PROVE  IsFiniteSet(Range(s)) /\ Cardinality(Range(s)) = Len(s)
<1>1. Len(s) \in Nat /\ DOMAIN s = 1..Len(s) /\ s \in [1..Len(s) -> Range(s)]
  BY DEF Range
<1>2. s \in Bijection(1..Len(s), Range(s))
  BY <1>1 DEF Bijection, Injection, Surjection, IsInjective, Range
<1>3. IsFiniteSet(1..Len(s)) /\ Cardinality(1..Len(s)) = Len(s)
  BY <1>1, FS_Interval
<1>4. QED
  BY <1>2, <1>3, FS_Bijection DEF ExistsBijection

\* A list that goes by urgency.
Sorted(s, set) == ListOf(s, set) /\ \A i, j \in 1..Len(s) : i < j => Urgency(s[i]) <= Urgency(s[j])

LEMMA UrgencyIs == \A a : Urgency(a) \in 1..4
BY DEF Urgency

\* A list of agents that are as urgent as each other.
LEMMA SortedGroup ==
  ASSUME NEW order \in Orders, NEW set \in SUBSET Everyone, NEW u \in Nat, \A a \in set : Urgency(a) = u
  PROVE  Sorted(InOrder(order, set), set)
<1> DEFINE s == InOrder(order, set)
<1>1. ListOf(s, set)
  BY InOrderLists
<1> HIDE DEF s
<1>2. \A i \in 1..Len(s) : Urgency(s[i]) = u
  BY <1>1 DEF ListOf
<1>3. QED
  BY <1>1, <1>2 DEF Sorted, s

\* What follows is no more urgent.
LEMMA SortedJoin ==
  ASSUME NEW S, NEW T, S \cap T = {}, NEW s, NEW t, Sorted(s, S), Sorted(t, T),
         \A a \in S, b \in T : Urgency(a) <= Urgency(b)
  PROVE  Sorted(s \o t, S \cup T)
<1> DEFINE x == s \o t
<1>1. /\ s \in Seq(Everyone) /\ t \in Seq(Everyone) /\ Len(s) \in Nat /\ Len(t) \in Nat
      /\ ListOf(s, S) /\ ListOf(t, T)
  BY DEF Sorted, ListOf
<1>2. /\ Len(x) = Len(s) + Len(t)
      /\ \A i \in 1 .. Len(s) + Len(t) : x[i] = IF i <= Len(s) THEN s[i] ELSE t[i - Len(s)]
  BY <1>1, ConcatProperties
<1>3. ListOf(x, S \cup T)
  BY <1>1, ListsJoin
<1> HIDE DEF x
<1>4. \A i \in 1..Len(x) : IF i <= Len(s) THEN i \in 1..Len(s) /\ x[i] = s[i] /\ x[i] \in S
                           ELSE i - Len(s) \in 1..Len(t) /\ x[i] = t[i - Len(s)] /\ x[i] \in T
  <2>1. \A i \in 1..Len(x) : IF i <= Len(s) THEN i \in 1..Len(s) /\ x[i] = s[i]
                             ELSE i - Len(s) \in 1..Len(t) /\ x[i] = t[i - Len(s)]
    BY <1>1, <1>2
  <2>2. QED
    BY <1>1, <2>1 DEF ListOf
<1>5. ASSUME NEW i \in 1..Len(x), NEW j \in 1..Len(x), i < j
      PROVE  Urgency(x[i]) <= Urgency(x[j])
  <2>1. CASE j <= Len(s)
    <3>1. i <= Len(s)
      BY <1>1, <1>2, <1>5, <2>1
    <3>2. QED
      BY <1>4, <1>5, <2>1, <3>1 DEF Sorted
  <2>2. CASE ~(i <= Len(s))
    <3>1. ~(j <= Len(s)) /\ i - Len(s) < j - Len(s)
      BY <1>1, <1>2, <1>5, <2>2
    <3>2. QED
      BY <1>4, <2>2, <3>1 DEF Sorted
  <2>3. CASE i <= Len(s) /\ ~(j <= Len(s))
    BY <1>4, <2>3
  <2>4. QED
    BY <2>1, <2>2, <2>3
<1>6. QED
  BY <1>3, <1>5 DEF Sorted, x

\* A list of some of a set, nobody twice, by urgency; who is left out is no more urgent than anyone
\* on it, and it is full.
Abridges(p, set) ==
  /\ IsFiniteSet(Range(p)) /\ Range(p) \subseteq set
  /\ Cardinality(Range(p)) = Len(p) /\ Len(p) \in Nat /\ Len(p) <= MaxPriority
  /\ \A i, j \in DOMAIN p : i < j => Urgency(p[i]) <= Urgency(p[j])
  /\ \A a \in set \ Range(p) : Len(p) = MaxPriority /\ \A b \in Range(p) : Urgency(b) <= Urgency(a)

LEMMA FirstAbridges ==
  ASSUME NEW S, NEW s, Sorted(s, S)
  PROVE  Abridges(First(s, MaxPriority), S)
<1> DEFINE p == First(s, MaxPriority)
<1>1. MaxPriority \in Nat /\ s \in Seq(Everyone) /\ Len(s) \in Nat /\ ListOf(s, S)
  BY FiguresAssumption DEF Sorted, ListOf
<1>2. /\ p \in Seq(Everyone)
      /\ Len(p) = IF Len(s) <= MaxPriority THEN Len(s) ELSE MaxPriority
      /\ \A i \in 1..Len(p) : i \in 1..Len(s) /\ p[i] = s[i]
  BY <1>1, FirstIs
<1> HIDE DEF p
<1>3. DOMAIN p = 1..Len(p) /\ Len(p) \in Nat /\ Len(p) <= MaxPriority
  BY <1>1, <1>2
<1>4. IsFiniteSet(Range(p)) /\ Cardinality(Range(p)) = Len(p)
  <2>1. \A i, j \in 1..Len(p) : p[i] = p[j] => i = j
    BY <1>1, <1>2 DEF ListOf
  <2>2. QED
    BY <1>2, <2>1, OnceEach
<1>5. Range(p) \subseteq S
  BY <1>1, <1>2, <1>3 DEF ListOf, Range
<1>6. \A i, j \in DOMAIN p : i < j => Urgency(p[i]) <= Urgency(p[j])
  BY <1>2, <1>3 DEF Sorted
<1>7. ASSUME NEW a \in S \ Range(p)
      PROVE  Len(p) = MaxPriority /\ \A b \in Range(p) : Urgency(b) <= Urgency(a)
  <2>1. PICK j \in 1..Len(s) : s[j] = a
    BY <1>1 DEF ListOf
  <2>2. j \notin 1..Len(p)
    BY <1>2, <1>3, <2>1 DEF Range
  <2>3. Len(p) = MaxPriority /\ Len(p) < j
    BY <1>1, <1>2, <1>3, <2>2
  <2>4. ASSUME NEW b \in Range(p) PROVE Urgency(b) <= Urgency(a)
    <3>1. PICK i \in 1..Len(p) : p[i] = b
      BY <1>3 DEF Range
    <3>2. i \in 1..Len(s) /\ s[i] = b /\ i < j
      BY <1>2, <1>3, <2>3, <3>1
    <3>3. QED
      BY <2>1, <3>2 DEF Sorted
  <2>5. QED
    BY <2>3, <2>4
<1>8. QED
  BY <1>3, <1>4, <1>5, <1>6, <1>7 DEF Abridges, p

\* All of the most urgent are on such a list, or nobody else is.
LEMMA UrgentOn ==
  ASSUME NEW E, IsFiniteSet(E), NEW S, E \subseteq S, NEW p, Abridges(p, S),
         \A a \in E : Urgency(a) = 1, \A a \in S \ E : Urgency(a) > 1
  PROVE  Cardinality(Range(p) \cap E) = IF Cardinality(E) <= MaxPriority THEN Cardinality(E) ELSE MaxPriority
<1>1. /\ IsFiniteSet(Range(p)) /\ Range(p) \subseteq S /\ Cardinality(Range(p)) = Len(p)
      /\ Len(p) \in Nat /\ Len(p) <= MaxPriority /\ MaxPriority \in Nat
      /\ \A a \in S \ Range(p) : Len(p) = MaxPriority /\ \A b \in Range(p) : Urgency(b) <= Urgency(a)
  BY FiguresAssumption DEF Abridges
<1>2. Cardinality(E) \in Nat
  BY FS_CardinalityType
<1>3. CASE E \subseteq Range(p)
  <2>1. Range(p) \cap E = E
    BY <1>3
  <2>2. Cardinality(E) <= Cardinality(Range(p))
    BY <1>1, <1>3, FS_Subset
  <2>3. Cardinality(E) <= MaxPriority
    BY <1>1, <1>2, <2>2
  <2>4. QED
    BY <2>1, <2>3
<1>4. CASE ~(E \subseteq Range(p))
  <2>1. PICK a \in E : a \notin Range(p)
    BY <1>4
  <2>2. Len(p) = MaxPriority /\ \A b \in Range(p) : Urgency(b) <= Urgency(a)
    BY <1>1, <2>1
  <2>3. \A b \in Range(p) : b \in S /\ ~(Urgency(b) > 1)
    <3>1. Urgency(a) = 1
      BY <2>1
    <3>2. \A b : Urgency(b) \in 1..4
      BY UrgencyIs
    <3>3. QED
      BY <1>1, <2>2, <3>1, <3>2
  <2>4. Range(p) \subseteq E
    BY <2>3
  <2>5. Range(p) \cap E = Range(p) /\ Cardinality(Range(p)) <= Cardinality(E)
    BY <2>4, FS_Subset
  <2>6. QED
    BY <1>1, <1>2, <2>2, <2>5
<1>5. QED
  BY <1>3, <1>4

\* A list of two groups has as many of them as it is long.
LEMMA TwoGroups ==
  ASSUME NEW X, IsFiniteSet(X), NEW E, NEW R, E \cap R = {}
  PROVE  /\ Cardinality(X \cap E) \in Nat /\ Cardinality(X \cap R) \in Nat /\ Cardinality(X) \in Nat
         /\ Cardinality(X \cap E) + Cardinality(X \cap R) <= Cardinality(X)
         /\ X \subseteq E \cup R => Cardinality(X \cap E) + Cardinality(X \cap R) = Cardinality(X)
<1> DEFINE e == X \cap E
           r == X \cap R
<1>1. e \cap r = {} /\ e \in SUBSET X /\ r \in SUBSET X /\ e \cup r \in SUBSET X
      /\ (X \subseteq E \cup R => e \cup r = X)
  OBVIOUS
<1> HIDE DEF e, r
<1>2. IsFiniteSet(e) /\ IsFiniteSet(r) /\ Cardinality(e \cup r) <= Cardinality(X)
  BY <1>1, FS_Subset
<1>3. Cardinality(e) \in Nat /\ Cardinality(r) \in Nat /\ Cardinality(X) \in Nat
  BY <1>2, FS_CardinalityType
<1>4. Cardinality(e \cup r) = Cardinality(e) + Cardinality(r) - Cardinality(e \cap r) /\ Cardinality(e \cap r) = 0
  BY <1>1, <1>2, FS_Union, FS_EmptySet
<1>5. Cardinality(e) + Cardinality(r) <= Cardinality(X)
  BY <1>2, <1>3, <1>4
<1>6. X \subseteq E \cup R => Cardinality(e) + Cardinality(r) = Cardinality(X)
  <2>1. X \subseteq E \cup R => Cardinality(e \cup r) = Cardinality(X)
    BY <1>1, Zenon
  <2> DEFINE u == e \cup r
             v == e \cap r
  <2> HIDE DEF u, v
  <2>2. Cardinality(u) = Cardinality(e) + Cardinality(r) - Cardinality(v) /\ Cardinality(v) = 0
    BY <1>4 DEF u, v
  <2>3. Cardinality(u) = Cardinality(e) + Cardinality(r)
    BY <1>3, <2>2
  <2>4. QED
    BY <2>1, <2>3 DEF u
<1>7. QED
  BY <1>3, <1>5, <1>6 DEF e, r

\* The three groups of a manager's agents.
Urgent(m) == {a \in Of(m) : Expiring(a)}
Opportunities(m) == {a \in Of(m) : Warm(a) /\ ~Expiring(a)}
Endangered(m) == {a \in Of(m) : AtRisk(a) /\ ~Expiring(a)}

LEMMA GroupsApart ==
  ASSUME FiguresInv, NEW m
  PROVE  /\ Urgent(m) \in SUBSET Everyone /\ Opportunities(m) \in SUBSET Everyone /\ Endangered(m) \in SUBSET Everyone
         /\ \A a \in Urgent(m) : Urgency(a) = 1
         /\ \A a \in Opportunities(m) : Urgency(a) = 2
         /\ \A a \in Endangered(m) : Urgency(a) = 3
         /\ \A a \in Of(m) : Urgency(a) < 4 => a \in Urgent(m) \cup Opportunities(m) \cup Endangered(m)
         /\ IsFiniteSet(Urgent(m)) /\ IsFiniteSet(Endangered(m))
<1>1. DOMAIN agents \subseteq Everyone /\ Of(m) \subseteq DOMAIN agents
  BY FiguresAssumption DEF FiguresInv, Of, Kept
<1>2. \A a : ~(Warm(a) /\ AtRisk(a))
  BY DEF Warm, AtRisk
<1>3. Urgent(m) \in SUBSET Of(m) /\ Opportunities(m) \in SUBSET Of(m) /\ Endangered(m) \in SUBSET Of(m)
  BY DEF Urgent, Opportunities, Endangered
<1>4. IsFiniteSet(Urgent(m)) /\ IsFiniteSet(Endangered(m))
  BY <1>1, <1>3, FiniteFigures
<1>5. /\ \A a \in Urgent(m) : Urgency(a) = 1
      /\ \A a \in Opportunities(m) : Urgency(a) = 2
      /\ \A a \in Endangered(m) : Urgency(a) = 3
  BY <1>2 DEF Urgency, Urgent, Opportunities, Endangered
<1>6. \A a \in Of(m) : Urgency(a) < 4 => a \in Urgent(m) \cup Opportunities(m) \cup Endangered(m)
  BY DEF Urgency, Urgent, Opportunities, Endangered
<1>7. QED
  BY <1>1, <1>3, <1>4, <1>5, <1>6

\* Both lists of a manager, in any order of the queries.
LEMMA ListsAbridge ==
  ASSUME FiguresInv, NEW m, NEW order \in Orders
  PROVE  /\ Abridges(RequestedPriorities(m, order), Urgent(m) \cup Opportunities(m) \cup Endangered(m))
         /\ Abridges(TaskPriorities(m, order), Urgent(m) \cup Endangered(m))
<1> DEFINE E == Urgent(m)
           W == Opportunities(m)
           R == Endangered(m)
           e == InOrder(order, E)
           w == InOrder(order, W)
           r == InOrder(order, R)
<1>1. /\ E \in SUBSET Everyone /\ W \in SUBSET Everyone /\ R \in SUBSET Everyone
      /\ \A a \in E : Urgency(a) = 1
      /\ \A a \in W : Urgency(a) = 2
      /\ \A a \in R : Urgency(a) = 3
  BY GroupsApart
<1>2. /\ RequestedPriorities(m, order) = First((e \o w) \o r, MaxPriority)
      /\ TaskPriorities(m, order) = First(e \o r, MaxPriority)
  BY DEF RequestedPriorities, TaskPriorities, Urgent, Opportunities, Endangered
<1> DEFINE EW == E \cup W
           ew == e \o w
<1> HIDE DEF E, W, R
<1>3. Sorted(e, E) /\ Sorted(w, W) /\ Sorted(r, R)
  BY <1>1, SortedGroup
<1> HIDE DEF e, w, r
<1>4. /\ E \cap W = {} /\ E \cap R = {} /\ EW \cap R = {}
      /\ \A a \in E, b \in W : Urgency(a) <= Urgency(b)
      /\ \A a \in E, b \in R : Urgency(a) <= Urgency(b)
      /\ \A a \in EW, b \in R : Urgency(a) <= Urgency(b)
  BY <1>1
<1>5. Sorted(ew, EW) /\ Sorted(e \o r, E \cup R)
  BY <1>3, <1>4, SortedJoin
<1> HIDE DEF EW, ew
<1>6. Sorted(ew \o r, EW \cup R)
  BY <1>3, <1>4, <1>5, SortedJoin
<1>7. Abridges(First(ew \o r, MaxPriority), EW \cup R) /\ Abridges(First(e \o r, MaxPriority), E \cup R)
  BY <1>5, <1>6, FirstAbridges
<1>8. QED
  BY <1>2, <1>7 DEF E, W, R, EW, ew

LEMMA FocusCovers ==
  ASSUME NEW m
  PROVE  Urgent(m) \cup Opportunities(m) \cup Endangered(m) \subseteq UNION FocusAreas(m)
<1> DEFINE risky == In(Of(m), {"at_risk"})
           warm == {a \in Of(m) : Warm(a)}
           expiring == {a \in Of(m) : ExpiresWithin(a, 60)}
<1>1. \A area \in {risky, warm, expiring} : area \subseteq UNION FocusAreas(m)
  BY DEF FocusAreas
<1>2. \A x : x \in 1..45 => x \in 1..60
  OBVIOUS
<1>3. Urgent(m) \subseteq expiring
  BY <1>2 DEF Urgent, Expiring, ExpiresWithin
<1>4. Opportunities(m) \subseteq warm /\ Endangered(m) \subseteq risky
  BY DEF Opportunities, Endangered, In, AtRisk
<1> HIDE DEF risky, warm, expiring
<1>5. QED
  BY <1>1, <1>3, <1>4

\* The numbers of either group on the two lists, from different orders.
LEMMA NumbersOnLists ==
  ASSUME FiguresInv, NEW m, NEW order \in Orders, NEW other \in Orders
  PROVE  LET requested == RequestedPriorities(m, order)
             task == TaskPriorities(m, other)
         IN  /\ Cardinality(Range(requested) \cap Urgent(m)) = Cardinality(Range(task) \cap Urgent(m))
             /\ Cardinality(Range(requested) \cap Endangered(m)) <= Cardinality(Range(task) \cap Endangered(m))
<1> DEFINE p == RequestedPriorities(m, order)
           q == TaskPriorities(m, other)
           E == Urgent(m)
           W == Opportunities(m)
           R == Endangered(m)
           A == Range(p)
           B == Range(q)
           S == E \cup W \cup R
           T == E \cup R
<1>1. /\ IsFiniteSet(E) /\ IsFiniteSet(R)
      /\ \A a \in E : Urgency(a) = 1
      /\ \A a \in W : Urgency(a) = 2
      /\ \A a \in R : Urgency(a) = 3
  BY GroupsApart
<1>2. Abridges(p, S) /\ Abridges(q, T)
  BY ListsAbridge
<1> HIDE DEF p, q, E, W, R
<1>3. /\ E \cap R = {} /\ E \subseteq S /\ E \subseteq T
      /\ \A a \in S \ E : Urgency(a) > 1
      /\ \A a \in T \ E : Urgency(a) > 1
  BY <1>1
<1>4. Cardinality(A \cap E) = Cardinality(B \cap E)
  <2> HIDE DEF S, T
  <2>1. QED
    BY <1>1, <1>2, <1>3, UrgentOn
<1>5. /\ IsFiniteSet(A) /\ Cardinality(A) = Len(p) /\ Len(p) <= MaxPriority /\ Len(p) \in Nat
      /\ IsFiniteSet(B) /\ Cardinality(B) = Len(q) /\ B \subseteq T
      /\ \A a \in T \ B : Len(q) = MaxPriority
      /\ MaxPriority \in Nat
  BY <1>2, FiguresAssumption DEF Abridges
<1> HIDE DEF A, B
<1>6. /\ Cardinality(A \cap E) \in Nat /\ Cardinality(A \cap R) \in Nat
      /\ Cardinality(A \cap E) + Cardinality(A \cap R) <= Len(p)
      /\ Cardinality(B \cap E) + Cardinality(B \cap R) = Len(q)
      /\ Cardinality(B \cap E) \in Nat /\ Cardinality(B \cap R) \in Nat
  <2>1. /\ Cardinality(A \cap E) \in Nat /\ Cardinality(A \cap R) \in Nat
        /\ Cardinality(A \cap E) + Cardinality(A \cap R) <= Cardinality(A)
    BY <1>3, <1>5, TwoGroups
  <2>2. /\ Cardinality(B \cap E) \in Nat /\ Cardinality(B \cap R) \in Nat
        /\ Cardinality(B \cap E) + Cardinality(B \cap R) = Cardinality(B)
    BY <1>3, <1>5, TwoGroups
  <2>3. QED
    BY <1>5, <2>1, <2>2
<1>7. Cardinality(A \cap R) <= Cardinality(B \cap R)
  <2>1. CASE R \subseteq B
    <3>1. B \cap R = R /\ A \cap R \in SUBSET R
      BY <2>1
    <3> DEFINE ar == A \cap R
    <3> HIDE DEF ar
    <3>2. ar \in SUBSET R
      BY <3>1 DEF ar
    <3>3. Cardinality(ar) <= Cardinality(R)
      BY <1>1, <3>2, FS_Subset
    <3>4. QED
      BY <3>1, <3>3 DEF ar
  <2>2. CASE ~(R \subseteq B)
    <3>1. Len(q) = MaxPriority
      BY <1>5, <2>2
    <3>2. QED
      BY <1>4, <1>5, <1>6, <3>1
  <2>3. QED
    BY <2>1, <2>2
<1>8. QED
  BY <1>4, <1>7 DEF A, B, p, q, E, R

LEMMA PrioritiesAgree ==
  ASSUME FiguresInv, NEW m
  PROVE  ListsMatch(m)
<1> SUFFICES ASSUME NEW order \in Orders, NEW other \in Orders
             PROVE  LET requested == RequestedPriorities(m, order)
                        task == TaskPriorities(m, other)
                    IN  /\ \A s \in {requested, task} :
                             Cardinality(Range(s)) = Len(s) /\ Len(s) <= MaxPriority /\ Range(s) \subseteq UNION FocusAreas(m)
                        /\ \A i, j \in DOMAIN requested : i < j => Urgency(requested[i]) <= Urgency(requested[j])
                        /\ \A a \in Of(m) \ Range(requested) : Urgency(a) < 4 =>
                             Len(requested) = MaxPriority /\ \A b \in Range(requested) : Urgency(b) <= Urgency(a)
                        /\ Cardinality(Range(requested) \cap Urgent(m)) = Cardinality(Range(task) \cap Urgent(m))
                        /\ Cardinality(Range(requested) \cap Endangered(m)) <= Cardinality(Range(task) \cap Endangered(m))
  BY DEF ListsMatch, Urgent, Endangered
<1> DEFINE p == RequestedPriorities(m, order)
           q == TaskPriorities(m, other)
           S == Urgent(m) \cup Opportunities(m) \cup Endangered(m)
<1>1. Abridges(p, S) /\ Abridges(q, Urgent(m) \cup Endangered(m))
  BY ListsAbridge
<1>2. \A a \in Of(m) : Urgency(a) < 4 => a \in S
  BY GroupsApart
<1>3. S \subseteq UNION FocusAreas(m) /\ Urgent(m) \cup Endangered(m) \subseteq UNION FocusAreas(m)
  BY FocusCovers
<1>4. /\ Cardinality(Range(p) \cap Urgent(m)) = Cardinality(Range(q) \cap Urgent(m))
      /\ Cardinality(Range(p) \cap Endangered(m)) <= Cardinality(Range(q) \cap Endangered(m))
  BY NumbersOnLists
<1> HIDE DEF p, q, S
<1>5. \A s \in {p, q} :
        Cardinality(Range(s)) = Len(s) /\ Len(s) <= MaxPriority /\ Range(s) \subseteq UNION FocusAreas(m)
  BY <1>1, <1>3 DEF Abridges
<1>6. \A i, j \in DOMAIN p : i < j => Urgency(p[i]) <= Urgency(p[j])
  BY <1>1 DEF Abridges
<1>7. \A a \in Of(m) \ Range(p) : Urgency(a) < 4 =>
        Len(p) = MaxPriority /\ \A b \in Range(p) : Urgency(b) <= Urgency(a)
  BY <1>1, <1>2 DEF Abridges
<1>8. QED
  BY <1>4, <1>5, <1>6, <1>7 DEF p, q

LEMMA WeeksAgree ==
  ASSUME FiguresInv, NEW m
  PROVE  LET week == RequestedWeek(m)
         IN  /\ Cardinality(week.wins) = Cardinality(TaskWeek(m).wins) + week.trained
             /\ \A s \in Celebrations(m) : s \in week.wins \/ s.at > WeekEnd
<1> DEFINE sold == InWeek("sold", m)
           trained == {s \in InWeek("training", m) : s.what = "QUIZ_COMPLETED"}
           week == RequestedWeek(m)
<1>1. week.wins = sold \cup trained /\ week.trained = Cardinality(trained) /\ TaskWeek(m).wins = sold
  BY DEF RequestedWeek, TaskWeek
<1>2. sold \in SUBSET signals /\ trained \in SUBSET signals /\ sold \cap trained = {}
  BY DEF InWeek
<1>3. \A s \in Celebrations(m) : s \in sold \/ s.at > WeekEnd
  <2> SUFFICES ASSUME NEW s \in Celebrations(m), ~(s.at > WeekEnd) PROVE s \in sold
    OBVIOUS
  <2>1. s \in signals /\ s.type = "sold" /\ s.at >= DaysAgo(3) /\ s.agent \in Of(m)
    BY DEF Celebrations, Since
  <2>2. s.at \in Int /\ WeekStart \in Int /\ WeekEnd \in Int /\ DaysAgo(3) \in Int /\ WeekStart <= DaysAgo(3)
    BY <2>1, FiniteFigures, TimesInOrder
  <2>3. s.at \in WeekStart..WeekEnd
    BY <2>1, <2>2
  <2>4. QED
    BY <2>1, <2>3 DEF InWeek
<1> HIDE DEF sold, trained, week
<1>4. /\ IsFiniteSet(sold) /\ IsFiniteSet(trained)
      /\ Cardinality(sold) \in Nat /\ Cardinality(trained) \in Nat
  BY <1>2, FiniteFigures
<1>5. Cardinality(sold \cup trained) = Cardinality(sold) + Cardinality(trained) - Cardinality(sold \cap trained)
  BY <1>4, FS_Union
<1>6. Cardinality(sold \cap trained) = 0
  BY <1>2, FS_EmptySet
<1>7. QED
  BY <1>1, <1>3, <1>4, <1>5, <1>6 DEF week

\* The week's moves to at risk of more than seven days ago.
Earlier == {s \in signals : s.type = "lifecycle" /\ s.next = "at_risk" /\ s.at >= WeekStart /\ s.at < DaysAgo(7)}

\* The managers' newly at-risk agents of the week, added up.
LEMMA SummedAtRisk ==
  ASSUME FiguresInv
  PROVE  Summed([m \in Managers |-> Movement(m).at_risk], Managers) <= AtRiskChange + Cardinality(Earlier)
<1> DEFINE all == {s \in Since("lifecycle", 7) : s.next = "at_risk"}
           X == {s \in signals : s.type = "lifecycle" /\ s.next = "at_risk"
                                 /\ s.at \in WeekStart..WeekEnd /\ s.agent \in Kept}
           key == [s \in X |-> agents[s.agent].adm]
           f == [m \in Managers |-> Movement(m).at_risk]
<1>1. all \in SUBSET signals /\ X \in SUBSET signals /\ Earlier \in SUBSET signals
  BY DEF Since, Earlier
<1>2. X \in SUBSET (all \cup Earlier)
  <2> SUFFICES ASSUME NEW s \in X, s \notin Earlier PROVE s \in all
    OBVIOUS
  <2>1. s \in signals /\ s.type = "lifecycle" /\ s.next = "at_risk" /\ s.at \in WeekStart..WeekEnd
    OBVIOUS
  <2>2. s.at \in Int /\ WeekStart \in Int /\ WeekEnd \in Int /\ DaysAgo(7) \in Int
    BY <2>1, FiniteFigures, TimesInOrder
  <2>3. s.at >= WeekStart /\ ~(s.at < DaysAgo(7))
    BY <2>1, <2>2 DEF Earlier
  <2>4. s.at >= DaysAgo(7)
    BY <2>2, <2>3
  <2>5. QED
    BY <2>1, <2>4 DEF Since
<1>3. IsFiniteSet(all) /\ IsFiniteSet(X) /\ IsFiniteSet(Earlier)
  <2> HIDE DEF all, X
  <2>1. QED
    BY <1>1, FiniteFigures
<1>4. IsFiniteSet(Managers) /\ DOMAIN f = Managers
  BY FiguresAssumption
<1>5. \A m \in Managers : f[m] = Cardinality(Keyed(X, key, {m}))
  <2> SUFFICES ASSUME NEW m \in Managers PROVE f[m] = Cardinality(Keyed(X, key, {m}))
    OBVIOUS
  <2>1. f[m] = Cardinality({s \in InWeek("lifecycle", m) : s.next = "at_risk"})
    BY DEF Movement
  <2>2. {s \in InWeek("lifecycle", m) : s.next = "at_risk"} = Keyed(X, key, {m})
    BY DEF Of, Keyed, InWeek
  <2>3. QED
    BY <2>1, <2>2
<1>6. Summed(f, Managers) = Sum(f, Managers)
  <2>1. Managers \cap DOMAIN f = Managers
    BY <1>4
  <2> HIDE DEF f
  <2>2. QED
    BY <2>1, SummedIs
<1> HIDE DEF key, f, all, X
<1>7. Sum(f, Managers) = Cardinality(Keyed(X, key, Managers))
  BY <1>3, <1>4, <1>5, CountByKey
<1>8. Keyed(X, key, Managers) \in SUBSET (all \cup Earlier)
  BY <1>2 DEF Keyed
<1>9. Cardinality(Keyed(X, key, Managers)) <= Cardinality(all) + Cardinality(Earlier)
  BY <1>3, <1>8, WithinTwo
<1>10. QED
  BY <1>6, <1>7, <1>9 DEF all, f, AtRiskChange

\* The task's briefing and week say what the requested ones say, as far as they go, for any agents,
\* managers, limits of the list and orders of the two queries (_select_priorities,
\* _compute_focus_areas, generate_morning_briefing, generate_weekly_summary and the task's
\* versions).
THEOREM BriefingsAgree == Spec => []TaskIsAbridged
<1>1. FiguresInv => TaskIsAbridged
  BY PrioritiesAgree, WeeksAgree, SummedAtRisk DEF TaskIsAbridged, Earlier
<1>2. QED
  BY <1>1, FiguresAlways, PTL
==============================================================================
