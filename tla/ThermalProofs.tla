--------------------------- MODULE ThermalProofs ---------------------------
(***************************************************************************)
(* Proofs about Thermal, for every period, hysteresis and temperature      *)
(* limit, every set of targets and every delay of manage_heater.           *)
(***************************************************************************)
EXTENDS Thermal, TLAPS

(* The state machine follows the target, and is not asleep while it has    *)
(* one; a target that was seen reached is watched.                         *)
Following ==
  /\ tr = "inactive" => running_temp = 0
  /\ ~killed /\ reached => tr = "stable" /\ running_temp = target /\ target # 0

(* How long the hotend has been too low is what the timer has run, and     *)
(* once it has run out no more than manage_heater is late.                 *)
LowBounded ==
  /\ ~killed /\ temp >= target - Hysteresis => low = 0
  /\ ~killed /\ reached =>
       IF tr_timer > 0 THEN low + tr_timer <= Period ELSE low <= Period + late

(* The heating check is on until the hotend is measured near its target. *)
Watching == ~killed /\ ~near => watch_on /\ target > 0

(* How long the current interval of the heating check has lasted at most. *)
Elapsed == IF watch_left > 0 THEN LongestWatch - watch_left ELSE LongestWatch + late

(* The temperature has risen since this interval began, or else since the  *)
(* one before it did and is still no higher than where this one began.     *)
StalledBounded ==
  ~killed /\ ~near =>
    \/ stalled <= Elapsed
    \/ /\ temp + Increase <= watch_target
       /\ stalled <= LongestWatch + MaxGap + Elapsed

Observed == Following /\ LowBounded /\ Watching /\ StalledBounded

IInv == TypeOK /\ Observed
-----------------------------------------------------------------------------
(* The constants are numbers, and the limit of the targets a temperature. *)
LEMMA Constants ==
  /\ Hottest \in Nat /\ MaxTemp \in Nat /\ Overshoot \in Nat /\ Hysteresis \in Nat
  /\ WatchHysteresis \in Nat /\ Window \in Nat /\ Slope \in Nat /\ MaxCommands \in Nat
  /\ Period \in Nat /\ Increase \in Nat /\ Residency \in Nat /\ SlopeTime \in Nat
  /\ LongestWatch \in Nat /\ MaxGap \in Nat
BY ThermalAssumption DEF ThermalAssumption

(* The periods, and what the heating check asks for, are not zero. *)
LEMMA Positive ==
  /\ Period > 0 /\ Increase > 0 /\ Residency > 0 /\ SlopeTime > 0
  /\ LongestWatch > 0 /\ MaxGap > 0
BY ThermalAssumption DEF ThermalAssumption

(* The highest target lies within the sensor's range. *)
LEMMA HighestType == Ambient \in 0 .. Hottest /\ Highest \in Nat /\ Highest <= Hottest
<1>1. Overshoot <= MaxTemp /\ MaxTemp <= Hottest /\ Ambient \in 0 .. Hottest
  BY ThermalAssumption DEF ThermalAssumption, Temps
<1> QED
  BY <1>1, Constants DEF Highest

(* What a command asks for is limited. *)
LEMMA LimitType == \A c \in Targets \cup {0} : Limit(c) \in 0 .. Highest
BY HighestType, ThermalAssumption DEF ThermalAssumption, Limit

(* The heating check restarted with a reading, for a target: on if that is *)
(* far above.                                                              *)
LEMMA RestartType ==
  ASSUME HeaterTypes, NEW r \in Temps, NEW c \in 0 .. Highest, RestartWatch(r, c)
  PROVE  /\ watch_on' \in BOOLEAN /\ watch_target' \in Nat
         /\ watch_left' \in 0 .. LongestWatch
         /\ FarBelow(r, c) => /\ watch_on' /\ watch_left' > 0
                              /\ watch_target' = r + Increase /\ c > 0
<1>1. WatchPeriod[r] \in 1 .. LongestWatch
  BY ThermalAssumption DEF ThermalAssumption
<1>2. watch_on' = FarBelow(r, c) /\ FarBelow(r, c) \in BOOLEAN
  BY Zenon DEF RestartWatch, FarBelow
<1>3. watch_on' \in BOOLEAN /\ (FarBelow(r, c) => watch_on')
  BY <1>2, Zenon
<1>4. FarBelow(r, c) => watch_target' = r + Increase /\ watch_left' = WatchPeriod[r]
  BY DEF RestartWatch
<1>5. ~FarBelow(r, c) => watch_target' = watch_target /\ watch_left' = 0
  BY DEF RestartWatch
<1>6. FarBelow(r, c) => c > 0
  BY DEF FarBelow
<1>7. watch_target' \in Nat /\ watch_left' \in 0 .. LongestWatch
  <2>1. r \in Nat /\ Increase \in Nat /\ LongestWatch \in Nat /\ watch_target \in Nat
    BY Constants DEF HeaterTypes, Temps
  <2>2. CASE FarBelow(r, c)
    BY <1>1, <1>4, <2>1, <2>2
  <2>3. CASE ~FarBelow(r, c)
    BY <1>5, <2>1, <2>3
  <2> QED
    BY <2>2, <2>3
<1>8. FarBelow(r, c) => watch_left' > 0
  BY <1>1, <1>4, Constants
<1> QED
  BY <1>3, <1>4, <1>6, <1>7, <1>8, Zenon

(* A new target: what was observed of the old one is forgotten. *)
LEMMA SetTargetType ==
  ASSUME HeaterTypes, NEW r \in Temps, NEW c \in Targets \cup {0}, SetTargetHotend(r, c)
  PROVE  /\ target' = Limit(c) /\ target' \in 0 .. Highest
         /\ watch_on' \in BOOLEAN /\ watch_target' \in Nat
         /\ watch_left' \in 0 .. LongestWatch
         /\ near' \in BOOLEAN /\ reached' \in BOOLEAN /\ low' \in Nat /\ stalled' = 0
         /\ ~near' => watch_on' /\ target' > 0
         /\ reached' => reached /\ target' = target
         /\ low' = IF target' = target THEN low ELSE 0
<1>1. Limit(c) \in 0 .. Highest
  BY LimitType
<1>2. target' = Limit(c) /\ RestartWatch(r, Limit(c)) /\ stalled' = 0
  BY DEF SetTargetHotend
<1>3. near' = ~FarBelow(r, Limit(c)) /\ reached' = (reached /\ Limit(c) = target)
  BY DEF SetTargetHotend
<1>4. near' \in BOOLEAN /\ (~near' => FarBelow(r, Limit(c)))
  BY <1>3, Zenon
<1>5. reached' \in BOOLEAN /\ (reached' => reached /\ target' = target)
  BY <1>2, <1>3, Zenon
<1>6. low' = (IF target' = target THEN low ELSE 0) /\ low' \in Nat
  BY <1>2 DEF SetTargetHotend, HeaterTypes
<1>7. /\ watch_on' \in BOOLEAN /\ watch_target' \in Nat
      /\ watch_left' \in 0 .. LongestWatch
      /\ FarBelow(r, Limit(c)) => watch_on' /\ Limit(c) > 0
  BY <1>1, <1>2, RestartType
<1> QED
  BY <1>1, <1>2, <1>4, <1>5, <1>6, <1>7
-----------------------------------------------------------------------------
(* Time passes: the temperature stays one, the timers in their ranges. *)
LEMMA TickTypes ==
  ASSUME HeaterTypes, WaitTypes, Tick
  PROVE  HeaterTypes' /\ WaitTypes'
<1> USE Constants
<1>1. /\ temp \in 0 .. Hottest /\ target \in 0 .. Highest /\ tr_timer \in 0 .. Period
      /\ watch_left \in 0 .. LongestWatch /\ late \in 0 .. MaxGap /\ low \in Nat
      /\ stalled \in Nat /\ residency \in -1 .. 2 * Residency
      /\ cool_check \in 0 .. SlopeTime
  BY DEF HeaterTypes, WaitTypes, Temps
<1>2. temp' \in 0 .. Hottest
  <2>1. CASE works
    <3>1. temp' = CASE temp < target -> temp + 1
                    [] temp > target /\ temp > Ambient -> temp - 1
                    [] OTHER -> temp
      BY <2>1 DEF Tick, Physics
    <3> QED
      BY <1>1, <3>1, HighestType
  <2>2. CASE ~works
    BY <2>2 DEF Tick, Physics, Temps
  <2> QED
    BY <2>1, <2>2
<1>3. late' \in 0 .. MaxGap
  BY <1>1 DEF Tick
<1>4. /\ tr_timer' \in 0 .. Period /\ watch_left' \in 0 .. LongestWatch
      /\ residency' \in -1 .. 2 * Residency /\ cool_check' \in 0 .. SlopeTime
  BY <1>1 DEF Tick, Down
<1>5. low' \in Nat /\ stalled' \in Nat
  BY <1>1 DEF Tick, Up
<1>6. /\ UNCHANGED <<celsius, target, running_temp, watch_target, commands, target_temp>>
      /\ UNCHANGED old_temp
  BY DEF Tick
<1>7. HeaterTypes'
  BY <1>2, <1>3, <1>4, <1>5, <1>6 DEF HeaterTypes, Temps
<1>8. WaitTypes'
  BY <1>4, <1>6 DEF WaitTypes
<1> QED
  BY <1>7, <1>8

(* The flags: equations between truth values. *)
LEMMA TickFlags ==
  ASSUME FlagTypes, Tick
  PROVE  FlagTypes'
<1>1. UNCHANGED <<works, watch_on, killed, waiting, wait_for_heatup, first_loop,
                  no_wait_for_cooling, wants_to_cool, reached, near>>
  BY DEF Tick
<1> QED
  BY <1>1, Zenon DEF FlagTypes

(* manage_heater leaves every number in its range. *)
LEMMA ManageTypes ==
  ASSUME HeaterTypes, WaitTypes, ManageHeater
  PROVE  HeaterTypes' /\ WaitTypes'
<1> USE Constants
<1>1. /\ UNCHANGED <<temp, commands, target_temp, residency, cool_check, old_temp>>
      /\ late' = 0 /\ celsius' = temp /\ temp \in Temps
  BY DEF ManageHeater, UpdateTemperatures, waitVars, HeaterTypes
<1>2. late' \in 0 .. MaxGap
  BY <1>1
<1>3. CASE TempError
  <2>1. /\ target' = 0 /\ watch_left' = 0
        /\ UNCHANGED <<running_temp, tr_timer, watch_target, low, stalled>>
    BY <1>3 DEF TempError, trVars, seenVars
  <2>2. target' \in 0 .. Highest /\ watch_left' \in 0 .. LongestWatch
    BY <2>1, HighestType
  <2> QED
    BY <1>1, <1>2, <2>1, <2>2 DEF HeaterTypes, WaitTypes
<1>4. CASE NoTempError
  <2>1. running_temp' = target /\ (tr_timer' = Period \/ tr_timer' = tr_timer)
    BY <1>4 DEF NoTempError, RunTr
  <2>2. running_temp' \in 0 .. Highest /\ tr_timer' \in 0 .. Period
    BY <2>1 DEF HeaterTypes
  <2>3. /\ target' \in 0 .. Highest /\ watch_target' \in Nat
        /\ watch_left' \in 0 .. LongestWatch /\ low' \in Nat /\ stalled' \in Nat
    <3>1. CASE WatchElapsed /\ RestartWatch(temp, target) /\ UNCHANGED <<target, low, stalled>>
      <4>1. target \in 0 .. Highest /\ low \in Nat /\ stalled \in Nat
        BY DEF HeaterTypes
      <4>2. watch_target' \in Nat /\ watch_left' \in 0 .. LongestWatch
        BY <1>1, <3>1, <4>1, RestartType
      <4> QED
        BY <3>1, <4>1, <4>2
    <3>2. CASE UNCHANGED <<watchVars, target, low, stalled>>
      BY <3>2 DEF HeaterTypes, watchVars
    <3>3. CASE SetTargetHotend(temp, 0)
      <4>1. 0 \in Targets \cup {0}
        OBVIOUS
      <4> QED
        BY <1>1, <3>3, <4>1, SetTargetType
    <3> QED
      BY <1>4, <3>1, <3>2, <3>3 DEF NoTempError
  <2> QED
    BY <1>1, <1>2, <2>2, <2>3 DEF HeaterTypes, WaitTypes
<1> QED
  BY <1>3, <1>4 DEF ManageHeater

(* ... and every flag a truth value. *)
LEMMA ManageFlags ==
  ASSUME FlagTypes, HeaterTypes, ManageHeater
  PROVE  FlagTypes'
<1>1. UNCHANGED <<works, waiting, wait_for_heatup, first_loop, no_wait_for_cooling,
                  wants_to_cool>>
  BY DEF ManageHeater, waitVars, NoTempError, TempError
<1>2. CASE TempError
  BY <1>1, <1>2 DEF TempError, seenVars, FlagTypes
<1>3. CASE NoTempError
  <2>1. UNCHANGED killed
    BY <1>3 DEF NoTempError
  <2>2. watch_on' \in BOOLEAN /\ near' \in BOOLEAN /\ reached' \in BOOLEAN
    <3>1. CASE /\ IF WatchElapsed THEN RestartWatch(temp, target) ELSE UNCHANGED watchVars
               /\ reached' = (reached \/ (target > 0 /\ temp >= target))
               /\ near' = (near \/ ~FarBelow(temp, target))
      <4>1. target \in 0 .. Highest /\ temp \in Temps
        BY DEF HeaterTypes
      <4>2. CASE RestartWatch(temp, target)
        <5>1. watch_on' \in BOOLEAN
          BY <4>1, <4>2, RestartType
        <5> QED
          BY <3>1, <5>1, Zenon DEF FlagTypes
      <4>3. CASE UNCHANGED watchVars
        <5>1. UNCHANGED watch_on
          BY <4>3 DEF watchVars
        <5> QED
          BY <3>1, <5>1, Zenon DEF FlagTypes
      <4> QED
        BY <3>1, <4>2, <4>3, Zenon
    <3>2. CASE SetTargetHotend(temp, 0)
      <4>1. 0 \in Targets \cup {0} /\ temp \in Temps
        BY DEF HeaterTypes
      <4> QED
        BY <3>2, <4>1, SetTargetType
    <3> QED
      BY <1>3, <3>1, <3>2, Zenon DEF NoTempError
  <2> QED
    BY <1>1, <2>1, <2>2 DEF FlagTypes
<1> QED
  BY <1>2, <1>3 DEF ManageHeater

(* A pass of M109's loop: its counters stay in their ranges. *)
LEMMA WaitPassTypes ==
  ASSUME HeaterTypes, WaitTypes, WaitPass
  PROVE  HeaterTypes' /\ WaitTypes'
<1> USE Constants, Positive
<1>1. UNCHANGED <<temp, celsius, target, running_temp, tr_timer, watch_target, watch_left,
                  late, commands, low, stalled>>
  BY DEF WaitPass, trVars, watchVars, seenVars
<1>2. HeaterTypes'
  BY <1>1 DEF HeaterTypes
<1>3. WaitTypes'
  <2>1. CASE ~GoesOn
    <3>1. target_temp' = 0 /\ residency' = -1 /\ cool_check' = 0 /\ old_temp' = Unknown
      BY <2>1 DEF WaitPass, NoWait
    <3> QED
      BY <3>1, HighestType DEF WaitTypes, Unknown
  <2>2. CASE GoesOn
    <3>1. /\ residency' = NewResidency /\ target_temp' = target
          /\ cool_check' = SlopeTime \/ cool_check' = cool_check
          /\ old_temp' = celsius \/ old_temp' = old_temp
      BY <2>2 DEF WaitPass
    <3>2. NewResidency \in -1 .. 2 * Residency
      <4>1. Residency \div 3 \in 0 .. Residency
        OBVIOUS
      <4>2. residency \in -1 .. 2 * Residency
        BY DEF WaitTypes
      <4>3. NewResidency \in {-1, Residency, Residency + Residency \div 3, residency}
        BY DEF NewResidency
      <4> QED
        BY <4>1, <4>2, <4>3
    <3> QED
      BY <3>1, <3>2 DEF WaitTypes, HeaterTypes, Temps
  <2> QED
    BY <2>1, <2>2
<1> QED
  BY <1>2, <1>3

(* ... and its flags truth values. *)
LEMMA WaitPassFlags ==
  ASSUME HeaterTypes, FlagTypes, WaitPass
  PROVE  FlagTypes'
<1>1. UNCHANGED <<works, watch_on, killed, near, reached>>
  BY DEF WaitPass, watchVars, seenVars
<1>2. CASE ~GoesOn
  BY <1>1, <1>2 DEF WaitPass, NoWait, FlagTypes
<1>3. CASE GoesOn
  <2>1. /\ first_loop' = FALSE
        /\ wants_to_cool' = IF Changed THEN celsius > target ELSE wants_to_cool
        /\ UNCHANGED <<waiting, wait_for_heatup, no_wait_for_cooling>>
    BY <1>3 DEF WaitPass
  <2>2. (celsius > target) \in BOOLEAN
    <3>1. celsius \in Int /\ target \in Int
      BY HighestType, Constants DEF HeaterTypes, Temps
    <3> QED
      BY <3>1, SMT
  <2>3. wants_to_cool' \in BOOLEAN
    BY <2>1, <2>2, Zenon DEF FlagTypes
  <2> QED
    BY <1>1, <2>1, <2>3 DEF FlagTypes
<1> QED
  BY <1>2, <1>3

(* A command sets a target; M109 begins to wait as well, or not at all. *)
LEMMA CommandTypes ==
  ASSUME HeaterTypes, WaitTypes, FlagTypes, SetTarget \/ StartWait
  PROVE  HeaterTypes' /\ WaitTypes' /\ FlagTypes'
<1> USE Constants
<1>1. /\ UNCHANGED <<temp, celsius, running_temp, tr_timer, late, works, killed>>
      /\ commands < MaxCommands /\ commands' = commands + 1
  BY DEF SetTarget, StartWait, trVars
<1>2. PICK c \in Targets : /\ SetTargetHotend(celsius, c)
                           /\ UNCHANGED waitVars \/ \E s \in BOOLEAN : Begin(Limit(c), s)
  BY DEF SetTarget, StartWait
<1>3. c \in Targets \cup {0} /\ celsius \in Temps
  BY DEF HeaterTypes
<1>4. /\ target' \in 0 .. Highest /\ watch_on' \in BOOLEAN /\ watch_target' \in Nat
      /\ watch_left' \in 0 .. LongestWatch /\ near' \in BOOLEAN /\ reached' \in BOOLEAN
      /\ low' \in Nat /\ stalled' \in Nat
  BY <1>2, <1>3, SetTargetType
<1>5. commands' \in 0 .. MaxCommands
  BY <1>1 DEF HeaterTypes
<1>6. HeaterTypes'
  BY <1>1, <1>4, <1>5 DEF HeaterTypes
<1>7. CASE UNCHANGED waitVars
  BY <1>1, <1>4, <1>6, <1>7 DEF waitVars, WaitTypes, FlagTypes
<1>8. ASSUME NEW s \in BOOLEAN, Begin(Limit(c), s)
      PROVE  WaitTypes' /\ FlagTypes'
  <2>1. CASE s /\ celsius > Limit(c)
    <3>1. NoWait
      BY <1>8, <2>1 DEF Begin
    <3>2. target_temp' = 0 /\ residency' = -1 /\ cool_check' = 0 /\ old_temp' = Unknown
      BY <3>1 DEF NoWait
    <3>3. WaitTypes'
      BY <3>2, HighestType, Positive DEF WaitTypes, Unknown
    <3> QED
      BY <1>1, <1>4, <3>1, <3>3 DEF NoWait, FlagTypes
  <2>2. CASE ~(s /\ celsius > Limit(c))
    <3>1. /\ target_temp' = Limit(c) /\ residency' = -1 /\ cool_check' = 0
          /\ old_temp' = Unknown
      BY <1>8, <2>2 DEF Begin
    <3>2. WaitTypes'
      BY <1>3, <3>1, LimitType, Positive DEF WaitTypes, Unknown
    <3>3. /\ waiting' = TRUE /\ wait_for_heatup' = TRUE /\ first_loop' = TRUE
          /\ no_wait_for_cooling' = s /\ wants_to_cool' = (celsius > Limit(c))
      BY <1>8, <2>2 DEF Begin
    <3>4. wants_to_cool' \in BOOLEAN
      <4>1. celsius \in Int /\ Limit(c) \in Int
        BY <1>3, LimitType, HighestType DEF HeaterTypes, Temps
      <4> QED
        BY <3>3, <4>1, SMT
    <3> QED
      BY <1>1, <1>4, <3>2, <3>3, <3>4 DEF FlagTypes
  <2> QED
    BY <2>1, <2>2
<1> QED
  BY <1>2, <1>6, <1>7, <1>8

(* The state machine has three states. *)
LEMMA NewStateType ==
  ASSUME tr \in {"inactive", "first heating", "stable"}
  PROVE  NewState \in {"inactive", "first heating", "stable"}
BY Zenon DEF NewState, Restarted

(* No step breaks a type. *)
LEMMA TypeStep == TypeOK /\ [Next]_vars => TypeOK'
<1> SUFFICES ASSUME TypeOK, [Next]_vars
             PROVE  TypeOK'
  OBVIOUS
<1>1. /\ tr \in {"inactive", "first heating", "stable"}
      /\ FlagTypes /\ HeaterTypes /\ WaitTypes
  BY DEF TypeOK
<1>2. CASE Tick
  <2>1. UNCHANGED tr
    BY <1>2 DEF Tick
  <2> QED
    BY <1>1, <1>2, <2>1, TickTypes, TickFlags DEF TypeOK
<1>3. CASE SetTarget \/ StartWait
  <2>1. UNCHANGED tr
    BY <1>3 DEF SetTarget, StartWait, trVars
  <2> QED
    BY <1>1, <1>3, <2>1, CommandTypes DEF TypeOK
<1>4. CASE ManageHeater
  <2>1. tr' \in {"inactive", "first heating", "stable"}
    <3>1. tr' = tr \/ tr' = NewState
      BY <1>4 DEF ManageHeater, TempError, NoTempError, RunTr, trVars
    <3> QED
      BY <1>1, <3>1, NewStateType
  <2> QED
    BY <1>1, <1>4, <2>1, ManageTypes, ManageFlags DEF TypeOK
<1>5. CASE Interrupt
  BY <1>1, <1>5 DEF Interrupt, TypeOK, trVars, watchVars, seenVars, FlagTypes, HeaterTypes, WaitTypes
<1>6. CASE WaitPass
  <2>1. UNCHANGED tr
    BY <1>6 DEF WaitPass, trVars
  <2> QED
    BY <1>1, <1>6, <2>1, WaitPassTypes, WaitPassFlags DEF TypeOK
<1>7. CASE UNCHANGED vars
  BY <1>1, <1>7 DEF vars, TypeOK, trVars, watchVars, seenVars, waitVars, FlagTypes, HeaterTypes, WaitTypes
<1> QED
  BY <1>2, <1>3, <1>4, <1>5, <1>6, <1>7 DEF Next

(* The printer starts within the types. *)
LEMMA TypeInit == Init => TypeOK
<1> SUFFICES ASSUME Init
             PROVE  TypeOK
  OBVIOUS
<1>1. FlagTypes
  BY DEF Init, FlagTypes
<1>2. HeaterTypes
  BY Constants, Positive, HighestType DEF Init, HeaterTypes, Temps
<1>3. WaitTypes
  BY Constants, Positive, HighestType DEF Init, WaitTypes, Unknown
<1>4. tr = "inactive"
  BY DEF Init
<1> QED
  BY <1>1, <1>2, <1>3, <1>4 DEF TypeOK

(* Type correctness: no timer of the checks or of M109's wait runs below   *)
(* zero or past its period, and no target above what setTargetHotend       *)
(* allows reaches the heater.                                              *)
THEOREM TypeCorrect == Spec => []TypeOK
BY TypeInit, TypeStep, PTL DEF Spec
-----------------------------------------------------------------------------
(* Arithmetic of a step, for the provers: how a time that is counted up and *)
(* a timer that runs down relate before and after.                          *)
LEMMA CountedUp ==
  \A a, b, p, q, e, f, n \in Nat :
    /\ b = 0 \/ b <= a + 1
    /\ q = IF p > 0 THEN p - 1 ELSE p
    /\ p <= n /\ f = e + 1
    /\ IF p > 0 THEN a + p <= n ELSE a <= n + e
    => IF q > 0 THEN b + q <= n ELSE b <= n + f
OBVIOUS

(* What is left of an interval is not negative. *)
LEMMA NotNegative == \A a, b, c \in Nat : a <= b => b - a \in Nat /\ 0 <= b - a /\ 0 <= b + c
OBVIOUS

(* A count one higher, beside a bound one higher. *)
LEMMA CountedPast ==
  \A a, b, e, f, n \in Nat : b <= a + 1 /\ a <= n + e /\ e + 1 <= f => b <= n + f
OBVIOUS

(* A bound may be raised. *)
LEMMA NotLess == \A a, m, n \in Nat, e \in Int : a <= m + n /\ 0 <= e => a <= m + n + e
OBVIOUS

(* A lower temperature lies below what a higher one does. *)
LEMMA NoHigher == \A a, b, i, w \in Nat : b <= a /\ a + i <= w => b + i <= w
OBVIOUS

(* Time passes: a timer and what it times move together. *)
LEMMA TickObserved ==
  ASSUME HeaterTypes, Observed, Tick
  PROVE  Observed'
<1> USE Constants
<1>1. /\ temp \in Nat /\ target \in Nat /\ tr_timer \in 0 .. Period /\ watch_target \in Nat
      /\ watch_left \in 0 .. LongestWatch /\ late \in 0 .. MaxGap /\ low \in Nat
      /\ stalled \in Nat
  BY HighestType DEF HeaterTypes, Temps
<1>2. UNCHANGED <<target, tr, running_temp, watch_on, watch_target, killed, reached, near>>
  BY DEF Tick
<1>3. temp' \in Nat
  BY <1>1, HighestType, TickTypes DEF Tick, Physics, Temps
<1>4. Following'
  BY <1>2 DEF Observed, Following
<1>5. LowBounded'
  <2>1. low' = 0 \/ (low' <= low + 1 /\ temp' < target - Hysteresis)
    BY <1>1 DEF Tick, Up
  <2>2. late' = late + 1 /\ tr_timer' = (IF tr_timer > 0 THEN tr_timer - 1 ELSE tr_timer)
    BY DEF Tick, Down
  <2>3. ~killed /\ reached =>
          IF tr_timer > 0 THEN low + tr_timer <= Period ELSE low <= Period + late
    BY DEF Observed, LowBounded
  <2>4. low' \in Nat
    BY <1>1 DEF Tick, Up
  <2>5. temp' >= target - Hysteresis => low' = 0
    BY <1>1, <1>3 DEF Tick
  <2>6. ~killed /\ reached =>
          IF tr_timer' > 0 THEN low' + tr_timer' <= Period ELSE low' <= Period + late'
    <3>1. SUFFICES ASSUME ~killed /\ reached
                   PROVE  IF tr_timer' > 0 THEN low' + tr_timer' <= Period
                          ELSE low' <= Period + late'
      OBVIOUS
    <3>2. IF tr_timer > 0 THEN low + tr_timer <= Period ELSE low <= Period + late
      BY <2>3, <3>1
    <3>3. tr_timer \in Nat /\ tr_timer <= Period /\ tr_timer' \in Nat /\ late' \in Nat
      BY <1>1, <2>2
    <3>4. low \in Nat /\ low' \in Nat /\ late \in Nat
      BY <1>1, <2>4
    <3>5. low' = 0 \/ low' <= low + 1
      BY <2>1
    <3>6. /\ low' = 0 \/ low' <= low + 1
          /\ tr_timer' = IF tr_timer > 0 THEN tr_timer - 1 ELSE tr_timer
          /\ tr_timer <= Period /\ late' = late + 1
          /\ IF tr_timer > 0 THEN low + tr_timer <= Period ELSE low <= Period + late
          => IF tr_timer' > 0 THEN low' + tr_timer' <= Period ELSE low' <= Period + late'
      BY <3>3, <3>4, CountedUp, Constants, Zenon
    <3> QED
      BY <2>2, <3>2, <3>3, <3>5, <3>6, Zenon
  <2> QED
    BY <1>2, <2>5, <2>6 DEF LowBounded
<1>8. Watching'
  BY <1>2 DEF Observed, Watching
<1>9. StalledBounded'
  <2>1. stalled' = 0 \/ (temp' <= temp /\ stalled' <= stalled + 1)
    BY <1>1 DEF Tick, Up
  <2>2. Elapsed' \in Nat /\ Elapsed \in Nat /\ Elapsed + 1 <= Elapsed'
    <3>1. late' = late + 1
          /\ watch_left' = (IF watch_left > 0 THEN watch_left - 1 ELSE watch_left)
      BY DEF Tick, Down
    <3> QED
      BY <1>1, <3>1 DEF Elapsed
  <2>3. stalled' \in Nat
    BY <1>1 DEF Tick, Up
  <2>4. SUFFICES ASSUME ~killed, ~near'
                 PROVE  \/ stalled' <= Elapsed'
                        \/ /\ temp' + Increase <= watch_target
                           /\ stalled' <= LongestWatch + MaxGap + Elapsed'
    BY <1>2 DEF StalledBounded
  <2>5. \/ stalled <= Elapsed
        \/ /\ temp + Increase <= watch_target
           /\ stalled <= LongestWatch + MaxGap + Elapsed
    BY <1>2, <2>4 DEF Observed, StalledBounded
  <2>6. CASE stalled' = 0
    <3>1. stalled' <= Elapsed'
      BY <2>2, <2>6
    <3> QED
      BY <3>1
  <2>7. CASE temp' <= temp /\ stalled' <= stalled + 1
    <3>1. CASE stalled <= Elapsed
      <4>1. stalled' <= Elapsed'
        BY <1>1, <2>2, <2>3, <2>7, <3>1
      <4> QED
        BY <4>1
    <3>2. CASE temp + Increase <= watch_target /\ stalled <= LongestWatch + MaxGap + Elapsed
      <4>1. temp' + Increase <= watch_target
        BY <1>1, <1>3, <2>7, <3>2, NoHigher
      <4>2. LongestWatch + MaxGap \in Nat
        OBVIOUS
      <4>3. stalled' <= LongestWatch + MaxGap + Elapsed'
        BY <1>1, <2>2, <2>3, <2>7, <3>2, <4>2, CountedPast
      <4> QED
        BY <4>1, <4>3
    <3> QED
      BY <2>5, <3>1, <3>2
  <2> QED
    BY <2>1, <2>6, <2>7
<1> QED
  BY <1>4, <1>5, <1>8, <1>9 DEF Observed

(* A command: what was observed of another target is forgotten, and the    *)
(* heating check begins again.                                             *)
LEMMA CommandObserved ==
  ASSUME HeaterTypes, Observed, SetTarget \/ StartWait
  PROVE  Observed'
<1> USE Constants
<1>1. UNCHANGED <<temp, tr, running_temp, tr_timer, late, killed>>
  BY DEF SetTarget, StartWait, trVars
<1>2. PICK c \in Targets : SetTargetHotend(celsius, c)
  BY DEF SetTarget, StartWait
<1>3. c \in Targets \cup {0} /\ celsius \in Temps
  BY DEF HeaterTypes
<1>4. /\ watch_left' \in 0 .. LongestWatch /\ stalled' = 0
      /\ ~near' => watch_on' /\ target' > 0
      /\ reached' => reached /\ target' = target
      /\ low' = IF target' = target THEN low ELSE 0
  BY <1>2, <1>3, SetTargetType
<1>5. Following'
  BY <1>1, <1>4 DEF Observed, Following
<1>6. LowBounded'
  BY <1>1, <1>4 DEF Observed, LowBounded
<1>7. Watching'
  BY <1>1, <1>4 DEF Watching
<1>8. StalledBounded'
  <2>1. watch_left' \in 0 .. LongestWatch /\ late' \in Nat
    BY <1>1, <1>4 DEF HeaterTypes
  <2>2. 0 <= Elapsed'
    <3>1. 0 <= LongestWatch - watch_left' /\ 0 <= LongestWatch + late'
      <4>1. watch_left' \in Nat /\ watch_left' <= LongestWatch /\ late' \in Nat
        BY <2>1
      <4> QED
        BY <4>1, NotNegative
    <3> QED
      BY <3>1 DEF Elapsed
  <2>3. stalled' <= Elapsed'
    BY <1>4, <2>2
  <2> QED
    BY <2>3 DEF StalledBounded
<1> QED
  BY <1>5, <1>6, <1>7, <1>8 DEF Observed

(* An error stops the printer; nothing more is claimed of it. *)
LEMMA ErrorObserved ==
  ASSUME Observed, TempError
  PROVE  Observed'
<1>1. killed' /\ UNCHANGED <<tr, running_temp>>
  BY DEF TempError, trVars
<1> QED
  BY <1>1 DEF Observed, Following, LowBounded, Watching, StalledBounded

(* A target that is, or was, seen reached is followed and watched. *)
LEMMA ReachedIsStable ==
  ASSUME tr \in {"inactive", "first heating", "stable"}, Following, ~killed, target > 0,
         target # 0, reached \/ temp >= target
  PROVE  NewState = "stable"
<1>1. CASE reached
  BY <1>1 DEF Following, NewState, Restarted
<1>2. CASE temp >= target
  <2>1. Restarted \in {"first heating", "stable"}
    <3>1. CASE running_temp = target
      BY <3>1 DEF Following, Restarted
    <3>2. CASE running_temp # target
      BY <3>2 DEF Restarted
    <3> QED
      BY <3>1, <3>2
  <2> QED
    BY <1>2, <2>1 DEF NewState
<1> QED
  BY <1>1, <1>2

(* manage_heater finds no error and the target stays: the runaway timer is *)
(* begun again or has not run out, and so has the heating check.           *)
LEMMA KeptObserved ==
  ASSUME TypeOK, Observed, ~killed, NoTempError, late' = 0, UNCHANGED temp,
         UNCHANGED <<target, low, stalled>>,
         IF WatchElapsed THEN RestartWatch(temp, target) ELSE UNCHANGED watchVars,
         reached' = (reached \/ (target > 0 /\ temp >= target)),
         near' = (near \/ ~FarBelow(temp, target))
  PROVE  Observed'
<1> USE Constants
<1>1. /\ tr \in {"inactive", "first heating", "stable"} /\ HeaterTypes /\ FlagTypes
      /\ Following /\ LowBounded /\ Watching /\ StalledBounded
  BY DEF TypeOK, Observed
<1>2. /\ temp \in Nat /\ target \in Nat /\ tr_timer \in Nat /\ late \in Nat /\ low \in Nat
      /\ watch_left \in Nat /\ stalled \in Nat /\ late <= MaxGap /\ watch_target \in Nat
      /\ watch_left <= LongestWatch
  <2>1. /\ temp \in 0 .. Hottest /\ target \in 0 .. Highest /\ tr_timer \in 0 .. Period
        /\ late \in 0 .. MaxGap /\ watch_left \in 0 .. LongestWatch
        /\ low \in Nat /\ stalled \in Nat /\ watch_target \in Nat
    BY <1>1 DEF HeaterTypes, Temps
  <2> QED
    BY <2>1, HighestType
<1>3. running_temp' = target /\ tr' = NewState /\ UNCHANGED killed
  BY DEF NoTempError, RunTr
<1>4. ~Runaway /\ ~HeatingFailed
  BY DEF NoTempError
<1>5. reached' => target # 0 /\ (reached \/ temp >= target)
  <2>1. target > 0 => target # 0
    BY <1>2
  <2> QED
    BY <1>1, <2>1, Zenon DEF Following
<1>positive. target # 0 <=> target > 0
  BY <1>2
<1>stable. reached' => NewState = "stable"
  BY <1>1, <1>5, <1>positive, ReachedIsStable, Zenon
<1>6. Following'
  <2>1. NewState = "inactive" => target = 0
    <3>1. NewState = "inactive" => Restarted = "inactive"
      BY DEF NewState
    <3>2. Restarted = "inactive" => (running_temp = target /\ tr = "inactive") \/ ~(target > 0)
      BY DEF Restarted
    <3> QED
      BY <1>1, <1>positive, <3>1, <3>2, Zenon DEF Following
  <2> QED
    BY <1>3, <1>5, <1>stable, <2>1 DEF Following
<1>7. LowBounded'
  <2>1. temp >= target - Hysteresis => low = 0
    BY <1>1 DEF LowBounded
  <2>2. ASSUME reached'
        PROVE  IF tr_timer' > 0 THEN low + tr_timer' <= Period ELSE low <= Period + late'
    <3>1. NewState = "stable"
      BY <1>stable, <2>2
    <3>2. CASE CloseTo
      <4>1. tr_timer' = Period /\ low = 0
        BY <2>1, <3>1, <3>2 DEF NoTempError, RunTr, CloseTo
      <4> QED
        BY <4>1, Positive
    <3>3. CASE ~CloseTo
      <4>1. tr_timer' = tr_timer /\ tr_timer # 0
        BY <1>4, <3>1, <3>3 DEF NoTempError, RunTr, Runaway
      <4>2. temp < target
        BY <1>2, <3>3 DEF CloseTo
      <4>3. reached
        BY <1>2, <1>5, <2>2, <4>2
      <4>4. tr_timer > 0
        BY <1>2, <4>1
      <4>5. low + tr_timer <= Period
        BY <1>1, <4>3, <4>4 DEF LowBounded
      <4> QED
        BY <4>1, <4>4, <4>5
    <3> QED
      BY <3>2, <3>3
  <2> QED
    BY <1>3, <2>1, <2>2 DEF LowBounded
<1>8. CASE near'
  BY <1>6, <1>7, <1>8 DEF Observed, Watching, StalledBounded
<1>9. CASE ~near'
  <2>near. ~near
    BY <1>9, Zenon
  <2>1. watch_on /\ target > 0
    BY <1>1, <2>near DEF Watching
  <2>2. FarBelow(temp, target)
    BY <1>9, Zenon
  <2>3. target \in 0 .. Highest /\ temp \in Temps
    BY <1>1 DEF HeaterTypes
  <2>4. CASE WatchElapsed
    <3>1. /\ watch_on' /\ watch_left' > 0 /\ watch_left' \in 0 .. LongestWatch
          /\ watch_target' = temp + Increase
      BY <1>1, <2>2, <2>3, <2>4, RestartType
    <3>2. Watching'
      BY <2>1, <3>1 DEF Watching
    <3>3. watch_left = 0 /\ ~(temp < watch_target)
      BY <1>4, <2>4 DEF HeatingFailed, WatchElapsed
    <3>4. ~(temp + Increase <= watch_target)
      BY <1>2, <3>3, Positive
    <3>5. stalled <= Elapsed
      BY <1>1, <2>near, <3>4 DEF StalledBounded
    <3>6. stalled <= LongestWatch + MaxGap
      <4>1. Elapsed = LongestWatch + late
        BY <3>3 DEF Elapsed
      <4> QED
        BY <1>2, <3>5, <4>1
    <3>7. Elapsed' = LongestWatch - watch_left'
      BY <3>1 DEF Elapsed
    <3>8. stalled <= LongestWatch + MaxGap + Elapsed'
      <4>1. 0 <= Elapsed' /\ Elapsed' \in Int
        <5>1. watch_left' \in Nat /\ watch_left' <= LongestWatch
          BY <3>1
        <5>2. LongestWatch - watch_left' \in Nat /\ 0 <= LongestWatch - watch_left'
          BY <5>1, NotNegative
        <5> QED
          BY <3>7, <5>2
      <4> QED
        BY <1>2, <3>6, <4>1, NotLess
    <3>9. StalledBounded'
      <4>1. temp' + Increase <= watch_target'
        BY <1>2, <3>1
      <4> QED
        BY <3>8, <4>1 DEF StalledBounded
    <3> QED
      BY <1>6, <1>7, <3>2, <3>9 DEF Observed
  <2>5. CASE ~WatchElapsed
    <3>1. UNCHANGED <<watch_on, watch_left, watch_target>>
      BY <2>5 DEF watchVars
    <3>2. Watching'
      BY <2>1, <3>1 DEF Watching
    <3>3. watch_left > 0
      BY <1>2, <2>1, <2>5 DEF WatchElapsed
    <3>4. Elapsed' = Elapsed
      BY <3>1, <3>3 DEF Elapsed
    <3>5. StalledBounded'
      BY <1>1, <1>3, <2>near, <3>1, <3>4 DEF StalledBounded
    <3> QED
      BY <1>6, <1>7, <3>2, <3>5 DEF Observed
  <2> QED
    BY <2>4, <2>5
<1> QED
  BY <1>8, <1>9

(* manage_heater takes the target back: nothing is observed any more. *)
LEMMA TakenBackObserved ==
  ASSUME TypeOK, Observed, ~killed, NoTempError, UNCHANGED temp,
         temp < target, SetTargetHotend(temp, 0)
  PROVE  Observed'
<1>1. HeaterTypes /\ Following
  BY DEF TypeOK, Observed
<1>2. 0 \in Targets \cup {0} /\ temp \in Temps
  BY <1>1 DEF HeaterTypes
<1>3. /\ target' = Limit(0) /\ stalled' = 0
      /\ ~near' => target' > 0
      /\ reached' => target' = target
      /\ low' = IF target' = target THEN low ELSE 0
  BY <1>1, <1>2, SetTargetType
<1>4. target' = 0 /\ target # 0
  <2>1. temp \in Nat /\ target \in Nat
    BY <1>1, HighestType DEF HeaterTypes, Temps
  <2>2. target # 0
    BY <2>1
  <2> QED
    BY <1>3, <2>2, HighestType DEF Limit
<1>5. near' /\ ~reached' /\ low' = 0
  BY <1>3, <1>4
<1>6. running_temp' = target /\ tr' = NewState
  BY DEF NoTempError, RunTr
<1>7. NewState = "inactive" => target = 0
  <2>1. NewState = "inactive" => Restarted = "inactive"
    BY DEF NewState
  <2>2. Restarted = "inactive" => (running_temp = target /\ tr = "inactive") \/ ~(target > 0)
    BY DEF Restarted
  <2>3. target # 0 => target > 0
    BY <1>1, HighestType DEF HeaterTypes
  <2> QED
    BY <1>1, <2>1, <2>2, <2>3, Zenon DEF Following
<1> QED
  BY <1>5, <1>6, <1>7 DEF Observed, Following, LowBounded, Watching, StalledBounded

(* manage_heater: the three ways it can go. *)
LEMMA ManageObserved ==
  ASSUME TypeOK, Observed, ManageHeater
  PROVE  Observed'
<1>1. ~killed /\ late' = 0 /\ UNCHANGED temp
  BY DEF ManageHeater
<1>2. CASE TempError
  BY <1>2, ErrorObserved
<1>3. CASE NoTempError
  <2>1. CASE /\ IF WatchElapsed THEN RestartWatch(temp, target) ELSE UNCHANGED watchVars
             /\ reached' = (reached \/ (target > 0 /\ temp >= target))
             /\ near' = (near \/ ~FarBelow(temp, target))
             /\ UNCHANGED <<target, low, stalled>>
    BY <1>1, <1>3, <2>1, KeptObserved
  <2>2. CASE ~works /\ temp < target /\ SetTargetHotend(temp, 0)
    BY <1>1, <1>3, <2>2, TakenBackObserved
  <2> QED
    BY <1>3, <2>1, <2>2, Zenon DEF NoTempError
<1> QED
  BY <1>2, <1>3 DEF ManageHeater
-----------------------------------------------------------------------------
(* The invariant is inductive. *)
LEMMA Inductive == IInv /\ [Next]_vars => IInv'
<1> SUFFICES ASSUME IInv, [Next]_vars
             PROVE  IInv'
  OBVIOUS
<1>1. TypeOK /\ HeaterTypes /\ Observed
  BY DEF IInv, TypeOK
<1>2. TypeOK'
  BY <1>1, TypeStep
<1>3. SUFFICES Observed'
  BY <1>2 DEF IInv
<1>4. CASE Tick
  BY <1>1, <1>4, TickObserved
<1>5. CASE SetTarget \/ StartWait
  BY <1>1, <1>5, CommandObserved
<1>6. CASE ManageHeater
  BY <1>1, <1>6, ManageObserved
<1>7. CASE Interrupt \/ WaitPass \/ UNCHANGED vars
  <2>1. UNCHANGED <<temp, target, trVars, watchVars, killed, late, seenVars>>
    BY <1>7 DEF Interrupt, WaitPass, vars
  <2> QED
    BY <1>1, <2>1 DEF Observed, Following, LowBounded, Watching, StalledBounded, Elapsed,
                      trVars, watchVars, seenVars
<1> QED
  BY <1>4, <1>5, <1>6, <1>7 DEF Next

(* The invariant holds at the start, when the heater is off. *)
LEMMA Initially == Init => IInv
<1> SUFFICES ASSUME Init
             PROVE  IInv
  OBVIOUS
<1>1. TypeOK
  BY TypeInit
<1>2. Following /\ Watching /\ StalledBounded
  BY DEF Init, Following, Watching, StalledBounded
<1>3. LowBounded
  BY DEF Init, LowBounded
<1> QED
  BY <1>1, <1>2, <1>3 DEF IInv, Observed

(* The invariant holds of every behaviour. *)
LEMMA Invariant == Spec => []IInv
BY Initially, Inductive, PTL DEF Spec

(* A hotend that has reached its target and then stays more than the       *)
(* hysteresis below it is given up: after the protection period, and as    *)
(* much as the main program is late, whatever targets were set before.     *)
THEOREM RunawayIsStopped == Spec => []RunawayStops
<1>1. IInv => RunawayStops
  <2> SUFFICES ASSUME IInv, reached, ~killed
               PROVE  low <= LowLimit
    BY DEF RunawayStops
  <2>1. /\ IF tr_timer > 0 THEN low + tr_timer <= Period ELSE low <= Period + late
        /\ tr_timer \in Nat /\ late \in Nat /\ late <= MaxGap /\ low \in Nat
    <3>1. HeaterTypes /\ LowBounded
      BY DEF IInv, Observed, TypeOK
    <3> QED
      BY <3>1, Constants DEF HeaterTypes, LowBounded
  <2> QED
    BY <2>1, Constants DEF LowLimit
<1> QED
  BY <1>1, Invariant, PTL

(* A hotend that has not been measured near its target, when that was set  *)
(* or since, and does not get warmer is given up within two intervals of   *)
(* the heating check, however late the reading it began with.              *)
THEOREM HeatingFailureIsStopped == Spec => []HeatingFailureStops
<1>1. IInv => HeatingFailureStops
  <2> SUFFICES ASSUME IInv, ~near, ~killed
               PROVE  stalled <= StallLimit
    BY DEF HeatingFailureStops
  <2>1. HeaterTypes /\ StalledBounded
    BY DEF IInv, Observed, TypeOK
  <2>2. /\ watch_left \in Nat /\ watch_left <= LongestWatch /\ late \in Nat
        /\ late <= MaxGap /\ stalled \in Nat
    BY <2>1, Constants DEF HeaterTypes
  <2>3. Elapsed \in Nat /\ Elapsed <= LongestWatch + MaxGap
    BY <2>2, Constants DEF Elapsed
  <2>4. stalled <= Elapsed \/ stalled <= LongestWatch + MaxGap + Elapsed
    BY <2>1 DEF StalledBounded
  <2>5. stalled <= LongestWatch + MaxGap + (LongestWatch + MaxGap)
    BY <2>2, <2>3, <2>4, Constants
  <2> QED
    BY <2>2, <2>5, Constants DEF StallLimit
<1> QED
  BY <1>1, Invariant, PTL

-----------------------------------------------------------------------------
(* A heater that works *)

(* What is asked of the printer: it is not born too hot, a working heater, *)
(* one degree in a tick, is fast enough for the heating check, also where  *)
(* that begins with the last reading and it has cooled down since, and the *)
(* hysteresis is enough for what the hotend cools down unseen.  It does so *)
(* where the target is taken away and set again between two runs of        *)
(* manage_heater, which then see no change: for one delay per two          *)
(* commands, after the one that set it first.                              *)
Sound ==
  /\ Ambient <= MaxTemp
  /\ \A t \in Temps : Increase + MaxGap <= WatchPeriod[t]
  /\ MaxGap * (MaxCommands - 1) <= 2 * Hysteresis

Asked ==
  /\ commands = 0 => target = 0 /\ tr = "inactive"
  /\ tr = "stable" => commands >= (IF target = running_temp THEN 1 ELSE 2)

(* The hotend has cooled down by a degree a tick since it was measured. *)
Measured == celsius <= temp + late

(* The heating check's mark is reached in time, and lies below the target. *)
Rising == watch_on => watch_target <= target /\ watch_target <= temp + watch_left

(* Twice what the hotend may have cooled down since the target was reached.*)
Unseen == IF target = running_temp THEN MaxGap * (commands - 1)
                                   ELSE MaxGap * (commands - 2) + 2 * late
Cooled == tr = "stable" => temp >= running_temp \/ 2 * (running_temp - temp) <= Unseen

Working == works => ~killed /\ temp <= MaxTemp /\ Measured /\ Asked /\ Rising /\ Cooled

(* What a command more is worth.                                           *)
LEMMA Worth ==
  ASSUME NEW c \in Nat
  PROVE  /\ MaxGap * (c - 1) \in Int /\ MaxGap * (c - 2) \in Int
         /\ MaxGap * (c + 1 - 1) = MaxGap * (c - 1) + MaxGap
         /\ MaxGap * (c - 1) = MaxGap * (c - 2) + MaxGap
         /\ MaxGap * (c + 1 - 2) = MaxGap * (c - 2) + MaxGap
         /\ c >= 1 => MaxGap * (c - 1) >= 0
         /\ c >= 2 => MaxGap * (c - 2) >= 0
<1>1. MaxGap \in Nat
  BY Constants
<1>2. \A n \in Int : MaxGap * n \in Int /\ MaxGap * (n + 1) = MaxGap * n + MaxGap
  BY <1>1
<1>3. \A n \in Nat : MaxGap * n >= 0
  BY <1>1
<1>4. /\ c - 2 \in Int /\ c - 1 \in Int /\ (c - 2) + 1 = c - 1 /\ (c - 1) + 1 = c
      /\ c + 1 - 1 = c /\ c + 1 - 2 = c - 1
      /\ c >= 1 => c - 1 \in Nat
      /\ c >= 2 => c - 2 \in Nat
  OBVIOUS
<1> QED
  BY <1>2, <1>3, <1>4

LEMMA Numbers ==
  ASSUME TypeOK
  PROVE  /\ temp \in Nat /\ target \in Nat /\ running_temp \in Nat /\ watch_target \in Nat
         /\ watch_left \in Nat /\ late \in Nat /\ late <= MaxGap /\ commands \in Nat
         /\ commands <= MaxCommands /\ target <= MaxTemp /\ Ambient \in Nat /\ temp \in Temps
         /\ celsius \in Temps /\ celsius \in Nat
<1>1. HeaterTypes
  BY DEF TypeOK
<1>2. Highest \in Nat /\ Highest <= MaxTemp /\ Ambient \in Nat
  BY Constants, HighestType DEF Highest
<1>3. /\ temp \in Nat /\ celsius \in Nat /\ watch_target \in Nat /\ watch_left \in Nat /\ late \in Nat
      /\ late <= MaxGap /\ commands \in Nat /\ commands <= MaxCommands
  BY <1>1, Constants DEF HeaterTypes, Temps
<1>4. target \in Nat /\ running_temp \in Nat /\ target <= MaxTemp
  BY <1>1, <1>2, Constants DEF HeaterTypes
<1>5. temp \in Temps /\ celsius \in Temps
  BY <1>1 DEF HeaterTypes
<1> QED
  BY <1>2, <1>3, <1>4, <1>5

LEMMA WorkingTick ==
  ASSUME Sound, TypeOK, Working, Tick, works
  PROVE  ~killed' /\ temp' <= MaxTemp /\ Measured' /\ Asked' /\ Rising' /\ Cooled'
<1> USE Constants, Numbers
<1>1. /\ late' = late + 1 /\ watch_left' = Down(watch_left) /\ late < MaxGap
      /\ UNCHANGED <<celsius, target, tr, running_temp, watch_on, watch_target, killed>>
      /\ UNCHANGED commands
  BY DEF Tick
<1>2. ~killed /\ temp <= MaxTemp /\ Measured /\ Asked /\ Rising /\ Cooled
  BY DEF Working
<1>3. /\ temp < target => temp' = temp + 1
      /\ temp >= target => temp' \in {temp, temp - 1} /\ temp' >= target
  <2>1. temp' = CASE temp < target -> temp + 1
                  [] temp > target /\ temp > Ambient -> temp - 1
                  [] OTHER -> temp
    BY DEF Tick, Physics
  <2> QED
    BY <2>1
<1>4. temp' <= MaxTemp /\ ~killed'
  BY <1>1, <1>2, <1>3
<1>measured. Measured'
  BY <1>1, <1>2, <1>3 DEF Measured
<1>5. Asked'
  BY <1>1, <1>2 DEF Asked
<1>6. Rising'
  <2>1. CASE temp < target
    BY <1>1, <1>2, <1>3, <2>1 DEF Rising, Down
  <2>2. CASE temp >= target
    BY <1>1, <1>2, <1>3, <2>2 DEF Rising, Down
  <2> QED
    BY <2>1, <2>2
<1>7. Cooled'
  <2> SUFFICES ASSUME tr = "stable"
               PROVE  (temp >= running_temp \/ 2 * (running_temp - temp) <= Unseen)'
    BY <1>1 DEF Cooled
  <2>1. temp >= running_temp \/ 2 * (running_temp - temp) <= Unseen
    BY <1>2 DEF Cooled
  <2>2. CASE target = running_temp
    <3>1. Unseen = MaxGap * (commands - 1) /\ Unseen' = MaxGap * (commands - 1)
      BY <1>1, <2>2 DEF Unseen
    <3> QED
      BY <1>1, <1>3, <2>1, <2>2, <3>1, Worth
  <2>3. CASE target # running_temp
    <3>1. Unseen = MaxGap * (commands - 2) + 2 * late
          /\ Unseen' = MaxGap * (commands - 2) + 2 * (late + 1)
      BY <1>1, <2>3 DEF Unseen
    <3>2. commands >= 2 /\ MaxGap * (commands - 2) \in Int /\ MaxGap * (commands - 2) >= 0
      BY <1>2, <2>3, Worth DEF Asked
    <3>3. temp' >= temp - 1 /\ temp' \in Int
      BY <1>3
    <3> QED
      BY <1>1, <2>1, <3>1, <3>2, <3>3
  <2> QED
    BY <2>2, <2>3
<1> QED
  BY <1>4, <1>measured, <1>5, <1>6, <1>7

(* The check restarted for a target that the reading is far below.         *)
LEMMA RestartRising ==
  ASSUME Sound, TypeOK, NEW r \in Temps, NEW c \in 0 .. Highest, RestartWatch(r, c),
         r <= temp + MaxGap, target' = c, temp' = temp
  PROVE  Rising'
<1> USE Constants, Numbers
<1>1. WatchPeriod[r] \in Nat /\ Increase + MaxGap <= WatchPeriod[r] /\ r \in Nat
  BY ThermalAssumption DEF Sound, ThermalAssumption, Temps
<1>2. CASE FarBelow(r, c)
  <2>1. watch_target' = r + Increase /\ watch_left' = WatchPeriod[r]
    BY <1>2 DEF RestartWatch
  <2>2. r + Increase < c - WatchHysteresis - 1
    BY <1>2 DEF FarBelow
  <2>3. c \in Nat
    BY HighestType
  <2> QED
    BY <1>1, <2>1, <2>2, <2>3 DEF Rising
<1>3. CASE ~FarBelow(r, c)
  BY <1>3 DEF RestartWatch, Rising
<1> QED
  BY <1>2, <1>3

LEMMA WorkingCommand ==
  ASSUME Sound, TypeOK, Working, SetTarget \/ StartWait, works
  PROVE  ~killed' /\ temp' <= MaxTemp /\ Measured' /\ Asked' /\ Rising' /\ Cooled'
<1> USE Constants, Numbers
<1>1. /\ UNCHANGED <<temp, celsius, tr, running_temp, killed, late>>
      /\ commands' = commands + 1
      /\ \E c \in Targets : SetTargetHotend(celsius, c)
  BY DEF SetTarget, StartWait, trVars
<1>2. ~killed /\ temp <= MaxTemp /\ Measured /\ Asked /\ Rising /\ Cooled
  BY DEF Working
<1>3. PICK c \in Targets : target' = Limit(c) /\ RestartWatch(celsius, Limit(c))
  BY <1>1 DEF SetTargetHotend
<1>4. Limit(c) \in 0 .. Highest
  BY LimitType
<1>5. Rising'
  <2>1. celsius <= temp + MaxGap
    BY <1>2 DEF Measured
  <2> QED
    BY <1>1, <1>3, <1>4, <2>1, RestartRising
<1>measured. Measured'
  BY <1>1, <1>2 DEF Measured
<1>6. Asked'
  BY <1>1, <1>2 DEF Asked
<1>7. Cooled'
  <2> SUFFICES ASSUME tr = "stable"
               PROVE  (temp >= running_temp \/ 2 * (running_temp - temp) <= Unseen)'
    BY <1>1 DEF Cooled
  <2>1. temp >= running_temp \/ 2 * (running_temp - temp) <= Unseen
    BY <1>2 DEF Cooled
  <2>2. Unseen <= Unseen'
    <3>1. Unseen \in {MaxGap * (commands - 1), MaxGap * (commands - 2) + 2 * late}
      BY DEF Unseen
    <3>2. Unseen' \in {MaxGap * (commands + 1 - 1), MaxGap * (commands + 1 - 2) + 2 * late}
      BY <1>1 DEF Unseen
    <3> QED
      BY <3>1, <3>2, Worth
  <2>3. Unseen \in Int /\ Unseen' \in Int
    <3>1. MaxGap * (commands - 1) \in Int /\ MaxGap * (commands - 2) + 2 * late \in Int
      BY Worth
    <3>2. MaxGap * (commands + 1 - 1) \in Int /\ MaxGap * (commands + 1 - 2) + 2 * late \in Int
      BY Worth
    <3> QED
      BY <1>1, <3>1, <3>2 DEF Unseen
  <2> QED
    BY <1>1, <2>1, <2>2, <2>3
<1> QED
  BY <1>1, <1>2, <1>5, <1>measured, <1>6, <1>7

LEMMA WorkingManage ==
  ASSUME Sound, TypeOK, Following, Working, ManageHeater, works
  PROVE  ~killed' /\ temp' <= MaxTemp /\ Measured' /\ Asked' /\ Rising' /\ Cooled'
<1> USE Constants, Numbers
<1>1. ~killed /\ temp <= MaxTemp /\ Measured /\ Asked /\ Rising /\ Cooled
  BY DEF Working
<1>2. UNCHANGED <<temp, commands>> /\ late' = 0 /\ celsius' = temp
  BY DEF ManageHeater, UpdateTemperatures
<1>measured. Measured'
  BY <1>2 DEF Measured
<1>3. NewState = "stable" => temp >= target \/ (tr = "stable" /\ running_temp = target)
  BY DEF NewState, Restarted
<1>4. ~Runaway
  <2> SUFFICES ASSUME NewState = "stable", ~CloseTo
               PROVE  FALSE
    BY DEF Runaway
  <2>1. temp < target - Hysteresis
    BY DEF CloseTo
  <2>2. tr = "stable" /\ running_temp = target
    BY <1>3, <2>1
  <2>3. 2 * (target - temp) <= MaxGap * (commands - 1)
    BY <1>1, <2>1, <2>2 DEF Cooled, Unseen
  <2>4. MaxGap * (commands - 1) <= MaxGap * (MaxCommands - 1)
    <3>1. \A i, j \in Int : i <= j => MaxGap * i <= MaxGap * j
      <4>1. \A m \in Nat, i, j \in Int : i <= j => m * i <= m * j
        OBVIOUS
      <4> QED
        BY <4>1
    <3> QED
      BY <3>1
  <2>5. MaxGap * (MaxCommands - 1) \in Int /\ MaxGap * (commands - 1) \in Int
    BY Worth
  <2> QED
    BY <2>1, <2>3, <2>4, <2>5 DEF Sound
<1>5. ~HeatingFailed
  BY <1>1 DEF HeatingFailed, WatchElapsed, Rising
<1>6. ~TempError /\ NoTempError
  BY <1>1, <1>4, <1>5 DEF ManageHeater, TempError
<1>7. /\ running_temp' = target /\ tr' = NewState /\ killed' = killed /\ target' = target
      /\ (WatchElapsed /\ RestartWatch(temp, target)) \/ UNCHANGED watchVars
  BY <1>6 DEF NoTempError, RunTr
<1>8. Rising'
  <2>1. CASE RestartWatch(temp, target)
    <3>1. target \in 0 .. Highest
      BY DEF TypeOK, HeaterTypes
    <3> QED
      BY <1>2, <1>7, <2>1, <3>1, RestartRising
  <2>2. CASE UNCHANGED watchVars
    BY <1>1, <1>2, <1>7, <2>2 DEF Rising, watchVars
  <2> QED
    BY <1>7, <2>1, <2>2
<1>9. Asked'
  <2>1. commands = 0 => target = 0 /\ tr = "inactive" /\ running_temp = 0
    BY <1>1 DEF Asked, Following
  <2>2. commands = 0 => NewState = "inactive"
    BY <2>1 DEF NewState, Restarted
  <2> QED
    BY <1>2, <1>7, <2>1, <2>2 DEF Asked
<1>10. Cooled'
  <2> SUFFICES ASSUME NewState = "stable"
               PROVE  (temp >= running_temp \/ 2 * (running_temp - temp) <= Unseen)'
    BY <1>7 DEF Cooled
  <2>1. Unseen' = MaxGap * (commands - 1)
    BY <1>2, <1>7 DEF Unseen
  <2>2. CASE temp >= target
    BY <1>2, <1>7, <2>2
  <2>3. CASE tr = "stable" /\ running_temp = target
    BY <1>1, <1>2, <1>7, <2>1, <2>3 DEF Cooled, Unseen
  <2> QED
    BY <1>3, <2>2, <2>3
<1> QED
  BY <1>1, <1>2, <1>measured, <1>7, <1>8, <1>9, <1>10

LEMMA WorkingStep ==
  ASSUME Sound, TypeOK, Following, Working, [Next]_vars
  PROVE  Working'
<1>1. works' = works
  BY DEF Next, vars, Tick, SetTarget, ManageHeater, StartWait, Interrupt, WaitPass
<1>2. CASE Tick \/ SetTarget \/ StartWait \/ ManageHeater
  BY <1>1, <1>2, WorkingTick, WorkingCommand, WorkingManage DEF Working
<1>3. CASE Interrupt \/ WaitPass \/ UNCHANGED vars
  <2>1. UNCHANGED <<temp, works, celsius, target, trVars, watchVars, killed, late, commands>>
    BY <1>3 DEF Interrupt, WaitPass, vars
  <2> QED
    BY <2>1 DEF Working, Measured, Asked, Rising, Cooled, Unseen, trVars, watchVars
<1> QED
  BY <1>2, <1>3 DEF Next

(* Neither check, nor the two together while targets change at any moment, *)
(* halts a printer whose heater works, as long as the hysteresis is enough *)
(* for what the hotend cools down between two runs of manage_heater that   *)
(* see the same target.                                                    *)
THEOREM WorkingHeaterIsKept ==
  ASSUME Sound
  PROVE  Spec => []NoFalseAlarm
<1>1. Init => Working
  <2> SUFFICES ASSUME Init PROVE Working
    OBVIOUS
  <2>1. temp = Ambient /\ celsius = Ambient /\ late = 0 /\ ~killed /\ tr = "inactive" /\ target = 0 /\ ~watch_on
    BY DEF Init
  <2> QED
    BY <2>1, HighestType DEF Working, Sound, Measured, Asked, Rising, Cooled
<1>2. IInv /\ Working /\ [Next]_vars => Working'
  BY WorkingStep DEF IInv, Observed
<1>3. Working => NoFalseAlarm
  BY DEF Working, NoFalseAlarm
<1> QED
  BY <1>1, <1>2, <1>3, Invariant, PTL DEF Spec
=============================================================================
