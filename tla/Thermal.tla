------------------------------ MODULE Thermal ------------------------------
(***************************************************************************)
(* The hotend's heater: its target, the thermal runaway state machine, the *)
(* heating check and the wait of M109 (module/temperature.cpp).            *)
(*                                                                         *)
(* Temperatures are whole degrees and time passes in ticks; a timer holds  *)
(* the ticks that are left of it.  The main program reaches idle(), and    *)
(* with it manage_heater, at least once in MaxGap ticks; only manage_heater *)
(* reads the sensor, and everything else uses what it last read.  The      *)
(* display sets targets and M108 is read in idle() too.  PID is left out: the heater is *)
(* on while the target is above the temperature, and either works, or does *)
(* anything at all.  The idle timers of the heaters are left out because   *)
(* nothing starts them, the redundant sensor and AUTOTEMP because they are *)
(* not used.                                                               *)
(***************************************************************************)
EXTENDS Integers

CONSTANTS
  Hottest, MaxTemp, Overshoot,   \* limits of the sensor and of the target
  Ambient,
  Targets,                       \* what the display and commands ask for
  Period, Hysteresis,            \* THERMAL_PROTECTION_...
  WatchPeriod,                   \* the time interval, by temperature
  LongestWatch,
  Increase, WatchHysteresis,     \* WATCH_TEMP_INCREASE, TEMP_HYSTERESIS
  Residency, Window,             \* TEMP_RESIDENCY_TIME, TEMP_WINDOW
  SlopeTime, Slope,              \* MIN_COOLING_SLOPE_...
  MaxGap,                        \* bound: ticks between runs of manage_heater
  MaxCommands                    \* bound: commands that set the target

Temps == 0 .. Hottest

ASSUME ThermalAssumption ==
  /\ Hottest \in Nat /\ MaxTemp \in Nat /\ Overshoot \in Nat
  /\ Hysteresis \in Nat /\ WatchHysteresis \in Nat /\ Window \in Nat /\ Slope \in Nat
  /\ Period \in Nat \ {0} /\ LongestWatch \in Nat \ {0} /\ Increase \in Nat \ {0}
  /\ Residency \in Nat \ {0} /\ SlopeTime \in Nat \ {0}
  /\ MaxGap \in Nat \ {0} /\ MaxCommands \in Nat
  /\ Overshoot <= MaxTemp /\ MaxTemp <= Hottest /\ Ambient \in Temps
  /\ Targets \subseteq Nat
  /\ WatchPeriod \in [Temps -> 1 .. LongestWatch]

VARIABLES
  temp, works,                   \* the hotend; whether its heater works
  celsius, target,               \* temp_hotend: as last measured, and wanted
  tr, running_temp, tr_timer,    \* tr_state_machine
  watch_on, watch_target, watch_left,   \* watch_hotend; on if next_ms # 0
  killed,
  waiting, wait_for_heatup,      \* M109 waits
  no_wait_for_cooling, wants_to_cool, target_temp, first_loop,
  residency, cool_check, old_temp,      \* residency = -1 before it began
  late, commands,                \* what is used up of the bounds
  \* What was observed:
  reached,    \* manage_heater has seen the target reached since it was set
  low,        \* for how long it has been more than Hysteresis below it
  near,       \* whether it was last measured, or has been since, near the target
  stalled     \* for how long the temperature has not risen since M104

trVars    == <<tr, running_temp, tr_timer>>
watchVars == <<watch_on, watch_target, watch_left>>
waitVars  == <<waiting, wait_for_heatup, no_wait_for_cooling, wants_to_cool, target_temp,
               first_loop, residency, cool_check, old_temp>>
seenVars  == <<reached, low, near, stalled>>
vars == <<temp, works, celsius, target, trVars, watchVars, killed, waitVars, late, commands, seenVars>>

Highest == MaxTemp - Overshoot

FlagTypes ==
  /\ works \in BOOLEAN /\ watch_on \in BOOLEAN /\ killed \in BOOLEAN
  /\ waiting \in BOOLEAN /\ wait_for_heatup \in BOOLEAN /\ first_loop \in BOOLEAN
  /\ no_wait_for_cooling \in BOOLEAN /\ wants_to_cool \in BOOLEAN
  /\ reached \in BOOLEAN /\ near \in BOOLEAN

HeaterTypes ==
  /\ temp \in Temps /\ celsius \in Temps /\ target \in 0 .. Highest
  /\ running_temp \in 0 .. Highest /\ tr_timer \in 0 .. Period
  /\ watch_target \in Nat /\ watch_left \in 0 .. LongestWatch
  /\ late \in 0 .. MaxGap /\ commands \in 0 .. MaxCommands
  /\ low \in Nat /\ stalled \in Nat

WaitTypes ==
  /\ target_temp \in 0 .. Highest /\ residency \in -1 .. 2 * Residency
  /\ cool_check \in 0 .. SlopeTime /\ old_temp \in Nat

TypeOK ==
  /\ tr \in {"inactive", "first heating", "stable"}
  /\ FlagTypes /\ HeaterTypes /\ WaitTypes

(* As long as the two checks may take; observations are counted no further. *)
LowLimit   == Period + MaxGap
StallLimit == 2 * (LongestWatch + MaxGap)

Unknown == Hottest + Slope + 1    \* 9999, more than any temperature

Init ==
  /\ temp = Ambient /\ works \in BOOLEAN /\ celsius = Ambient /\ target = 0
  /\ tr = "inactive" /\ running_temp = 0 /\ tr_timer = 0
  /\ watch_on = FALSE /\ watch_target = 0 /\ watch_left = 0
  /\ killed = FALSE
  /\ waiting = FALSE /\ wait_for_heatup = FALSE
  /\ no_wait_for_cooling = FALSE /\ wants_to_cool = FALSE /\ target_temp = 0
  /\ first_loop = TRUE /\ residency = -1 /\ cool_check = 0 /\ old_temp = Unknown
  /\ late = 0 /\ commands = 0
  /\ reached = FALSE /\ low = 0 /\ near = TRUE /\ stalled = 0

-----------------------------------------------------------------------------
Down(n)      == IF n > 0 THEN n - 1 ELSE n
Up(n, limit) == IF n > limit THEN n ELSE n + 1

(* A heater that works, and one that may do anything. *)
Physics ==
  IF works
  THEN temp' = CASE temp < target -> temp + 1
                 [] temp > target /\ temp > Ambient -> temp - 1
                 [] OTHER -> temp
  ELSE temp' \in {temp - 1, temp, temp + 1} \cap Temps

Tick ==
  /\ ~killed /\ late < MaxGap
  /\ late' = late + 1
  /\ Physics
  /\ tr_timer' = Down(tr_timer)
  /\ watch_left' = Down(watch_left)
  /\ residency' = Down(residency)
  /\ cool_check' = Down(cool_check)
  /\ low' = IF reached /\ temp' < target - Hysteresis THEN Up(low, LowLimit) ELSE 0
  /\ stalled' = IF ~near /\ temp' <= temp THEN Up(stalled, StallLimit) ELSE 0
  /\ UNCHANGED <<works, celsius, target, tr, running_temp, watch_on, watch_target, killed,
                 waiting, wait_for_heatup, no_wait_for_cooling, wants_to_cool, target_temp,
                 first_loop, old_temp, commands, reached, near>>

-----------------------------------------------------------------------------
(* HeaterWatch::restart, with what was measured: off near the target. *)
FarBelow(curr, tgt) == tgt > 0 /\ curr + Increase < tgt - WatchHysteresis - 1

RestartWatch(curr, tgt) ==
  /\ watch_on' = FarBelow(curr, tgt)
  /\ watch_target' = IF FarBelow(curr, tgt) THEN curr + Increase ELSE watch_target
  /\ watch_left' = IF FarBelow(curr, tgt) THEN WatchPeriod[curr] ELSE 0

(* setTargetHotend *)
LimitNothing(c) == c
Limit(c)        == IF c < Highest THEN c ELSE Highest

SetTargetHotend(curr, c) ==
  /\ target' = Limit(c)
  /\ RestartWatch(curr, Limit(c))
  /\ near' = ~FarBelow(curr, Limit(c))
  /\ stalled' = 0
  /\ reached' = (reached /\ Limit(c) = target)
  /\ low' = IF Limit(c) = target THEN low ELSE 0

(* M104, or the display, at any moment: also long after the last reading. *)
SetTarget ==
  /\ ~killed /\ commands < MaxCommands
  /\ commands' = commands + 1
  /\ \E c \in Targets : SetTargetHotend(celsius, c)
  /\ UNCHANGED <<temp, works, celsius, trVars, killed, waitVars, late>>

-----------------------------------------------------------------------------
(* manage_heater reads the sensor first: all that it does uses temp. *)
UpdateTemperatures == celsius' = temp

(* tr_state_machine_t::run.  A changed target restarts it. *)
StayStable == IF target = 0 THEN "inactive"
              ELSE IF running_temp = 0 THEN "first heating" ELSE tr
Restarted  == IF running_temp = target THEN tr
              ELSE IF target > 0 THEN "first heating" ELSE "inactive"
NewState   == IF Restarted = "first heating" /\ temp >= target THEN "stable" ELSE Restarted

CloseToAlways == TRUE
CloseTo       == temp >= target - Hysteresis

Runaway == NewState = "stable" /\ ~CloseTo /\ tr_timer = 0

RunTr ==
  /\ running_temp' = target
  /\ tr' = NewState
  /\ tr_timer' = IF NewState = "stable" /\ CloseTo THEN Period ELSE tr_timer

WatchElapsed  == watch_on /\ watch_left = 0
FailedBelow   == WatchElapsed /\ temp + Increase < watch_target
HeatingFailed == WatchElapsed /\ temp < watch_target

(* _temp_error: the heaters are turned off, and kill() never returns. *)
TempError ==
  /\ temp > MaxTemp \/ Runaway \/ HeatingFailed
  /\ killed' = TRUE
  /\ target' = 0
  /\ watch_on' = FALSE /\ watch_left' = 0
  /\ UNCHANGED <<trVars, watch_target, seenVars>>

(* No error.  After some runs at full power without the 24 V of the heater *)
(* the target is taken back.                                               *)
NoTempError ==
  /\ ~(temp > MaxTemp \/ Runaway \/ HeatingFailed)
  /\ RunTr
  /\ UNCHANGED killed
  /\ \/ /\ IF WatchElapsed THEN RestartWatch(temp, target) ELSE UNCHANGED watchVars
        /\ reached' = (reached \/ (target > 0 /\ temp >= target))
        /\ near' = (near \/ ~FarBelow(temp, target))
        /\ UNCHANGED <<target, low, stalled>>
     \/ ~works /\ temp < target /\ SetTargetHotend(temp, 0)

ManageHeater ==
  /\ ~killed /\ late > 0
  /\ late' = 0 /\ UpdateTemperatures
  /\ TempError \/ NoTempError
  /\ UNCHANGED <<temp, works, waitVars, commands>>

-----------------------------------------------------------------------------
(* M109 and wait_for_hotend.  A pass of its loop ends with the check of    *)
(* the target that begins the next one; its local variables end with it.   *)

NoWait ==
  /\ waiting' = FALSE /\ wait_for_heatup' = FALSE
  /\ no_wait_for_cooling' = FALSE /\ wants_to_cool' = FALSE /\ target_temp' = 0
  /\ first_loop' = TRUE /\ residency' = -1 /\ cool_check' = 0 /\ old_temp' = Unknown

(* if (no_wait_for_cooling && wants_to_cool) break; *)
Begin(c, s) ==
  IF s /\ celsius > c THEN NoWait
  ELSE /\ waiting' = TRUE /\ wait_for_heatup' = TRUE
       /\ no_wait_for_cooling' = s /\ wants_to_cool' = (celsius > c) /\ target_temp' = c
       /\ first_loop' = TRUE /\ residency' = -1 /\ cool_check' = 0 /\ old_temp' = Unknown

StartWait ==
  /\ ~killed /\ ~waiting /\ commands < MaxCommands
  /\ commands' = commands + 1
  /\ \E c \in Targets, s \in BOOLEAN : SetTargetHotend(celsius, c) /\ Begin(Limit(c), s)
  /\ UNCHANGED <<temp, works, celsius, trVars, killed, late>>

(* M108 read early, or the stop key. *)
Interrupt ==
  /\ ~killed /\ waiting
  /\ wait_for_heatup' = FALSE
  /\ UNCHANGED <<temp, works, celsius, target, trVars, watchVars, killed, waiting,
                 no_wait_for_cooling, wants_to_cool, target_temp, first_loop, residency,
                 cool_check, old_temp, late, commands, seenVars>>

Away == IF celsius > target_temp THEN celsius - target_temp ELSE target_temp - celsius

NewResidency ==
  IF residency = -1
  THEN IF Away < Window THEN Residency + (IF first_loop THEN Residency \div 3 ELSE 0)
       ELSE -1
  ELSE IF Away > WatchHysteresis THEN Residency ELSE residency

CheckCooling   == wants_to_cool /\ cool_check = 0
NeverTooSlow   == CheckCooling /\ old_temp < celsius
CoolingTooSlow == CheckCooling /\ old_temp - celsius < Slope

Changed == target_temp # target
GoesOn  == /\ wait_for_heatup /\ NewResidency # 0 /\ ~CoolingTooSlow
           /\ ~(Changed /\ no_wait_for_cooling /\ celsius > target)

WaitPass ==
  /\ ~killed /\ waiting
  /\ IF ~GoesOn THEN NoWait
     ELSE /\ residency' = NewResidency /\ first_loop' = FALSE
          /\ cool_check' = IF CheckCooling THEN SlopeTime ELSE cool_check
          /\ old_temp' = IF CheckCooling THEN celsius ELSE old_temp
          /\ target_temp' = target
          /\ wants_to_cool' = IF Changed THEN celsius > target ELSE wants_to_cool
          /\ UNCHANGED <<waiting, wait_for_heatup, no_wait_for_cooling>>
  /\ UNCHANGED <<temp, works, celsius, target, trVars, watchVars, killed, late, commands,
                 seenVars>>

-----------------------------------------------------------------------------
Next == Tick \/ SetTarget \/ ManageHeater \/ StartWait \/ Interrupt \/ WaitPass

(* Time passes, and the main program goes on calling idle(). *)
Spec == /\ Init /\ [][Next]_vars
        /\ WF_vars(Tick) /\ WF_vars(ManageHeater) /\ WF_vars(WaitPass)

-----------------------------------------------------------------------------
(* tr_state_machine: a hotend that has been at its target and stays more   *)
(* than Hysteresis below it is given up after Period, however often idle() *)
(* is late, and whatever other targets were set and taken back before.     *)
RunawayStops ==
  reached /\ ~killed => low <= LowLimit

(* watch_hotend: a hotend that has not been measured near its target, when *)
(* that was set or since, and does not get warmer, is given up after at    *)
(* most two intervals of the heating check, also where the reading it      *)
(* began with was late.                                                    *)
HeatingFailureStops ==
  target > 0 /\ ~near /\ ~killed => stalled <= StallLimit

(* Neither check, nor the two together while targets change at any moment, *)
(* halts a printer whose heater works.                                     *)
NoFalseAlarm == works => ~killed

(* wait_for_hotend: if the heater works M109 ends, also when the target it *)
(* waits for is changed, or is below what the hotend can cool down to.     *)
WaitEnds == works /\ waiting ~> ~waiting
=============================================================================
