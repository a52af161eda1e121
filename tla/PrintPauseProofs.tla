-------------------------- MODULE PrintPauseProofs --------------------------
(***************************************************************************)
(* Proofs about PrintPause, for every size of the queue, length of the     *)
(* file and number of prints, pauses and runouts.  What the user does is a *)
(* hypothesis of each theorem, and no more than the theorem needs: it      *)
(* names the moments at which the code does not stand a key.  All other    *)
(* keys may come at any moment.                                            *)
(***************************************************************************)
EXTENDS PrintPause, SequenceTheorems, TLAPS

(* No print is started while the head is parked. *)
NoStartParked == \A o \in {"parking", "waiting"} : <<"start", o>> \notin Presses

(* No print is started before the one before it is over and done with. *)
NoStartEarly ==
  \A o \in {"ending", "parking", "waiting", "resuming"} : <<"start", o>> \notin Presses

(* No print is stopped in the middle of a G28. *)
NoStopHoming == <<"stop", "homing">> \notin Presses

-----------------------------------------------------------------------------
(* The invariants *)

(* The type invariant in parts: what has two values, what has names, what  *)
(* is counted, and the queue.                                              *)
Switches ==
  /\ finishing \in BOOLEAN /\ complete \in BOOLEAN /\ abort \in BOOLEAN
  /\ wait_for_user \in BOOLEAN /\ ran_out \in BOOLEAN /\ out \in BOOLEAN
  /\ printPaused \in BOOLEAN /\ can_print_flag \in BOOLEAN
  /\ udisk \in [flag : BOOLEAN, pause : BOOLEAN, stop : BOOLEAN]

Names ==
  /\ pc \in {"loop", "line", "homing", "quick stop", "lifting", "parking", "waiting",
             "resuming"}
  /\ inject \in {"", "M25", "M600", "G28"}
  /\ timer \in {"stopped", "running", "paused"}
  /\ screen \in {"files", "printing", "popup"}

Counts ==
  /\ lines \in 0 .. FileLines /\ did_pause_print \in 0 .. 2
  /\ jobs \in 0 .. MaxJobs /\ pauses \in 0 .. MaxPauses /\ runouts \in 0 .. MaxRunouts

Commands   == {"M24", "G28", "line", "M1001"}
QueueTyped == queue \in Seq(Commands) /\ Len(queue) <= BufSize

Types == Switches /\ Names /\ Counts /\ QueueTyped

(* A stop is pending from the key to the end of abortSDPrinting: the file  *)
(* is no longer read, no print can be started, and once the head is lifted *)
(* the job timer stands.                                                   *)
StopPending ==
  /\ abort <=> udisk.stop
  /\ abort => ~udisk.flag /\ ~can_print_flag /\ pc # "homing"
  /\ pc = "homing" => ~can_print_flag
  /\ pc \in {"quick stop", "lifting"} => abort /\ queue = <<>>
  /\ pc = "lifting" => timer = "stopped"

(* Whether the queue holds a command. *)
Holds(cmd) == \E i \in 1 .. Len(queue) : queue[i] = cmd

(* A print is under way as long as its file is read or has lines queued. *)
UnderWay == udisk.flag \/ Holds("line")

(* The end of a print: read to the end, then marked complete, then M1001   *)
(* queued, which is the last command of it.                                *)
EndInOrder ==
  /\ finishing => (udisk.flag \/ abort) /\ ~complete
  /\ complete => ~udisk.flag
  /\ Holds("M1001") => ~udisk.flag /\ ~finishing /\ ~complete
  /\ \A i \in 1 .. Len(queue) : queue[i] = "M1001" => i = Len(queue)

(* While a print is under way, and is not being stopped, its timer stands  *)
(* for a pause only, and a pause left over from an earlier print is        *)
(* counted only until its M24.                                             *)
Pausing == pc \in {"parking", "waiting", "resuming"}

TimerKept ==
  ~abort /\ UnderWay => timer = "running" \/ (Pausing /\ timer = "paused")

PauseTaken ==
  ~abort /\ UnderWay /\ did_pause_print > 0 /\ ~Pausing =>
    queue # <<>> /\ Head(queue) = "M24"

Lasting == EndInOrder /\ TimerKept /\ PauseTaken
-----------------------------------------------------------------------------
(* Constants and types *)

LEMMA Constants ==
  /\ BufSize \in Nat /\ BufSize > 2 /\ FileLines \in Nat /\ FileLines > 0
  /\ MaxJobs \in Nat /\ MaxPauses \in Nat /\ MaxRunouts \in Nat
BY PrintPauseAssumption

LEMMA SwitchesStep == Switches /\ [Next]_vars => Switches'
<1> SUFFICES ASSUME Switches, [Next]_vars
             PROVE  Switches'
  OBVIOUS
<1> USE DEF Switches, mediaVars, runoutVars, displayVars, boundVars
<1>1. CASE ReadLine \/ FileHasFinish
  BY <1>1 DEF ReadLine, FileHasFinish
<1>2. CASE FilamentOut \/ FilamentIn \/ Runout
  BY <1>2 DEF FilamentOut, FilamentIn, Runout
<1>3. CASE StartPrint
  BY <1>3 DEF StartPrint, OffUdisk
<1>4. CASE PauseKey \/ ResumeKey
  BY <1>4 DEF PauseKey, ResumeKey, StartTimer
<1>5. CASE StopKey
  BY <1>5 DEF StopKey, LockPrint, AbortPrint
<1>6. CASE OpenMenu \/ CloseMenu
  BY <1>6 DEF OpenMenu, CloseMenu, isPaused
<1>7. CASE Abort \/ Lift
  BY <1>7 DEF Abort, Lift
<1>15. CASE Aborted
  BY <1>15 DEF Aborted, OffUdisk
<1>8. CASE FinishPrinting
  BY <1>8 DEF FinishPrinting
<1>9. CASE RunPause
  BY <1>9 DEF RunPause, PauseUdisk
<1>10. CASE Parked \/ Woken
  BY <1>10 DEF Parked, Woken
<1>11. CASE Resumed
  BY <1>11 DEF Resumed, ResetRunout
<1>12. CASE RunM24 \/ RunLine \/ EndLine \/ RunM1001
  BY <1>12 DEF RunM24, RunLine, EndLine, RunM1001
<1>13. CASE RunG28 \/ EndG28
  BY <1>13 DEF RunG28, EndG28
<1>14. CASE UNCHANGED vars
  BY <1>14 DEF vars
<1> QED
  BY <1>1, <1>2, <1>3, <1>4, <1>5, <1>6, <1>7, <1>8, <1>9, <1>10, <1>11, <1>12, <1>13, <1>14, <1>15
     DEF Next, Program

LEMMA NamesStep == Names /\ [Next]_vars => Names'
<1> SUFFICES ASSUME Names, [Next]_vars
             PROVE  Names'
  OBVIOUS
<1> USE DEF Names, mediaVars, runoutVars, displayVars, boundVars, StartTimer, PauseTimer,
        StopTimer, Resume
<1>1. CASE ReadLine \/ FileHasFinish
  BY <1>1 DEF ReadLine, FileHasFinish
<1>2. CASE FilamentOut \/ FilamentIn \/ Runout
  BY <1>2 DEF FilamentOut, FilamentIn, Runout
<1>3. CASE StartPrint \/ PauseKey \/ ResumeKey
  BY <1>3 DEF StartPrint, PauseKey, ResumeKey
<1>4. CASE StopKey \/ OpenMenu \/ CloseMenu
  BY <1>4 DEF StopKey, OpenMenu, CloseMenu
<1>5. CASE Abort \/ Lift \/ Aborted \/ FinishPrinting
  BY <1>5 DEF Abort, Lift, Aborted, FinishPrinting
<1>6. CASE RunPause \/ Woken \/ Resumed
  BY <1>6 DEF RunPause, Woken, Resumed
<1>7. CASE Parked
  BY <1>7 DEF Parked
<1>8. CASE RunM24 \/ RunLine \/ EndLine \/ RunM1001
  BY <1>8 DEF RunM24, RunLine, EndLine, RunM1001
<1>9. CASE RunG28 \/ EndG28
  BY <1>9 DEF RunG28, EndG28
<1>10. CASE UNCHANGED vars
  BY <1>10 DEF vars
<1> QED
  BY <1>1, <1>2, <1>3, <1>4, <1>5, <1>6, <1>7, <1>8, <1>9, <1>10 DEF Next, Program

LEMMA CountsStep == Counts /\ [Next]_vars => Counts'
<1> SUFFICES ASSUME Counts, [Next]_vars
             PROVE  Counts'
  OBVIOUS
<1> USE Constants DEF Counts, mediaVars, runoutVars, displayVars, boundVars
<1>1. CASE ReadLine \/ FileHasFinish
  BY <1>1 DEF ReadLine, FileHasFinish
<1>2. CASE FilamentOut \/ FilamentIn \/ Runout
  BY <1>2 DEF FilamentOut, FilamentIn, Runout
<1>3. CASE StartPrint \/ PauseKey \/ ResumeKey
  BY <1>3 DEF StartPrint, PauseKey, ResumeKey
<1>4. CASE StopKey \/ OpenMenu \/ CloseMenu
  BY <1>4 DEF StopKey, OpenMenu, CloseMenu
<1>5. CASE Abort \/ Lift \/ FinishPrinting
  BY <1>5 DEF Abort, Lift, FinishPrinting
<1>11. CASE Aborted
  BY <1>11 DEF Aborted
<1>6. CASE RunPause
  <2>1. did_pause_print' \in {did_pause_print, 1, 2}
    BY <1>6, Zenon DEF RunPause
  <2>2. did_pause_print' \in 0 .. 2
    BY <2>1
  <2> QED
    BY <1>6, <2>2 DEF RunPause
<1>12. CASE Woken \/ Parked
  BY <1>12 DEF Woken, Parked
<1>7. CASE Resumed
  BY <1>7 DEF Resumed, Unpause
<1>8. CASE RunM24 \/ RunLine \/ EndLine \/ RunM1001
  BY <1>8 DEF RunM24, RunLine, EndLine, RunM1001
<1>9. CASE RunG28 \/ EndG28
  BY <1>9 DEF RunG28, EndG28
<1>10. CASE UNCHANGED vars
  BY <1>10 DEF vars
<1> QED
  BY <1>1, <1>2, <1>3, <1>4, <1>5, <1>6, <1>7, <1>8, <1>9, <1>10, <1>11, <1>12 DEF Next, Program

LEMMA QueueStep == QueueTyped /\ [Next]_vars => QueueTyped'
<1> SUFFICES ASSUME QueueTyped, [Next]_vars
             PROVE  QueueTyped'
  OBVIOUS
<1> USE Constants DEF QueueTyped, Commands
<1>1. CASE UNCHANGED queue
  BY <1>1
<1>2. ASSUME NEW c \in Commands, Len(queue) < BufSize, queue' = Append(queue, c)
      PROVE  QueueTyped'
  BY <1>2
<1>3. ASSUME queue # <<>>, queue' = Tail(queue)
      PROVE  QueueTyped'
  BY <1>3
<1>4. CASE ReadLine
  BY <1>2, <1>4 DEF ReadLine, Room
<1>5. CASE StartPrint
  BY <1>2, <1>5 DEF StartPrint, Room
<1>6. CASE FinishPrinting
  BY <1>2, <1>6 DEF FinishPrinting, Room
<1>7. CASE Abort
  <2>1. queue' = <<>>
    BY <1>7 DEF Abort
  <2> QED
    BY <2>1
<1>8. CASE RunM24 \/ RunLine \/ RunM1001 \/ RunG28
  BY <1>1, <1>3, <1>8 DEF RunM24, RunLine, RunM1001, RunG28, Begin
<1> QED
  BY <1>1, <1>4, <1>5, <1>6, <1>7, <1>8 DEF Next, Program, FileHasFinish, FilamentOut, FilamentIn,
     Runout, PauseKey, ResumeKey, StopKey, OpenMenu, CloseMenu, Lift, Aborted, RunPause, Parked,
     Woken, Resumed, EndLine, EndG28, vars

LEMMA TypesAlways == Spec => []Types
<1>1. Init => Types
  <2> SUFFICES ASSUME Init PROVE Types
    OBVIOUS
  <2>1. Switches /\ Names
    BY DEF Init, Switches, Names, OffUdisk
  <2>2. Counts
    <3>1. lines = 0 /\ did_pause_print = 0 /\ jobs = 0 /\ pauses = 0 /\ runouts = 0
      BY DEF Init
    <3> QED
      BY <3>1, Constants DEF Counts
  <2>3. queue = <<>>
    BY DEF Init
  <2>4. QueueTyped
    BY <2>3, Constants DEF QueueTyped
  <2> QED
    BY <2>1, <2>2, <2>4 DEF Types
<1>2. Types /\ [Next]_vars => Types'
  BY SwitchesStep, NamesStep, CountsStep, QueueStep DEF Types
<1> QED
  BY <1>1, <1>2, PTL DEF Spec

(* Whatever the user presses when, every variable keeps its type: the      *)
(* queue never holds more than BUFSIZE commands, although four parts of    *)
(* the program fill it, and did_pause_print stays between 0 and 2.         *)
THEOREM TypeCorrect == Spec => []TypeOK
<1>1. Types => TypeOK
  <2> SUFFICES ASSUME Types PROVE TypeOK
    OBVIOUS
  <2>1. {finishing, complete, abort, wait_for_user, ran_out, out, printPaused,
         can_print_flag} \subseteq BOOLEAN
    BY DEF Types, Switches
  <2>2. udisk \in [flag : BOOLEAN, pause : BOOLEAN, stop : BOOLEAN]
    BY DEF Types, Switches
  <2> QED
    BY <2>1, <2>2 DEF Types, Names, Counts, QueueTyped, Commands, TypeOK
<1> QED
  BY <1>1, TypesAlways, PTL

-----------------------------------------------------------------------------
(* Parked *)

(* The occasions that say where the main program waits. *)
LEMMA WaitingOccasion ==
  pc \in {"homing", "parking", "waiting", "resuming"} => Occasion = pc
<1> SUFFICES ASSUME pc \in {"homing", "parking", "waiting", "resuming"}
             PROVE  Occasion = pc
  OBVIOUS
<1>1. pc \notin {"loop", "line", "quick stop", "lifting"}
  OBVIOUS
<1> QED
  BY <1>1 DEF Occasion

LEMMA PausedStep ==
  ASSUME NoStartParked, Types, PausedTogether, [Next]_vars
  PROVE  PausedTogether'
<1> USE DEF PausedTogether, Types, Switches, Counts
<1>1. CASE pc' \notin {"parking", "waiting"}
  BY <1>1
<1>2. CASE UNCHANGED <<did_pause_print, udisk>> /\ pc \in {"parking", "waiting"}
  BY <1>2
<1>3. CASE StartPrint
  <2>1. pc \notin {"parking", "waiting"}
    BY <1>3, WaitingOccasion DEF StartPrint, Pressed, NoStartParked
  <2> QED
    BY <1>3, <2>1 DEF StartPrint
<1>4. CASE FileHasFinish
  BY <1>4 DEF FileHasFinish
<1>5. CASE StopKey
  BY <1>5 DEF StopKey
<1>6. CASE RunPause
  <2>1. pc = "loop"
    BY <1>6 DEF RunPause, Advancing, InLoop
  <2>2. CASE did_pause_print > 0
    BY <1>6, <2>1, <2>2 DEF RunPause
  <2>3. CASE ~(did_pause_print > 0)
    <3>1. did_pause_print' = IF udisk.flag THEN 2 ELSE 1
      BY <1>6, <2>3, Zenon DEF RunPause
    <3>2. udisk' = [udisk EXCEPT !.pause = udisk.flag]
      BY <1>6, <2>3, Zenon DEF RunPause, PauseUdisk
    <3> QED
      BY <3>1, <3>2
  <2> QED
    BY <2>2, <2>3
<1>7. CASE Aborted \/ Resumed \/ Woken \/ RunM24
  BY <1>1, <1>7 DEF Aborted, Resumed, Woken, RunM24, Resume
<1>8. CASE Abort \/ Lift \/ FinishPrinting \/ RunLine \/ EndLine \/ RunM1001 \/ RunG28 \/ EndG28
  BY <1>1, <1>8 DEF Abort, Lift, FinishPrinting, InLoop, Advancing, RunLine, EndLine, RunM1001,
     Begin, RunG28, EndG28
<1> QED
  BY <1>1, <1>2, <1>3, <1>4, <1>5, <1>6, <1>7, <1>8 DEF Next, Program, ReadLine, FilamentOut,
     FilamentIn, Runout, PauseKey, ResumeKey, OpenMenu, CloseMenu, Parked, mediaVars, vars

(* While the head is parked nothing of the file is read: the counter of    *)
(* pause.cpp and the flags of the U disk print agree, unless a print is    *)
(* started meanwhile.                                                      *)
THEOREM ParkedIsPaused ==
  ASSUME NoStartParked
  PROVE  Spec => []PausedTogether
<1>1. Init => PausedTogether
  BY DEF Init, PausedTogether
<1>2. Types /\ PausedTogether /\ [Next]_vars => PausedTogether'
  BY PausedStep, NoStartParked
<1> QED
  BY <1>1, <1>2, TypesAlways, PTL DEF Spec

-----------------------------------------------------------------------------
(* A stop *)

(* Neither the reading of the file, nor the sensor, nor the display but    *)
(* for its start and stop, has a part in a stop.                           *)
LEMMA StopAsideStep ==
  ASSUME Types, StopPending,
         \/ ReadLine \/ FileHasFinish \/ FilamentOut \/ FilamentIn \/ Runout
         \/ PauseKey \/ ResumeKey \/ OpenMenu \/ CloseMenu \/ UNCHANGED vars
  PROVE  StopPending'
<1> USE DEF StopPending, Types, Switches, mediaVars, runoutVars, displayVars
<1>1. CASE ReadLine
  BY <1>1 DEF ReadLine
<1>2. CASE FileHasFinish
  BY <1>2 DEF FileHasFinish
<1>3. CASE UNCHANGED <<pc, queue, udisk, abort, timer, can_print_flag>>
  BY <1>3, Zenon
<1>4. CASE ResumeKey
  BY <1>4 DEF ResumeKey, KeyLive, isPrinting, StartTimer
<1> QED
  BY <1>1, <1>2, <1>3, <1>4 DEF FilamentOut, FilamentIn, Runout, PauseKey, OpenMenu, CloseMenu, vars

LEMMA StopProgramStep ==
  ASSUME Types, StopPending, Program
  PROVE  StopPending'
<1> USE DEF StopPending, Types, Switches, mediaVars, runoutVars, displayVars, Advancing, InLoop
<1>1. CASE Abort
  BY <1>1 DEF Abort
<1>2. CASE Lift
  BY <1>2 DEF Lift, StopTimer
<1>3. CASE Aborted
  BY <1>3 DEF Aborted, OffUdisk
<1>4. CASE FinishPrinting
  BY <1>4 DEF FinishPrinting
<1>5. CASE RunPause
  BY <1>5 DEF RunPause, PauseUdisk, Advancing
<1>6. CASE /\ UNCHANGED <<udisk, abort, can_print_flag>>
           /\ pc \notin {"quick stop", "lifting"} /\ pc' \notin {"homing", "quick stop", "lifting"}
  BY <1>6
<1>11. CASE Parked \/ Woken
  BY <1>6, <1>11 DEF Parked, Woken, Resume
<1>7. CASE Resumed
  BY <1>7 DEF Resumed
<1>8. CASE RunM24 \/ RunLine \/ RunM1001
  BY <1>6, <1>8 DEF RunM24, RunLine, RunM1001, Begin, Resume
<1>9. CASE RunG28
  BY <1>9 DEF RunG28, Begin
<1>10. CASE EndLine
  BY <1>6, <1>10 DEF EndLine
<1>12. CASE EndG28
  BY <1>12 DEF EndG28
<1> QED
  BY <1>1, <1>2, <1>3, <1>4, <1>5, <1>7, <1>8, <1>9, <1>10, <1>11, <1>12 DEF Program

LEMMA StopPendingStep ==
  ASSUME NoStopHoming, Types, StopPending, [Next]_vars
  PROVE  StopPending'
<1>1. CASE StartPrint
  BY <1>1 DEF StartPrint, OffUdisk, StopPending, Types, Switches
<1>2. CASE StopKey
  <2>1. pc # "homing"
    BY <1>2, WaitingOccasion DEF StopKey, Pressed, NoStopHoming
  <2> QED
    BY <1>2, <2>1 DEF StopKey, LockPrint, AbortPrint, StopPending, Types, Switches
<1> QED
  BY <1>1, <1>2, StopAsideStep, StopProgramStep DEF Next

LEMMA StopPendingAlways ==
  ASSUME NoStopHoming
  PROVE  Spec => []StopPending
<1>1. Init => StopPending
  <2> SUFFICES ASSUME Init PROVE StopPending
    OBVIOUS
  <2>1. ~abort /\ ~udisk.stop /\ pc = "loop"
    BY DEF Init, OffUdisk
  <2> QED
    BY <2>1 DEF StopPending
<1>2. Types /\ StopPending /\ [Next]_vars => StopPending'
  BY StopPendingStep, NoStopHoming
<1> QED
  BY <1>1, <1>2, TypesAlways, PTL DEF Spec

(* A print ends by its end of file or by a stop of its own, never by the   *)
(* udisk.init() that ends the stop of the print before it, whenever keys   *)
(* are pressed but for a stop in the middle of a G28: the end of that G28  *)
(* gives the start of the next print free while the stop is still pending. *)
THEOREM PrintsAreNotLost ==
  ASSUME NoStopHoming
  PROVE  Spec => NoPrintLost
<1>1. Types /\ StopPending /\ [Next]_vars =>
        [udisk.flag /\ ~udisk'.flag => finishing \/ udisk'.stop]_vars
  <2> SUFFICES ASSUME Types, StopPending, [Next]_vars, udisk.flag, ~udisk'.flag
               PROVE  finishing \/ udisk'.stop
    BY Zenon
  <2> USE DEF Types, Switches, StopPending
  <2>1. CASE UNCHANGED udisk
    BY <2>1
  <2>2. CASE StartPrint
    BY <2>2 DEF StartPrint, OffUdisk
  <2>3. CASE StopKey
    BY <2>3 DEF StopKey
  <2>4. CASE FileHasFinish \/ Aborted
    BY <2>4 DEF FileHasFinish, Aborted
  <2>5. CASE RunPause
    BY <2>5 DEF RunPause, PauseUdisk
  <2>6. CASE Resumed
    BY <2>6 DEF Resumed
  <2> QED
    BY <2>1, <2>2, <2>3, <2>4, <2>5, <2>6 DEF Next, Program, ReadLine, FilamentOut, FilamentIn,
       Runout, PauseKey, ResumeKey, OpenMenu, CloseMenu, Abort, Lift, FinishPrinting, Parked,
       Woken, RunM24, RunLine, EndLine, RunM1001, RunG28, EndG28, mediaVars, vars
<1> QED
  BY <1>1, TypesAlways, StopPendingAlways, NoStopHoming, PTL DEF Spec, NoPrintLost

-----------------------------------------------------------------------------
(* The filament sensor *)

LEMMA RunoutStep ==
  ASSUME Types, StopPending, RunoutPauses, [Next]_vars
  PROVE  RunoutPauses'
<1>paused. did_pause_print > 0 => did_pause_print # 0
  BY DEF Types, Counts
<1>taken. \A b \in BOOLEAN : (IF b THEN 2 ELSE 1) # 0
  OBVIOUS
<1> USE DEF RunoutPauses, printingIsActive
<1>1. CASE UNCHANGED <<inject, timer, did_pause_print, ran_out>>
  BY <1>1
<1>2. CASE ~ran_out'
  BY <1>2
<1>3. CASE timer' = "stopped"
  BY <1>3
<1>4. CASE Runout
  <2>1. did_pause_print' = did_pause_print
    BY <1>4 DEF Runout
  <2>2. CASE did_pause_print > 0
    BY <1>paused, <2>1, <2>2
  <2>3. CASE ~(did_pause_print > 0)
    BY <1>4, <2>3 DEF Runout
  <2> QED
    BY <2>2, <2>3
<1>5. CASE PauseKey
  BY <1>5 DEF PauseKey
<1>6. CASE ResumeKey
  BY <1>2, <1>6 DEF ResumeKey, StartTimer
<1>7. CASE RunPause
  <2>1. CASE did_pause_print > 0
    <3>1. did_pause_print' = did_pause_print
      BY <1>7, <2>1, Zenon DEF RunPause
    <3> QED
      BY <1>paused, <2>1, <3>1
  <2>2. CASE ~(did_pause_print > 0)
    <3>1. did_pause_print' = IF udisk.flag THEN 2 ELSE 1
      BY <1>7, <2>2, Zenon DEF RunPause
    <3>2. did_pause_print' # 0
      BY <1>taken, <3>1, Zenon DEF Types, Switches
    <3> QED
      BY <3>2
  <2> QED
    BY <2>1, <2>2
<1>8. CASE StartPrint \/ Resumed
  BY <1>2, <1>8 DEF StartPrint, Resumed, ResetRunout
<1>9. CASE Lift \/ RunM1001
  BY <1>3, <1>9 DEF Lift, RunM1001, StopTimer
<1>10. CASE Aborted
  BY <1>10 DEF Aborted, StopPending
<1>11. CASE RunG28
  <2>1. UNCHANGED <<timer, did_pause_print, ran_out>>
    BY <1>11 DEF RunG28, runoutVars
  <2>2. inject' = inject \/ inject = "G28"
    BY <1>11 DEF RunG28
  <2> QED
    BY <2>1, <2>2
<1> QED
  BY <1>1, <1>4, <1>5, <1>6, <1>7, <1>8, <1>9, <1>10, <1>11 DEF Next, Program, ReadLine,
     FileHasFinish, FilamentOut, FilamentIn, StopKey, OpenMenu, CloseMenu, Abort,
     FinishPrinting, Parked, Woken, RunM24, RunLine, EndLine, EndG28, runoutVars, vars

(* The sensor's latch is set in a running print only while the pause it    *)
(* asked for is still to come, under the same condition: then no part of   *)
(* the program overwrites the injected M600, and no latch is left over.    *)
THEOREM RunoutIsNotMissed ==
  ASSUME NoStopHoming
  PROVE  Spec => []RunoutPauses
<1>1. Init => RunoutPauses
  BY DEF Init, RunoutPauses
<1>2. Types /\ StopPending /\ RunoutPauses /\ [Next]_vars => RunoutPauses'
  BY RunoutStep
<1> QED
  BY <1>1, <1>2, TypesAlways, StopPendingAlways, NoStopHoming, PTL DEF Spec

-----------------------------------------------------------------------------
(* The commands of a print in the queue *)

(* A command is in the longer queue if it was in the queue or is the one   *)
(* appended, and only the new one has moved to the end.                    *)
LEMMA QueueAppend ==
  ASSUME QueueTyped, NEW c \in Commands, queue' = Append(queue, c)
  PROVE  /\ \A x : Holds(x)' => Holds(x) \/ x = c
         /\ \A i \in 1 .. Len(queue') : i = Len(queue') \/ (i \in 1 .. Len(queue) /\ queue'[i] = queue[i])
         /\ queue # <<>> => queue' # <<>> /\ Head(queue') = Head(queue)
<1>1. queue \in Seq(Commands) /\ Len(queue) \in Nat
  BY DEF QueueTyped
<1>2. /\ Len(queue') = Len(queue) + 1
      /\ \A i \in 1 .. Len(queue) : queue'[i] = queue[i]
      /\ queue'[Len(queue) + 1] = c
  BY <1>1, AppendProperties
<1>3. \A i \in 1 .. Len(queue') : i \in 1 .. Len(queue) \/ i = Len(queue')
  BY <1>1, <1>2
<1>4. queue # <<>> => Head(queue') = Head(queue)
  BY <1>1
<1>5. queue' # <<>>
  BY <1>1
<1> QED
  BY <1>2, <1>3, <1>4, <1>5, Zenon DEF Holds

(* What is left of the queue was in it, one place further on.              *)
LEMMA QueueTail ==
  ASSUME QueueTyped, queue # <<>>, queue' = Tail(queue)
  PROVE  /\ Len(queue') = Len(queue) - 1 /\ Len(queue) \in Nat \ {0}
         /\ \A i \in 1 .. Len(queue') : i + 1 \in 1 .. Len(queue) /\ queue'[i] = queue[i + 1]
         /\ \A x : Holds(x)' => Holds(x)
         /\ Holds(Head(queue))
<1>1. queue \in Seq(Commands)
  BY DEF QueueTyped
<1>2. /\ Len(queue) \in Nat \ {0} /\ Len(queue') = Len(queue) - 1
      /\ \A i \in 1 .. Len(queue') : queue'[i] = queue[i + 1]
      /\ Head(queue) = queue[1]
  BY <1>1, HeadTailProperties, EmptySeq
<1>3. \A i \in 1 .. Len(queue') : i + 1 \in 1 .. Len(queue)
  BY <1>2
<1>4. 1 \in 1 .. Len(queue)
  BY <1>2
<1> QED
  BY <1>2, <1>3, <1>4, Zenon DEF Holds

LEMMA QueueEmpty ==
  ASSUME queue = <<>>
  PROVE  \A x : ~Holds(x)
BY DEF Holds

(* A print is started only when nothing of the one before is left.         *)
LEMMA StartedAtRest ==
  ASSUME NoStartEarly, Types, StopPending, StartPrint
  PROVE  ~abort /\ ~udisk.flag /\ pc = "loop" /\ ~complete /\ queue = <<>>
<1>1. <<"start", Occasion>> \in Presses /\ can_print_flag
  BY DEF StartPrint, Pressed
<1>2. ~abort /\ pc # "homing" /\ ~udisk.stop
  BY <1>1 DEF StopPending
<1>3. ~udisk.flag
  BY <1>2, Zenon DEF StartPrint, isPrinting
<1>4. pc \notin {"homing", "parking", "waiting", "resuming"}
  <2>1. Occasion \notin {"parking", "waiting", "resuming"}
    BY <1>1 DEF NoStartEarly
  <2> QED
    BY <1>2, <2>1, WaitingOccasion
<1>5. pc \in {"loop", "line", "quick stop", "lifting"}
  BY <1>4 DEF Types, Names
<1>6. Occasion # "ending"
  BY <1>1 DEF NoStartEarly
<1> QED
  BY <1>2, <1>3, <1>5, <1>6 DEF Occasion

LEMMA EndInOrderStep ==
  ASSUME NoStartEarly, Types, StopPending, EndInOrder, [Next]_vars
  PROVE  EndInOrder'
<1>1. QueueTyped
  BY DEF Types
<1> USE DEF EndInOrder
<1>2. ASSUME queue' = queue, udisk'.flag = udisk.flag, UNCHANGED <<finishing, complete, abort>>
      PROVE  EndInOrder'
  BY <1>2, Zenon DEF Holds
<1>3. ASSUME queue' = <<>>, UNCHANGED <<udisk, finishing, complete, abort>>
      PROVE  EndInOrder'
  BY <1>3 DEF Holds
<1>4. ASSUME queue # <<>>, queue' = Tail(queue), UNCHANGED <<udisk, finishing, complete, abort>>
      PROVE  EndInOrder'
  <2>1. \A i \in 1 .. Len(queue') : queue'[i] = "M1001" => i = Len(queue')
    <3> SUFFICES ASSUME NEW i \in 1 .. Len(queue'), queue'[i] = "M1001"
                 PROVE  i = Len(queue')
      OBVIOUS
    <3>1. i + 1 \in 1 .. Len(queue) /\ queue[i + 1] = "M1001"
      BY <1>1, <1>4, QueueTail
    <3>2. i + 1 = Len(queue)
      BY <3>1
    <3> QED
      BY <1>1, <1>4, <3>2, QueueTail
  <2>2. Holds("M1001")' => Holds("M1001")
    BY <1>1, <1>4, QueueTail
  <2> QED
    BY <1>4, <2>1, <2>2
<1>5. CASE ReadLine
  <2>1. /\ udisk.flag /\ UNCHANGED <<udisk, complete, abort>>
        /\ finishing' \in BOOLEAN
        /\ \E c \in {"G28", "line"} : queue' = Append(queue, c)
    BY <1>5 DEF ReadLine
  <2>2. PICK c \in Commands \ {"M1001"} : queue' = Append(queue, c)
    BY <2>1 DEF Commands
  <2>3. ~Holds("M1001")' /\ ~complete
    BY <1>1, <2>1, <2>2, QueueAppend
  <2>4. \A i \in 1 .. Len(queue') : queue'[i] # "M1001"
    BY <2>3 DEF Holds
  <2> QED
    BY <2>1, <2>3, <2>4
<1>6. CASE FileHasFinish
  <2>1. ~Holds("M1001")
    BY <1>6 DEF FileHasFinish
  <2>2. /\ queue' = queue /\ ~finishing' /\ ~udisk'.flag
    BY <1>6 DEF FileHasFinish, Types, Switches
  <2>3. ~Holds("M1001")'
    BY <2>1, <2>2 DEF Holds
  <2>4. \A i \in 1 .. Len(queue') : queue'[i] # "M1001"
    BY <2>3 DEF Holds
  <2> QED
    BY <2>2, <2>3, <2>4
<1>7. CASE StartPrint
  <2>1. ~abort /\ ~udisk.flag /\ ~complete /\ queue = <<>>
    BY <1>7, StartedAtRest
  <2>2. /\ queue' = Append(queue, "M24") /\ UNCHANGED <<finishing, complete>>
    BY <1>7 DEF StartPrint
  <2>3. ~Holds("M1001")'
    BY <1>1, <2>1, <2>2, QueueAppend, QueueEmpty DEF Commands
  <2>4. \A i \in 1 .. Len(queue') : queue'[i] # "M1001"
    BY <2>3 DEF Holds
  <2> QED
    BY <2>1, <2>2, <2>3, <2>4
<1>8. CASE StopKey
  <2>1. udisk.flag /\ abort' /\ ~udisk'.flag /\ UNCHANGED <<queue, finishing, complete>>
    BY <1>8 DEF StopKey, isPrinting, AbortPrint, Types, Switches
  <2>2. ~complete /\ ~Holds("M1001")
    BY <2>1
  <2>3. ~Holds("M1001")'
    BY <2>1, <2>2 DEF Holds
  <2>4. \A i \in 1 .. Len(queue') : queue'[i] # "M1001"
    BY <2>3 DEF Holds
  <2> QED
    BY <2>1, <2>2, <2>3, <2>4
<1>9. CASE Abort
  BY <1>3, <1>9 DEF Abort, mediaVars
<1>10. CASE Aborted
  <2>1. /\ queue' = <<>> /\ ~udisk'.flag /\ ~finishing'
    BY <1>10 DEF Aborted, OffUdisk, StopPending
  <2> QED
    BY <2>1 DEF Holds
<1>11. CASE FinishPrinting
  <2>1. /\ ~finishing' /\ ~complete' /\ ~udisk'.flag
        /\ queue' = Append(queue, "M1001") /\ ~Holds("M1001")
    BY <1>11 DEF FinishPrinting, InLoop
  <2>2. \A i \in 1 .. Len(queue) : queue[i] # "M1001"
    BY <2>1 DEF Holds
  <2>3. \A i \in 1 .. Len(queue') : queue'[i] = "M1001" => i = Len(queue')
    BY <1>1, <2>1, <2>2, QueueAppend DEF Commands
  <2> QED
    BY <2>1, <2>3
<1>12. CASE RunPause
  BY <1>2, <1>12 DEF RunPause, PauseUdisk, Types, Switches
<1>13. CASE Resumed
  BY <1>2, <1>13 DEF Resumed, Types, Switches
<1>14. CASE RunM24 \/ RunLine \/ RunM1001 \/ RunG28
  BY <1>2, <1>4, <1>14 DEF RunM24, RunLine, RunM1001, RunG28, Begin, mediaVars
<1> QED
  BY <1>2, <1>5, <1>6, <1>7, <1>8, <1>9, <1>10, <1>11, <1>12, <1>13, <1>14 DEF Next, Program,
     FilamentOut, FilamentIn, Runout, PauseKey, ResumeKey, OpenMenu, CloseMenu, Lift, Parked,
     Woken, EndLine, EndG28, mediaVars, vars

(* After M1001, the last command of a print, nothing is under way.         *)
LEMMA OverAfterM1001 ==
  ASSUME Types, EndInOrder, RunM1001
  PROVE  ~UnderWay'
<1>1. queue # <<>> /\ queue' = Tail(queue) /\ Head(queue) = "M1001" /\ udisk' = udisk
  BY DEF RunM1001, Begin, mediaVars
<1>2. QueueTyped /\ queue \in Seq(Commands)
  BY DEF Types, QueueTyped
<1>3. Holds("M1001") /\ Len(queue') = Len(queue) - 1 /\ Len(queue) \in Nat \ {0}
  BY <1>1, <1>2, QueueTail
<1>4. queue[1] = "M1001" /\ 1 \in 1 .. Len(queue)
  BY <1>1, <1>2, <1>3
<1>5. Len(queue') = 0
  BY <1>3, <1>4 DEF EndInOrder
<1>6. ~udisk'.flag
  BY <1>1, <1>3 DEF EndInOrder
<1> QED
  BY <1>5, <1>6 DEF UnderWay, Holds

(* A print comes under way by its start only.                              *)
LEMMA UnderWayStep ==
  ASSUME Types, [Next]_vars, UnderWay', ~StartPrint
  PROVE  UnderWay
<1>1. QueueTyped
  BY DEF Types
<1>2. ASSUME queue' = queue, udisk'.flag => udisk.flag
      PROVE  UnderWay
  BY <1>2 DEF UnderWay, Holds
<1>3. ASSUME queue # <<>>, queue' = Tail(queue), udisk' = udisk
      PROVE  UnderWay
  BY <1>1, <1>3, QueueTail DEF UnderWay
<1>4. CASE ReadLine
  BY <1>4 DEF ReadLine, UnderWay
<1>5. CASE FileHasFinish \/ StopKey
  BY <1>2, <1>5 DEF FileHasFinish, StopKey, Types, Switches
<1>9. CASE RunPause \/ Resumed
  BY <1>2, <1>9 DEF RunPause, PauseUdisk, Resumed, Types, Switches
<1>10. CASE Aborted
  BY <1>2, <1>10 DEF Aborted, OffUdisk
<1>6. CASE Abort
  <2>1. queue' = <<>> /\ udisk' = udisk
    BY <1>6 DEF Abort, mediaVars
  <2> QED
    BY <2>1 DEF UnderWay, Holds
<1>7. CASE FinishPrinting
  BY <1>1, <1>7, QueueAppend DEF FinishPrinting, UnderWay, Commands
<1>8. CASE RunM24 \/ RunLine \/ RunM1001 \/ RunG28
  BY <1>2, <1>3, <1>8 DEF RunM24, RunLine, RunM1001, RunG28, Begin, mediaVars
<1> QED
  BY <1>2, <1>4, <1>5, <1>6, <1>7, <1>8, <1>9, <1>10 DEF Next, Program,
     FilamentOut, FilamentIn, Runout, PauseKey, ResumeKey, OpenMenu, CloseMenu, Lift, Parked,
     Woken, EndLine, EndG28, mediaVars, vars

LEMMA TimerKeptStep ==
  ASSUME NoStartEarly, Types, StopPending, PausedTogether, EndInOrder, TimerKept, [Next]_vars
  PROVE  TimerKept'
<1>1. CASE StartPrint
  BY <1>1 DEF StartPrint, StartTimer, TimerKept
<1> SUFFICES ASSUME ~StartPrint, ~abort', UnderWay'
             PROVE  timer' = "running" \/ (Pausing' /\ timer' = "paused")
  BY <1>1 DEF TimerKept
<1>2. UnderWay
  BY UnderWayStep
<1>3. ~abort => timer = "running" \/ (Pausing /\ timer = "paused")
  BY <1>2 DEF TimerKept
<1>4. CASE UNCHANGED <<abort, timer>> /\ (Pausing => Pausing')
  BY <1>3, <1>4, Zenon
<1>5. CASE UNCHANGED <<abort, timer, pc>>
  BY <1>3, <1>5 DEF Pausing
<1>6. CASE Aborted
  <2>1. queue' = <<>> /\ ~udisk'.flag
    BY <1>6 DEF Aborted, StopPending, OffUdisk
  <2> QED
    BY <2>1 DEF UnderWay, Holds
<1>7. CASE RunM1001
  BY <1>7, OverAfterM1001
<1>8. CASE Lift
  BY <1>8 DEF Lift, StopPending
<1>9. CASE RunPause
  <2>1. /\ pc = "loop" /\ ~abort
        /\ UNCHANGED <<abort, pc, timer>> \/ (pc' = "parking" /\ PauseTimer)
    BY <1>9 DEF RunPause, Advancing, InLoop
  <2> QED
    BY <1>3, <2>1 DEF PauseTimer, Pausing
<1>10. CASE Resumed
  <2>1. abort' = abort /\ timer' = IF timer = "paused" THEN "running" ELSE timer
    BY <1>10 DEF Resumed
  <2> QED
    BY <1>3, <2>1
<1>11. CASE Woken
  <2>1. did_pause_print > 0
    BY <1>11 DEF Woken, PausedTogether
  <2>2. did_pause_print # 0
    BY <2>1 DEF Types, Counts
  <2>3. UNCHANGED <<abort, timer>> /\ pc' = "resuming"
    BY <1>11, <2>2 DEF Woken, Resume
  <2> QED
    BY <1>4, <2>3 DEF Pausing
<1>12. CASE Parked \/ RunM24 \/ RunLine \/ EndLine \/ RunG28 \/ EndG28 \/ Abort
  <2>1. UNCHANGED <<abort, timer>> /\ (Pausing => Pausing')
    BY <1>12 DEF Parked, RunM24, RunLine, EndLine, RunG28, EndG28, Abort, Begin, Advancing,
       InLoop, Pausing
  <2> QED
    BY <1>4, <2>1
<1>13. CASE StopKey
  BY <1>13 DEF StopKey, AbortPrint
<1>14. CASE ResumeKey
  <2>1. UNCHANGED <<abort, timer, pc>> \/ timer' = "running"
    BY <1>14 DEF ResumeKey, StartTimer
  <2> QED
    BY <1>5, <2>1
<1> QED
  BY <1>5, <1>6, <1>7, <1>8, <1>9, <1>10, <1>11, <1>12, <1>13, <1>14 DEF Next, Program, ReadLine,
     FileHasFinish, FilamentOut, FilamentIn, Runout, PauseKey, OpenMenu, CloseMenu,
     FinishPrinting, vars

LEMMA PauseTakenStep ==
  ASSUME NoStartEarly, Types, StopPending, PauseTaken, [Next]_vars
  PROVE  PauseTaken'
<1>1. CASE StartPrint
  <2>1. queue' = Append(<<>>, "M24")
    BY <1>1, StartedAtRest DEF StartPrint
  <2>2. <<>> \in Seq(Commands) /\ Len(<<>>) = 0 /\ "M24" \in Commands
    BY EmptySeq DEF Commands
  <2>3. Len(queue') = 1 /\ queue'[1] = "M24"
    BY <2>1, <2>2, AppendProperties
  <2>4. queue' # <<>> /\ Head(queue') = "M24"
    BY <2>2, <2>3
  <2> QED
    BY <2>4 DEF PauseTaken
<1> SUFFICES ASSUME ~StartPrint, ~abort', UnderWay', did_pause_print' > 0, ~Pausing'
             PROVE  queue' # <<>> /\ Head(queue') = "M24"
  BY <1>1 DEF PauseTaken
<1>2. UnderWay /\ QueueTyped
  BY UnderWayStep DEF Types
<1>3. ~abort /\ did_pause_print > 0 /\ ~Pausing => queue # <<>> /\ Head(queue) = "M24"
  BY <1>2 DEF PauseTaken
<1>4. CASE UNCHANGED <<abort, did_pause_print, queue>> /\ (~Pausing' => ~Pausing)
  BY <1>3, <1>4, Zenon
<1>5. CASE UNCHANGED <<abort, did_pause_print, queue, pc>>
  BY <1>3, <1>5 DEF Pausing
<1>6. CASE Aborted
  <2>1. queue' = <<>> /\ ~udisk'.flag
    BY <1>6 DEF Aborted, StopPending, OffUdisk
  <2> QED
    BY <2>1 DEF UnderWay, Holds
<1>7. CASE RunPause
  <2>1. UNCHANGED <<abort, did_pause_print, queue, pc>> \/ pc' = "parking"
    BY <1>7 DEF RunPause
  <2> QED
    BY <1>5, <2>1 DEF Pausing
<1>8. CASE Resumed
  <2>1. did_pause_print' = 0
    BY <1>8 DEF Resumed, Unpause
  <2> QED
    BY <2>1
<1>9. CASE Woken
  <2>1. abort' = abort /\ did_pause_print' = did_pause_print
        /\ pc' = IF did_pause_print = 0 \/ abort THEN "loop" ELSE "resuming"
    BY <1>9 DEF Woken, Resume
  <2>2. did_pause_print # 0
    BY <2>1 DEF Types, Counts
  <2> QED
    BY <2>1, <2>2 DEF Pausing
<1>10. CASE RunM24
  <2>1. /\ did_pause_print' = did_pause_print /\ ~abort
        /\ pc' = IF did_pause_print = 0 \/ abort THEN "loop" ELSE "resuming"
    BY <1>10 DEF RunM24, Resume, Begin, Advancing, InLoop
  <2>2. did_pause_print # 0
    BY <2>1 DEF Types, Counts
  <2> QED
    BY <2>1, <2>2 DEF Pausing
<1>11. ASSUME Begin("line") \/ Begin("M1001") \/ Begin("G28"), did_pause_print' = did_pause_print
       PROVE  FALSE
  <2>1. ~abort /\ ~Pausing /\ Head(queue) # "M24"
    BY <1>11 DEF Begin, Advancing, InLoop, Pausing
  <2> QED
    BY <1>3, <1>11, <2>1
<1>12. CASE RunLine \/ RunM1001
  BY <1>11, <1>12 DEF RunLine, RunM1001
<1>13. CASE RunG28
  <2>1. CASE Begin("G28")
    BY <1>11, <1>13, <2>1 DEF RunG28
  <2>2. CASE ~Begin("G28")
    <3>1. UNCHANGED <<abort, did_pause_print, queue>> /\ pc = "loop"
      BY <1>13, <2>2 DEF RunG28, Advancing, InLoop
    <3> QED
      BY <1>4, <3>1 DEF Pausing
  <2> QED
    BY <2>1, <2>2
<1>14. CASE Abort \/ StopKey
  <2>1. abort' = TRUE \/ (Abort /\ abort' = abort)
    BY <1>14 DEF Abort, StopKey, AbortPrint
  <2>2. Abort => abort
    BY DEF Abort, StopPending
  <2> QED
    BY <2>1, <2>2
<1>15. CASE ReadLine \/ FinishPrinting
  <2>1. /\ UNCHANGED <<abort, did_pause_print, pc>>
        /\ \E c \in Commands : queue' = Append(queue, c)
    BY <1>15 DEF ReadLine, FinishPrinting, Commands
  <2> QED
    BY <1>2, <1>3, <2>1, QueueAppend DEF Pausing
<1>16. CASE Parked \/ Lift \/ EndLine \/ EndG28
  <2>1. UNCHANGED <<abort, did_pause_print, queue>> /\ (~Pausing' => ~Pausing)
    BY <1>16 DEF Parked, Lift, EndLine, EndG28, Pausing
  <2> QED
    BY <1>4, <2>1
<1> QED
  BY <1>5, <1>6, <1>7, <1>8, <1>9, <1>10, <1>12, <1>13, <1>14, <1>15, <1>16 DEF Next, Program,
     FileHasFinish, FilamentOut, FilamentIn, Runout, PauseKey, ResumeKey, OpenMenu, CloseMenu, vars

LEMMA LastingAlways ==
  ASSUME NoStartEarly, NoStopHoming
  PROVE  Spec => []Lasting
<1>1. Init => Lasting /\ PausedTogether
  <2> SUFFICES ASSUME Init PROVE Lasting /\ PausedTogether
    OBVIOUS
  <2>1. queue = <<>> /\ ~udisk.flag /\ ~finishing /\ ~complete /\ pc = "loop"
    BY DEF Init, OffUdisk
  <2>2. EndInOrder
    BY <2>1 DEF EndInOrder, Holds
  <2>3. ~UnderWay
    BY <2>1 DEF UnderWay, Holds
  <2> QED
    BY <2>1, <2>2, <2>3 DEF Lasting, TimerKept, PauseTaken, PausedTogether
<1>2. NoStartParked
  BY NoStartEarly DEF NoStartEarly, NoStartParked
<1>3. Types /\ StopPending /\ PausedTogether /\ Lasting /\ [Next]_vars
        => Lasting' /\ PausedTogether'
  BY <1>2, NoStartEarly, PausedStep, EndInOrderStep, TimerKeptStep, PauseTakenStep DEF Lasting
<1> QED
  BY <1>1, <1>3, TypesAlways, StopPendingAlways, NoStopHoming, PTL DEF Spec

(* A line of the file starts only while printingIsActive(), so that the    *)
(* sensor and the recovery record are in force for the whole print, if no  *)
(* print is started before the one before it is over and none is stopped   *)
(* in the middle of a G28.                                                 *)
THEOREM LinesAreActive ==
  ASSUME NoStartEarly, NoStopHoming
  PROVE  Spec => ActiveWhilePrinting
<1>1. Types /\ Lasting /\ [Next]_vars => [pc # "line" /\ pc' = "line" => printingIsActive]_vars
  <2> SUFFICES ASSUME Types, Lasting, [Next]_vars, pc # "line", pc' = "line"
               PROVE  printingIsActive
    BY Zenon
  <2>1. RunLine
    <3>1. ~(Abort \/ Lift \/ Aborted \/ RunPause \/ Parked \/ Resumed \/ EndLine \/ RunG28 \/ EndG28)
      BY DEF Abort, Lift, Aborted, RunPause, Parked, Resumed, EndLine, RunG28, EndG28
    <3>2. ~(Woken \/ RunM24)
      BY DEF Woken, RunM24, Resume
    <3>3. pc' # pc
      OBVIOUS
    <3> QED
      BY <3>1, <3>2, <3>3 DEF Next, Program, ReadLine, FileHasFinish, FilamentOut, FilamentIn,
         Runout, StartPrint, PauseKey, ResumeKey, StopKey, OpenMenu, CloseMenu, FinishPrinting,
         RunM1001, vars
  <2>2. QueueTyped /\ queue # <<>> /\ queue' = Tail(queue) /\ Head(queue) = "line"
    BY <2>1 DEF RunLine, Begin, Types
  <2>3. UnderWay
    BY <2>2, QueueTail DEF UnderWay
  <2>4. ~abort /\ ~Pausing
    BY <2>1 DEF RunLine, Begin, Advancing, InLoop, Pausing
  <2>5. timer = "running" /\ ~(did_pause_print > 0)
    BY <2>2, <2>3, <2>4 DEF Lasting, TimerKept, PauseTaken
  <2>6. did_pause_print = 0
    BY <2>5 DEF Types, Counts
  <2> QED
    BY <2>5, <2>6 DEF printingIsActive
<1> QED
  BY <1>1, TypesAlways, LastingAlways, NoStartEarly, NoStopHoming, PTL DEF Spec, ActiveWhilePrinting
=============================================================================
