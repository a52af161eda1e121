----------------------------- MODULE PrintPause -----------------------------
(***************************************************************************)
(* Starting, pausing, resuming and stopping a print from the U disk, and   *)
(* the filament sensor (feature/pause.cpp, feature/runout.h, M24, M25,     *)
(* M125, M600, udisk/udiskPrint.cpp, abortSDPrinting, the display's        *)
(* printing menu).                                                         *)
(*                                                                         *)
(* A handler that waits calls idle(), and idle() runs the display, the     *)
(* sensor and the reading of the file: so all of these act between any two *)
(* steps of the program.  The moves themselves, heating and the SD card    *)
(* are left out (no SD file is open); Planner and GCodeQueue model how     *)
(* moves and commands wait.  M108 is left out because it changes nothing   *)
(* here: read early it clears wait_for_heatup only, and its handler cannot *)
(* run while another one waits.                                            *)
(***************************************************************************)
EXTENDS Integers, Sequences

CONSTANTS
  BufSize,     \* BUFSIZE
  FileLines,   \* lines of a file; the first is a G28
  Presses,     \* <<key, occasion>>: when the user presses which key
  MaxJobs, MaxPauses, MaxRunouts   \* bounds: starts, presses of pause, runouts

Keys      == {"start", "pause", "resume", "stop"}
Occasions == {"idle", "printing", "ending", "stopping", "homing", "parking", "waiting",
              "resuming"}

ASSUME PrintPauseAssumption ==
  /\ BufSize \in Nat /\ BufSize > 2 /\ FileLines \in Nat \ {0}
  /\ Presses \subseteq Keys \X Occasions
  /\ {MaxJobs, MaxPauses, MaxRunouts} \subseteq Nat

VARIABLES
  pc,               \* what the main program is doing
  queue, inject,    \* queued commands, and the injected one
  udisk,            \* udiskFlag, udiskPause, udiskStop
  lines,            \* lines of the file not read yet
  finishing,        \* the reading waits in fileHasFinish
  complete,         \* marlin_state = MF_SD_COMPLETE
  abort,            \* card.flag.abort_sd_printing
  timer,            \* print_job_timer
  did_pause_print, wait_for_user,
  ran_out, out,     \* filament_ran_out; whether the sensor sees no filament
  screen, printPaused, can_print_flag,   \* the display
  jobs, pauses, runouts                  \* what is used up of the bounds

mediaVars   == <<udisk, lines, finishing, complete>>
runoutVars  == <<ran_out, out>>
displayVars == <<screen, printPaused, can_print_flag>>
boundVars   == <<jobs, pauses, runouts>>
vars == <<pc, queue, inject, mediaVars, abort, timer, did_pause_print, wait_for_user,
          runoutVars, displayVars, boundVars>>

TypeOK ==
  /\ pc \in {"loop", "line", "homing", "quick stop", "lifting", "parking", "waiting",
             "resuming"}
  /\ queue \in Seq({"M24", "G28", "line", "M1001"}) /\ Len(queue) <= BufSize
  /\ inject \in {"", "M25", "M600", "G28"}
  /\ udisk \in [flag : BOOLEAN, pause : BOOLEAN, stop : BOOLEAN]
  /\ lines \in 0 .. FileLines
  /\ timer \in {"stopped", "running", "paused"}
  /\ did_pause_print \in 0 .. 2
  /\ screen \in {"files", "printing", "popup"}
  /\ {finishing, complete, abort, wait_for_user, ran_out, out, printPaused,
      can_print_flag} \subseteq BOOLEAN
  /\ jobs \in 0 .. MaxJobs /\ pauses \in 0 .. MaxPauses /\ runouts \in 0 .. MaxRunouts

OffUdisk == [flag |-> FALSE, pause |-> FALSE, stop |-> FALSE]

Init ==
  /\ pc = "loop" /\ queue = <<>> /\ inject = ""
  /\ udisk = OffUdisk /\ lines = 0 /\ finishing = FALSE /\ complete = FALSE
  /\ abort = FALSE /\ timer = "stopped"
  /\ did_pause_print = 0 /\ wait_for_user = FALSE
  /\ ran_out = FALSE /\ out = FALSE
  /\ screen = "files" /\ printPaused = FALSE /\ can_print_flag = TRUE
  /\ jobs = 0 /\ pauses = 0 /\ runouts = 0

-----------------------------------------------------------------------------
isPrinting       == udisk.flag /\ ~udisk.stop
isPaused         == udisk.flag /\ udisk.pause
printingIsActive == did_pause_print = 0 /\ timer = "running"

(* Stopwatch::start(), pause() and stop(). *)
StartTimer == timer' = "running"
PauseTimer == timer' = IF timer = "running" THEN "paused" ELSE timer
StopTimer  == timer' = "stopped"

RoomForgotten(n) == n >= 0
Room(n)          == Len(queue) < BufSize - n

(* What the program is at when the user presses a key. *)
Occasion ==
  IF pc \notin {"loop", "line", "quick stop", "lifting"} THEN pc
  ELSE IF abort THEN "stopping"
  ELSE IF udisk.flag THEN IF finishing THEN "ending" ELSE "printing"
  ELSE IF complete \/ queue # <<>> \/ inject # "" \/ pc # "loop" THEN "ending"
  ELSE "idle"

Pressed(key) == <<key, Occasion>> \in Presses

-----------------------------------------------------------------------------
(* Reading the file, in any idle(). *)

(* get_udisk_commands; after the last line it goes on into fileHasFinish. *)
ReadLine ==
  /\ udisk.flag /\ ~udisk.pause /\ ~finishing
  /\ lines > 0 /\ Room(2)
  /\ queue' = Append(queue, IF lines = FileLines THEN "G28" ELSE "line")
  /\ lines' = lines - 1
  /\ finishing' = (lines = 1)
  /\ UNCHANGED <<pc, inject, udisk, complete, abort, timer, did_pause_print,
                 wait_for_user, runoutVars, displayVars, boundVars>>

(* fileHasFinish, when the planner is empty; the printing menu closes. *)
FileHasFinish ==
  /\ finishing
  /\ finishing' = FALSE
  /\ udisk' = [udisk EXCEPT !.flag = FALSE]
  /\ complete' = TRUE
  /\ screen' = "files"
  /\ UNCHANGED <<pc, queue, inject, lines, abort, timer, did_pause_print,
                 wait_for_user, runoutVars, printPaused, can_print_flag, boundVars>>

-----------------------------------------------------------------------------
(* The filament sensor, in any idle(). *)

FilamentOut ==
  /\ ~out /\ runouts < MaxRunouts
  /\ out' = TRUE
  /\ runouts' = runouts + 1
  /\ UNCHANGED <<pc, queue, inject, mediaVars, abort, timer, did_pause_print,
                 wait_for_user, ran_out, displayVars, jobs, pauses>>

FilamentIn ==
  /\ out
  /\ out' = FALSE
  /\ UNCHANGED <<pc, queue, inject, mediaVars, abort, timer, did_pause_print,
                 wait_for_user, ran_out, displayVars, boundVars>>

(* run(), with the debounce counted down, and event_filament_runout(). *)
Runout ==
  /\ out /\ ~ran_out
  /\ printingIsActive \/ did_pause_print > 0
  /\ ran_out' = TRUE
  /\ IF did_pause_print > 0 THEN UNCHANGED <<inject, screen>>
     ELSE /\ inject' = "M600"
          /\ screen' = IF screen = "printing" THEN "popup" ELSE screen
  /\ UNCHANGED <<pc, queue, mediaVars, abort, timer, did_pause_print, wait_for_user, out,
                 printPaused, can_print_flag, boundVars>>

-----------------------------------------------------------------------------
(* The display, in any idle(). *)

(* The start of a print: openFileRead, M24, and the printing menu opens. *)
StartPrint ==
  /\ Pressed("start")
  /\ screen = "files" /\ can_print_flag /\ ~isPrinting /\ jobs < MaxJobs /\ Room(0)
  /\ jobs' = jobs + 1
  /\ ran_out' = FALSE
  /\ udisk' = [OffUdisk EXCEPT !.flag = TRUE]
  /\ lines' = FileLines
  /\ StartTimer
  /\ queue' = Append(queue, "M24")
  /\ screen' = "printing" /\ printPaused' = FALSE
  /\ UNCHANGED <<pc, inject, finishing, complete, abort, did_pause_print, wait_for_user,
                 out, can_print_flag, pauses, runouts>>

(* The key that pauses and resumes acts only while the menu's picture of   *)
(* it is up to date.                                                       *)
KeyLive == screen = "printing" /\ isPrinting /\ printPaused = isPaused

PauseKey ==
  /\ Pressed("pause")
  /\ KeyLive /\ ~isPaused /\ pauses < MaxPauses
  /\ pauses' = pauses + 1
  /\ printPaused' = TRUE
  /\ inject' = "M25"
  /\ UNCHANGED <<pc, queue, mediaVars, abort, timer, did_pause_print, wait_for_user,
                 runoutVars, screen, can_print_flag, jobs, runouts>>

ResumeKey ==
  /\ Pressed("resume")
  /\ KeyLive /\ isPaused
  /\ printPaused' = FALSE
  /\ IF out
     THEN /\ screen' = "popup"
          /\ UNCHANGED <<ran_out, wait_for_user, timer>>
     ELSE /\ ran_out' = FALSE
          /\ wait_for_user' = FALSE
          /\ StartTimer
          /\ UNCHANGED screen
  /\ UNCHANGED <<pc, queue, inject, mediaVars, abort, did_pause_print, out,
                 can_print_flag, boundVars>>

(* MarlinUI::abort_print() *)
AbortWaiting == abort' = TRUE /\ UNCHANGED wait_for_user
AbortPrint   == abort' = TRUE /\ wait_for_user' = FALSE

LockUnlocked == UNCHANGED can_print_flag
LockPrint    == can_print_flag' = FALSE

StopKey ==
  /\ Pressed("stop")
  /\ screen = "printing" /\ isPrinting
  /\ LockPrint
  /\ udisk' = [udisk EXCEPT !.flag = FALSE, !.stop = TRUE]
  /\ AbortPrint
  /\ screen' = "files"
  /\ UNCHANGED <<pc, queue, inject, lines, finishing, complete, timer, did_pause_print,
                 runoutVars, printPaused, boundVars>>

(* Another menu over the printing menu, or a message that is confirmed. *)
OpenMenu ==
  /\ screen = "printing"
  /\ screen' = "popup"
  /\ UNCHANGED <<pc, queue, inject, mediaVars, abort, timer, did_pause_print,
                 wait_for_user, runoutVars, printPaused, can_print_flag, boundVars>>

CloseMenu ==
  /\ screen = "popup"
  /\ screen' = "printing"
  /\ printPaused' = isPaused
  /\ UNCHANGED <<pc, queue, inject, mediaVars, abort, timer, did_pause_print,
                 wait_for_user, runoutVars, can_print_flag, boundVars>>

-----------------------------------------------------------------------------
(* The main program; nothing of it moves while fileHasFinish waits. *)

(* abortSDPrinting, with its waits: quickstop_stepper and the Z lift. *)
Abort ==
  /\ pc = "loop" /\ ~finishing /\ (abort \/ udisk.stop)
  /\ pc' = "quick stop"
  /\ queue' = <<>>
  /\ UNCHANGED <<inject, mediaVars, abort, timer, did_pause_print, wait_for_user,
                 runoutVars, displayVars, boundVars>>

Lift ==
  /\ pc = "quick stop" /\ ~finishing
  /\ pc' = "lifting"
  /\ StopTimer
  /\ UNCHANGED <<queue, inject, mediaVars, abort, did_pause_print, wait_for_user,
                 runoutVars, displayVars, boundVars>>

Aborted ==
  /\ pc = "lifting" /\ ~finishing
  /\ pc' = "loop"
  /\ inject' = "G28"
  /\ abort' = FALSE
  /\ udisk' = OffUdisk /\ lines' = 0
  /\ UNCHANGED <<queue, finishing, complete, timer, did_pause_print, wait_for_user,
                 runoutVars, displayVars, boundVars>>

(* loop() goes on when no stop is pending. *)
InLoop == pc = "loop" /\ ~finishing /\ ~abort /\ ~udisk.stop

FinishPrinting ==
  /\ InLoop /\ complete /\ Room(0)
  /\ complete' = FALSE
  /\ queue' = Append(queue, "M1001")
  /\ UNCHANGED <<pc, inject, udisk, lines, finishing, abort, timer, did_pause_print,
                 wait_for_user, runoutVars, displayVars, boundVars>>

Advancing == InLoop /\ (complete => ~Room(0))

(* pause_print: already paused, or the counter, the U disk and the timer.  *)
PauseUdiskMissed == UNCHANGED udisk
PauseUdisk       == udisk' = [udisk EXCEPT !.pause = udisk.flag]

RunPause ==
  /\ Advancing /\ inject \in {"M25", "M600"}
  /\ inject' = ""
  /\ IF did_pause_print > 0
     THEN UNCHANGED <<pc, did_pause_print, udisk, timer>>
     ELSE /\ pc' = "parking"
          /\ did_pause_print' = IF udisk.flag THEN 2 ELSE 1
          /\ PauseUdisk
          /\ PauseTimer
  /\ UNCHANGED <<queue, lines, finishing, complete, abort, wait_for_user, runoutVars,
                 displayVars, boundVars>>

(* wait_for_confirmation asks at the display; M600 has shown its message.  *)
Parked ==
  /\ pc = "parking" /\ ~finishing
  /\ pc' = "waiting"
  /\ wait_for_user' = TRUE
  /\ screen' \in IF screen = "printing" THEN {"printing", "popup"} ELSE {screen}
  /\ UNCHANGED <<queue, inject, mediaVars, abort, timer, did_pause_print, runoutVars,
                 printPaused, can_print_flag, boundVars>>

(* resume_print begins, or does nothing. *)
Resume == pc' = IF did_pause_print = 0 \/ abort THEN "loop" ELSE "resuming"

Woken ==
  /\ pc = "waiting" /\ ~finishing /\ ~wait_for_user
  /\ Resume
  /\ UNCHANGED <<queue, inject, mediaVars, abort, timer, did_pause_print, wait_for_user,
                 runoutVars, displayVars, boundVars>>

(* did_pause_print, counted down once, and once more for a paused file. *)
UnpauseOnce == did_pause_print' = did_pause_print - 1
Unpause     == did_pause_print' = 0

(* runout.reset() *)
ResetNothing == UNCHANGED ran_out
ResetRunout  == ran_out' = FALSE

(* The end of resume_print. *)
Resumed ==
  /\ pc = "resuming" /\ ~finishing
  /\ pc' = "loop"
  /\ Unpause
  /\ udisk' = IF did_pause_print = 2 /\ udisk.flag THEN [udisk EXCEPT !.pause = FALSE]
              ELSE udisk
  /\ ResetRunout
  /\ timer' = IF timer = "paused" THEN "running" ELSE timer
  /\ UNCHANGED <<queue, inject, lines, finishing, complete, abort, wait_for_user, out,
                 displayVars, boundVars>>

(* A queued command begins when nothing is injected.  M24 finds a pause or *)
(* nothing to do; its slot is given up here, although it waits.            *)
Begin(cmd) ==
  /\ Advancing /\ inject = "" /\ queue # <<>> /\ Head(queue) = cmd
  /\ queue' = Tail(queue)

RunM24 ==
  /\ Begin("M24")
  /\ Resume
  /\ UNCHANGED <<inject, mediaVars, abort, timer, did_pause_print, wait_for_user,
                 runoutVars, displayVars, boundVars>>

RunLine ==
  /\ Begin("line")
  /\ pc' = "line"
  /\ UNCHANGED <<inject, mediaVars, abort, timer, did_pause_print, wait_for_user,
                 runoutVars, displayVars, boundVars>>

EndLine ==
  /\ pc = "line" /\ ~finishing
  /\ pc' = "loop"
  /\ UNCHANGED <<queue, inject, mediaVars, abort, timer, did_pause_print, wait_for_user,
                 runoutVars, displayVars, boundVars>>

RunM1001 ==
  /\ Begin("M1001")
  /\ StopTimer
  /\ UNCHANGED <<pc, inject, mediaVars, abort, did_pause_print, wait_for_user,
                 runoutVars, displayVars, boundVars>>

(* G28, of the file or after a stop, locks the start of a print and unlocks it. *)
RunG28 ==
  /\ \/ Begin("G28") /\ UNCHANGED inject
     \/ Advancing /\ inject = "G28" /\ inject' = "" /\ UNCHANGED queue
  /\ pc' = "homing"
  /\ can_print_flag' = FALSE
  /\ UNCHANGED <<mediaVars, abort, timer, did_pause_print, wait_for_user, runoutVars,
                 screen, printPaused, boundVars>>

EndG28 ==
  /\ pc = "homing" /\ ~finishing
  /\ pc' = "loop"
  /\ can_print_flag' = TRUE
  /\ UNCHANGED <<queue, inject, mediaVars, abort, timer, did_pause_print, wait_for_user,
                 runoutVars, screen, printPaused, boundVars>>

-----------------------------------------------------------------------------
Program ==
  \/ Abort \/ Lift \/ Aborted \/ FinishPrinting
  \/ RunPause \/ Parked \/ Woken \/ Resumed
  \/ RunM24 \/ RunLine \/ EndLine \/ RunM1001 \/ RunG28 \/ EndG28

Next ==
  \/ Program \/ ReadLine \/ FileHasFinish
  \/ FilamentOut \/ FilamentIn \/ Runout
  \/ StartPrint \/ PauseKey \/ ResumeKey \/ StopKey \/ OpenMenu \/ CloseMenu

(* loop() and idle() run for ever; nobody has to press a key. *)
Spec == /\ Init /\ [][Next]_vars
        /\ WF_vars(Program) /\ WF_vars(ReadLine) /\ WF_vars(FileHasFinish)

(* A user who wants the print to go on: filament is put in, messages are   *)
(* confirmed, menus looked at, and the key is pressed whenever it acts.    *)
UserSpec == /\ Spec
            /\ WF_vars(FilamentIn) /\ WF_vars(CloseMenu) /\ WF_vars(OpenMenu)
            /\ SF_vars(ResumeKey)

-----------------------------------------------------------------------------
(* A line of the file starts only while printingIsActive(): the job timer  *)
(* runs and no pause is counted, whatever the stop of an earlier print     *)
(* left in did_pause_print.  Otherwise the filament sensor, and at an      *)
(* outage the recovery record, are ignored for the whole print.            *)
ActiveWhilePrinting ==
  [][pc # "line" /\ pc' = "line" => printingIsActive]_vars

(* While the head is parked nothing of the file is read: the counter of    *)
(* pause.cpp and the flags of the U disk print agree.                      *)
PausedTogether ==
  pc \in {"parking", "waiting"} =>
    did_pause_print > 0 /\ (udisk.flag => udisk.pause)

(* A print ends by its end of file or by a stop of its own, never by the   *)
(* udisk.init() that ends the stop of the print before it.                 *)
NoPrintLost ==
  [][udisk.flag /\ ~udisk'.flag => finishing \/ udisk'.stop]_vars

(* A stop is carried out, also when the printer waits for the user. *)
StopEnds == udisk.stop ~> ~udisk.stop

(* The sensor's latch is set in a running print only while the pause it     *)
(* asked for is still to come: an M600 that was overwritten, or a latch     *)
(* left set by an earlier pause or print, would let the print go on without *)
(* filament to its end.                                                     *)
RunoutPauses ==
  ran_out /\ printingIsActive => inject \in {"M25", "M600"}

(* "LCD click or M108 will clear this": the wait of a pause comes to an    *)
(* end if the user goes on trying.                                         *)
WaitEnds == pc = "waiting" ~> pc # "waiting"
=============================================================================
