------------------------------ MODULE PowerLoss ------------------------------
(***************************************************************************)
(* Power-loss recovery (feature/powerloss.cpp, M1000, udisk/udiskPrint.cpp)*)
(* for a print from the U disk, which may be paused (feature/pause.cpp).   *)
(* A line of the file carries its position through the command queue       *)
(* (sdpos[slot]) and the planner's block (block->sdpos) to the stepper     *)
(* interrupt, which leaves the position of the block it starts in          *)
(* info.sdpos.  When the supply drops while the job's timer runs, an       *)
(* interrupt writes info to the U disk; pauses and resumes write it too.   *)
(* After a restart M1000 resumes the file there.                           *)
(*                                                                         *)
(* A position in the file is the number of the line that begins there, so  *)
(* 0 is what memset and a fresh start leave.  The queue and the ring are   *)
(* kept as far as the positions travel through them, the pause as far as   *)
(* it decides what is written: GCodeQueue, Planner and PrintPause model    *)
(* the rest.  An outage empties all memory; only "disk" and what has been  *)
(* printed survive it.                                                     *)
(***************************************************************************)
EXTENDS Integers, Sequences, FiniteSets

CONSTANTS
  BufSize,      \* BUFSIZE
  RingSize,     \* moves the planner's ring holds
  FileLines,    \* lines of the file, numbered from 0
  Moves,        \* the lines of it that move
  MaxJobs,      \* bound: prints started at the display
  MaxOutages,   \* bound: outages
  MaxOthers,    \* bound: moves sent by a host or from the display
  MaxPauses,    \* bound: pauses asked for, by the key or by the filament sensor
  Patient       \* whether the others wait while a print is being resumed, and
                \* leave a slot of the queue free while one is read

ASSUME PowerLossAssumption ==
  /\ BufSize \in Nat /\ BufSize > 2 /\ RingSize \in Nat \ {0}
  /\ FileLines \in Nat \ {0} /\ Moves \subseteq 0 .. FileLines - 1
  /\ {MaxJobs, MaxOutages, MaxOthers, MaxPauses} \subseteq Nat /\ Patient \in BOOLEAN

VARIABLES
  on,             \* whether the printer has power
  length, index_r, index_w, command,   \* the command queue
  sdpos,          \* recovery.sdpos: the file position of each slot
  cmd_sdpos,      \* recovery.cmd_sdpos: the position of the next command
  queue_index_r,  \* recovery.queue_index_r: the slot of the active command
  blocks, busy,   \* the planner's ring, and whether its first block is executed
  info,           \* recovery.info: the print and its position
  timer,          \* print_job_timer
  udisk,          \* udiskFlag, udiskPause, udiskStop, and psize: the lines read
  finishing,      \* the reading waits in fileHasFinish
  complete,       \* marlin_state = MF_SD_COMPLETE
  asked,          \* the display asks whether to resume (M1000 S)
  resume_sdpos,   \* the local variable of resume()
  pc,             \* what the main program waits for
  inject,         \* the injected command
  handler,        \* the command that pauses or resumes
  did_pause_print, wait_for_user,
  disk,           \* the recovery file on the U disk, or NoRecord
  jobs, outages, others, pauses,   \* what is used up of the bounds
  printing,       \* history: the print whose file is not read to its end, or 0
  ended,          \* history: the prints finished, stopped or given up
  last,           \* history: the line each print executed last
  unsaved         \* history: what kept the record from being written at an outage

queueVars == <<length, index_r, index_w, command, sdpos, cmd_sdpos>>
ringVars  == <<blocks, busy>>
fileVars  == <<udisk, finishing, complete>>
pauseVars == <<inject, handler, did_pause_print, wait_for_user>>
countVars == <<jobs, outages, others, pauses>>
histVars  == <<printing, ended, last, unsaved>>
vars == <<on, queueVars, queue_index_r, ringVars, info, timer, fileVars, asked,
          resume_sdpos, pc, pauseVars, disk, countVars, histVars>>

Slots     == 0 .. BufSize - 1
Positions == 0 .. FileLines
Jobs      == 1 .. MaxJobs
NoLine    == -1
Cleared   == [file |-> 0, pos |-> 0]     \* memset
NoRecord  == [file |-> -1, pos |-> 0]    \* there is no such file
Record    == [file : 0 .. MaxJobs, pos : Positions]
OffUdisk  == [flag |-> FALSE, pause |-> FALSE, stop |-> FALSE, psize |-> 0]

TypeOK ==
  /\ {on, busy, finishing, complete, asked, wait_for_user} \subseteq BOOLEAN
  /\ length \in 0 .. BufSize /\ index_r \in Slots /\ index_w \in Slots
  /\ index_w = (index_r + length) % BufSize
  /\ command \in [Slots -> [op : {"line", "move", "M24", "M1000", "M1001"},
                        line : NoLine .. FileLines - 1]]
  /\ sdpos \in [Slots -> Positions] /\ cmd_sdpos \in Positions
  /\ queue_index_r \in Slots /\ resume_sdpos \in Positions
  /\ blocks \in Seq([line : Moves \cup {NoLine}, sdpos : Positions, job : 0 .. MaxJobs])
  /\ Len(blocks) <= RingSize + 1 /\ (busy => blocks # <<>>)
  /\ info \in Record /\ disk \in Record \cup {NoRecord}
  /\ timer \in {"stopped", "running", "paused"}
  /\ udisk \in [flag : BOOLEAN, pause : BOOLEAN, stop : BOOLEAN, psize : Positions]
  /\ pc \in {"loop", "opening", "heating", "homing", "pausing", "parking", "waiting",
             "resuming", "stopping"}
  /\ inject \in {"none", "M25", "M600"} /\ handler \in {"none", "M24", "M25", "M600"}
  /\ did_pause_print \in 0 .. 2
  /\ jobs \in 0 .. MaxJobs /\ outages \in 0 .. MaxOutages
  /\ others \in 0 .. MaxOthers /\ pauses \in 0 .. MaxPauses
  /\ printing \in 0 .. MaxJobs /\ ended \subseteq Jobs
  /\ last \in [Jobs -> Moves \cup {NoLine}]
  /\ unsaved \in {"none", "opening", "paused", "unread"}

(* A command of the queue: a line of the file, or one of these. *)
Command(op)   == [op |-> op, line |-> NoLine]
LineOfFile(l) == [op |-> "line", line |-> l]

(* Static initialisation, and an empty memory. *)
Memory ==
  [command |-> [s \in Slots |-> Command("move")], sdpos |-> [s \in Slots |-> 0]]

Init ==
  /\ on = TRUE
  /\ length = 0 /\ index_r = 0 /\ index_w = 0
  /\ command = Memory.command /\ sdpos = Memory.sdpos
  /\ cmd_sdpos = 0 /\ queue_index_r = 0
  /\ blocks = <<>> /\ busy = FALSE
  /\ info = Cleared /\ timer = "stopped"
  /\ udisk = OffUdisk /\ finishing = FALSE /\ complete = FALSE
  /\ asked = FALSE /\ resume_sdpos = 0 /\ pc = "loop"
  /\ inject = "none" /\ handler = "none" /\ did_pause_print = 0 /\ wait_for_user = FALSE
  /\ disk = NoRecord
  /\ jobs = 0 /\ outages = 0 /\ others = 0 /\ pauses = 0
  /\ printing = 0 /\ ended = {} /\ last = [j \in Jobs |-> NoLine] /\ unsaved = "none"

-----------------------------------------------------------------------------
(* The command queue. *)

(* _commit_command: a slot gets the position the last line read has left. *)
Commit(c) ==
  /\ length < BufSize
  /\ command' = [command EXCEPT ![index_w] = c]
  /\ sdpos' = [sdpos EXCEPT ![index_w] = cmd_sdpos]
  /\ index_w' = (index_w + 1) % BufSize
  /\ length' = length + 1
  /\ UNCHANGED index_r

(* advance(), after the handler. *)
AdvanceUnwrapped ==
  /\ length' = length - 1
  /\ index_r' = IF index_r = BufSize - 1 THEN BufSize - 1 ELSE index_r + 1
  /\ UNCHANGED <<index_w, command, sdpos, cmd_sdpos>>

Advance ==
  /\ length' = length - 1
  /\ index_r' = (index_r + 1) % BufSize
  /\ UNCHANGED <<index_w, command, sdpos, cmd_sdpos>>

Queued(op) == \E k \in 0 .. length - 1 : command[(index_r + k) % BufSize].op = op

(* get_udisk_commands, from any idle(): the line is committed, then the    *)
(* position is set for the next one.  The last line goes on into           *)
(* fileHasFinish, which waits for the planner.                             *)
ReadLine ==
  /\ on /\ pc # "opening" /\ udisk.flag /\ ~udisk.pause /\ ~finishing
  /\ length < BufSize - 2 /\ udisk.psize < FileLines
  /\ Commit(LineOfFile(udisk.psize))
  /\ udisk' = [udisk EXCEPT !.psize = @ + 1]
  /\ cmd_sdpos' = udisk.psize + 1
  /\ finishing' = (udisk.psize + 1 = FileLines)
  /\ UNCHANGED <<on, queue_index_r, ringVars, info, timer, complete, asked, resume_sdpos,
                 pc, pauseVars, disk, countVars, histVars>>

(* The rest of fileHasFinish, once planner.synchronize() returns. *)
FileHasFinish ==
  /\ on /\ finishing /\ blocks = <<>>
  /\ finishing' = FALSE
  /\ udisk' = [udisk EXCEPT !.flag = FALSE]
  /\ complete' = TRUE
  /\ printing' = 0
  /\ UNCHANGED <<on, queueVars, queue_index_r, ringVars, info, timer, asked,
                 resume_sdpos, pc, pauseVars, disk, countVars, ended, last, unsaved>>

(* A move from a host or the display, queued from any idle(). *)
OtherCommand ==
  /\ on /\ pc # "opening" /\ others < MaxOthers
  /\ Patient => /\ ~asked /\ ~Queued("M1000")
                /\ udisk.flag => length < BufSize - 1
  /\ Commit(Command("move"))
  /\ others' = others + 1
  /\ UNCHANGED <<on, cmd_sdpos, queue_index_r, ringVars, info, timer, fileVars, asked,
                 resume_sdpos, pc, pauseVars, disk, jobs, outages, pauses, histVars>>

(* loop(), when the reading of the file does not wait in its idle(). *)
InLoop == on /\ pc = "loop" /\ ~finishing

(* loop(): finishSDPrinting, tried again until there is room. *)
FinishPrinting ==
  /\ InLoop /\ complete /\ ~udisk.stop
  /\ Commit(Command("M1001"))
  /\ complete' = FALSE
  /\ UNCHANGED <<on, cmd_sdpos, queue_index_r, ringVars, info, timer, udisk, finishing,
                 asked, resume_sdpos, pc, pauseVars, disk, countVars, histVars>>

-----------------------------------------------------------------------------
(* The planner and the stepper interrupt. *)

(* _populate_block: the block gets the position of the active command.  The *)
(* line, and the print it belongs to, are for the properties.              *)
Block(l, slot) == [line |-> l, sdpos |-> sdpos[slot], job |-> info.file]

(* A move that is no line of the file: that of the slot active last. *)
Move == Block(NoLine, queue_index_r)

StartBlock ==
  /\ on /\ blocks # <<>> /\ ~busy
  /\ busy' = TRUE
  /\ info' = [info EXCEPT !.pos = Head(blocks).sdpos]
  /\ UNCHANGED <<on, queueVars, queue_index_r, blocks, timer, fileVars, asked,
                 resume_sdpos, pc, pauseVars, disk, countVars, histVars>>

EndBlock ==
  /\ on /\ busy
  /\ busy' = FALSE
  /\ blocks' = Tail(blocks)
  /\ last' = IF Head(blocks).line = NoLine THEN last
             ELSE [last EXCEPT ![Head(blocks).job] = Head(blocks).line]
  /\ UNCHANGED <<on, queueVars, queue_index_r, info, timer, fileVars, asked, resume_sdpos,
                 pc, pauseVars, disk, countVars, printing, ended, unsaved>>

-----------------------------------------------------------------------------
(* The main program's loop. *)

(* No stop is pending, and M1001 has its slot. *)
Advancing == InLoop /\ ~udisk.stop /\ (complete => length = BufSize)

(* process_next_command, when nothing is injected. *)
Dispatch ==
  /\ Advancing /\ inject = "none" /\ length > 0
  /\ queue_index_r' = index_r

Active == command[index_r]

(* A command that moves, when the ring has room for it. *)
RunMove ==
  /\ Dispatch
  /\ Active.op = "move" \/ Active.line \in Moves
  /\ Len(blocks) < RingSize
  /\ blocks' = Append(blocks, Block(Active.line, index_r))
  /\ Advance
  /\ UNCHANGED <<on, busy, info, timer, fileVars, asked, resume_sdpos, pc, pauseVars, disk,
                 countVars, histVars>>

(* Any other line of the file; M24 with no pause and no SD file open. *)
RunOther ==
  /\ Dispatch
  /\ \/ Active.op = "M24" /\ did_pause_print = 0
     \/ Active.op = "line" /\ Active.line \notin Moves
  /\ Advance
  /\ UNCHANGED <<on, ringVars, info, timer, fileVars, asked, resume_sdpos, pc, pauseVars,
                 disk, countVars, histVars>>

(* purge(): the record, in memory and on the disk. *)
PurgeMemory == info' = Cleared /\ UNCHANGED disk
Purge       == info' = Cleared /\ disk' = NoRecord

(* M1001: M77 stops the timer, then the record is purged. *)
RunM1001 ==
  /\ Dispatch
  /\ Active.op = "M1001"
  /\ timer' = "stopped"
  /\ Purge
  /\ ended' = ended \cup ({info.file} \ {0})
  /\ Advance
  /\ UNCHANGED <<on, ringVars, fileVars, asked, resume_sdpos, pc, pauseVars, countVars,
                 printing, last, unsaved>>

(* The display's start of a print: openFileRead opens the file and starts  *)
(* the timer.  Assumed of the user: he waits for the M1001 of the print    *)
(* before, whose timer and record would otherwise be those of the new      *)
(* print, and for a stop, a pause or a resume under way.                   *)
StartPrint ==
  /\ InLoop /\ ~udisk.flag /\ ~udisk.stop /\ ~complete
  /\ ~asked /\ ~Queued("M1000") /\ ~Queued("M1001")
  /\ jobs < MaxJobs /\ length < BufSize
  /\ jobs' = jobs + 1
  /\ udisk' = [OffUdisk EXCEPT !.flag = TRUE]
  /\ timer' = "running"
  /\ pc' = "opening"
  /\ printing' = jobs + 1
  /\ unsaved' = IF unsaved = "opening" THEN unsaved ELSE "none"
  /\ UNCHANGED <<on, queueVars, queue_index_r, ringVars, info, finishing, complete, asked,
                 resume_sdpos, pauseVars, disk, outages, others, pauses, ended, last>>

(* prepare_u gives the record the name of the new file; the display queues *)
(* its M24.                                                                *)
PrepareNothing == UNCHANGED info
Prepare        == info' = [info EXCEPT !.file = jobs]

FileOpened ==
  /\ on /\ pc = "opening"
  /\ Prepare /\ cmd_sdpos' = 0
  /\ length < BufSize
  /\ command' = [command EXCEPT ![index_w] = Command("M24")]
  /\ sdpos' = [sdpos EXCEPT ![index_w] = 0]
  /\ index_w' = (index_w + 1) % BufSize
  /\ length' = length + 1
  /\ pc' = "loop"
  /\ UNCHANGED <<on, index_r, queue_index_r, ringVars, timer, fileVars, asked,
                 resume_sdpos, pauseVars, disk, countVars, histVars>>

(* The display's stop: abortUdiskPrint; a pause waits no longer. *)
StopKey ==
  /\ on /\ pc # "opening" /\ udisk.flag
  /\ udisk' = [udisk EXCEPT !.flag = FALSE, !.stop = TRUE]
  /\ wait_for_user' = FALSE
  /\ printing' = 0
  /\ UNCHANGED <<on, queueVars, queue_index_r, ringVars, info, timer, finishing, complete,
                 asked, resume_sdpos, pc, inject, handler, did_pause_print, disk, countVars,
                 ended, last, unsaved>>

(* abortSDPrinting: the queue and the ring are emptied, the timer stopped, *)
(* the record purged, the head lifted.  The slot of the command that was   *)
(* active last still marks that move.                                      *)
Abort ==
  /\ InLoop /\ udisk.stop
  /\ length' = 0 /\ index_r' = 0 /\ index_w' = 0
  /\ timer' = "stopped"
  /\ Purge
  /\ ended' = ended \cup ({info.file} \ {0})
  /\ blocks' = <<Move>> /\ busy' = FALSE
  /\ pc' = "stopping"
  /\ UNCHANGED <<on, command, sdpos, cmd_sdpos, queue_index_r, fileVars, asked,
                 resume_sdpos, pauseVars, countVars, printing, last, unsaved>>

(* The G28 it injects takes the place of a pause that was; its moves are   *)
(* like that of the lift.                                                  *)
Aborted ==
  /\ on /\ pc = "stopping" /\ blocks = <<>>
  /\ udisk' = OffUdisk
  /\ inject' = "none"
  /\ pc' = "loop"
  /\ UNCHANGED <<on, queueVars, queue_index_r, ringVars, info, timer, finishing, complete,
                 asked, resume_sdpos, handler, did_pause_print, wait_for_user, disk,
                 countVars, histVars>>

-----------------------------------------------------------------------------
(* Pauses, which the key of the display and the filament sensor inject. *)

(* save(true): the record is written while a print from the U disk is on. *)
SaveAsRead == disk' = IF udisk.flag THEN [info EXCEPT !.pos = udisk.psize] ELSE disk
Save       == disk' = IF udisk.flag THEN info ELSE disk

Inject(op) ==
  /\ on /\ pc # "opening" /\ pauses < MaxPauses
  /\ pauses' = pauses + 1
  /\ inject' = op
  /\ UNCHANGED <<on, queueVars, queue_index_r, ringVars, info, timer, fileVars, asked,
                 resume_sdpos, pc, handler, did_pause_print, wait_for_user, disk, jobs,
                 outages, others, histVars>>

PauseKey == udisk.flag /\ ~udisk.pause /\ Inject("M25")
Runout   == timer = "running" /\ did_pause_print = 0 /\ Inject("M600")

(* pause_print: nothing if a pause is counted, else it is, and the timer   *)
(* and the reading of the file stop.  Then it waits for the planner.       *)
RunPause ==
  /\ Advancing /\ inject # "none"
  /\ inject' = "none"
  /\ IF did_pause_print > 0
     THEN UNCHANGED <<pc, handler, did_pause_print, udisk, timer>>
     ELSE /\ pc' = "pausing" /\ handler' = inject
          /\ did_pause_print' = IF udisk.flag THEN 2 ELSE 1
          /\ udisk' = [udisk EXCEPT !.pause = udisk.flag]
          /\ timer' = IF timer = "running" THEN "paused" ELSE timer
  /\ UNCHANGED <<on, queueVars, queue_index_r, ringVars, info, finishing, complete, asked,
                 resume_sdpos, wait_for_user, disk, countVars, histVars>>

(* The head is parked, with the position of the slot active last. *)
Park ==
  /\ on /\ pc = "pausing" /\ blocks = <<>>
  /\ blocks' = <<Move>>
  /\ pc' = "parking"
  /\ UNCHANGED <<on, queueVars, queue_index_r, busy, info, timer, fileVars, asked,
                 resume_sdpos, pauseVars, disk, countVars, histVars>>

(* M125 saves the record, M600 does not.  Both wait for the user. *)
Parked ==
  /\ on /\ pc = "parking" /\ blocks = <<>>
  /\ IF handler = "M25" THEN Save ELSE UNCHANGED disk
  /\ wait_for_user' = TRUE
  /\ pc' = "waiting"
  /\ UNCHANGED <<on, queueVars, queue_index_r, ringVars, info, timer, fileVars, asked,
                 resume_sdpos, inject, handler, did_pause_print, countVars, histVars>>

(* The display's key to resume, at any moment of the pause. *)
ResumeKey ==
  /\ on /\ udisk.flag /\ udisk.pause
  /\ wait_for_user' = FALSE
  /\ timer' = "running"
  /\ UNCHANGED <<on, queueVars, queue_index_r, ringVars, info, fileVars, asked,
                 resume_sdpos, pc, inject, handler, did_pause_print, disk, countVars,
                 histVars>>

(* resume_print begins: the head goes back. *)
GoBack ==
  /\ Len(blocks) < RingSize
  /\ blocks' = Append(blocks, Move)
  /\ pc' = "resuming"

Woken ==
  /\ on /\ pc = "waiting" /\ ~wait_for_user
  /\ \/ ~udisk.stop /\ GoBack /\ UNCHANGED handler
     \/ udisk.stop /\ pc' = "loop" /\ handler' = "none" /\ UNCHANGED blocks
  /\ UNCHANGED <<on, queueVars, queue_index_r, busy, info, timer, fileVars, asked,
                 resume_sdpos, inject, did_pause_print, wait_for_user, disk, countVars,
                 histVars>>

(* M24 of a print that finds the pause in which the one before was stopped. *)
RunM24 ==
  /\ Dispatch
  /\ Active.op = "M24" /\ did_pause_print > 0
  /\ Len(blocks) < RingSize
  /\ blocks' = Append(blocks, Block(NoLine, index_r))
  /\ pc' = "resuming"
  /\ handler' = "M24"
  /\ UNCHANGED <<on, queueVars, busy, info, timer, fileVars, asked, resume_sdpos, inject,
                 did_pause_print, wait_for_user, disk, countVars, histVars>>

(* The end of resume_print: the record is saved, the file read again. *)
Resumed ==
  /\ on /\ pc = "resuming" /\ ~finishing /\ blocks = <<>>
  /\ Save
  /\ did_pause_print' = 0
  /\ udisk' = [udisk EXCEPT !.pause = @ /\ ~(did_pause_print = 2 /\ udisk.flag)]
  /\ timer' = IF timer = "paused" THEN "running" ELSE timer
  /\ pc' = "loop" /\ handler' = "none"
  /\ IF handler = "M24" THEN Advance ELSE UNCHANGED queueVars
  /\ UNCHANGED <<on, queue_index_r, ringVars, info, finishing, complete, asked,
                 resume_sdpos, inject, wait_for_user, countVars, histVars>>

-----------------------------------------------------------------------------
(* Outage and restart. *)

(* The record on the disk is up to date: M125 has saved it and waits. *)
Saved == pc = "waiting" /\ handler = "M25" /\ udisk.flag

(* What an outage finds that keeps the record from being as it should: the *)
(* file opened but not named yet, a pause, or a file that is read no more. *)
Hindrance ==
  IF pc = "opening" THEN "opening"
  ELSE IF udisk.flag THEN IF timer = "paused" /\ ~Saved THEN "paused" ELSE "none"
  ELSE IF asked \/ Queued("M1000") THEN "none" ELSE "unread"

(* StartSavePLR and _outage: while the timer runs the record is written,   *)
(* if a print from the U disk is on; the rest of the memory is gone.       *)
Outage ==
  /\ on /\ outages < MaxOutages
  /\ on' = FALSE
  /\ outages' = outages + 1
  /\ IF timer = "running" THEN Save ELSE UNCHANGED disk
  /\ unsaved' = IF unsaved = "none" THEN Hindrance ELSE unsaved
  /\ length' = 0 /\ index_r' = 0 /\ index_w' = 0
  /\ command' = Memory.command /\ sdpos' = Memory.sdpos
  /\ cmd_sdpos' = 0 /\ queue_index_r' = 0
  /\ blocks' = <<>> /\ busy' = FALSE
  /\ info' = Cleared /\ timer' = "stopped"
  /\ udisk' = OffUdisk /\ finishing' = FALSE /\ complete' = FALSE
  /\ asked' = FALSE /\ resume_sdpos' = 0 /\ pc' = "loop"
  /\ inject' = "none" /\ handler' = "none" /\ did_pause_print' = 0 /\ wait_for_user' = FALSE
  /\ UNCHANGED <<jobs, others, pauses, printing, ended, last>>

(* The U disk is found, and check_u loads the record if there is one. *)
Boot ==
  /\ ~on
  /\ on' = TRUE
  /\ info' = IF disk = NoRecord THEN Cleared ELSE disk
  /\ asked' = (disk # NoRecord)
  /\ UNCHANGED <<queueVars, queue_index_r, ringVars, timer, fileVars, resume_sdpos, pc,
                 pauseVars, disk, countVars, histVars>>

ConfirmResume ==
  /\ on /\ asked
  /\ Commit(Command("M1000"))
  /\ asked' = FALSE
  /\ UNCHANGED <<on, cmd_sdpos, queue_index_r, ringVars, info, timer, fileVars,
                 resume_sdpos, pc, pauseVars, disk, countVars, histVars>>

(* The file is removed; info stays as it was loaded. *)
CancelResume ==
  /\ on /\ asked
  /\ disk' = NoRecord
  /\ asked' = FALSE
  /\ printing' = 0
  /\ ended' = ended \cup ({info.file} \ {0})
  /\ UNCHANGED <<on, queueVars, queue_index_r, ringVars, info, timer, fileVars,
                 resume_sdpos, pc, pauseVars, countVars, last, unsaved>>

(* M1000: resume() keeps the position and heats up. *)
RunM1000 ==
  /\ Dispatch
  /\ Active.op = "M1000"
  /\ resume_sdpos' = info.pos
  /\ pc' = "heating"
  /\ UNCHANGED <<on, queueVars, ringVars, info, timer, fileVars, asked, pauseVars, disk,
                 countVars, histVars>>

(* M109 and M190 start the timer; then the head is lifted and homed. *)
ResumeHeated ==
  /\ on /\ pc = "heating"
  /\ Len(blocks) < RingSize
  /\ timer' = "running"
  /\ blocks' = Append(blocks, Move)
  /\ pc' = "homing"
  /\ UNCHANGED <<on, queueVars, queue_index_r, busy, info, fileVars, asked, resume_sdpos,
                 pauseVars, disk, countVars, histVars>>

(* resumeUdiskPrint: the file is opened at a position. *)
ReopenAtRecord(pos) == [OffUdisk EXCEPT !.flag = TRUE, !.psize = info.pos]
ReopenAt(pos)       == [OffUdisk EXCEPT !.flag = TRUE, !.psize = pos]

(* The head goes back, the file is opened at the saved position, and       *)
(* enable(true) saves the record again; with no name there is no file.     *)
ResumeHomed ==
  /\ on /\ pc = "homing" /\ blocks = <<>>
  /\ blocks' = <<Move>>
  /\ IF info.file = 0 THEN UNCHANGED <<udisk, disk>>
     ELSE udisk' = ReopenAt(resume_sdpos) /\ disk' = info
  /\ pc' = "loop"
  /\ Advance
  /\ UNCHANGED <<on, queue_index_r, busy, info, timer, finishing, complete, asked,
                 resume_sdpos, pauseVars, countVars, histVars>>

-----------------------------------------------------------------------------
Next ==
  \/ ReadLine \/ FileHasFinish \/ OtherCommand \/ FinishPrinting
  \/ StartBlock \/ EndBlock
  \/ RunMove \/ RunOther \/ RunM24 \/ RunM1001
  \/ StartPrint \/ FileOpened \/ StopKey \/ Abort \/ Aborted
  \/ PauseKey \/ Runout \/ RunPause \/ Park \/ Parked \/ ResumeKey \/ Woken \/ Resumed
  \/ Outage \/ Boot \/ ConfirmResume \/ CancelResume
  \/ RunM1000 \/ ResumeHeated \/ ResumeHomed

Spec == Init /\ [][Next]_vars

-----------------------------------------------------------------------------
(* Line m is the move of the file that follows line l. *)
Follows(m, l) == m > l /\ \A k \in Moves : k > l => k >= m

(* A print, interrupted or not, moves line by line through its file: no    *)
(* move is left out, and none but the last is made again.  The recovery    *)
(* record has to name the block in execution, however far the reading, the *)
(* queue and the planner are ahead of it.                                  *)
InFileOrder ==
  [][\A j \in Jobs : last'[j] # last[j] => Follows(last'[j], last[j])]_vars

(* The same for the first print after power-up and up to a second outage,  *)
(* paused and resumed or not, where nothing kept the record from being     *)
(* written: what the positions of the queue, the blocks and the record     *)
(* achieve.                                                                *)
FirstInFileOrder ==
  [][jobs < 2 /\ outages < 2 /\ unsaved = "none" =>
     \A j \in Jobs : last'[j] # last[j] => Follows(last'[j], last[j])]_vars

(* Also where an outage in a pause or after the file was read wrote        *)
(* nothing, and an older record is resumed: moves may be made again then,  *)
(* but none is left out.                                                   *)
NoneLeftOut ==
  [][jobs < 2 /\ outages < 2 =>
     \A j \in Jobs : last'[j] # last[j] =>
       \A m \in Moves : m < last'[j] => m <= last[j]]_vars

(* A print that loses power before its file is read to the end can be      *)
(* resumed, also when power fails again while it is being resumed or when  *)
(* it waits in a pause of the display's key; not when power fails while    *)
(* its file is being opened, while the head is being parked, or in a pause *)
(* of M600 before anybody resumes it.                                      *)
RecordKept ==
  ~on /\ printing # 0 /\ unsaved \notin {"opening", "paused"} => disk.file = printing

(* A print that has been finished, stopped or given up is not offered      *)
(* again, whatever happens between: its record is gone for good, unless an *)
(* outage meets a print whose file is opened but not named yet.            *)
NoRecordLeft == unsaved # "opening" => disk.file \notin ended
=============================================================================
