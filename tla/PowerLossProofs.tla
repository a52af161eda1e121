-------------------------- MODULE PowerLossProofs --------------------------
(***************************************************************************)
(* Proofs about PowerLoss, for every size of the queue and the ring, every *)
(* file, and any number of prints, pauses, outages and moves from          *)
(* elsewhere, which may come at any moment; only for the order of the      *)
(* first print do the last wait while a print is being resumed, and leave  *)
(* a slot of the queue free while one is read.                             *)
(***************************************************************************)
EXTENDS PowerLoss, SequenceTheorems, TLAPS

-----------------------------------------------------------------------------
(* The invariants *)

(* The type invariant in parts: switches, the command queue, the planner's *)
(* ring, what the recovery keeps, and the history.                         *)
Ops      == {"line", "move", "M24", "M1000", "M1001"}
CommandT == [op : Ops, line : NoLine .. FileLines - 1]
BlockT   == [line : Moves \cup {NoLine}, sdpos : Positions, job : 0 .. MaxJobs]
UdiskT   == [flag : BOOLEAN, pause : BOOLEAN, stop : BOOLEAN, psize : Positions]

Switches ==
  /\ on \in BOOLEAN /\ busy \in BOOLEAN /\ finishing \in BOOLEAN
  /\ complete \in BOOLEAN /\ asked \in BOOLEAN /\ wait_for_user \in BOOLEAN
  /\ timer \in {"stopped", "running", "paused"}
  /\ udisk \in UdiskT
  /\ pc \in {"loop", "opening", "heating", "homing", "pausing", "parking", "waiting",
             "resuming", "stopping"}
  /\ inject \in {"none", "M25", "M600"} /\ handler \in {"none", "M24", "M25", "M600"}
  /\ did_pause_print \in 0 .. 2

QueueTyped ==
  /\ length \in 0 .. BufSize /\ index_r \in Slots /\ index_w \in Slots
  /\ index_w = (index_r + length) % BufSize
  /\ command \in [Slots -> CommandT]
  /\ sdpos \in [Slots -> Positions] /\ cmd_sdpos \in Positions
  /\ queue_index_r \in Slots

(* Only a line of the file is a line of the file. *)
LinesAreLines == \A s \in Slots : command[s].op # "line" => command[s].line = NoLine

RingTyped ==
  /\ blocks \in Seq(BlockT) /\ Len(blocks) <= RingSize + 1
  /\ busy => blocks # <<>>

RecordTyped ==
  /\ info \in Record /\ disk \in Record \cup {NoRecord} /\ resume_sdpos \in Positions

HistoryTyped ==
  /\ jobs \in 0 .. MaxJobs /\ outages \in 0 .. MaxOutages
  /\ others \in 0 .. MaxOthers /\ pauses \in 0 .. MaxPauses
  /\ printing \in 0 .. MaxJobs
  /\ last \in [Jobs -> Moves \cup {NoLine}]
  /\ unsaved \in {"none", "opening", "paused", "unread"}

Types == Switches /\ QueueTyped /\ LinesAreLines /\ RingTyped /\ RecordTyped /\ HistoryTyped

(* What the k-th command waiting is. *)
OpAt(k) == command[(index_r + k) % BufSize].op

(* Without power nothing is under way. *)
OffIsEmpty ==
  ~on => /\ timer = "stopped" /\ ~udisk.flag /\ ~udisk.stop /\ ~finishing /\ ~complete /\ ~asked
         /\ length = 0 /\ pc = "loop" /\ inject = "none"

(* A print is being resumed from the question to the reopening of the file *)
(* by its one M1000, which stays at the head of the queue while it runs,   *)
(* as an M24 does that ends a pause.                                       *)
Resuming == asked \/ Queued("M1000")

ResumedOnce ==
  /\ asked => ~Queued("M1000") /\ pc \notin {"heating", "homing"}
  /\ \A j, k \in 0 .. length - 1 : OpAt(j) = "M1000" /\ OpAt(k) = "M1000" => j = k
  /\ pc \in {"heating", "homing"} => length > 0 /\ OpAt(0) = "M1000"
  /\ pc = "homing" => timer = "running"
  /\ pc = "resuming" /\ handler = "M24" => length > 0 /\ OpAt(0) = "M24"
  /\ pc \in {"pausing", "parking", "waiting"} => handler # "M24"

(* At most one of these holds: a print is read, is being stopped, is at    *)
(* its end, is being resumed.                                              *)
OneAtATime ==
  /\ udisk.flag => ~udisk.stop /\ ~complete /\ ~Queued("M1001") /\ timer # "stopped"
  /\ Resuming => ~udisk.flag /\ ~udisk.stop /\ ~complete /\ ~Queued("M1001")
  /\ finishing => udisk.flag \/ udisk.stop
  /\ pc = "stopping" => udisk.stop /\ ~finishing
  /\ pc = "opening" => udisk.flag /\ ~finishing /\ udisk.psize = 0

(* The end of a print is behind its lines. *)
EndIsLast ==
  \A j, k \in 0 .. length - 1 : j < k /\ OpAt(j) = "M1001" => OpAt(k) # "line"

(* While a pause waits, what it has saved is not overtaken. *)
PauseIsStill ==
  /\ pc = "waiting" => blocks = <<>>
  /\ Saved => disk = info

(* The record names a print that was started and is not over: the one read *)
(* or resumed, which is the one last started or interrupted.               *)
RecordNames ==
  /\ ended \subseteq 1 .. jobs /\ info.file <= jobs /\ disk.file <= jobs
  /\ pc = "opening" => jobs # 0 /\ jobs \notin ended /\ printing = jobs /\ unsaved \in {"none", "opening"}
  /\ unsaved = "unread" => printing = 0
  /\ unsaved = "opening" => jobs # 0
  /\ unsaved # "opening" =>
       /\ disk.file # 0
       /\ udisk.flag /\ pc # "opening" => info.file # 0 /\ info.file \notin ended
       /\ Resuming => info.file = disk.file
  /\ on /\ printing # 0 /\ unsaved \notin {"opening", "paused"} =>
       (pc = "opening" \/ info.file = printing) /\ (udisk.flag \/ Resuming)
  /\ RecordKept /\ NoRecordLeft

IInv == OffIsEmpty /\ ResumedOnce /\ OneAtATime /\ EndIsLast /\ PauseIsStill /\ RecordNames
-----------------------------------------------------------------------------
(* Constants, the ring of slots, records *)

LEMMA Constants ==
  /\ BufSize \in Nat /\ BufSize > 2 /\ RingSize \in Nat /\ RingSize > 0
  /\ FileLines \in Nat /\ FileLines > 0 /\ Moves \subseteq 0 .. FileLines - 1
  /\ MaxJobs \in Nat /\ MaxOutages \in Nat /\ MaxOthers \in Nat /\ MaxPauses \in Nat
  /\ Patient \in BOOLEAN
BY PowerLossAssumption

(* Within one turn of the ring the remainder wraps at most once.           *)
LEMMA Wrap ==
  ASSUME NEW a \in Nat, a < BufSize + BufSize
  PROVE  a % BufSize = (IF a < BufSize THEN a ELSE a - BufSize) /\ a % BufSize \in Slots
BY Constants DEF Slots

(* A slot further on, and the one after it.                                *)
LEMMA NextSlot ==
  ASSUME NEW r \in Slots, NEW k \in Nat, k < BufSize
  PROVE  /\ (r + k) % BufSize \in Slots
         /\ (((r + 1) % BufSize) + k) % BufSize = (r + (k + 1)) % BufSize
         /\ (((r + k) % BufSize) + 1) % BufSize = (r + (k + 1)) % BufSize
<1>1. BufSize \in Nat /\ BufSize > 2 /\ r \in Nat /\ r < BufSize
  BY Constants DEF Slots
<1>2. \A a \in Nat : a < BufSize + BufSize =>
        a % BufSize = (IF a < BufSize THEN a ELSE a - BufSize) /\ a % BufSize \in Slots
  BY Wrap
<1>3. (r + 1) % BufSize = IF r + 1 < BufSize THEN r + 1 ELSE 0
  BY <1>1, <1>2
<1>4. (r + k) % BufSize = IF r + k < BufSize THEN r + k ELSE r + k - BufSize
  BY <1>1, <1>2
<1>5. (r + (k + 1)) % BufSize = IF r + k + 1 < BufSize THEN r + k + 1 ELSE r + k + 1 - BufSize
  BY <1>1, <1>2
<1>6. k % BufSize = k
  BY <1>1, <1>2
<1> QED
  BY <1>1, <1>2, <1>3, <1>4, <1>5, <1>6

(* Two commands waiting are in different slots.                            *)
LEMMA SlotsDiffer ==
  ASSUME NEW r \in Slots, NEW j \in Nat, NEW k \in Nat, j < k, k < BufSize
  PROVE  (r + j) % BufSize # (r + k) % BufSize
<1>1. BufSize \in Nat /\ r \in Nat /\ r < BufSize
  BY Constants DEF Slots
<1>2. (r + j) % BufSize = IF r + j < BufSize THEN r + j ELSE r + j - BufSize
  BY <1>1, Wrap
<1>3. (r + k) % BufSize = IF r + k < BufSize THEN r + k ELSE r + k - BufSize
  BY <1>1, Wrap
<1> QED
  BY <1>1, <1>2, <1>3
-----------------------------------------------------------------------------
(* The queue *)

LEMMA Entry ==
  /\ \A op \in Ops : Command(op) \in CommandT /\ Command(op).op = op /\ Command(op).line = NoLine
  /\ \A l \in 0 .. FileLines - 1 : LineOfFile(l) \in CommandT /\ LineOfFile(l).op = "line"
BY Constants DEF Command, LineOfFile, CommandT, Ops, NoLine

(* A command is added behind the others.                                   *)
LEMMA AddedLast ==
  ASSUME QueueTyped, NEW c \in CommandT, length < BufSize,
         command' = [command EXCEPT ![index_w] = c],
         index_r' = index_r, length' = length + 1
  PROVE  /\ \A k \in 0 .. length - 1 : OpAt(k)' = OpAt(k)
         /\ \A k \in Nat : k = length => OpAt(k)' = c.op
         /\ \A op \in Ops : Queued(op)' <=> Queued(op) \/ op = c.op
<1>1. length \in Nat /\ BufSize \in Nat /\ index_w = (index_r + length) % BufSize
  BY Constants DEF QueueTyped
<1>2. \A k \in 0 .. length - 1 : OpAt(k)' = OpAt(k)
  <2> SUFFICES ASSUME NEW k \in 0 .. length - 1
               PROVE  OpAt(k)' = OpAt(k)
    OBVIOUS
  <2>0. k \in Nat /\ k < length /\ k < BufSize /\ index_r \in Slots
    BY <1>1 DEF QueueTyped
  <2>1. (index_r + k) % BufSize # index_w
    BY <1>1, <2>0, SlotsDiffer
  <2>2. (index_r + k) % BufSize \in Slots
    BY <2>0, NextSlot
  <2> QED
    BY <2>1, <2>2 DEF QueueTyped, OpAt
<1>3. \A k \in Nat : k = length => OpAt(k)' = c.op
  BY <1>1 DEF QueueTyped, OpAt
<1>4. \A op \in Ops : Queued(op)' <=> \E k \in 0 .. length : OpAt(k)' = op
  BY <1>1 DEF Queued, OpAt
<1>5. \A op \in Ops : Queued(op) <=> \E k \in 0 .. length - 1 : OpAt(k) = op
  BY DEF Queued, OpAt
<1>6. ASSUME NEW op \in Ops, Queued(op)'
      PROVE  Queued(op) \/ op = c.op
  <2>1. PICK k \in 0 .. length : OpAt(k)' = op
    BY <1>4, <1>6
  <2>2. k \in 0 .. length - 1 \/ k = length
    BY <1>1
  <2> QED
    BY <1>1, <1>2, <1>3, <1>5, <2>1, <2>2
<1>7. ASSUME NEW op \in Ops, Queued(op) \/ op = c.op
      PROVE  Queued(op)'
  <2>1. length \in 0 .. length /\ \A k \in 0 .. length - 1 : k \in 0 .. length
    BY <1>1
  <2>2. CASE Queued(op)
    BY <1>2, <1>4, <1>5, <2>1, <2>2
  <2>3. CASE op = c.op
    BY <1>1, <1>3, <1>4, <2>1, <2>3
  <2> QED
    BY <1>7, <2>2, <2>3
<1> QED
  BY <1>2, <1>3, <1>6, <1>7

(* The first command is taken away, the others move up.                    *)
LEMMA FirstRemoved ==
  ASSUME QueueTyped, length > 0, Advance
  PROVE  /\ \A k \in 0 .. length - 2 : OpAt(k)' = OpAt(k + 1)
         /\ length' = length - 1
         /\ \A op \in Ops : Queued(op)' => Queued(op)
         /\ Active.op = OpAt(0) /\ 0 \in 0 .. length - 1
<1>1. /\ length \in Nat /\ BufSize \in Nat /\ index_r \in Slots /\ length <= BufSize
      /\ index_r \in Nat /\ index_r < BufSize
  BY Constants DEF QueueTyped, Slots
<1>2. length' = length - 1 /\ index_r' = (index_r + 1) % BufSize /\ command' = command
  BY DEF Advance
<1>3. \A k \in 0 .. length - 2 : OpAt(k)' = OpAt(k + 1)
  <2> SUFFICES ASSUME NEW k \in 0 .. length - 2
               PROVE  OpAt(k)' = OpAt(k + 1)
    OBVIOUS
  <2>1. k \in Nat /\ k < BufSize
    BY <1>1
  <2> QED
    BY <1>1, <1>2, <2>1, NextSlot DEF OpAt
<1>4. \A op \in Ops : Queued(op)' <=> \E k \in 0 .. length - 2 : OpAt(k)' = op
  BY <1>1, <1>2 DEF Queued, OpAt
<1>5. \A op \in Ops : Queued(op) <=> \E k \in 0 .. length - 1 : OpAt(k) = op
  BY DEF Queued, OpAt
<1>6. \A k \in 0 .. length - 2 : k + 1 \in 0 .. length - 1
  BY <1>1
<1>7. (index_r + 0) % BufSize = index_r /\ 0 \in 0 .. length - 1
  BY <1>1, Wrap
<1> QED
  BY <1>2, <1>3, <1>4, <1>5, <1>6, <1>7 DEF Active, OpAt
-----------------------------------------------------------------------------
(* Types *)

(* A step of a pause but its end: what it leaves alone.                    *)
InPause == PauseKey \/ Runout \/ RunPause \/ Park \/ Parked \/ ResumeKey \/ Woken

LEMMA PauseChanges ==
  ASSUME Switches, InPause
  PROVE  /\ on /\ UNCHANGED <<on, queueVars, queue_index_r, busy, info, finishing, complete, asked,
                              resume_sdpos, jobs, outages, others, histVars>>
         /\ (pc' = "opening" <=> pc = "opening") /\ udisk' \in UdiskT
         /\ udisk'.flag = udisk.flag /\ udisk'.stop = udisk.stop /\ udisk'.psize = udisk.psize
         /\ timer' \in {"stopped", "running", "paused"} /\ (timer' = "stopped" => timer = "stopped")
         /\ timer' = "running" => timer = "running" \/ ResumeKey
         /\ ResumeKey => udisk.flag
<1> USE DEF Switches, UdiskT
<1>1. CASE PauseKey \/ Runout
  BY <1>1 DEF PauseKey, Runout, Inject, RunPause, ResumeKey, ringVars, fileVars
<1>2. CASE RunPause
  BY <1>2 DEF RunPause, Advancing, InLoop, ringVars, countVars, ResumeKey
<1>3. CASE Park
  BY <1>3 DEF Park, fileVars, countVars, ResumeKey
<1>4. CASE Parked
  BY <1>4 DEF Parked, fileVars, countVars, ringVars, ResumeKey
<1>5. CASE ResumeKey
  <2>1. timer' = "running" /\ UNCHANGED <<pc, udisk>>
    BY <1>5 DEF ResumeKey, fileVars
  <2> QED
    BY <1>5, <2>1 DEF ResumeKey, fileVars, countVars, ringVars
<1>6. CASE Woken
  BY <1>6 DEF Woken, GoBack, fileVars, countVars, ResumeKey
<1> QED
  BY <1>1, <1>2, <1>3, <1>4, <1>5, <1>6 DEF InPause

LEMMA SwitchesStep ==
  ASSUME Switches, RecordTyped, [Next]_vars
  PROVE  Switches'
<1>1. 0 \in Positions /\ \A p \in Positions : p < FileLines => p + 1 \in Positions
  BY Constants DEF Positions
<1> USE DEF Switches, UdiskT, queueVars, ringVars, fileVars, pauseVars, countVars, histVars
<1>2. CASE ReadLine
  <2>1. finishing' \in BOOLEAN
    BY <1>2 DEF ReadLine
  <2>2. udisk' \in UdiskT
    BY <1>1, <1>2 DEF ReadLine
  <2> QED
    BY <1>2, <2>1, <2>2 DEF ReadLine
<1>3. CASE FileHasFinish \/ OtherCommand \/ FinishPrinting
  <2>1. finishing' \in BOOLEAN /\ complete' \in BOOLEAN
    BY <1>3 DEF FileHasFinish, OtherCommand, FinishPrinting
  <2>2. udisk' \in UdiskT
    BY <1>3 DEF FileHasFinish, OtherCommand, FinishPrinting
  <2>3. UNCHANGED <<on, busy, asked, wait_for_user, timer, pc, inject, handler, did_pause_print>>
    BY <1>3 DEF FileHasFinish, OtherCommand, FinishPrinting
  <2> QED
    BY <2>1, <2>2, <2>3
<1>4. CASE StartBlock \/ EndBlock
  <2>1. busy' \in BOOLEAN
    BY <1>4 DEF StartBlock, EndBlock
  <2>2. UNCHANGED <<on, finishing, complete, asked, wait_for_user, timer, udisk, pc, inject,
                    handler, did_pause_print>>
    BY <1>4 DEF StartBlock, EndBlock
  <2> QED
    BY <2>1, <2>2
<1>5. CASE RunMove \/ RunOther \/ RunM1001 \/ RunM24
  BY <1>5 DEF RunMove, RunOther, RunM1001, RunM24, Dispatch
<1>6. CASE StartPrint
  BY <1>1, <1>6 DEF StartPrint, OffUdisk
<1>7. CASE FileOpened
  BY <1>7 DEF FileOpened
<1>8. CASE StopKey
  BY <1>8 DEF StopKey
<1>9. CASE Abort
  BY <1>9 DEF Abort
<1>10. CASE Aborted
  BY <1>1, <1>10 DEF Aborted, OffUdisk
<1>11. CASE InPause
  <2>1. /\ udisk' \in UdiskT /\ timer' \in {"stopped", "running", "paused"}
        /\ UNCHANGED <<on, busy, finishing, complete, asked>>
    BY <1>11, PauseChanges
  <2>2. /\ wait_for_user' \in BOOLEAN /\ inject' \in {"none", "M25", "M600"}
        /\ handler' \in {"none", "M24", "M25", "M600"} /\ did_pause_print' \in 0 .. 2
        /\ pc' \in {pc, "loop", "pausing", "parking", "waiting", "resuming"}
    <3>1. CASE PauseKey \/ Runout
      BY <3>1 DEF PauseKey, Runout, Inject
    <3>2. CASE RunPause
      BY <3>2 DEF RunPause
    <3>3. CASE Park \/ Parked
      BY <3>3 DEF Park, Parked
    <3>4. CASE ResumeKey \/ Woken
      BY <3>4 DEF ResumeKey, Woken, GoBack
    <3> QED
      BY <1>11, <3>1, <3>2, <3>3, <3>4 DEF InPause
  <2> QED
    BY <2>1, <2>2
<1>12. CASE Resumed
  <2>1. (udisk.pause /\ ~(did_pause_print = 2 /\ udisk.flag)) \in BOOLEAN
    OBVIOUS
  <2>2. udisk' \in UdiskT
    BY <1>12, <2>1 DEF Resumed
  <2> QED
    BY <1>12, <2>2 DEF Resumed
<1>13. CASE Outage
  <2>1. /\ on' \in BOOLEAN /\ busy' \in BOOLEAN /\ finishing' \in BOOLEAN
        /\ complete' \in BOOLEAN /\ asked' \in BOOLEAN /\ wait_for_user' \in BOOLEAN
        /\ timer' = "stopped" /\ pc' = "loop"
        /\ inject' = "none" /\ handler' = "none" /\ did_pause_print' = 0
    BY <1>13 DEF Outage
  <2>2. udisk' \in UdiskT
    BY <1>1, <1>13 DEF Outage, OffUdisk
  <2> QED
    BY <2>1, <2>2
<1>14. CASE Boot \/ ConfirmResume \/ CancelResume
  <2>1. asked' \in BOOLEAN
    BY <1>14 DEF Boot, ConfirmResume, CancelResume
  <2>2. on' \in BOOLEAN
    BY <1>14 DEF Boot, ConfirmResume, CancelResume
  <2>3. UNCHANGED <<busy, finishing, complete, wait_for_user, timer, udisk, pc, inject, handler,
                    did_pause_print>>
    BY <1>14 DEF Boot, ConfirmResume, CancelResume
  <2> QED
    BY <2>1, <2>2, <2>3
<1>15. CASE RunM1000 \/ ResumeHeated
  BY <1>15 DEF RunM1000, ResumeHeated, Dispatch
<1>16. CASE ResumeHomed
  <2>1. udisk' \in UdiskT
    BY <1>16 DEF ResumeHomed, ReopenAt, OffUdisk, RecordTyped
  <2> QED
    BY <1>16, <2>1 DEF ResumeHomed
<1>17. CASE UNCHANGED vars
  BY <1>17 DEF vars
<1> QED
  BY <1>2, <1>3, <1>4, <1>5, <1>6, <1>7, <1>8, <1>9, <1>10, <1>11, <1>12, <1>13, <1>14, <1>15,
     <1>16, <1>17 DEF Next, InPause

(* Adding a command and taking one away keep the queue's indices together. *)
LEMMA AddTyped ==
  ASSUME QueueTyped, NEW c \in CommandT, NEW p \in Positions, length < BufSize,
         command' = [command EXCEPT ![index_w] = c], sdpos' = [sdpos EXCEPT ![index_w] = p],
         index_w' = (index_w + 1) % BufSize, length' = length + 1, index_r' = index_r,
         cmd_sdpos' \in Positions, queue_index_r' \in Slots
  PROVE  QueueTyped'
<1>1. length \in Nat /\ BufSize \in Nat /\ BufSize > 2 /\ index_r \in Slots
  BY Constants DEF QueueTyped
<1>2. index_w' = (index_r' + length') % BufSize
  BY <1>1, NextSlot DEF QueueTyped
<1>3. index_w' \in Slots
  BY Constants, Wrap DEF QueueTyped, Slots
<1>4. length' \in 0 .. BufSize
  BY <1>1
<1> QED
  BY <1>2, <1>3, <1>4 DEF QueueTyped

LEMMA AdvanceTyped ==
  ASSUME QueueTyped, length > 0, Advance, queue_index_r' \in Slots
  PROVE  QueueTyped'
<1>1. length \in Nat /\ BufSize \in Nat /\ BufSize > 2 /\ index_r \in Slots /\ length <= BufSize
  BY Constants DEF QueueTyped
<1>2. index_w' = (index_r' + length') % BufSize
  <2>1. (index_r + length) % BufSize = (((index_r + 1) % BufSize) + (length - 1)) % BufSize
    <3>1. length - 1 \in Nat /\ length - 1 < BufSize /\ (length - 1) + 1 = length
      BY <1>1
    <3> QED
      BY <1>1, <3>1, NextSlot
  <2> QED
    BY <2>1 DEF Advance, QueueTyped
<1>3. index_r' \in Slots
  BY <1>1, NextSlot, Constants, Wrap DEF Advance, Slots
<1>4. length' \in 0 .. BufSize
  BY <1>1 DEF Advance
<1> QED
  BY <1>2, <1>3, <1>4 DEF QueueTyped, Advance

LEMMA QueueStep ==
  ASSUME Switches, QueueTyped, ResumedOnce, [Next]_vars
  PROVE  QueueTyped'
<1>1. /\ 0 \in Slots /\ 0 \in Positions
      /\ \A p \in Positions : p < FileLines => p + 1 \in Positions /\ p \in 0 .. FileLines - 1
  BY Constants DEF Slots, Positions
<1>2. index_r \in Slots /\ queue_index_r \in Slots /\ cmd_sdpos \in Positions
  BY DEF QueueTyped
<1>3. ASSUME NEW c \in CommandT, Commit(c), cmd_sdpos' \in Positions, queue_index_r' \in Slots
      PROVE  QueueTyped'
  BY <1>2, <1>3, AddTyped DEF Commit
<1>4. ASSUME Dispatch, Advance
      PROVE  QueueTyped'
  BY <1>2, <1>4, AdvanceTyped DEF Dispatch
<1>5. CASE UNCHANGED queueVars /\ queue_index_r' \in Slots
  BY <1>5 DEF QueueTyped, queueVars
<1>6. CASE ReadLine
  <2>1. udisk.psize \in Positions /\ udisk.psize < FileLines
    BY <1>6 DEF ReadLine, Switches, UdiskT
  <2>2. LineOfFile(udisk.psize) \in CommandT
    BY <1>1, <2>1, Entry
  <2> QED
    BY <1>1, <1>2, <1>3, <1>6, <2>1, <2>2 DEF ReadLine
<1>7. CASE OtherCommand \/ FinishPrinting \/ ConfirmResume
  <2>1. \A op \in Ops : Command(op) \in CommandT
    BY Entry
  <2> QED
    BY <1>2, <1>3, <1>7, <2>1 DEF OtherCommand, FinishPrinting, ConfirmResume, Ops
<1>8. CASE FileOpened
  <2>1. Command("M24") \in CommandT
    BY Entry DEF Ops
  <2> QED
    BY <1>1, <1>2, <1>8, <2>1, AddTyped DEF FileOpened
<1>9. CASE RunMove \/ RunOther \/ RunM1001
  BY <1>4, <1>9 DEF RunMove, RunOther, RunM1001
<1>10. CASE RunM1000 \/ RunM24
  BY <1>2, <1>5, <1>10 DEF RunM1000, RunM24, Dispatch
<1>11. CASE Abort
  <2>1. 0 = (0 + 0) % BufSize
    BY Constants, Wrap
  <2> QED
    BY <1>1, <1>11, <2>1, Constants DEF Abort, QueueTyped
<1>12. CASE Outage
  <2>1. 0 = (0 + 0) % BufSize /\ Command("move") \in CommandT
    BY Constants, Wrap, Entry DEF Ops
  <2>2. command' \in [Slots -> CommandT] /\ sdpos' \in [Slots -> Positions]
    BY <1>1, <1>12, <2>1 DEF Outage, Memory
  <2>3. 0 \in 0 .. BufSize
    BY Constants
  <2> QED
    BY <1>1, <1>12, <2>1, <2>2, <2>3 DEF Outage, QueueTyped
<1>13. CASE ResumeHomed
  BY <1>2, <1>13, AdvanceTyped DEF ResumeHomed, ResumedOnce
<1>14. CASE Resumed
  BY <1>2, <1>5, <1>14, AdvanceTyped DEF Resumed, ResumedOnce
<1>15. CASE InPause
  BY <1>2, <1>5, <1>15, PauseChanges
<1> QED
  BY <1>2, <1>5, <1>6, <1>7, <1>8, <1>9, <1>10, <1>11, <1>12, <1>13, <1>14, <1>15 DEF Next, InPause,
     StartPrint, FileHasFinish, StartBlock, EndBlock, StopKey, Aborted, Boot, CancelResume,
     ResumeHeated, vars, queueVars

LEMMA LinesStep ==
  ASSUME Types, [Next]_vars
  PROVE  LinesAreLines'
<1> USE DEF LinesAreLines
<1>1. ASSUME NEW c \in CommandT, command' = [command EXCEPT ![index_w] = c],
             c.op # "line" => c.line = NoLine
      PROVE  LinesAreLines'
  BY <1>1 DEF Types, QueueTyped
<1>2. CASE command' = command
  BY <1>2 DEF Types
<1>3. CASE ReadLine
  <2>0. udisk.psize \in Positions /\ udisk.psize < FileLines
    BY <1>3 DEF ReadLine, Types, Switches, UdiskT
  <2>1. udisk.psize \in 0 .. FileLines - 1
    BY <2>0, Constants DEF Positions
  <2> QED
    BY <1>1, <1>3, <2>1, Entry DEF ReadLine, Commit
<1>4. CASE OtherCommand \/ FinishPrinting \/ ConfirmResume \/ FileOpened
  <2>1. \A op \in Ops : Command(op) \in CommandT /\ Command(op).line = NoLine
    BY Entry
  <2> QED
    BY <1>1, <1>4, <2>1 DEF OtherCommand, FinishPrinting, ConfirmResume, FileOpened, Commit, Ops
<1>5. CASE Outage
  BY <1>5, Entry DEF Outage, Memory, Ops
<1>6. CASE InPause
  BY <1>2, <1>6, PauseChanges DEF Types, queueVars
<1>7. CASE Resumed
  BY <1>2, <1>7 DEF Resumed, Advance, queueVars
<1> QED
  BY <1>2, <1>3, <1>4, <1>5, <1>6, <1>7 DEF Next, InPause, FileHasFinish, StartBlock, EndBlock,
     RunMove, RunOther, RunM24, RunM1001, RunM1000, StartPrint, StopKey, Abort, Aborted, Boot,
     CancelResume, ResumeHeated, ResumeHomed, Advance, vars, queueVars

(* A block, and the ring when one is added and when the first has left.    *)
LEMMA BlockTyped ==
  ASSUME Types, NEW l \in Moves \cup {NoLine}, NEW s \in Slots
  PROVE  Block(l, s) \in BlockT
BY DEF Types, QueueTyped, RecordTyped, Record, Block, BlockT

LEMMA MoveTyped ==
  ASSUME Types
  PROVE  Move \in BlockT /\ Move.line = NoLine /\ Move.sdpos = sdpos[queue_index_r]
<1>1. queue_index_r \in Slots
  BY DEF Types, QueueTyped
<1> QED
  BY <1>1, BlockTyped DEF Move, Block

LEMMA FirstBlock ==
  ASSUME RingTyped, blocks # <<>>
  PROVE  Head(blocks) \in BlockT /\ Tail(blocks) \in Seq(BlockT) /\ Len(Tail(blocks)) = Len(blocks) - 1
BY HeadTailProperties DEF RingTyped

LEMMA RingStep ==
  ASSUME Types, [Next]_vars
  PROVE  RingTyped'
<1> USE DEF RingTyped
<1>1. RingTyped /\ RingSize \in Nat /\ RingSize > 0
  BY Constants DEF Types
<1>2. ASSUME NEW b \in BlockT, Len(blocks) < RingSize, blocks' = Append(blocks, b), busy' = busy
      PROVE  RingTyped'
  <2>1. Len(blocks') = Len(blocks) + 1 /\ blocks' \in Seq(BlockT) /\ Len(blocks) \in Nat
    BY <1>1, <1>2, AppendProperties, LenProperties
  <2>2. blocks' # <<>>
    BY <2>1, EmptySeq
  <2> QED
    BY <1>1, <1>2, <2>1, <2>2
<1>3. ASSUME NEW b \in BlockT, blocks' = <<b>>, ~busy' \/ busy' = busy
      PROVE  RingTyped'
  BY <1>1, <1>3
<1>4. CASE UNCHANGED ringVars
  BY <1>1, <1>4 DEF ringVars
<1>5. CASE StartBlock
  BY <1>1, <1>5 DEF StartBlock
<1>6. CASE EndBlock
  <2>1. blocks # <<>> /\ blocks' = Tail(blocks) /\ ~busy'
    BY <1>1, <1>6 DEF EndBlock
  <2> QED
    BY <1>1, <2>1
<1>7. CASE RunMove
  <2>1. Active.line \in Moves \cup {NoLine} /\ index_r \in Slots
    BY <1>7 DEF RunMove, Active, Types, QueueTyped, LinesAreLines
  <2> QED
    BY <1>2, <1>7, <2>1, BlockTyped DEF RunMove
<1>8. CASE RunM24
  <2>1. index_r \in Slots
    BY DEF Types, QueueTyped
  <2> QED
    BY <1>2, <1>8, <2>1, BlockTyped DEF RunM24
<1>9. CASE Abort \/ ResumeHomed \/ Park
  BY <1>3, <1>9, MoveTyped DEF Abort, ResumeHomed, Park
<1>10. CASE ResumeHeated
  BY <1>2, <1>10, MoveTyped DEF ResumeHeated
<1>11. CASE Woken
  BY <1>2, <1>4, <1>11, MoveTyped DEF Woken, GoBack, ringVars
<1>12. CASE Outage
  <2>1. blocks' = <<>> /\ ~busy'
    BY <1>12 DEF Outage
  <2> QED
    BY <1>1, <2>1
<1> QED
  BY <1>4, <1>5, <1>6, <1>7, <1>8, <1>9, <1>10, <1>11, <1>12 DEF Next, ReadLine, FileHasFinish,
     OtherCommand, FinishPrinting, RunOther, RunM1001, RunM1000, StartPrint, FileOpened, StopKey,
     Aborted, PauseKey, Runout, Inject, RunPause, Parked, ResumeKey, Resumed, Boot, ConfirmResume,
     CancelResume, vars

LEMMA RecordStep ==
  ASSUME Types, [Next]_vars
  PROVE  RecordTyped'
<1>1. RecordTyped /\ jobs \in 0 .. MaxJobs /\ MaxJobs \in Nat /\ 0 \in Positions
  BY Constants DEF Types, HistoryTyped, Positions
<1>2. Cleared \in Record /\ \A r \in Record : r.pos \in Positions /\ r.file \in 0 .. MaxJobs
  BY <1>1 DEF Record, Cleared
<1> USE DEF RecordTyped
<1>3. CASE UNCHANGED <<info, disk, resume_sdpos>>
  BY <1>1, <1>3
<1>4. CASE StartBlock
  <2>1. Head(blocks).sdpos \in Positions
    <3>1. RingTyped /\ blocks # <<>>
      BY <1>4 DEF StartBlock, Types
    <3> QED
      BY <3>1, FirstBlock DEF BlockT
  <2>2. info' \in Record
    BY <1>1, <1>4, <2>1 DEF StartBlock, Record
  <2> QED
    BY <1>1, <1>4, <2>2 DEF StartBlock
<1>5. CASE FileOpened
  <2>1. info' \in Record
    BY <1>1, <1>5 DEF FileOpened, Prepare, Record
  <2> QED
    BY <1>1, <1>5, <2>1 DEF FileOpened
<1>6. CASE RunM1001 \/ Abort \/ CancelResume
  BY <1>1, <1>2, <1>6 DEF RunM1001, Abort, CancelResume, Purge
<1>7. CASE Outage
  BY <1>1, <1>2, <1>7 DEF Outage, Save
<1>8. CASE Boot
  <2>1. info' \in Record
    BY <1>1, <1>2, <1>8 DEF Boot
  <2> QED
    BY <1>1, <1>8, <2>1 DEF Boot
<1>9. CASE ResumeHomed \/ RunM1000
  BY <1>1, <1>2, <1>9 DEF ResumeHomed, RunM1000
<1>10. CASE Parked \/ Resumed
  BY <1>1, <1>10 DEF Parked, Resumed, Save
<1> QED
  BY <1>3, <1>4, <1>5, <1>6, <1>7, <1>8, <1>9, <1>10 DEF Next, ReadLine, FileHasFinish, OtherCommand,
     FinishPrinting, EndBlock, RunMove, RunOther, RunM24, StartPrint, StopKey, Aborted, PauseKey,
     Runout, Inject, RunPause, Park, ResumeKey, Woken, ConfirmResume, ResumeHeated, vars

LEMMA HistoryStep ==
  ASSUME Types, [Next]_vars
  PROVE  HistoryTyped'
<1>1. HistoryTyped /\ MaxJobs \in Nat /\ MaxOutages \in Nat /\ MaxOthers \in Nat /\ MaxPauses \in Nat
  BY Constants DEF Types
<1> USE DEF HistoryTyped
<1>2. CASE UNCHANGED <<countVars, last, unsaved>> /\ printing' \in {0, printing}
  BY <1>1, <1>2 DEF countVars
<1>3. CASE OtherCommand
  BY <1>1, <1>3 DEF OtherCommand, histVars
<1>4. CASE EndBlock
  <2>1. Head(blocks).line \in Moves \cup {NoLine}
    <3>1. RingTyped /\ blocks # <<>>
      BY <1>4 DEF EndBlock, Types, RingTyped
    <3> QED
      BY <3>1, FirstBlock DEF BlockT
  <2>2. last' \in [Jobs -> Moves \cup {NoLine}]
    BY <1>1, <1>4, <2>1 DEF EndBlock
  <2> QED
    BY <1>1, <1>4, <2>2 DEF EndBlock, countVars
<1>5. CASE StartPrint
  BY <1>1, <1>5 DEF StartPrint
<1>6. CASE Outage
  BY <1>1, <1>6 DEF Outage, Hindrance, histVars
<1>7. CASE PauseKey \/ Runout
  BY <1>1, <1>7 DEF PauseKey, Runout, Inject, histVars
<1> QED
  BY <1>2, <1>3, <1>4, <1>5, <1>6, <1>7 DEF Next, ReadLine, FileHasFinish, FinishPrinting, StartBlock,
     RunMove, RunOther, RunM24, RunM1001, FileOpened, StopKey, Abort, Aborted, RunPause, Park, Parked,
     ResumeKey, Woken, Resumed, Boot, ConfirmResume, CancelResume, RunM1000, ResumeHeated,
     ResumeHomed, histVars, vars
-----------------------------------------------------------------------------
(* One resume at a time *)

LEMMA OffStep ==
  ASSUME Types, OffIsEmpty, [Next]_vars
  PROVE  OffIsEmpty'
<1>1. CASE on'
  BY <1>1 DEF OffIsEmpty
<1>2. CASE Outage
  BY <1>2 DEF Outage, OffUdisk, OffIsEmpty
<1>3. CASE UNCHANGED <<on, timer, udisk, finishing, complete, asked, length, pc, inject>>
  BY <1>3 DEF OffIsEmpty
<1>4. CASE UNCHANGED vars
  BY <1>3, <1>4 DEF vars, queueVars, fileVars, pauseVars
<1>5. CASE on' = on /\ on
  BY <1>1, <1>5
<1>6. CASE InPause
  BY <1>5, <1>6, PauseChanges DEF Types
<1> QED
  BY <1>1, <1>2, <1>4, <1>5, <1>6 DEF Next, InPause, ReadLine, FileHasFinish, OtherCommand,
     FinishPrinting, StartBlock, EndBlock, RunMove, RunOther, RunM1001, RunM24, Dispatch, Advancing,
     InLoop, StartPrint, FileOpened, StopKey, Abort, Aborted, Resumed, Boot, ConfirmResume,
     CancelResume, RunM1000, ResumeHeated, ResumeHomed

(* What a step does to the queue: nothing, one command more, one less, or  *)
(* all of them gone.                                                       *)
QueueSame  == UNCHANGED <<length, index_r, command>>
QueueMore(op) ==
  /\ length' = length + 1 /\ \A k \in 0 .. length - 1 : OpAt(k)' = OpAt(k)
  /\ \A k \in Nat : k = length => OpAt(k)' = op
  /\ \A x \in Ops : Queued(x)' <=> Queued(x) \/ x = op
QueueLess ==
  /\ length > 0 /\ length' = length - 1
  /\ \A k \in 0 .. length - 2 : OpAt(k)' = OpAt(k + 1)
  /\ \A x \in Ops : Queued(x)' => Queued(x)
QueueGone == length' = 0 /\ \A x \in Ops : ~Queued(x)'

LEMMA SameKeeps ==
  ASSUME QueueSame
  PROVE  length' = length /\ \A x : (Queued(x)' <=> Queued(x)) /\ OpAt(x)' = OpAt(x)
BY DEF QueueSame, Queued, OpAt

LEMMA QueueChange ==
  ASSUME Types, ResumedOnce, [Next]_vars
  PROVE  /\ ReadLine => QueueMore("line")
         /\ OtherCommand => QueueMore("move")
         /\ FinishPrinting => QueueMore("M1001")
         /\ FileOpened => QueueMore("M24")
         /\ ConfirmResume => QueueMore("M1000")
         /\ RunMove \/ RunOther \/ RunM1001 \/ ResumeHomed => QueueLess
         /\ Resumed => IF handler = "M24" THEN QueueLess ELSE QueueSame
         /\ Abort \/ Outage => QueueGone
         /\ FileHasFinish \/ StartBlock \/ EndBlock \/ StopKey \/ Aborted \/ Boot \/ CancelResume
              \/ RunM1000 \/ ResumeHeated \/ StartPrint \/ RunM24 \/ InPause \/ UNCHANGED vars
              => QueueSame
<1>1. QueueTyped /\ Switches
  BY DEF Types
<1>2. ASSUME NEW c \in CommandT, Commit(c)
      PROVE  QueueMore(c.op)
  BY <1>1, <1>2, AddedLast DEF Commit, QueueMore
<1>3. \A op \in Ops : Command(op) \in CommandT /\ Command(op).op = op
  BY Entry
<1>4. ReadLine => QueueMore("line")
  <2> SUFFICES ASSUME ReadLine PROVE QueueMore("line")
    OBVIOUS
  <2>1. udisk.psize \in Positions /\ udisk.psize < FileLines
    BY DEF ReadLine, Types, Switches, UdiskT
  <2>2. udisk.psize \in 0 .. FileLines - 1
    BY <2>1, Constants DEF Positions
  <2> QED
    BY <1>2, <2>2, Entry DEF ReadLine
<1>5. /\ OtherCommand => QueueMore("move")
      /\ FinishPrinting => QueueMore("M1001")
      /\ ConfirmResume => QueueMore("M1000")
  BY <1>2, <1>3 DEF OtherCommand, FinishPrinting, ConfirmResume, Ops
<1>6. FileOpened => QueueMore("M24")
  BY <1>1, <1>3, AddedLast DEF FileOpened, QueueMore, Ops
<1>7. ASSUME length > 0, Advance
      PROVE  QueueLess
  BY <1>1, <1>7, FirstRemoved DEF QueueLess
<1>8. RunMove \/ RunOther \/ RunM1001 \/ ResumeHomed => QueueLess
  BY <1>7 DEF RunMove, RunOther, RunM1001, ResumeHomed, Dispatch, ResumedOnce
<1>9. Abort \/ Outage => QueueGone
  <2>1. Abort \/ Outage => length' = 0
    BY DEF Abort, Outage
  <2> QED
    BY <2>1 DEF QueueGone, Queued
<1>10. Resumed => IF handler = "M24" THEN QueueLess ELSE QueueSame
  BY <1>7 DEF Resumed, ResumedOnce, QueueSame, queueVars
<1>11. InPause => QueueSame
  BY <1>1, PauseChanges DEF QueueSame, queueVars
<1> QED
  BY <1>4, <1>5, <1>6, <1>8, <1>9, <1>10, <1>11 DEF FileHasFinish, StartBlock, EndBlock, StopKey,
     Aborted, Boot, CancelResume, RunM1000, RunM24, ResumeHeated, StartPrint, vars, queueVars,
     QueueSame

(* The resume begins with its M1000 at the head of the queue.              *)
LEMMA HeadOfQueue ==
  ASSUME Types, length > 0
  PROVE  Active.op = OpAt(0) /\ Queued(OpAt(0))
<1>1. length \in Nat /\ BufSize \in Nat /\ index_r \in Nat /\ index_r < BufSize
  BY Constants DEF Types, QueueTyped, Slots
<1>2. (index_r + 0) % BufSize = index_r /\ 0 \in 0 .. length - 1
  BY <1>1, Wrap
<1> QED
  BY <1>2 DEF Active, OpAt, Queued

LEMMA ResumedOnceStep ==
  ASSUME Types, OffIsEmpty, ResumedOnce, [Next]_vars
  PROVE  ResumedOnce'
<1>1. length \in Nat
  BY DEF Types, QueueTyped
<1>2. "M1000" \in Ops /\ "line" \in Ops
  BY DEF Ops
<1> USE DEF ResumedOnce
<1>3. ASSUME QueueSame, UNCHANGED asked, UNCHANGED <<pc, handler>> \/ pc' \in {"loop", "opening"},
             timer = "running" => timer' = "running"
      PROVE  ResumedOnce'
  BY <1>3, SameKeeps
<1>4. ASSUME NEW op \in Ops, QueueMore(op), op # "M1000", UNCHANGED asked,
             pc' \in {"loop", "opening"} \/ UNCHANGED <<pc, timer, handler>>
      PROVE  ResumedOnce'
  <2>1. \A j, k \in 0 .. length' - 1 : OpAt(j)' = "M1000" /\ OpAt(k)' = "M1000" => j = k
    <3>1. \A k \in 0 .. length' - 1 : OpAt(k)' = "M1000" => k \in 0 .. length - 1 /\ OpAt(k) = "M1000"
      BY <1>1, <1>4 DEF QueueMore
    <3> QED
      BY <3>1
  <2>2. Queued("M1000")' <=> Queued("M1000")
    BY <1>2, <1>4 DEF QueueMore
  <2>3. length > 0 => length' > 0 /\ OpAt(0)' = OpAt(0)
    BY <1>1, <1>4 DEF QueueMore
  <2> QED
    BY <1>4, <2>1, <2>2, <2>3
<1>5. ASSUME QueueLess, UNCHANGED asked, pc' = "loop"
      PROVE  ResumedOnce'
  <2>1. \A j, k \in 0 .. length' - 1 : OpAt(j)' = "M1000" /\ OpAt(k)' = "M1000" => j = k
    <3> SUFFICES ASSUME NEW j \in 0 .. length' - 1, NEW k \in 0 .. length' - 1,
                        OpAt(j)' = "M1000", OpAt(k)' = "M1000"
                 PROVE  j = k
      OBVIOUS
    <3>1. /\ OpAt(j + 1) = "M1000" /\ OpAt(k + 1) = "M1000"
          /\ j + 1 \in 0 .. length - 1 /\ k + 1 \in 0 .. length - 1
      BY <1>1, <1>5 DEF QueueLess
    <3>2. j + 1 = k + 1
      BY <3>1
    <3> QED
      BY <3>2
  <2> QED
    BY <1>2, <1>5, <2>1 DEF QueueLess
<1>6. ASSUME QueueGone, pc' \in {"loop", "stopping"}
      PROVE  ResumedOnce'
  BY <1>2, <1>6 DEF QueueGone
<1>7. CASE ReadLine
  BY <1>2, <1>4, <1>7, QueueChange DEF ReadLine, pauseVars
<1>8. CASE OtherCommand \/ FinishPrinting \/ FileOpened
  BY <1>4, <1>8, QueueChange DEF OtherCommand, FinishPrinting, FileOpened, Ops, pauseVars
<1>9. CASE RunMove \/ RunOther \/ RunM1001 \/ ResumeHomed
  BY <1>5, <1>9, QueueChange DEF RunMove, RunOther, RunM1001, ResumeHomed, Dispatch, Advancing, InLoop
<1>10. CASE Abort \/ Outage
  BY <1>6, <1>10, QueueChange DEF Abort, Outage
<1>11. CASE ConfirmResume
  <2>1. /\ QueueMore("M1000") /\ ~Queued("M1000") /\ ~asked' /\ pc' \notin {"heating", "homing"}
        /\ UNCHANGED <<pc, handler>>
    BY <1>11, QueueChange DEF ConfirmResume, pauseVars
  <2>2. \A k \in 0 .. length' - 1 : OpAt(k)' = "M1000" => k = length
    <3>1. \A k \in 0 .. length - 1 : OpAt(k) # "M1000"
      BY <2>1 DEF Queued, OpAt
    <3>2. \A k \in 0 .. length' - 1 : k \in 0 .. length - 1 \/ k = length
      BY <1>1, <2>1 DEF QueueMore
    <3> QED
      BY <2>1, <3>1, <3>2 DEF QueueMore
  <2>3. length > 0 => length' > 0 /\ OpAt(0)' = OpAt(0)
    BY <1>1, <2>1 DEF QueueMore
  <2> QED
    BY <2>1, <2>2, <2>3
<1>12. CASE RunM1000
  <2>1. OpAt(0) = "M1000" /\ Queued("M1000") /\ length > 0
    BY <1>12, HeadOfQueue DEF RunM1000, Dispatch
  <2>2. ~asked /\ ~asked' /\ QueueSame /\ pc' = "heating"
    BY <1>12, <2>1, QueueChange DEF RunM1000
  <2> QED
    BY <2>1, <2>2, SameKeeps
<1>13. CASE ResumeHeated
  <2>1. QueueSame /\ timer' = "running" /\ asked' = asked /\ pc = "heating" /\ pc' = "homing"
    BY <1>13, QueueChange DEF ResumeHeated
  <2> QED
    BY <2>1, SameKeeps
<1>14. CASE Boot
  <2>1. length = 0 /\ pc = "loop" /\ QueueSame /\ pc' = pc
    BY <1>14, QueueChange DEF Boot, OffIsEmpty
  <2>2. ~Queued("M1000")
    BY <2>1 DEF Queued
  <2> QED
    BY <2>1, <2>2, SameKeeps
<1>15. CASE CancelResume
  BY <1>15, QueueChange, SameKeeps DEF CancelResume, pauseVars
<1>16. CASE FileHasFinish \/ StartBlock \/ EndBlock \/ UNCHANGED vars
  BY <1>3, <1>16, QueueChange DEF FileHasFinish, StartBlock, EndBlock, vars, pauseVars
<1>17. CASE StopKey \/ Aborted \/ StartPrint
  BY <1>3, <1>17, QueueChange DEF StopKey, Aborted, StartPrint, pauseVars
<1>18. CASE RunM24
  <2>1. OpAt(0) = "M24" /\ length > 0
    BY <1>18, HeadOfQueue DEF RunM24, Dispatch
  <2>2. asked' = asked /\ QueueSame /\ pc = "loop" /\ pc' = "resuming"
    BY <1>18, QueueChange DEF RunM24, Dispatch, Advancing, InLoop
  <2> QED
    BY <2>1, <2>2, SameKeeps
<1>19. CASE InPause
  <2>1. QueueSame /\ asked' = asked
    BY <1>19, QueueChange, PauseChanges DEF Types
  <2>2. CASE PauseKey \/ Runout \/ Park \/ Parked \/ ResumeKey
    <3>1. (UNCHANGED pc \/ (pc = "pausing" /\ pc' = "parking") \/ (pc = "parking" /\ pc' = "waiting"))
          /\ UNCHANGED handler /\ (timer = "running" => timer' = "running")
      BY <2>2 DEF PauseKey, Runout, Inject, Park, Parked, ResumeKey, pauseVars
    <3> QED
      BY <2>1, <3>1, SameKeeps
  <2>3. CASE RunPause
    <3>1. pc = "loop" /\ (pc' = "loop" \/ (pc' = "pausing" /\ handler' # "M24"))
      BY <2>3 DEF RunPause, Advancing, InLoop, Types, Switches
    <3> QED
      BY <2>1, <3>1, SameKeeps
  <2>4. CASE Woken
    <3>1. pc' = "loop" \/ (pc' = "resuming" /\ handler' # "M24")
      BY <2>4 DEF Woken, GoBack
    <3> QED
      BY <2>1, <2>4, <3>1, SameKeeps
  <2> QED
    BY <1>19, <2>2, <2>3, <2>4 DEF InPause
<1>20. CASE Resumed
  <2>1. pc' = "loop" /\ asked' = asked
    BY <1>20 DEF Resumed
  <2> QED
    BY <1>5, <1>20, <2>1, QueueChange, SameKeeps
<1> QED
  BY <1>7, <1>8, <1>9, <1>10, <1>11, <1>12, <1>13, <1>14, <1>15, <1>16, <1>17, <1>18, <1>19, <1>20
  DEF Next, InPause
-----------------------------------------------------------------------------
(* At most one of reading, stopping, ending and resuming a print *)

(* A command that leaves the queue takes no other with it.                 *)
LEMMA OthersStay ==
  ASSUME Types, QueueLess, NEW op \in Ops, OpAt(0) # op
  PROVE  Queued(op)' <=> Queued(op)
<1>1. length \in Nat
  BY DEF Types, QueueTyped
<1>2. SUFFICES ASSUME Queued(op)
               PROVE  Queued(op)'
  BY DEF QueueLess
<1>3. PICK k \in 0 .. length - 1 : OpAt(k) = op
  BY <1>2 DEF Queued, OpAt
<1>4. k # 0
  BY <1>3
<1>5. k - 1 \in 0 .. length - 2 /\ (k - 1) + 1 = k
  BY <1>1, <1>4
<1>6. OpAt(k - 1)' = op
  BY <1>3, <1>5 DEF QueueLess
<1>7. k - 1 \in 0 .. length' - 1
  BY <1>1, <1>5 DEF QueueLess
<1> QED
  BY <1>6, <1>7 DEF Queued, OpAt

(* The resume takes the one M1000 with it.                                 *)
LEMMA ResumeIsOver ==
  ASSUME Types, ResumedOnce, [Next]_vars, ResumeHomed
  PROVE  ~Resuming' /\ Queued("M1000") /\ timer = "running"
<1>1. length \in Nat /\ length > 0 /\ OpAt(0) = "M1000" /\ ~asked /\ timer = "running" /\ ~asked'
  BY DEF Types, QueueTyped, ResumeHomed, ResumedOnce
<1>2. Queued("M1000")
  BY <1>1, HeadOfQueue
<1>3. QueueLess
  BY QueueChange
<1>4. ASSUME NEW k \in 0 .. length' - 1, OpAt(k)' = "M1000"
      PROVE  FALSE
  <2>1. k \in 0 .. length - 2 /\ k + 1 \in 0 .. length - 1 /\ 0 \in 0 .. length - 1 /\ k + 1 # 0
    BY <1>1, <1>3, <1>4 DEF QueueLess
  <2>2. OpAt(k + 1) = "M1000"
    BY <1>3, <1>4, <2>1 DEF QueueLess
  <2> QED
    BY <1>1, <2>1, <2>2 DEF ResumedOnce
<1>5. ~Queued("M1000")'
  BY <1>4 DEF Queued, OpAt
<1> QED
  BY <1>1, <1>2, <1>5 DEF Resuming

(* What a step does to the commands of a resume and of an end in the queue.*)
LEMMA MarksChange ==
  ASSUME Types, ResumedOnce, [Next]_vars
  PROVE  /\ ReadLine \/ OtherCommand \/ StartPrint \/ FileOpened \/ FileHasFinish \/ StartBlock
              \/ EndBlock \/ RunMove \/ RunOther \/ RunM24 \/ StopKey \/ Aborted \/ RunM1000
              \/ ResumeHeated \/ InPause \/ Resumed \/ UNCHANGED vars
              => (Resuming' <=> Resuming) /\ (Queued("M1001")' <=> Queued("M1001"))
         /\ FinishPrinting => (Resuming' <=> Resuming)
         /\ RunM1001 => (Resuming' <=> Resuming) /\ Queued("M1001")
         /\ ConfirmResume => Resuming /\ Resuming' /\ (Queued("M1001")' <=> Queued("M1001"))
         /\ CancelResume => Resuming /\ ~Resuming' /\ (Queued("M1001")' <=> Queued("M1001"))
         /\ Abort => (Resuming' <=> asked) /\ ~Queued("M1001")'
         /\ Outage => ~Resuming' /\ ~Queued("M1001")'
<1> USE DEF Resuming
<1>1. "M1000" \in Ops /\ "M1001" \in Ops
  BY DEF Ops
<1>2. ASSUME QueueSame
      PROVE  (Queued("M1000")' <=> Queued("M1000")) /\ (Queued("M1001")' <=> Queued("M1001"))
  BY <1>2, SameKeeps
<1>2a. ASSUME NEW op \in Ops, QueueMore(op), asked' = asked, op # "M1000"
       PROVE  (Resuming' <=> Resuming) /\ (Queued("M1001")' <=> Queued("M1001") \/ op = "M1001")
  <2>1. \A x \in Ops : Queued(x)' <=> Queued(x) \/ x = op
    BY <1>2a DEF QueueMore
  <2> QED
    BY <1>1, <1>2a, <2>1
<1>3. ReadLine \/ OtherCommand \/ FileOpened
        => (Resuming' <=> Resuming) /\ (Queued("M1001")' <=> Queued("M1001"))
  <2>1. ReadLine \/ OtherCommand \/ FileOpened => asked' = asked
    BY DEF ReadLine, OtherCommand, FileOpened
  <2>2. ReadLine \/ OtherCommand \/ FileOpened
          => \E op \in Ops \ {"M1000", "M1001"} : QueueMore(op)
    BY QueueChange DEF Ops
  <2> QED
    BY <1>2a, <2>1, <2>2
<1>4. FileHasFinish \/ StartBlock \/ EndBlock \/ StopKey \/ Aborted \/ RunM1000 \/ ResumeHeated
        \/ StartPrint \/ RunM24 \/ InPause \/ UNCHANGED vars
        => (Resuming' <=> Resuming) /\ (Queued("M1001")' <=> Queued("M1001"))
  <2> SUFFICES ASSUME FileHasFinish \/ StartBlock \/ EndBlock \/ StopKey \/ Aborted \/ RunM1000
                        \/ ResumeHeated \/ StartPrint \/ RunM24 \/ InPause \/ UNCHANGED vars
               PROVE  (Resuming' <=> Resuming) /\ (Queued("M1001")' <=> Queued("M1001"))
    OBVIOUS
  <2>1. QueueSame
    BY QueueChange
  <2>2. asked' = asked
    BY PauseChanges DEF FileHasFinish, StartBlock, EndBlock, StopKey, Aborted, RunM1000,
       ResumeHeated, StartPrint, RunM24, Types, vars
  <2> QED
    BY <1>2, <2>1, <2>2
<1>5. RunMove \/ RunOther => (Resuming' <=> Resuming) /\ (Queued("M1001")' <=> Queued("M1001"))
  <2> SUFFICES ASSUME RunMove \/ RunOther
               PROVE  (Resuming' <=> Resuming) /\ (Queued("M1001")' <=> Queued("M1001"))
    OBVIOUS
  <2>1. index_r \in Slots /\ NoLine \notin Moves /\ length > 0
    BY Constants DEF Types, QueueTyped, NoLine, RunMove, RunOther, Dispatch
  <2>2. Active.op # "M1000" /\ Active.op # "M1001"
    BY <2>1 DEF RunMove, RunOther, Active, Types, LinesAreLines
  <2>3. OpAt(0) # "M1000" /\ OpAt(0) # "M1001"
    BY <2>1, <2>2, HeadOfQueue
  <2>4. QueueLess /\ asked' = asked
    BY QueueChange DEF RunMove, RunOther
  <2> QED
    BY <1>1, <2>3, <2>4, OthersStay
<1>6. FinishPrinting => (Resuming' <=> Resuming)
  <2>1. FinishPrinting => QueueMore("M1001") /\ asked' = asked
    BY QueueChange DEF FinishPrinting
  <2> QED
    BY <1>1, <1>2a, <2>1
<1>7. RunM1001 => (Resuming' <=> Resuming) /\ Queued("M1001")
  <2> SUFFICES ASSUME RunM1001
               PROVE  (Resuming' <=> Resuming) /\ Queued("M1001")
    OBVIOUS
  <2>1. OpAt(0) = "M1001" /\ Queued(OpAt(0))
    BY HeadOfQueue DEF RunM1001, Dispatch
  <2>2. QueueLess /\ asked' = asked
    BY QueueChange DEF RunM1001
  <2> QED
    BY <1>1, <2>1, <2>2, OthersStay
<1>8. ConfirmResume => Resuming /\ Resuming' /\ (Queued("M1001")' <=> Queued("M1001"))
  BY <1>1, QueueChange DEF QueueMore, ConfirmResume
<1>9. CancelResume => Resuming /\ ~Resuming' /\ (Queued("M1001")' <=> Queued("M1001"))
  BY <1>2, QueueChange DEF CancelResume, ResumedOnce
<1>10. Abort \/ Outage => ~Queued("M1000")' /\ ~Queued("M1001")'
  BY <1>1, QueueChange DEF QueueGone
<1>11. (Abort => asked' = asked) /\ (Outage => ~asked')
  BY DEF Abort, Outage
<1>12. Resumed => (Resuming' <=> Resuming) /\ (Queued("M1001")' <=> Queued("M1001"))
  <2> SUFFICES ASSUME Resumed
               PROVE  (Resuming' <=> Resuming) /\ (Queued("M1001")' <=> Queued("M1001"))
    OBVIOUS
  <2>1. asked' = asked /\ pc = "resuming"
    BY DEF Resumed
  <2>2. CASE handler = "M24"
    <3>1. OpAt(0) = "M24" /\ QueueLess
      BY <2>1, <2>2, QueueChange DEF ResumedOnce
    <3> QED
      BY <1>1, <2>1, <3>1, OthersStay
  <2>3. CASE handler # "M24"
    BY <1>2, <2>1, <2>3, QueueChange
  <2> QED
    BY <2>2, <2>3
<1> QED
  BY <1>3, <1>4, <1>5, <1>6, <1>7, <1>8, <1>9, <1>10, <1>11, <1>12
LEMMA OneAtATimeStep ==
  ASSUME Types, OffIsEmpty, ResumedOnce, OneAtATime, [Next]_vars
  PROVE  OneAtATime'
<1> USE DEF OneAtATime
<1>1. udisk \in UdiskT
  BY DEF Types, Switches
<1>2. ASSUME (Resuming' => Resuming) /\ (Queued("M1001")' => Queued("M1001")),
             UNCHANGED <<complete, finishing>>, timer' # timer => timer' # "stopped",
             udisk'.flag = udisk.flag, udisk'.stop = udisk.stop, udisk'.psize = udisk.psize,
             pc' = pc \/ pc' \notin {"stopping", "opening"}
      PROVE  OneAtATime'
  <2>1. udisk'.flag => ~udisk'.stop /\ ~complete' /\ ~Queued("M1001")' /\ timer' # "stopped"
    BY <1>2
  <2>2. Resuming' => ~udisk'.flag /\ ~udisk'.stop /\ ~complete' /\ ~Queued("M1001")'
    BY <1>2
  <2>3. /\ finishing' => udisk'.flag \/ udisk'.stop
        /\ pc' = "stopping" => udisk'.stop /\ ~finishing'
        /\ pc' = "opening" => udisk'.flag /\ ~finishing' /\ udisk'.psize = 0
    BY <1>2
  <2> QED
    BY <2>1, <2>2, <2>3
<1>3. CASE ReadLine
  <2>1. udisk.flag /\ udisk'.flag /\ udisk'.stop = udisk.stop
    BY <1>1, <1>3 DEF ReadLine, UdiskT
  <2>2. complete' = complete /\ timer' = timer /\ pc' = pc /\ pc # "opening" /\ pc # "stopping"
    BY <1>3, <2>1 DEF ReadLine
  <2> QED
    BY <1>3, <2>1, <2>2, MarksChange
<1>4. CASE FileHasFinish
  <2>1. finishing /\ ~finishing' /\ ~udisk'.flag /\ udisk'.stop = udisk.stop /\ pc' = pc
    BY <1>1, <1>4 DEF FileHasFinish, UdiskT
  <2>2. ~Resuming' /\ pc # "stopping" /\ pc # "opening"
    BY <1>4, <2>1, MarksChange
  <2> QED
    BY <2>1, <2>2
<1>5. CASE OtherCommand
  BY <1>2, <1>5, MarksChange DEF OtherCommand, fileVars
<1>6. CASE FinishPrinting
  <2>1. complete /\ pc = "loop" /\ UNCHANGED <<udisk, pc, finishing>> /\ ~finishing
    BY <1>6 DEF FinishPrinting, InLoop
  <2>2. ~udisk.flag /\ ~Resuming
    BY <2>1
  <2>3. ~Resuming'
    BY <1>6, <2>2, MarksChange
  <2> QED
    BY <2>1, <2>2, <2>3
<1>7. CASE StartBlock \/ EndBlock \/ RunMove \/ RunOther \/ RunM24 \/ UNCHANGED vars
  <2>1. UNCHANGED <<udisk, finishing, complete, timer>> /\ (UNCHANGED pc \/ pc' = "resuming")
    BY <1>7 DEF StartBlock, EndBlock, RunMove, RunOther, RunM24, fileVars, vars
  <2> QED
    BY <1>2, <1>7, <2>1, MarksChange
<1>8. CASE RunM1001
  <2>1. Queued("M1001") /\ (Resuming' <=> Resuming)
    BY <1>8, MarksChange
  <2>2. /\ ~udisk.flag /\ ~Resuming /\ UNCHANGED <<udisk, pc, finishing>>
        /\ pc = "loop" /\ ~finishing
    BY <1>8, <2>1 DEF RunM1001, fileVars, Dispatch, Advancing, InLoop
  <2> QED
    BY <2>1, <2>2
<1>9. CASE StartPrint
  <2>1. /\ udisk'.flag /\ ~udisk'.stop /\ udisk'.psize = 0 /\ timer' = "running"
        /\ ~complete' /\ ~finishing' /\ pc' = "opening"
    BY <1>9 DEF StartPrint, OffUdisk, InLoop
  <2>2. ~Resuming /\ ~Queued("M1001")
    BY <1>9 DEF StartPrint, Resuming
  <2>3. ~Resuming' /\ ~Queued("M1001")'
    BY <1>9, <2>2, MarksChange
  <2> QED
    BY <2>1, <2>3
<1>10. CASE FileOpened
  <2>1. UNCHANGED <<udisk, finishing, complete, timer>> /\ pc' = "loop"
    BY <1>10 DEF FileOpened, fileVars
  <2> QED
    BY <1>2, <1>10, <2>1, MarksChange
<1>11. CASE StopKey
  <2>1. /\ udisk.flag /\ ~udisk'.flag /\ udisk'.stop
        /\ pc # "opening" /\ UNCHANGED <<pc, finishing>>
    BY <1>1, <1>11 DEF StopKey, UdiskT
  <2>2. ~Resuming' /\ pc # "stopping"
    BY <1>11, <2>1, MarksChange
  <2> QED
    BY <2>1, <2>2
<1>12. CASE Abort
  <2>1. udisk.stop /\ UNCHANGED <<udisk, finishing>> /\ pc' = "stopping" /\ ~finishing
    BY <1>12 DEF Abort, fileVars, InLoop
  <2>2. ~udisk.flag /\ ~Resuming /\ ~asked
    BY <2>1 DEF Resuming
  <2>3. ~Resuming'
    BY <1>12, <2>2, MarksChange
  <2> QED
    BY <2>1, <2>2, <2>3
<1>13. CASE Aborted
  <2>1. ~udisk'.flag /\ udisk.stop /\ pc' = "loop" /\ ~finishing /\ UNCHANGED finishing
    BY <1>13 DEF Aborted, OffUdisk
  <2>2. ~Resuming'
    BY <1>13, <2>1, MarksChange
  <2> QED
    BY <2>1, <2>2
<1>14. CASE InPause
  <2>1. /\ UNCHANGED <<finishing, complete>> /\ (timer' # timer => timer' # "stopped")
        /\ udisk'.flag = udisk.flag /\ udisk'.stop = udisk.stop /\ udisk'.psize = udisk.psize
    BY <1>14, PauseChanges DEF Types
  <2>2. pc' = pc \/ pc' \notin {"stopping", "opening"}
    BY <1>14 DEF InPause, PauseKey, Runout, Inject, RunPause, Park, Parked, ResumeKey, Woken, GoBack
  <2> QED
    BY <1>2, <1>14, <2>1, <2>2, MarksChange
<1>15. CASE Resumed
  <2>1. /\ UNCHANGED <<finishing, complete>> /\ (timer' # timer => timer' # "stopped")
        /\ pc' = "loop"
    BY <1>15 DEF Resumed
  <2>2. udisk'.flag = udisk.flag /\ udisk'.stop = udisk.stop /\ udisk'.psize = udisk.psize
    BY <1>1, <1>15 DEF Resumed, UdiskT
  <2> QED
    BY <1>2, <1>15, <2>1, <2>2, MarksChange
<1>16. CASE Outage
  <2>1. ~udisk'.flag /\ pc' = "loop" /\ ~finishing'
    BY <1>16 DEF Outage, OffUdisk
  <2>2. ~Resuming'
    BY <1>16, MarksChange
  <2> QED
    BY <2>1, <2>2
<1>17. CASE Boot
  <2>1. /\ ~udisk.flag /\ ~udisk.stop /\ ~complete /\ ~finishing /\ length = 0 /\ pc = "loop"
        /\ UNCHANGED <<udisk, complete, finishing, pc, length>>
    BY <1>17 DEF Boot, OffIsEmpty, queueVars, fileVars
  <2>2. ~Queued("M1001")'
    BY <2>1 DEF Queued
  <2> QED
    BY <2>1, <2>2
<1>18. CASE ConfirmResume
  <2>1. /\ Resuming /\ (Queued("M1001")' <=> Queued("M1001"))
        /\ UNCHANGED <<udisk, complete, finishing, pc>>
    BY <1>18, MarksChange DEF ConfirmResume, fileVars
  <2> QED
    BY <2>1
<1>19. CASE CancelResume
  <2>1. Resuming /\ ~Resuming' /\ UNCHANGED <<udisk, complete, finishing, pc>>
    BY <1>19, MarksChange DEF CancelResume, fileVars
  <2> QED
    BY <2>1
<1>20. CASE RunM1000 \/ ResumeHeated
  BY <1>2, <1>20, MarksChange DEF RunM1000, ResumeHeated, fileVars
<1>21. CASE ResumeHomed
  <2>1. ~Resuming' /\ Resuming /\ timer = "running"
    BY <1>21, ResumeIsOver DEF Resuming
  <2>2. /\ UNCHANGED <<timer, complete, finishing>> /\ pc' = "loop"
        /\ udisk' = udisk \/ (udisk'.flag /\ ~udisk'.stop)
    BY <1>21 DEF ResumeHomed, ReopenAt, OffUdisk
  <2>3. QueueLess /\ "M1001" \in Ops
    BY <1>21, QueueChange DEF Ops
  <2>4. ~Queued("M1001")'
    BY <2>1, <2>3 DEF QueueLess
  <2> QED
    BY <2>1, <2>2, <2>4
<1> QED
  BY <1>3, <1>4, <1>5, <1>6, <1>7, <1>8, <1>9, <1>10, <1>11, <1>12, <1>13, <1>14, <1>15, <1>16,
     <1>17, <1>18, <1>19, <1>20, <1>21 DEF Next, InPause

(* A line is read while a print is on, whose end is then not yet queued;   *)
(* the end is queued when nothing is read.                                 *)
LEMMA EndIsLastStep ==
  ASSUME Types, ResumedOnce, OneAtATime, EndIsLast, [Next]_vars
  PROVE  EndIsLast'
<1>1. length \in Nat
  BY DEF Types, QueueTyped
<1> USE DEF EndIsLast
<1>2. CASE QueueSame
  BY <1>2, SameKeeps
<1>3. ASSUME NEW op \in Ops, QueueMore(op), op = "line" => ~Queued("M1001")
      PROVE  EndIsLast'
  <2> SUFFICES ASSUME NEW j \in 0 .. length' - 1, NEW k \in 0 .. length' - 1, j < k,
                      OpAt(j)' = "M1001"
               PROVE  OpAt(k)' # "line"
    OBVIOUS
  <2>1. j \in 0 .. length - 1 /\ (k \in 0 .. length - 1 \/ k = length) /\ k \in Nat
    BY <1>1, <1>3 DEF QueueMore
  <2>2. OpAt(j) = "M1001"
    BY <1>3, <2>1 DEF QueueMore
  <2>3. Queued("M1001")
    BY <2>1, <2>2 DEF Queued, OpAt
  <2> QED
    BY <1>3, <2>1, <2>2, <2>3 DEF QueueMore
<1>4. CASE QueueLess
  <2> SUFFICES ASSUME NEW j \in 0 .. length' - 1, NEW k \in 0 .. length' - 1, j < k,
                      OpAt(j)' = "M1001"
               PROVE  OpAt(k)' # "line"
    OBVIOUS
  <2>1. /\ j \in 0 .. length - 2 /\ k \in 0 .. length - 2 /\ j + 1 < k + 1
        /\ j + 1 \in 0 .. length - 1 /\ k + 1 \in 0 .. length - 1
    BY <1>1, <1>4 DEF QueueLess
  <2> QED
    BY <1>4, <2>1 DEF QueueLess
<1>5. CASE QueueGone
  BY <1>5 DEF QueueGone
<1>6. CASE ReadLine
  <2>1. ~Queued("M1001")
    BY <1>6 DEF ReadLine, OneAtATime
  <2> QED
    BY <1>3, <1>6, <2>1, QueueChange DEF Ops
<1>7. CASE OtherCommand \/ FinishPrinting \/ FileOpened \/ ConfirmResume
  BY <1>3, <1>7, QueueChange DEF Ops
<1> QED
  BY <1>2, <1>4, <1>5, <1>6, <1>7, QueueChange DEF Next, InPause

LEMMA PauseIsStillStep ==
  ASSUME Types, OffIsEmpty, OneAtATime, PauseIsStill, [Next]_vars
  PROVE  PauseIsStill'
<1> USE DEF PauseIsStill
<1>1. udisk \in UdiskT
  BY DEF Types, Switches
<1>2. CASE pc' # "waiting"
  BY <1>2 DEF Saved
<1>3. CASE UNCHANGED <<pc, blocks, info>> /\ (Saved' => Saved /\ disk' = disk)
  BY <1>3
<1>4. CASE UNCHANGED <<pc, handler, blocks, info, disk>> /\ (udisk'.flag => udisk.flag)
  BY <1>4 DEF Saved
<1>5. CASE Parked
  <2>1. blocks = <<>> /\ UNCHANGED <<blocks, info, handler, udisk>>
    BY <1>5 DEF Parked, ringVars, fileVars
  <2>2. Saved' => disk' = info
    BY <1>5, <2>1 DEF Parked, Saved, Save
  <2> QED
    BY <2>1, <2>2
<1>6. CASE StartBlock \/ EndBlock
  <2>1. pc # "waiting" /\ pc' = pc
    <3>1. blocks # <<>> /\ pc' = pc
      BY <1>6 DEF StartBlock, EndBlock, Types, RingTyped
    <3> QED
      BY <3>1
  <2> QED
    BY <1>2, <2>1
<1>7. CASE ReadLine \/ FileHasFinish \/ OtherCommand \/ StopKey \/ ConfirmResume
  <2>1. UNCHANGED <<pc, handler, blocks, info, disk>>
    BY <1>7 DEF ReadLine, FileHasFinish, OtherCommand, StopKey, ConfirmResume, ringVars, pauseVars
  <2>2. udisk'.flag => udisk.flag
    BY <1>1, <1>7 DEF ReadLine, FileHasFinish, OtherCommand, StopKey, ConfirmResume, fileVars, UdiskT
  <2> QED
    BY <1>4, <2>1, <2>2
<1>8. CASE PauseKey \/ Runout \/ ResumeKey \/ UNCHANGED vars
  <2>1. UNCHANGED <<pc, handler, blocks, info, disk, udisk>>
    BY <1>8 DEF PauseKey, Runout, Inject, ResumeKey, vars, ringVars, fileVars, pauseVars
  <2> QED
    BY <1>4, <2>1
<1>9. CASE CancelResume
  <2>1. UNCHANGED <<pc, handler, blocks, info, udisk>> /\ asked
    BY <1>9 DEF CancelResume, ringVars, fileVars, pauseVars
  <2>2. ~Saved'
    BY <2>1 DEF Saved, OneAtATime, Resuming
  <2> QED
    BY <2>1, <2>2
<1>10. CASE Boot
  <2>1. pc = "loop" /\ pc' = pc
    BY <1>10 DEF Boot, OffIsEmpty
  <2> QED
    BY <1>2, <2>1
<1>11. CASE FinishPrinting \/ RunMove \/ RunOther \/ RunM1001 \/ RunM24 \/ RunM1000 \/ StartPrint
              \/ FileOpened \/ Abort \/ Aborted \/ RunPause \/ Park \/ Resumed \/ Outage
              \/ ResumeHeated \/ ResumeHomed
  <2>1. pc' # "waiting"
    BY <1>11 DEF FinishPrinting, RunMove, RunOther, RunM1001, RunM24, RunM1000, Dispatch, Advancing,
       InLoop, StartPrint, FileOpened, Abort, Aborted, RunPause, Park, Resumed, Outage,
       ResumeHeated, ResumeHomed
  <2> QED
    BY <1>2, <2>1
<1>12. CASE Woken
  <2>1. pc' # "waiting"
    BY <1>12 DEF Woken, GoBack
  <2> QED
    BY <1>2, <2>1
<1> QED
  BY <1>5, <1>6, <1>7, <1>8, <1>9, <1>10, <1>11, <1>12 DEF Next

-----------------------------------------------------------------------------
(* The record *)

(* In parts: what the record of a print may be, and whose it is.           *)
LEMMA RecordNamesStep ==
  ASSUME Types, OffIsEmpty, ResumedOnce, OneAtATime, PauseIsStill, RecordNames, [Next]_vars
  PROVE  RecordNames'
<1> USE DEF RecordNames, RecordKept, NoRecordLeft
<1>1. /\ udisk \in UdiskT
      /\ jobs \in Nat /\ printing \in Nat /\ info \in Record /\ disk \in Record \cup {NoRecord}
      /\ unsaved \in {"none", "opening", "paused", "unread"}
  <2>1. jobs \in 0 .. MaxJobs /\ printing \in 0 .. MaxJobs
    BY DEF Types, HistoryTyped
  <2>2. jobs \in Nat /\ printing \in Nat
    BY <2>1, Constants
  <2> QED
    BY <2>2 DEF Types, Switches, RecordTyped, HistoryTyped
<1>1a. info.file \in Nat /\ disk.file \in Int /\ NoRecord.file = -1 /\ Cleared.file = 0
  <2>1. info.file \in 0 .. MaxJobs /\ (disk \in Record => disk.file \in 0 .. MaxJobs)
    BY <1>1 DEF Record
  <2> QED
    BY <1>1, <2>1, Constants DEF NoRecord, Cleared
<1>2. ASSUME UNCHANGED <<on, jobs, ended, printing, unsaved>>, info'.file = info.file,
             udisk'.flag = udisk.flag, Resuming' <=> Resuming, pc' = "opening" <=> pc = "opening",
             disk' = disk \/ (on /\ udisk.flag /\ pc # "opening" /\ disk' = info)
      PROVE  RecordNames'
  <2>1. udisk.flag => ~Resuming
    BY DEF OneAtATime
  <2>2. CASE disk' = disk
    BY <1>2, <2>2
  <2>3. CASE on /\ udisk.flag /\ pc # "opening" /\ disk' = info
    BY <1>2, <2>1, <2>3
  <2> QED
    BY <1>2, <2>2, <2>3
<1>3. CASE ReadLine
  <2>1. udisk'.flag = udisk.flag
    BY <1>1, <1>3 DEF ReadLine, UdiskT
  <2>2. UNCHANGED <<on, jobs, ended, disk, printing, unsaved, info, pc>>
    BY <1>3 DEF ReadLine, countVars, histVars
  <2> QED
    BY <1>2, <1>3, <2>1, <2>2, MarksChange
<1>4. CASE OtherCommand \/ FinishPrinting \/ EndBlock \/ RunMove \/ RunOther \/ RunM1000
             \/ ResumeHeated \/ UNCHANGED vars
  <2>1. UNCHANGED <<on, jobs, ended, disk, printing, unsaved, info, udisk>>
    BY <1>4 DEF OtherCommand, FinishPrinting, EndBlock, RunMove, RunOther, RunM1000,
       ResumeHeated, vars, countVars, histVars, fileVars
  <2>2. UNCHANGED pc \/ (pc' # "opening" /\ pc # "opening")
    BY <1>4 DEF OtherCommand, FinishPrinting, EndBlock, RunMove, RunOther, RunM1000,
       ResumeHeated, vars, Dispatch, Advancing, InLoop
  <2> QED
    BY <1>2, <1>4, <2>1, <2>2, MarksChange
<1>5. CASE StartBlock
  <2>1. UNCHANGED <<on, jobs, ended, disk, printing, unsaved, udisk, pc>> /\ info'.file = info.file
    BY <1>1, <1>5 DEF StartBlock, countVars, histVars, fileVars, Record
  <2> QED
    BY <1>2, <1>5, <2>1, MarksChange
<1>6. CASE FileHasFinish
  <2>1. /\ UNCHANGED <<on, jobs, ended, disk, unsaved, info, pc>> /\ printing' = 0 /\ on
        /\ ~udisk'.flag /\ finishing
    BY <1>1, <1>6 DEF FileHasFinish, countVars, UdiskT
  <2>2. (Resuming' <=> Resuming) /\ pc # "opening"
    BY <1>6, <2>1, MarksChange DEF OneAtATime
  <2> QED
    BY <2>1, <2>2
(* A print that is stopped or at its end is neither read nor resumed. *)
<1>7. ASSUME on, ~udisk.flag, ~Resuming, UNCHANGED <<on, jobs, printing, unsaved>>, ~udisk'.flag,
             ~Resuming', Purge, pc' # "opening", ended' = ended \cup ({info.file} \ {0})
      PROVE  RecordNames'
  <2>1. printing' # 0 => unsaved' \in {"opening", "paused"}
    BY <1>7
  <2>2. info' = Cleared /\ disk' = NoRecord
    BY <1>7 DEF Purge
  <2>3. ended' \subseteq 1 .. jobs'
    <3>1. {info.file} \ {0} \subseteq 1 .. jobs
      BY <1>1, <1>1a
    <3> QED
      BY <1>7, <3>1
  <2>4. -1 \notin ended'
    BY <1>1, <2>3
  <2> QED
    BY <1>1, <1>1a, <1>7, <2>1, <2>2, <2>3, <2>4
<1>8. CASE RunM1001
  <2>1. Queued("M1001") /\ (Resuming' <=> Resuming)
    BY <1>8, MarksChange
  <2>2. ~udisk.flag /\ ~Resuming
    BY <2>1 DEF OneAtATime
  <2>3. /\ on /\ UNCHANGED <<on, jobs, udisk, printing, unsaved>> /\ Purge /\ pc' # "opening"
        /\ ended' = ended \cup ({info.file} \ {0})
    BY <1>8 DEF RunM1001, Dispatch, Advancing, InLoop, countVars, fileVars
  <2> QED
    BY <1>7, <2>1, <2>2, <2>3
<1>9. CASE Abort
  <2>1. ~udisk.flag /\ ~Resuming
    BY <1>9 DEF Abort, OneAtATime
  <2>2. /\ on /\ UNCHANGED <<on, jobs, udisk, printing, unsaved>> /\ Purge /\ pc' # "opening"
        /\ ended' = ended \cup ({info.file} \ {0})
    BY <1>9 DEF Abort, InLoop, countVars, fileVars
  <2>3. ~Resuming'
    BY <1>9, <2>1, MarksChange DEF Resuming
  <2> QED
    BY <1>7, <2>1, <2>2, <2>3
<1>10. CASE Aborted
  <2>1. /\ udisk.stop /\ UNCHANGED <<on, jobs, ended, disk, printing, unsaved, info>> /\ ~udisk'.flag
        /\ pc' # "opening" /\ pc # "opening"
    BY <1>10 DEF Aborted, OneAtATime, OffUdisk, countVars, histVars
  <2>2. ~udisk.flag /\ (Resuming' <=> Resuming)
    BY <1>10, <2>1, MarksChange DEF OneAtATime
  <2> QED
    BY <1>1, <1>2, <2>1, <2>2 DEF UdiskT
<1>11. CASE StopKey
  <2>1. /\ UNCHANGED <<on, jobs, ended, disk, info, unsaved, pc>> /\ printing' = 0 /\ on
        /\ ~udisk'.flag /\ pc # "opening"
    BY <1>1, <1>11 DEF StopKey, countVars, UdiskT
  <2>2. Resuming' <=> Resuming
    BY <1>11, MarksChange
  <2> QED
    BY <2>1, <2>2
<1>12. CASE StartPrint
  <2>1. /\ on /\ on' = on /\ jobs' = jobs + 1 /\ printing' = jobs + 1 /\ udisk'.flag
        /\ pc' = "opening" /\ UNCHANGED <<disk, ended, info>>
        /\ unsaved' = IF unsaved = "opening" THEN unsaved ELSE "none"
    BY <1>12 DEF StartPrint, InLoop, OffUdisk
  <2>2. ~Resuming'
    <3>1. ~Resuming
      BY <1>12 DEF StartPrint, Resuming
    <3> QED
      BY <1>12, <3>1, MarksChange
  <2>3. /\ jobs + 1 \notin ended /\ ended \subseteq 1 .. jobs + 1 /\ jobs + 1 # 0
        /\ info.file <= jobs + 1 /\ disk.file <= jobs + 1
    BY <1>1, <1>1a
  <2>4. unsaved' \in {"none", "opening"} /\ (unsaved' # "opening" => unsaved # "opening")
    BY <2>1
  <2> QED
    BY <2>1, <2>2, <2>3, <2>4
<1>13. CASE FileOpened
  <2>1. /\ UNCHANGED <<on, jobs, ended, disk, printing, unsaved, udisk>> /\ info'.file = jobs
        /\ pc = "opening" /\ pc' = "loop"
    BY <1>1, <1>13 DEF FileOpened, Prepare, countVars, histVars, fileVars, Record
  <2>2. udisk.flag /\ ~Resuming /\ ~Resuming'
    BY <1>13, <2>1, MarksChange DEF OneAtATime
  <2> QED
    BY <1>1, <2>1, <2>2
<1>14. CASE InPause
  <2>1. /\ UNCHANGED <<on, jobs, ended, printing, unsaved, info>> /\ on
        /\ udisk'.flag = udisk.flag /\ (pc' = "opening" <=> pc = "opening")
    BY <1>14, PauseChanges DEF Types, histVars
  <2>2. disk' = disk \/ (udisk.flag /\ pc # "opening" /\ disk' = info)
    BY <1>14 DEF InPause, PauseKey, Runout, Inject, RunPause, Park, Parked, ResumeKey, Woken, Save
  <2> QED
    BY <1>2, <1>14, <2>1, <2>2, MarksChange
<1>15. CASE RunM24
  <2>1. /\ UNCHANGED <<on, jobs, ended, disk, printing, unsaved, info, udisk>>
        /\ pc' # "opening" /\ pc # "opening"
    BY <1>15 DEF RunM24, Dispatch, Advancing, InLoop, countVars, histVars, fileVars
  <2> QED
    BY <1>2, <1>15, <2>1, MarksChange
<1>16. CASE Resumed
  <2>1. /\ UNCHANGED <<on, jobs, ended, printing, unsaved, info>> /\ on
        /\ pc' # "opening" /\ pc # "opening"
        /\ disk' = disk \/ (udisk.flag /\ disk' = info)
    BY <1>16 DEF Resumed, Save, countVars, histVars
  <2>2. udisk'.flag = udisk.flag
    BY <1>1, <1>16 DEF Resumed, UdiskT
  <2> QED
    BY <1>2, <1>16, <2>1, <2>2, MarksChange
<1>17. CASE Outage
  <2>1. /\ on /\ ~on' /\ UNCHANGED <<jobs, ended, printing>> /\ info' = Cleared /\ ~udisk'.flag
        /\ disk' = (IF timer = "running" /\ udisk.flag THEN info ELSE disk) /\ pc' = "loop"
        /\ unsaved' = IF unsaved = "none" THEN Hindrance ELSE unsaved
    BY <1>17 DEF Outage, OffUdisk, Save
  <2>2. ~Resuming'
    BY <1>17, MarksChange
  <2>3. unsaved' # "opening" => unsaved # "opening" /\ pc # "opening"
    BY <1>1, <2>1 DEF Hindrance
  <2>4. unsaved' = "unread" => printing = 0
    BY <1>1, <2>1 DEF Hindrance, Resuming
  <2>5. unsaved' = "opening" => jobs # 0
    BY <1>1, <2>1 DEF Hindrance
  <2>6. unsaved' # "opening" => disk'.file # 0 /\ disk'.file \notin ended
    BY <2>1, <2>3
  <2>7. ASSUME printing # 0, unsaved' \notin {"opening", "paused"}
        PROVE  disk'.file = printing
    <3>1. unsaved' \in {"none", "opening", "paused", "unread"}
      BY <1>1, <2>1 DEF Hindrance
    <3>2. unsaved' = "none" /\ unsaved = "none" /\ Hindrance = "none"
      BY <2>1, <2>4, <2>7, <3>1
    <3>3. pc # "opening" /\ info.file = printing /\ (udisk.flag \/ Resuming)
      BY <2>1, <2>3, <2>7, <3>2
    <3>4. CASE udisk.flag
      <4>1. timer = "running" \/ timer = "paused"
        BY <3>4 DEF OneAtATime, Types, Switches
      <4>2. timer = "paused" => Saved
        BY <3>2, <3>3, <3>4 DEF Hindrance
      <4> QED
        BY <2>1, <3>3, <3>4, <4>1, <4>2 DEF PauseIsStill
    <3>5. CASE ~udisk.flag
      BY <2>1, <3>2, <3>3, <3>5
    <3> QED
      BY <3>4, <3>5
  <2>8. info'.file <= jobs /\ disk'.file <= jobs
    BY <1>1, <1>1a, <2>1
  <2> QED
    BY <2>1, <2>2, <2>4, <2>5, <2>6, <2>7, <2>8
<1>18. CASE Boot
  <2>1. /\ ~on /\ on' /\ UNCHANGED <<jobs, ended, printing, unsaved, udisk, disk, length, pc>>
        /\ info' = (IF disk = NoRecord THEN Cleared ELSE disk)
        /\ (asked' <=> disk # NoRecord)
    BY <1>18 DEF Boot, countVars, histVars, queueVars, fileVars
  <2>2. ~udisk.flag /\ length = 0 /\ pc = "loop"
    BY <2>1 DEF OffIsEmpty
  <2>3. Resuming' <=> asked'
    BY <2>1, <2>2 DEF Resuming, Queued
  <2>4. printing # 0 /\ unsaved \notin {"opening", "paused"} => disk # NoRecord /\ disk.file = printing
    BY <1>1, <1>1a, <2>1
  <2>5. info'.file <= jobs
    BY <1>1, <1>1a, <2>1
  <2> QED
    BY <1>1, <1>1a, <2>1, <2>2, <2>3, <2>4, <2>5
<1>19. CASE ConfirmResume
  <2>1. UNCHANGED <<on, jobs, ended, disk, printing, unsaved, info, udisk, pc>>
    BY <1>19 DEF ConfirmResume, countVars, histVars, fileVars
  <2> QED
    BY <1>2, <1>19, <2>1, MarksChange
<1>20. CASE CancelResume
  <2>1. /\ UNCHANGED <<on, jobs, info, udisk, unsaved, pc>> /\ disk' = NoRecord /\ printing' = 0 /\ on
        /\ ended' = ended \cup ({info.file} \ {0})
    BY <1>20 DEF CancelResume, countVars, fileVars
  <2>2. Resuming /\ ~Resuming'
    BY <1>20, MarksChange
  <2>3. ~udisk.flag /\ pc # "opening"
    BY <2>2 DEF OneAtATime
  <2>4. {info.file} \ {0} \subseteq 1 .. jobs
    BY <1>1, <1>1a
  <2>5. ended' \subseteq 1 .. jobs'
    BY <2>1, <2>4
  <2>6. -1 \notin ended'
    BY <1>1, <2>1, <2>5
  <2> QED
    BY <1>1, <1>1a, <2>1, <2>2, <2>3, <2>5, <2>6
<1>21. CASE ResumeHomed
  <2>1. ~Resuming' /\ Resuming /\ ~udisk.flag
    BY <1>21, ResumeIsOver DEF Resuming, OneAtATime
  <2>2. UNCHANGED <<on, jobs, ended, printing, unsaved, info>> /\ on /\ pc' = "loop"
    BY <1>21 DEF ResumeHomed, countVars, histVars
  <2>3. CASE info.file = 0
    <3>1. UNCHANGED <<udisk, disk>>
      BY <1>21, <2>3 DEF ResumeHomed
    <3>2. printing # 0 => unsaved \in {"opening", "paused"}
      BY <2>1, <2>2, <2>3 DEF OneAtATime
    <3> QED
      BY <2>1, <2>2, <2>3, <3>1, <3>2
  <2>4. CASE info.file # 0
    <3>1. udisk'.flag /\ disk' = info
      BY <1>21, <2>4 DEF ResumeHomed, ReopenAt, OffUdisk
    <3> QED
      BY <1>1, <2>1, <2>2, <2>4, <3>1 DEF OneAtATime
  <2> QED
    BY <2>3, <2>4
<1> QED
  BY <1>3, <1>4, <1>5, <1>6, <1>8, <1>9, <1>10, <1>11, <1>12, <1>13, <1>14, <1>15, <1>16, <1>17,
     <1>18, <1>19, <1>20, <1>21 DEF Next, InPause

-----------------------------------------------------------------------------
(* The invariant, and what follows from it *)

LEMMA InitHolds ==
  ASSUME Init
  PROVE  Types /\ IInv
<1>1. /\ BufSize \in Nat /\ BufSize > 2 /\ FileLines \in Nat /\ MaxJobs \in Nat
      /\ MaxOutages \in Nat /\ MaxOthers \in Nat /\ MaxPauses \in Nat /\ RingSize \in Nat
      /\ 0 = (0 + 0) % BufSize
  BY Constants, Wrap
<1>2. 0 \in Slots /\ 0 \in Positions
  BY <1>1 DEF Slots, Positions
<1>3. Switches
  <2>1. udisk \in UdiskT
    BY <1>2 DEF Init, UdiskT, OffUdisk
  <2>2. /\ on \in BOOLEAN /\ busy \in BOOLEAN /\ finishing \in BOOLEAN
        /\ complete \in BOOLEAN /\ asked \in BOOLEAN /\ wait_for_user \in BOOLEAN
        /\ timer = "stopped" /\ pc = "loop"
        /\ inject = "none" /\ handler = "none" /\ did_pause_print = 0
    BY DEF Init
  <2> QED
    BY <2>1, <2>2 DEF Switches
<1>4. Command("move") \in CommandT /\ Command("move").op = "move" /\ Command("move").line = NoLine
  BY Entry DEF Ops
<1>5. QueueTyped /\ LinesAreLines
  BY <1>1, <1>2, <1>4 DEF Init, Memory, QueueTyped, LinesAreLines
<1>6. RingTyped
  BY <1>1 DEF Init, RingTyped
<1>7. RecordTyped
  BY <1>1, <1>2 DEF Init, RecordTyped, Record, Cleared
<1>8. HistoryTyped
  BY <1>1 DEF Init, HistoryTyped
<1>9. ~Queued("M1000") /\ ~Queued("M1001") /\ ~asked /\ on /\ length = 0
  BY DEF Init, Queued
<1>10. OffIsEmpty /\ ResumedOnce
  BY <1>9 DEF Init, OffIsEmpty, ResumedOnce
<1>11. OneAtATime /\ EndIsLast /\ PauseIsStill
  BY <1>9 DEF Init, OneAtATime, EndIsLast, PauseIsStill, Resuming, OffUdisk, Saved
<1>12. RecordNames
  BY <1>9 DEF Init, RecordNames, RecordKept, NoRecordLeft, NoRecord, Cleared, OffUdisk, Resuming
<1> QED
  BY <1>3, <1>5, <1>6, <1>7, <1>8, <1>10, <1>11, <1>12 DEF Types, IInv

LEMMA Inductive == Spec => [](Types /\ IInv)
<1>1. Types /\ IInv /\ [Next]_vars => (Types /\ IInv)'
  <2> SUFFICES ASSUME Types, IInv, [Next]_vars
               PROVE  (Types /\ IInv)'
    OBVIOUS
  <2>1. Types'
    BY SwitchesStep, QueueStep, LinesStep, RingStep, RecordStep, HistoryStep DEF Types, IInv
  <2>2. IInv'
    BY OffStep, ResumedOnceStep, OneAtATimeStep, EndIsLastStep, PauseIsStillStep, RecordNamesStep
    DEF IInv
  <2> QED
    BY <2>1, <2>2
<1> QED
  BY <1>1, InitHolds, PTL DEF Spec

(* Every variable keeps its type, and the indices of the command queue     *)
(* agree with its length, through every pause, stop and outage.            *)
THEOREM TypeCorrect == Spec => []TypeOK
<1>1. Types /\ IInv => TypeOK
  <2> SUFFICES ASSUME Types, IInv
               PROVE  TypeOK
    OBVIOUS
  <2>1. Switches /\ QueueTyped /\ RingTyped /\ RecordTyped /\ HistoryTyped
    BY DEF Types
  <2>2. ended \subseteq Jobs
    BY <2>1, Constants DEF IInv, RecordNames, HistoryTyped, Jobs
  <2>3. {on, busy, finishing, complete, asked, wait_for_user} \subseteq BOOLEAN
    BY <2>1 DEF Switches
  <2>4. /\ udisk \in [flag : BOOLEAN, pause : BOOLEAN, stop : BOOLEAN, psize : Positions]
        /\ pc \in {"loop", "opening", "heating", "homing", "pausing", "parking", "waiting",
                   "resuming", "stopping"}
        /\ timer \in {"stopped", "running", "paused"} /\ did_pause_print \in 0 .. 2
        /\ inject \in {"none", "M25", "M600"} /\ handler \in {"none", "M24", "M25", "M600"}
    BY <2>1 DEF Switches, UdiskT
  <2>5. command \in [Slots -> [op : {"line", "move", "M24", "M1000", "M1001"},
                              line : NoLine .. FileLines - 1]]
    BY <2>1 DEF QueueTyped, CommandT, Ops
  <2>6. /\ length \in 0 .. BufSize /\ index_r \in Slots /\ index_w \in Slots
        /\ index_w = (index_r + length) % BufSize
        /\ sdpos \in [Slots -> Positions] /\ cmd_sdpos \in Positions
        /\ queue_index_r \in Slots
    BY <2>1 DEF QueueTyped
  <2>7. /\ blocks \in Seq([line : Moves \cup {NoLine}, sdpos : Positions, job : 0 .. MaxJobs])
        /\ Len(blocks) <= RingSize + 1 /\ (busy => blocks # <<>>)
    BY <2>1 DEF RingTyped, BlockT
  <2>8. info \in Record /\ disk \in Record \cup {NoRecord} /\ resume_sdpos \in Positions
    BY <2>1 DEF RecordTyped
  <2>9. /\ jobs \in 0 .. MaxJobs /\ outages \in 0 .. MaxOutages /\ others \in 0 .. MaxOthers
        /\ pauses \in 0 .. MaxPauses
        /\ printing \in 0 .. MaxJobs /\ last \in [Jobs -> Moves \cup {NoLine}]
        /\ unsaved \in {"none", "opening", "paused", "unread"}
    BY <2>1 DEF HistoryTyped
  <2> QED
    BY <2>2, <2>3, <2>4, <2>5, <2>6, <2>7, <2>8, <2>9 DEF TypeOK
<1> QED
  BY <1>1, Inductive, PTL

(* However often power fails, during the print, its resume, the question   *)
(* whether to resume, or while the key's pause waits: a print that was not *)
(* read to its end is named by the record on the U disk.  Only an outage   *)
(* while its file is opened, while the head is parked, or in an M600 that  *)
(* nobody has resumed can have left it without.                            *)
THEOREM RecordIsKept == Spec => []RecordKept
<1>1. IInv => RecordKept
  BY DEF IInv, RecordNames
<1> QED
  BY <1>1, Inductive, PTL

(* The record of a print that was finished, stopped or given up is never   *)
(* on the U disk again: neither an outage, a pause nor a resume writes it  *)
(* back, as long as no outage meets a file that is opened but not named.   *)
THEOREM NoRecordIsLeft == Spec => []NoRecordLeft
<1>1. IInv => NoRecordLeft
  BY DEF IInv, RecordNames
<1> QED
  BY <1>1, Inductive, PTL
-----------------------------------------------------------------------------
(* The order of the first print *)

(* What is on its way, the planner's blocks before the queue's commands:   *)
(* the line each of them is, and the position it carries.                  *)
OnTheWay == Len(blocks) + length
SlotOf(n) == (index_r + (n - 1 - Len(blocks))) % BufSize
Line(n) == IF n <= Len(blocks) THEN blocks[n].line  ELSE command[SlotOf(n)].line
Pos(n)  == IF n <= Len(blocks) THEN blocks[n].sdpos ELSE sdpos[SlotOf(n)]

(* The first print, up to a second outage and to one that finds something  *)
(* that kept the record from being written; what it executed last, and     *)
(* whether it goes on in order at a position.                              *)
First   == jobs < 2 /\ outages < 2 /\ (jobs = 0 \/ unsaved = "none")
Done    == IF jobs = 0 THEN NoLine ELSE last[1]
GoesOn(p) == Done <= p /\ \A m \in Moves : Done < m => p <= m

(* Lines are on their way in the order of the file, behind the last one    *)
(* executed and before those to be read; and no move is missing.           *)
InOrder ==
  /\ \A i, j \in 1 .. OnTheWay : i < j /\ Line(i) # NoLine /\ Line(j) # NoLine => Line(i) < Line(j)
  /\ \A i \in 1 .. OnTheWay : Line(i) # NoLine =>
       jobs = 1 /\ Done <= Line(i) /\ (udisk.flag => Line(i) < udisk.psize)
  /\ udisk.flag => Done <= udisk.psize
Awaited(m) == \/ udisk.flag /\ m < udisk.psize
              \/ \E i \in 1 .. OnTheWay : Line(i) # NoLine /\ m < Line(i)
NoneMissing ==
  \A m \in Moves : Done < m /\ Awaited(m) => \E i \in 1 .. OnTheWay : Line(i) = m
OfFirst ==
  /\ \A k \in 1 .. Len(blocks) : blocks[k].line # NoLine => blocks[k].job = 1
  /\ Queued("line") => info.file = 1
  /\ jobs = 0 => /\ ~udisk.flag /\ ~udisk.stop /\ udisk.psize = 0 /\ disk = NoRecord
                 /\ \A j \in Jobs : last[j] = NoLine

(* A position on its way is that of its line, or else it is behind the     *)
(* lines before it and not behind those after it.                          *)
Tracked == outages = 0 /\ (jobs = 0 \/ udisk.flag)
Marks ==
  /\ cmd_sdpos = udisk.psize
  /\ \A i \in 1 .. OnTheWay : Done <= Pos(i) /\ Pos(i) <= udisk.psize
  /\ \A i \in 1 .. OnTheWay : Line(i) # NoLine => Pos(i) = Line(i)
  /\ \A i, j \in 1 .. OnTheWay : i < j =>
       /\ Line(i) # NoLine => Line(i) < Pos(j)
       /\ Line(j) # NoLine => Pos(i) <= Line(j)

(* So is the position of the command that was active last, which the moves *)
(* of a pause take: its slot is not written again before the next one is   *)
(* active.                                                                 *)
ActivePos == sdpos[queue_index_r]
ActiveMark ==
  /\ Done <= ActivePos /\ ActivePos <= udisk.psize
  /\ \A i \in 1 .. OnTheWay : Line(i) # NoLine =>
       IF i <= Len(blocks) THEN Line(i) <= ActivePos ELSE ActivePos <= Line(i)
ActiveSlot ==
  /\ queue_index_r = index_r \/ (queue_index_r + 1) % BufSize = index_r
  /\ queue_index_r = index_r /\ length = 0 => udisk.psize = 0
  /\ pc = "resuming" /\ handler = "M24" => queue_index_r = index_r

Marked ==
  Tracked => /\ Marks /\ ActiveMark /\ ActiveSlot
             /\ (busy => info.pos = Pos(1)) /\ GoesOn(info.pos) /\ (jobs = 0 => info.pos = 0)

(* The record's way to the reopened file: nothing else is under way.       *)
Restored ==
  /\ outages = 0 => on /\ ~Resuming
  /\ ~on => blocks = <<>> /\ (disk # NoRecord => GoesOn(disk.pos))
  /\ Resuming => /\ pc \in {"loop", "heating", "homing"}
                 /\ \A i \in 1 .. OnTheWay : Line(i) = NoLine
  /\ Resuming /\ pc = "loop" =>
       /\ blocks = <<>> /\ (\A k \in 0 .. length - 1 : OpAt(k) = "M1000")
       /\ timer = "stopped" /\ inject = "none" /\ GoesOn(info.pos)
  /\ pc \in {"heating", "homing"} => GoesOn(resume_sdpos)

Ordered == InOrder /\ NoneMissing /\ OfFirst /\ Marked /\ Restored
Order   == First => Ordered

(* How a step changes what is on its way: not at all, by one more behind   *)
(* the others, by the d-th less, or by one that is no line, put in d-th.   *)
SameItems == OnTheWay' = OnTheWay /\ \A n \in 1 .. OnTheWay : Line(n)' = Line(n) /\ Pos(n)' = Pos(n)
OneMore(l, p) ==
  /\ OnTheWay' = OnTheWay + 1
  /\ \A n \in 1 .. OnTheWay : Line(n)' = Line(n) /\ Pos(n)' = Pos(n)
  /\ \A n \in Nat : n = OnTheWay + 1 => Line(n)' = l /\ Pos(n)' = p
Past(d, n) == IF n < d THEN n ELSE n + 1
OneLess(d) ==
  /\ OnTheWay' = OnTheWay - 1
  /\ \A n \in 1 .. OnTheWay - 1 : Line(n)' = Line(Past(d, n)) /\ Pos(n)' = Pos(Past(d, n))
OneBetween(d, p) ==
  /\ OnTheWay' = OnTheWay + 1
  /\ \A n \in 1 .. OnTheWay, i \in Nat : i = Past(d, n) => Line(i)' = Line(n) /\ Pos(i)' = Pos(n)
  /\ \A i \in Nat : i = d => Line(i)' = NoLine /\ Pos(i)' = p

LEMMA Items ==
  ASSUME Types
  PROVE  /\ Len(blocks) \in Nat /\ length \in Nat /\ OnTheWay \in Nat /\ OnTheWay = Len(blocks) + length
         /\ \A n \in 1 .. Len(blocks) : Line(n) = blocks[n].line /\ Pos(n) = blocks[n].sdpos
         /\ \A n \in Nat : n > Len(blocks) =>
              Line(n) = command[SlotOf(n)].line /\ Pos(n) = sdpos[SlotOf(n)]
         /\ \A n \in 1 .. OnTheWay : Line(n) \in NoLine .. FileLines - 1 /\ Pos(n) \in Positions
         /\ \A n \in 1 .. OnTheWay : n > Len(blocks) => SlotOf(n) \in Slots
         /\ \A p \in Positions : p \in Nat
<1>1. blocks \in Seq(BlockT) /\ length \in Nat /\ length <= BufSize /\ index_r \in Slots
  BY Constants DEF Types, RingTyped, QueueTyped
<1>2. Len(blocks) \in Nat
  BY <1>1, LenProperties
<1>3. OnTheWay \in Nat /\ OnTheWay = Len(blocks) + length
  BY <1>1, <1>2 DEF OnTheWay
<1>4. \A n \in 1 .. Len(blocks) : Line(n) = blocks[n].line /\ Pos(n) = blocks[n].sdpos
  BY <1>2 DEF Line, Pos
<1>5. \A n \in Nat : n > Len(blocks) => Line(n) = command[SlotOf(n)].line /\ Pos(n) = sdpos[SlotOf(n)]
  BY <1>2 DEF Line, Pos
<1>6. ASSUME NEW n \in 1 .. OnTheWay, n > Len(blocks)
      PROVE  SlotOf(n) \in Slots
  <2>1. n - 1 - Len(blocks) \in Nat /\ n - 1 - Len(blocks) < BufSize
    BY <1>1, <1>2, <1>3, <1>6, Constants
  <2> QED
    BY <1>1, <2>1, NextSlot DEF SlotOf
<1>7. \A p \in Positions : p \in Nat
  BY Constants DEF Positions
<1>8. ASSUME NEW n \in 1 .. OnTheWay
      PROVE  Line(n) \in NoLine .. FileLines - 1 /\ Pos(n) \in Positions
  <2>1. CASE n <= Len(blocks)
    <3>1. n \in 1 .. Len(blocks)
      BY <1>2, <1>3, <2>1
    <3>2. blocks[n] \in BlockT
      BY <1>1, <3>1, ElementOfSeq
    <3>3. blocks[n].line \in Moves \cup {NoLine} /\ blocks[n].sdpos \in Positions
      BY <3>2 DEF BlockT
    <3>4. /\ FileLines \in Nat /\ FileLines > 0
          /\ \A m \in Moves : m \in Int /\ 0 <= m /\ m <= FileLines - 1
      BY Constants
    <3>5. blocks[n].line \in NoLine .. FileLines - 1
      BY <3>3, <3>4 DEF NoLine
    <3> QED
      BY <1>4, <3>1, <3>3, <3>5
  <2>2. CASE n > Len(blocks)
    <3>1. SlotOf(n) \in Slots
      BY <1>6, <2>2
    <3>2. command[SlotOf(n)] \in CommandT /\ sdpos[SlotOf(n)] \in Positions
      BY <3>1 DEF Types, QueueTyped
    <3>3. command[SlotOf(n)].line \in NoLine .. FileLines - 1
      BY <3>2 DEF CommandT
    <3> QED
      BY <1>3, <1>5, <2>2, <3>2, <3>3
  <2> QED
    BY <1>2, <1>3, <2>1, <2>2
<1> QED
  BY <1>1, <1>2, <1>3, <1>4, <1>5, <1>6, <1>7, <1>8

(* A command is added behind what is on its way.                           *)
LEMMA ItemAdded ==
  ASSUME Types, Types', NEW c, NEW p, length < BufSize, blocks' = blocks,
         command' = [command EXCEPT ![index_w] = c], sdpos' = [sdpos EXCEPT ![index_w] = p],
         index_r' = index_r, length' = length + 1
  PROVE  OneMore(c.line, p)
<1>1. length \in Nat /\ length < BufSize /\ index_w = (index_r + length) % BufSize /\ index_r \in Slots
      /\ command \in [Slots -> CommandT] /\ sdpos \in [Slots -> Positions] /\ index_w \in Slots
  BY Constants DEF Types, QueueTyped
<1>2. OnTheWay' = OnTheWay + 1 /\ Len(blocks) \in Nat /\ OnTheWay \in Nat /\ OnTheWay = Len(blocks) + length
  BY Items, <1>1 DEF OnTheWay
<1>3. \A n \in Nat : SlotOf(n)' = SlotOf(n)
  BY DEF SlotOf
<1>4. ASSUME NEW n \in 1 .. OnTheWay
      PROVE  Line(n)' = Line(n) /\ Pos(n)' = Pos(n)
  <2>1. CASE n <= Len(blocks)
    BY <2>1 DEF Line, Pos
  <2>2. CASE n > Len(blocks)
    <3>1. n - 1 - Len(blocks) \in Nat /\ n - 1 - Len(blocks) < length
      BY <1>1, <1>2, <2>2
    <3>2. SlotOf(n) # index_w
      BY <1>1, <3>1, SlotsDiffer DEF SlotOf
    <3>3. SlotOf(n) \in Slots /\ SlotOf(n)' = SlotOf(n) /\ ~(n <= Len(blocks))
      BY <1>2, <1>3, <2>2, Items
    <3> QED
      BY <1>1, <3>2, <3>3 DEF Line, Pos
  <2> QED
    BY <1>2, <2>1, <2>2
<1>5. ASSUME NEW n \in Nat, n = OnTheWay + 1
      PROVE  Line(n)' = c.line /\ Pos(n)' = p
  <2>1. ~(n <= Len(blocks)) /\ n - 1 - Len(blocks) = length
    BY <1>1, <1>2, <1>5
  <2>2. SlotOf(n)' = index_w
    BY <1>1, <1>3, <2>1 DEF SlotOf
  <2> QED
    BY <1>1, <2>1, <2>2 DEF Line, Pos
<1> QED
  BY <1>2, <1>4, <1>5 DEF OneMore

(* The first command is taken from the queue without becoming a block.     *)
LEMMA ItemTaken ==
  ASSUME Types, Types', length > 0, Advance, blocks' = blocks
  PROVE  /\ Len(blocks) + 1 \in 1 .. OnTheWay /\ OneLess(Len(blocks) + 1)
         /\ Line(Len(blocks) + 1) = Active.line
<1>1. /\ length \in Nat /\ length <= BufSize /\ index_r \in Slots /\ Len(blocks) \in Nat
      /\ OnTheWay \in Nat /\ OnTheWay = Len(blocks) + length
      /\ index_r' = (index_r + 1) % BufSize /\ length' = length - 1
      /\ command' = command /\ sdpos' = sdpos
  BY Items, Constants DEF Types, QueueTyped, Advance
<1>2. OnTheWay' = OnTheWay - 1
  BY <1>1 DEF OnTheWay
<1>3. ASSUME NEW n \in 1 .. OnTheWay - 1
      PROVE  Line(n)' = Line(Past(Len(blocks) + 1, n)) /\ Pos(n)' = Pos(Past(Len(blocks) + 1, n))
  <2>1. CASE n <= Len(blocks)
    BY <1>1, <2>1 DEF Line, Pos, Past
  <2>2. CASE n > Len(blocks)
    <3>1. /\ n - 1 - Len(blocks) \in Nat /\ n - 1 - Len(blocks) < BufSize
          /\ (n - 1 - Len(blocks)) + 1 = (n + 1) - 1 - Len(blocks)
          /\ Past(Len(blocks) + 1, n) = n + 1 /\ ~(n <= Len(blocks)) /\ ~(n + 1 <= Len(blocks))
      BY <1>1, <2>2, Constants DEF Past
    <3>2. SlotOf(n)' = SlotOf(n + 1)
      BY <1>1, <3>1, NextSlot DEF SlotOf
    <3> QED
      BY <1>1, <3>1, <3>2 DEF Line, Pos
  <2> QED
    BY <1>1, <2>1, <2>2
<1>4. Line(Len(blocks) + 1) = Active.line
  <2>1. ~(Len(blocks) + 1 <= Len(blocks)) /\ (Len(blocks) + 1) - 1 - Len(blocks) = 0
    BY <1>1
  <2>2. (index_r + 0) % BufSize = index_r
    <3>1. index_r \in Nat /\ index_r < BufSize /\ BufSize \in Nat /\ index_r + 0 = index_r
      BY <1>1, Constants DEF Slots
    <3> QED
      BY <3>1, Wrap
  <2> QED
    BY <2>1, <2>2 DEF Line, SlotOf, Active
<1> QED
  BY <1>1, <1>2, <1>3, <1>4 DEF OneLess

(* The command that moves becomes the planner's last block: its line and   *)
(* its position stay where they are.                                       *)
LEMMA ItemPlanned ==
  ASSUME Types, Types', RunMove
  PROVE  /\ SameItems /\ Len(blocks) + 1 \in 1 .. OnTheWay /\ Line(Len(blocks) + 1) = Active.line
         /\ blocks' = Append(blocks, Block(Active.line, index_r))
<1>1. /\ length \in Nat /\ length <= BufSize /\ index_r \in Slots /\ Len(blocks) \in Nat
      /\ OnTheWay \in Nat /\ OnTheWay = Len(blocks) + length /\ length > 0
      /\ index_r' = (index_r + 1) % BufSize /\ length' = length - 1
      /\ command' = command /\ sdpos' = sdpos /\ blocks \in Seq(BlockT)
      /\ blocks' = Append(blocks, Block(Active.line, index_r))
  BY Items, Constants DEF Types, QueueTyped, RingTyped, Advance, RunMove, Dispatch
<1>2. /\ Len(blocks') = Len(blocks) + 1 /\ blocks'[Len(blocks) + 1] = Block(Active.line, index_r)
      /\ \A n \in 1 .. Len(blocks) : blocks'[n] = blocks[n]
  BY <1>1
<1>3. OnTheWay' = OnTheWay
  BY <1>1, <1>2 DEF OnTheWay
<1>4. Block(Active.line, index_r).line = Active.line /\ Block(Active.line, index_r).sdpos = sdpos[index_r]
  BY DEF Block
<1>5. Line(Len(blocks) + 1) = Active.line /\ Pos(Len(blocks) + 1) = sdpos[index_r]
  <2>1. ~(Len(blocks) + 1 <= Len(blocks)) /\ (Len(blocks) + 1) - 1 - Len(blocks) = 0
    BY <1>1
  <2>2. (index_r + 0) % BufSize = index_r
    <3>1. index_r \in Nat /\ index_r < BufSize /\ BufSize \in Nat /\ index_r + 0 = index_r
      BY <1>1, Constants DEF Slots
    <3> QED
      BY <3>1, Wrap
  <2> QED
    BY <2>1, <2>2 DEF Line, Pos, SlotOf, Active
<1>6. ASSUME NEW n \in 1 .. OnTheWay
      PROVE  Line(n)' = Line(n) /\ Pos(n)' = Pos(n)
  <2>1. CASE n <= Len(blocks)
    BY <1>1, <1>2, <2>1 DEF Line, Pos
  <2>2. CASE n = Len(blocks) + 1
    <3>1. n <= Len(blocks')
      BY <1>1, <1>2, <2>2
    <3> QED
      BY <1>1, <1>2, <1>4, <1>5, <2>2, <3>1 DEF Line, Pos
  <2>3. CASE n > Len(blocks) + 1
    <3>1. /\ n - 1 - Len(blocks') \in Nat /\ n - 1 - Len(blocks') < BufSize
          /\ (n - 1 - Len(blocks')) + 1 = n - 1 - Len(blocks)
          /\ ~(n <= Len(blocks)) /\ ~(n <= Len(blocks'))
      BY <1>1, <1>2, <2>3, Constants
    <3>2. SlotOf(n)' = SlotOf(n)
      BY <1>1, <3>1, NextSlot DEF SlotOf
    <3> QED
      BY <1>1, <3>1, <3>2 DEF Line, Pos
  <2> QED
    BY <1>1, <2>1, <2>2, <2>3
<1> QED
  BY <1>1, <1>3, <1>5, <1>6 DEF SameItems

(* A block that ends takes the first of what is on its way.                *)
LEMMA ItemDone ==
  ASSUME Types, Types', EndBlock
  PROVE  /\ 1 \in 1 .. OnTheWay /\ OneLess(1)
         /\ 1 \in 1 .. Len(blocks) /\ Line(1) = Head(blocks).line /\ Pos(1) = Head(blocks).sdpos
<1>1. /\ length \in Nat /\ length <= BufSize /\ index_r \in Slots /\ Len(blocks) \in Nat
      /\ OnTheWay \in Nat /\ OnTheWay = Len(blocks) + length
      /\ index_r' = index_r /\ length' = length /\ command' = command /\ sdpos' = sdpos
      /\ blocks \in Seq(BlockT) /\ blocks # <<>> /\ blocks' = Tail(blocks)
  BY Items, Constants DEF Types, QueueTyped, RingTyped, EndBlock, queueVars
<1>2. /\ Len(blocks) > 0 /\ Len(blocks') = Len(blocks) - 1
      /\ \A n \in 1 .. Len(blocks) - 1 : blocks'[n] = blocks[n + 1]
  BY <1>1
<1>3. OnTheWay' = OnTheWay - 1
  BY <1>1, <1>2 DEF OnTheWay
<1>4. ASSUME NEW n \in 1 .. OnTheWay - 1
      PROVE  Line(n)' = Line(Past(1, n)) /\ Pos(n)' = Pos(Past(1, n))
  <2>0. Past(1, n) = n + 1
    BY <1>1 DEF Past
  <2>1. CASE n <= Len(blocks')
    <3>1. n + 1 <= Len(blocks) /\ n \in 1 .. Len(blocks) - 1
      BY <1>1, <1>2, <2>1
    <3> QED
      BY <1>1, <1>2, <2>0, <2>1, <3>1 DEF Line, Pos
  <2>2. CASE n > Len(blocks')
    <3>1. /\ ~(n <= Len(blocks')) /\ ~(n + 1 <= Len(blocks))
          /\ n - 1 - Len(blocks') = (n + 1) - 1 - Len(blocks)
      BY <1>1, <1>2, <2>2
    <3>2. SlotOf(n)' = SlotOf(n + 1)
      BY <1>1, <3>1 DEF SlotOf
    <3> QED
      BY <1>1, <2>0, <3>1, <3>2 DEF Line, Pos
  <2> QED
    BY <1>1, <1>2, <2>1, <2>2
<1>5. 1 \in 1 .. OnTheWay /\ 1 \in 1 .. Len(blocks) /\ Head(blocks) = blocks[1]
  BY <1>1, <1>2, HeadTailProperties
<1> QED
  BY <1>3, <1>4, <1>5, Items DEF OneLess

LEMMA Numbers ==
  ASSUME Types, First
  PROVE  /\ jobs \in {0, 1} /\ (jobs = 0 => Done = NoLine) /\ (jobs = 1 => Done = last[1] /\ 1 \in Jobs)
         /\ outages \in {0, 1} /\ NoLine = -1 /\ Done \in Int /\ udisk.psize \in Nat /\ OnTheWay \in Nat
         /\ \A m \in Moves : m \in Nat
         /\ \A n \in 1 .. OnTheWay : Line(n) \in Int /\ Pos(n) \in Nat
         /\ info.pos \in Nat /\ disk.pos \in Nat /\ resume_sdpos \in Nat
<1>1. /\ MaxJobs \in Nat /\ MaxOutages \in Nat /\ jobs \in 0 .. MaxJobs /\ outages \in 0 .. MaxOutages
      /\ last \in [Jobs -> Moves \cup {NoLine}]
  BY Constants DEF Types, HistoryTyped
<1>2. jobs \in {0, 1} /\ outages \in {0, 1} /\ NoLine = -1
  BY <1>1 DEF First, NoLine
<1>3. \A m \in Moves : m \in Nat
  BY Constants
<1>4. jobs = 0 => Done = NoLine
  BY DEF Done
<1>5. jobs = 1 => Done = last[1] /\ 1 \in Jobs
  BY <1>1 DEF Done, Jobs
<1>6. Done \in Int
  BY <1>1, <1>2, <1>3, <1>4, <1>5
<1>7. \A p \in Positions : p \in Nat
  BY Items
<1>8. udisk.psize \in Positions /\ info.pos \in Positions /\ disk.pos \in Positions /\ resume_sdpos \in Positions
  <2>1. NoRecord.pos \in Positions
    BY Constants DEF NoRecord, Positions
  <2> QED
    BY <2>1 DEF Types, Switches, UdiskT, RecordTyped, Record
<1>9. ASSUME NEW n \in 1 .. OnTheWay
      PROVE  Line(n) \in Int /\ Pos(n) \in Nat
  <2>1. Line(n) \in NoLine .. FileLines - 1 /\ Pos(n) \in Positions
    BY Items
  <2> QED
    BY <1>2, <1>7, <2>1
<1> QED
  BY <1>2, <1>3, <1>4, <1>5, <1>6, <1>7, <1>8, <1>9, Items

(* The lines stay in order, and none is missing, while nothing is put on   *)
(* its way or taken from it ...                                            *)
LEMMA OrderKept ==
  ASSUME Types, First, InOrder, NoneMissing, SameItems, Done' = Done, jobs' = jobs,
         udisk'.flag => udisk.flag /\ udisk'.psize = udisk.psize
  PROVE  InOrder' /\ NoneMissing'
<1>1. /\ OnTheWay' = OnTheWay /\ OnTheWay \in Nat
      /\ \A n \in 1 .. OnTheWay : Line(n)' = Line(n)
  BY Items DEF SameItems
<1>2. InOrder'
  BY <1>1 DEF InOrder
<1>3. ASSUME NEW m \in Moves, Done < m, Awaited(m)'
      PROVE  \E i \in 1 .. OnTheWay' : Line(i)' = m
  <2>1. Awaited(m)
    BY <1>1, <1>3 DEF Awaited
  <2> QED
    BY <1>1, <1>3, <2>1 DEF NoneMissing
<1> QED
  BY <1>2, <1>3 DEF NoneMissing

(* ... when a command is added that is no line of the file, or the line    *)
(* that is read next ...                                                   *)
LEMMA OrderMore ==
  ASSUME Types, First, InOrder, NoneMissing, NEW l, NEW p, OneMore(l, p), Done' = Done,
         \/ l = NoLine /\ jobs' = jobs /\ udisk' = udisk
         \/ l = udisk.psize /\ jobs' = jobs /\ jobs = 1 /\ udisk.flag /\ udisk' = [udisk EXCEPT !.psize = @ + 1]
  PROVE  InOrder' /\ NoneMissing'
<1>0. PICK N \in Nat : N = OnTheWay
  BY Items
<1>1. /\ OnTheWay' = N + 1 /\ N + 1 \in 1 .. N + 1 /\ N + 1 \in Nat
      /\ \A n \in 1 .. N : Line(n)' = Line(n) /\ n \in 1 .. N + 1
      /\ Line(N + 1)' = l
      /\ \A n \in 1 .. N + 1 : n \in 1 .. N \/ n = N + 1
  <2>1. /\ N + 1 \in Nat /\ N + 1 \in 1 .. N + 1
        /\ \A k \in 1 .. N : k \in 1 .. N + 1
        /\ \A k \in 1 .. N + 1 : k \in 1 .. N \/ k = N + 1
    OBVIOUS
  <2>2. /\ OnTheWay' = N + 1 /\ \A k \in 1 .. N : Line(k)' = Line(k)
        /\ \A k \in Nat : k = N + 1 => Line(k)' = l
    BY <1>0 DEF OneMore
  <2> QED
    BY <2>1, <2>2
<1>2. /\ jobs \in {0, 1} /\ (jobs = 0 => Done = NoLine) /\ NoLine = -1 /\ Done \in Int /\ udisk.psize \in Nat
      /\ \A m \in Moves : m \in Nat
      /\ \A n \in 1 .. N : Line(n) \in Int
  BY <1>0, Numbers
<1>3. udisk \in UdiskT
  BY DEF Types, Switches
<1>4. \A n \in 1 .. N : Line(n) # NoLine => jobs = 1 /\ Done <= Line(n) /\ (udisk.flag => Line(n) < udisk.psize)
  BY <1>0 DEF InOrder
<1>5. udisk.flag => Done <= udisk.psize
  BY DEF InOrder
<1>6. CASE l = NoLine /\ jobs' = jobs /\ udisk' = udisk
  <2>1. InOrder'
    BY <1>0, <1>1, <1>6 DEF InOrder
  <2>2. ASSUME NEW m \in Moves, Done < m, Awaited(m)'
        PROVE  \E i \in 1 .. OnTheWay' : Line(i)' = m
    <3>1. Awaited(m)
      BY <1>0, <1>1, <1>6, <2>2 DEF Awaited
    <3>2. PICK i \in 1 .. N : Line(i) = m
      BY <1>0, <2>2, <3>1 DEF NoneMissing
    <3> QED
      BY <1>1, <3>2
  <2> QED
    BY <2>1, <2>2 DEF NoneMissing
<1>7. CASE l = udisk.psize /\ jobs' = jobs /\ jobs = 1 /\ udisk.flag /\ udisk' = [udisk EXCEPT !.psize = @ + 1]
  <2>0. udisk'.flag /\ udisk'.psize = udisk.psize + 1
    BY <1>3, <1>7 DEF UdiskT
  <2>1. InOrder'
    <3>1. ASSUME NEW i \in 1 .. N + 1, NEW j \in 1 .. N + 1, i < j, Line(i)' # NoLine, Line(j)' # NoLine
          PROVE  Line(i)' < Line(j)'
      <4>1. i \in 1 .. N
        BY <1>1, <3>1
      <4>2. CASE j \in 1 .. N
        BY <1>0, <1>1, <3>1, <4>1, <4>2 DEF InOrder
      <4>3. CASE j = N + 1
        BY <1>1, <1>4, <1>7, <3>1, <4>1, <4>3
      <4> QED
        BY <1>1, <4>2, <4>3
    <3>2. ASSUME NEW i \in 1 .. N + 1, Line(i)' # NoLine
          PROVE  jobs' = 1 /\ Done' <= Line(i)' /\ (udisk'.flag => Line(i)' < udisk'.psize)
      <4>1. CASE i \in 1 .. N
        BY <1>1, <1>2, <1>4, <1>7, <2>0, <3>2, <4>1
      <4>2. CASE i = N + 1
        BY <1>1, <1>2, <1>5, <1>7, <2>0, <3>2, <4>2
      <4> QED
        BY <1>1, <4>1, <4>2
    <3>3. udisk'.flag => Done' <= udisk'.psize
      BY <1>2, <1>5, <1>7, <2>0
    <3> QED
      BY <1>1, <3>1, <3>2, <3>3 DEF InOrder
  <2>2. ASSUME NEW m \in Moves, Done < m, Awaited(m)'
        PROVE  \E i \in 1 .. OnTheWay' : Line(i)' = m
    <3>1. m < udisk.psize + 1
      <4>1. CASE \E i \in 1 .. OnTheWay' : Line(i)' # NoLine /\ m < Line(i)'
        <5>1. PICK i \in 1 .. OnTheWay' : Line(i)' # NoLine /\ m < Line(i)'
          BY <4>1
        <5>2. Line(i)' \in Int /\ Line(i)' <= udisk.psize
          BY <1>1, <1>2, <1>4, <1>7, <5>1
        <5> QED
          BY <1>2, <5>1, <5>2
      <4> QED
        BY <2>0, <2>2, <4>1 DEF Awaited
    <3>2. CASE m = udisk.psize
      BY <1>1, <1>7, <3>2
    <3>3. CASE m # udisk.psize
      <4>1. m < udisk.psize
        BY <1>2, <3>1, <3>3
      <4>2. PICK i \in 1 .. N : Line(i) = m
        BY <1>0, <1>7, <2>2, <4>1 DEF NoneMissing, Awaited
      <4> QED
        BY <1>1, <4>2
    <3> QED
      BY <3>2, <3>3
  <2> QED
    BY <2>1, <2>2 DEF NoneMissing
<1> QED
  BY <1>6, <1>7

(* ... and when the first of them is executed, or a later one is taken     *)
(* away that is no move.                                                   *)
LEMMA OrderLess ==
  ASSUME Types, First, InOrder, NoneMissing, NEW d \in 1 .. OnTheWay, OneLess(d),
         jobs' = jobs, udisk'.flag = udisk.flag, udisk'.psize = udisk.psize,
         \/ Done' = Done /\ Line(d) \notin Moves
         \/ d = 1 /\ Line(1) # NoLine /\ Done' = Line(1)
  PROVE  InOrder' /\ NoneMissing'
<1> DEFINE N == OnTheWay
<1>1. /\ OnTheWay' = N - 1 /\ N \in Nat /\ d \in Nat /\ d >= 1 /\ d <= N
      /\ \A n \in 1 .. N - 1 : Line(n)' = Line(Past(d, n)) /\ Past(d, n) \in 1 .. N /\ Past(d, n) # d
      /\ \A i, j \in 1 .. N - 1 : i < j => Past(d, i) < Past(d, j)
      /\ \A n \in 1 .. N : n # d => \E k \in 1 .. N - 1 : Past(d, k) = n
  <2>1. N \in Nat /\ d \in Nat /\ d >= 1 /\ d <= N
    BY Items
  <2>2. OnTheWay' = N - 1 /\ \A n \in 1 .. N - 1 : Line(n)' = Line(Past(d, n))
    BY DEF OneLess
  <2> HIDE DEF N
  <2>3. \A n \in 1 .. N - 1 : Past(d, n) \in 1 .. N /\ Past(d, n) # d
    BY <2>1 DEF Past
  <2>4. \A i, j \in 1 .. N - 1 : i < j => Past(d, i) < Past(d, j)
    BY <2>1 DEF Past
  <2>5. ASSUME NEW n \in 1 .. N, n # d
        PROVE  \E k \in 1 .. N - 1 : Past(d, k) = n
    <3>1. CASE n < d
      <4>1. n \in 1 .. N - 1 /\ Past(d, n) = n
        BY <2>1, <3>1 DEF Past
      <4> QED
        BY <4>1
    <3>2. CASE n > d
      <4>1. n - 1 \in 1 .. N - 1 /\ Past(d, n - 1) = n
        BY <2>1, <3>2 DEF Past
      <4> QED
        BY <4>1
    <3> QED
      BY <2>1, <2>5, <3>1, <3>2
  <2> QED
    BY <2>1, <2>2, <2>3, <2>4, <2>5
<1>2. /\ NoLine = -1 /\ Done \in Int /\ udisk.psize \in Nat
      /\ \A m \in Moves : m \in Nat
      /\ \A n \in 1 .. N : Line(n) \in Int
  BY Numbers
<1>3. /\ \A i, j \in 1 .. N : i < j /\ Line(i) # NoLine /\ Line(j) # NoLine => Line(i) < Line(j)
      /\ \A i \in 1 .. N : Line(i) # NoLine =>
           jobs = 1 /\ Done <= Line(i) /\ (udisk.flag => Line(i) < udisk.psize)
      /\ udisk.flag => Done <= udisk.psize
  BY DEF InOrder
<1> HIDE DEF N
(* What is behind the one executed is behind it in the file. *)
<1>4. /\ Done' \in Int /\ Done <= Done' /\ (udisk.flag => Done' <= udisk.psize)
      /\ \A n \in 1 .. N : n # d /\ Line(n) # NoLine => Done' <= Line(n)
  <2>1. CASE Done' = Done
    BY <1>2, <1>3, <2>1
  <2>2. CASE d = 1 /\ Line(1) # NoLine /\ Done' = Line(1)
    <3>1. Line(1) \in Int /\ Done <= Line(1) /\ (udisk.flag => Line(1) < udisk.psize) /\ d \in 1 .. N
      BY <1>1, <1>2, <1>3, <2>2
    <3>2. ASSUME NEW n \in 1 .. N, n # d, Line(n) # NoLine
          PROVE  Done' <= Line(n)
      <4>1. 1 < n /\ 1 \in 1 .. N
        BY <1>1, <2>2, <3>2
      <4>2. Line(1) < Line(n)
        BY <1>3, <2>2, <3>2, <4>1
      <4> QED
        BY <1>2, <2>2, <3>1, <4>2
    <3> QED
      BY <1>2, <2>2, <3>1, <3>2
  <2> QED
    BY <2>1, <2>2
<1>5. InOrder'
  BY <1>1, <1>3, <1>4 DEF InOrder
<1>6. ASSUME NEW m \in Moves, Done' < m, Awaited(m)'
      PROVE  \E i \in 1 .. OnTheWay' : Line(i)' = m
  <2>1. Done < m
    BY <1>2, <1>4, <1>6
  <2>2. Awaited(m)
    <3>1. CASE udisk.flag /\ m < udisk.psize
      BY <3>1 DEF Awaited
    <3>2. CASE \E i \in 1 .. OnTheWay' : Line(i)' # NoLine /\ m < Line(i)'
      <4>1. PICK i \in 1 .. N - 1 : Line(i)' # NoLine /\ m < Line(i)'
        BY <1>1, <3>2
      <4>2. Past(d, i) \in 1 .. N /\ Line(Past(d, i)) # NoLine /\ m < Line(Past(d, i))
        BY <1>1, <4>1
      <4> QED
        BY <4>2 DEF Awaited, N
    <3> QED
      BY <1>6, <3>1, <3>2 DEF Awaited
  <2>3. PICK i \in 1 .. N : Line(i) = m
    BY <2>1, <2>2 DEF NoneMissing, N
  <2>4. i # d
    BY <1>2, <1>6, <2>3
  <2>5. PICK k \in 1 .. N - 1 : Past(d, k) = i
    BY <1>1, <2>4
  <2> QED
    BY <1>1, <2>3, <2>5
<1> QED
  BY <1>5, <1>6 DEF NoneMissing
(* The positions likewise: while nothing changes ...                       *)
LEMMA MarksKept ==
  ASSUME Types, Marks, SameItems, Done' = Done, udisk'.psize = udisk.psize, cmd_sdpos' = cmd_sdpos
  PROVE  Marks'
<1>1. /\ OnTheWay' = OnTheWay
      /\ \A n \in 1 .. OnTheWay : Line(n)' = Line(n) /\ Pos(n)' = Pos(n)
  BY DEF SameItems
<1> QED
  BY <1>1 DEF Marks

(* What is read next is behind everything on its way.                      *)
LEMMA BehindAll ==
  ASSUME Types, First, InOrder, Tracked
  PROVE  /\ Done <= udisk.psize
         /\ \A i \in 1 .. OnTheWay : Line(i) # NoLine => Line(i) < udisk.psize
<1>1. /\ jobs \in {0, 1} /\ (jobs = 0 => Done = NoLine) /\ NoLine = -1 /\ Done \in Int /\ udisk.psize \in Nat
  BY Numbers
<1> QED
  BY <1>1 DEF InOrder, Tracked

(* ... when a command is added with the position of the line to be read    *)
(* next, be it that line or not ...                                        *)
LEMMA MarksMore ==
  ASSUME Types, First, InOrder, Tracked, Marks, NEW l, NEW p, OneMore(l, p), Done' = Done,
         p = cmd_sdpos,
         \/ l = NoLine /\ udisk'.psize = udisk.psize /\ cmd_sdpos' = cmd_sdpos
         \/ l = udisk.psize /\ udisk'.psize = udisk.psize + 1 /\ cmd_sdpos' = udisk.psize + 1
  PROVE  Marks'
<1>0. PICK N \in Nat : N = OnTheWay
  BY Items
<1>1. /\ OnTheWay' = N + 1 /\ N + 1 \in 1 .. N + 1 /\ N + 1 \in Nat
      /\ \A n \in 1 .. N : Line(n)' = Line(n) /\ Pos(n)' = Pos(n) /\ n \in 1 .. N + 1
      /\ Line(N + 1)' = l /\ Pos(N + 1)' = p
      /\ \A n \in 1 .. N + 1 : n \in 1 .. N \/ n = N + 1
  <2>1. /\ N + 1 \in Nat /\ N + 1 \in 1 .. N + 1
        /\ \A k \in 1 .. N : k \in 1 .. N + 1
        /\ \A k \in 1 .. N + 1 : k \in 1 .. N \/ k = N + 1
    OBVIOUS
  <2>2. /\ OnTheWay' = N + 1 /\ \A k \in 1 .. N : Line(k)' = Line(k) /\ Pos(k)' = Pos(k)
        /\ \A k \in Nat : k = N + 1 => Line(k)' = l /\ Pos(k)' = p
    BY <1>0 DEF OneMore
  <2> QED
    BY <2>1, <2>2
<1>2. /\ NoLine = -1 /\ Done \in Int /\ udisk.psize \in Nat
      /\ \A n \in 1 .. N : Line(n) \in Int /\ Pos(n) \in Nat
  BY <1>0, Numbers
<1>3. /\ Done <= udisk.psize
      /\ \A i \in 1 .. N : Line(i) # NoLine => Line(i) < udisk.psize
  BY <1>0, BehindAll
<1>4. /\ p = udisk.psize
      /\ \A i \in 1 .. N : Done <= Pos(i) /\ Pos(i) <= udisk.psize
      /\ \A i \in 1 .. N : Line(i) # NoLine => Pos(i) = Line(i)
      /\ \A i, j \in 1 .. N : i < j =>
           /\ Line(i) # NoLine => Line(i) < Pos(j)
           /\ Line(j) # NoLine => Pos(i) <= Line(j)
  BY <1>0 DEF Marks
<1>5. /\ cmd_sdpos' = udisk'.psize /\ udisk.psize <= udisk'.psize /\ udisk'.psize \in Nat
      /\ l # NoLine => l = udisk.psize
  BY <1>2, <1>4
<1>6. ASSUME NEW i \in 1 .. N + 1
      PROVE  /\ Done' <= Pos(i)' /\ Pos(i)' <= udisk'.psize
             /\ Line(i)' # NoLine => Pos(i)' = Line(i)'
  <2>1. CASE i \in 1 .. N
    BY <1>1, <1>2, <1>4, <1>5, <2>1
  <2>2. CASE i = N + 1
    BY <1>1, <1>2, <1>3, <1>4, <1>5, <2>2
  <2> QED
    BY <1>1, <2>1, <2>2
<1>7. ASSUME NEW i \in 1 .. N + 1, NEW j \in 1 .. N + 1, i < j
      PROVE  /\ Line(i)' # NoLine => Line(i)' < Pos(j)'
             /\ Line(j)' # NoLine => Pos(i)' <= Line(j)'
  <2>1. i \in 1 .. N
    BY <1>7
  <2>2. CASE j \in 1 .. N
    BY <1>1, <1>4, <1>7, <2>1, <2>2
  <2>3. CASE j = N + 1
    BY <1>1, <1>3, <1>4, <1>5, <2>1, <2>3
  <2> QED
    BY <1>1, <2>2, <2>3
<1> QED
  BY <1>1, <1>5, <1>6, <1>7 DEF Marks

(* ... and when one is taken away.                                         *)
LEMMA MarksLess ==
  ASSUME Types, First, Marks, NEW d \in 1 .. OnTheWay, OneLess(d), udisk'.psize = udisk.psize, cmd_sdpos' = cmd_sdpos,
         \/ Done' = Done
         \/ d = 1 /\ Line(1) # NoLine /\ Done' = Line(1)
  PROVE  Marks'
<1>1. PICK N \in Nat : N = OnTheWay
  BY Items
<1>2. /\ OnTheWay' = N - 1 /\ d \in 1 .. N
      /\ \A n \in 1 .. N - 1 : Line(n)' = Line(Past(d, n)) /\ Pos(n)' = Pos(Past(d, n))
  BY <1>1 DEF OneLess
<1>3. /\ \A n \in 1 .. N - 1 : Past(d, n) \in 1 .. N /\ Past(d, n) # d
      /\ \A i, j \in 1 .. N - 1 : i < j => Past(d, i) < Past(d, j)
  BY <1>2 DEF Past
<1>4. /\ cmd_sdpos = udisk.psize
      /\ \A i \in 1 .. N : Done <= Pos(i) /\ Pos(i) <= udisk.psize
      /\ \A i \in 1 .. N : Line(i) # NoLine => Pos(i) = Line(i)
      /\ \A i, j \in 1 .. N : i < j =>
           /\ Line(i) # NoLine => Line(i) < Pos(j)
           /\ Line(j) # NoLine => Pos(i) <= Line(j)
  BY <1>1 DEF Marks
<1>5. /\ Done \in Int /\ \A n \in 1 .. N : Line(n) \in Int /\ Pos(n) \in Nat
  BY <1>1, Numbers
<1>6. ASSUME NEW n \in 1 .. N, n # d
      PROVE  Done' <= Pos(n)
  <2>1. CASE Done' = Done
    BY <1>4, <2>1
  <2>2. CASE d = 1 /\ Line(1) # NoLine /\ Done' = Line(1)
    <3>1. 1 < n /\ 1 \in 1 .. N
      BY <1>6, <2>2
    <3>2. Line(1) < Pos(n)
      BY <1>4, <2>2, <3>1
    <3> QED
      BY <1>5, <2>2, <3>1, <3>2
  <2> QED
    BY <2>1, <2>2
<1> QED
  BY <1>2, <1>3, <1>4, <1>6 DEF Marks

(* The print goes on in order at the first position on its way.            *)
LEMMA HeadGoesOn ==
  ASSUME Types, First, InOrder, NoneMissing, OfFirst, Tracked, Marks, 1 \in 1 .. OnTheWay
  PROVE  GoesOn(Pos(1)) /\ (jobs = 0 => Pos(1) = 0)
<1>1. /\ Done \in Int /\ udisk.psize \in Nat /\ Pos(1) \in Nat /\ OnTheWay \in Nat
      /\ \A m \in Moves : m \in Nat
  BY Numbers
<1>2. Done <= Pos(1) /\ Pos(1) <= udisk.psize
  BY DEF Marks
<1>3. jobs = 0 => Pos(1) = 0
  BY <1>1, <1>2 DEF OfFirst
<1>4. ASSUME NEW m \in Moves, Done < m
      PROVE  Pos(1) <= m
  <2>1. CASE jobs = 0
    BY <1>1, <1>3, <2>1
  <2>2. CASE m >= udisk.psize
    BY <1>1, <1>2, <2>2
  <2>3. CASE udisk.flag /\ m < udisk.psize
    <3>1. PICK i \in 1 .. OnTheWay : Line(i) = m
      BY <1>4, <2>3 DEF NoneMissing, Awaited
    <3>2. Line(i) # NoLine
      BY <1>1, <3>1 DEF NoLine
    <3>3. CASE i = 1
      <4>1. Pos(1) = m
        BY <3>1, <3>2, <3>3 DEF Marks
      <4> QED
        BY <1>1, <4>1
    <3>4. CASE i # 1
      <4>1. 1 < i
        BY <1>1, <3>4
      <4>2. Pos(1) <= Line(i)
        BY <3>2, <4>1 DEF Marks
      <4> QED
        BY <3>1, <4>2
    <3> QED
      BY <3>3, <3>4
  <2> QED
    BY <1>1, <2>1, <2>2, <2>3 DEF Tracked
<1> QED
  BY <1>2, <1>3, <1>4 DEF GoesOn

(* The line of a block that ends is the one to be executed next.           *)
LEMMA LineIsNext ==
  ASSUME Types, First, InOrder, NoneMissing, 1 \in 1 .. OnTheWay, Line(1) # NoLine, Line(1) # Done
  PROVE  Follows(Line(1), Done)
<1>1. /\ Done \in Int /\ Line(1) \in Int /\ NoLine = -1
      /\ \A n \in 1 .. OnTheWay : Line(n) \in Int
      /\ \A m \in Moves : m \in Nat
  BY Numbers
<1>2. Done < Line(1)
  BY <1>1 DEF InOrder
<1>3. ASSUME NEW k \in Moves, k > Done, ~(k >= Line(1))
      PROVE  FALSE
  <2>1. k < Line(1) /\ Done < k
    BY <1>1, <1>3
  <2>2. PICK i \in 1 .. OnTheWay : Line(i) = k
    BY <2>1 DEF NoneMissing, Awaited
  <2>3. i # 1 /\ Line(i) # NoLine
    BY <1>1, <2>1, <2>2
  <2>4. 1 < i
    BY <2>3, Items
  <2>5. Line(1) < Line(i)
    BY <2>3, <2>4 DEF InOrder
  <2> QED
    BY <1>1, <2>1, <2>2, <2>5
<1> QED
  BY <1>1, <1>2, <1>3 DEF Follows

(* Steps that leave the queue and the ring alone.                          *)
LEMMA Still ==
  ASSUME UNCHANGED <<queueVars, blocks>>
  PROVE  SameItems
BY DEF SameItems, OnTheWay, Line, Pos, SlotOf, queueVars

LEMMA CountsGrow ==
  ASSUME Types, [Next]_vars
  PROVE  jobs <= jobs' /\ outages <= outages' /\ (First' => First)
<1>1. jobs \in Nat /\ outages \in Nat
  BY Constants DEF Types, HistoryTyped
<1>2. CASE StartPrint
  BY <1>1, <1>2 DEF StartPrint, First
<1>3. CASE Outage
  BY <1>1, <1>3 DEF Outage, First
<1>4. ASSUME UNCHANGED <<jobs, outages, unsaved>>
      PROVE  jobs <= jobs' /\ outages <= outages' /\ (First' => First)
  BY <1>1, <1>4 DEF First
<1>5. CASE InPause
  <2>1. Switches
    BY DEF Types
  <2> QED
    BY <1>4, <1>5, <2>1, PauseChanges DEF histVars
<1>6. CASE Resumed
  BY <1>4, <1>6 DEF Resumed, histVars, countVars
<1> QED
  BY <1>2, <1>3, <1>4, <1>5, <1>6 DEF Next, InPause, vars, countVars, histVars, ReadLine,
     FileHasFinish, OtherCommand, FinishPrinting, StartBlock, EndBlock, RunMove, RunOther, RunM24,
     RunM1001, FileOpened, StopKey, Abort, Aborted, Boot, ConfirmResume, CancelResume, RunM1000,
     ResumeHeated, ResumeHomed

(* With no line on its way, the order is that of what is left to be read.  *)
LEMMA OrderOfNone ==
  ASSUME Types', First', \A i \in 1 .. OnTheWay' : Line(i)' = NoLine,
         udisk'.flag => GoesOn(udisk.psize)'
  PROVE  InOrder' /\ NoneMissing'
<1>1. \A m \in Moves : m \in Nat
  BY Constants
<1>2. Done' \in Int /\ udisk'.psize \in Nat
  <2>1. last' \in [Jobs -> Moves \cup {NoLine}] /\ jobs' \in 0 .. MaxJobs /\ MaxJobs \in Nat
    BY Constants DEF Types, HistoryTyped
  <2>2. udisk'.psize \in Nat
    <3>1. udisk'.psize \in Positions
      BY DEF Types, Switches, UdiskT
    <3> QED
      BY <3>1, Constants DEF Positions
  <2>3. jobs' # 0 => 1 \in Jobs
    BY <2>1 DEF Jobs
  <2> QED
    BY <1>1, <2>1, <2>2, <2>3 DEF Done, NoLine
<1>3. udisk'.flag => Done' <= udisk'.psize /\ \A m \in Moves : Done' < m => udisk'.psize <= m
  BY DEF GoesOn
<1>4. InOrder'
  BY <1>3 DEF InOrder
<1>5. ASSUME NEW m \in Moves, Done' < m, Awaited(m)'
      PROVE  FALSE
  <2>1. udisk'.flag /\ m < udisk'.psize
    BY <1>5 DEF Awaited
  <2> QED
    BY <1>1, <1>2, <1>3, <1>5, <2>1
<1> QED
  BY <1>4, <1>5 DEF NoneMissing

(* No line is on its way, neither among the blocks nor in the queue.       *)
LEMMA NoLineLeft ==
  ASSUME Types, \A i \in 1 .. OnTheWay : Line(i) = NoLine
  PROVE  /\ \A k \in 1 .. Len(blocks) : blocks[k].line = NoLine
         /\ \A k \in 0 .. length - 1 : command[(index_r + k) % BufSize].line = NoLine
<1>1. Len(blocks) \in Nat /\ length \in Nat /\ OnTheWay = Len(blocks) + length
  BY Items
<1>2. ASSUME NEW k \in 1 .. Len(blocks)
      PROVE  blocks[k].line = NoLine
  <2>1. k \in 1 .. OnTheWay
    BY <1>1
  <2> QED
    BY <2>1, Items
<1>3. ASSUME NEW k \in 0 .. length - 1
      PROVE  command[(index_r + k) % BufSize].line = NoLine
  <2>1. /\ Len(blocks) + 1 + k \in 1 .. OnTheWay /\ ~(Len(blocks) + 1 + k <= Len(blocks))
        /\ (Len(blocks) + 1 + k) - 1 - Len(blocks) = k
    BY <1>1
  <2>2. Line(Len(blocks) + 1 + k) = command[(index_r + k) % BufSize].line
    BY <2>1 DEF Line, SlotOf
  <2> QED
    BY <2>1, <2>2
<1> QED
  BY <1>2, <1>3

LEMMA NoLineThere ==
  ASSUME Types', \A k \in 1 .. Len(blocks') : blocks'[k].line = NoLine,
         \A k \in 0 .. length' - 1 : command'[(index_r' + k) % BufSize].line = NoLine
  PROVE  \A i \in 1 .. OnTheWay' : Line(i)' = NoLine
<1>1. Len(blocks') \in Nat /\ length' \in Nat /\ OnTheWay' = Len(blocks') + length'
  BY LenProperties, Constants DEF Types, RingTyped, QueueTyped, OnTheWay
<1> SUFFICES ASSUME NEW i \in 1 .. OnTheWay'
             PROVE  Line(i)' = NoLine
  OBVIOUS
<1>2. CASE i <= Len(blocks')
  <2>1. i \in 1 .. Len(blocks')
    BY <1>1, <1>2
  <2> QED
    BY <1>2, <2>1 DEF Line
<1>3. CASE i > Len(blocks')
  <2>1. i - 1 - Len(blocks') \in 0 .. length' - 1 /\ ~(i <= Len(blocks'))
    BY <1>1, <1>3
  <2> QED
    BY <2>1 DEF Line, SlotOf
<1> QED
  BY <1>1, <1>2, <1>3

(* What a print that is being resumed goes along with.                     *)
LEMMA WhileResuming ==
  ASSUME Types, IInv, First, Ordered
  PROVE  /\ pc \in {"heating", "homing"} => Resuming
         /\ Resuming => /\ ~udisk.flag /\ ~udisk.stop /\ ~complete /\ jobs # 0 /\ outages # 0 /\ ~Tracked
                        /\ pc \in {"loop", "heating", "homing"}
<1>1. ResumedOnce /\ OneAtATime /\ RecordNames
  BY DEF IInv
<1>4. OfFirst /\ Restored
  BY DEF Ordered
<1>2. pc \in {"heating", "homing"} => Resuming
  <2>1. length \in Nat
    BY Items
  <2>2. pc \in {"heating", "homing"} => 0 \in 0 .. length - 1 /\ OpAt(0) = "M1000"
    BY <1>1, <2>1 DEF ResumedOnce
  <2> QED
    BY <2>2 DEF Resuming, Queued, OpAt
<1>3. ASSUME Resuming
      PROVE  /\ ~udisk.flag /\ ~udisk.stop /\ ~complete /\ jobs # 0 /\ outages # 0 /\ ~Tracked
             /\ pc \in {"loop", "heating", "homing"}
  <2>1. ~udisk.flag /\ ~udisk.stop /\ ~complete
    BY <1>1, <1>3 DEF OneAtATime
  <2>2. pc \in {"loop", "heating", "homing"}
    BY <1>3, <1>4 DEF Restored
  <2>3. jobs # 0
    <3>1. CASE jobs = 0
      <4>1. disk.file = -1 /\ unsaved # "opening"
        BY <1>1, <1>4, <3>1 DEF OfFirst, NoRecord, RecordNames
      <4>2. info.file = disk.file /\ info.file \in Nat
        BY <1>1, <1>3, <4>1, Constants DEF RecordNames, Types, RecordTyped, Record
      <4> QED
        BY <4>1, <4>2
    <3> QED
      BY <3>1
  <2>5. jobs # 0
    BY <2>3
  <2>6. outages # 0
    BY <1>3, <1>4 DEF Restored
  <2> QED
    BY <2>1, <2>2, <2>5, <2>6 DEF Tracked
<1> QED
  BY <1>2, <1>3

(* The record's way, once nothing is resumed.                              *)
LEMMA NotResuming ==
  ASSUME on', ~Resuming', pc' \notin {"heating", "homing"}
  PROVE  Restored'
BY DEF Restored

(* Something put in between, where the others are on its two sides.        *)
LEMMA Sides ==
  ASSUME NEW N \in Nat, NEW d \in 1 .. N + 1
  PROVE  /\ \A n \in 1 .. N : Past(d, n) \in 1 .. N + 1 /\ Past(d, n) # d
         /\ \A n \in 1 .. N : (n < d => Past(d, n) = n) /\ (n >= d => Past(d, n) = n + 1)
         /\ \A i, j \in 1 .. N : Past(d, i) < Past(d, j) => i < j
         /\ \A i \in 1 .. N + 1 : i # d => \E n \in 1 .. N : Past(d, n) = i
<1>1. /\ \A n \in 1 .. N : Past(d, n) \in 1 .. N + 1 /\ Past(d, n) # d
      /\ \A n \in 1 .. N : (n < d => Past(d, n) = n) /\ (n >= d => Past(d, n) = n + 1)
      /\ \A i, j \in 1 .. N : Past(d, i) < Past(d, j) => i < j
  BY DEF Past
<1>2. ASSUME NEW i \in 1 .. N + 1, i # d
      PROVE  \E n \in 1 .. N : Past(d, n) = i
  <2>1. CASE i < d
    <3>1. i \in 1 .. N /\ Past(d, i) = i
      BY <2>1 DEF Past
    <3> QED
      BY <3>1
  <2>2. CASE i > d
    <3>1. i - 1 \in 1 .. N /\ Past(d, i - 1) = i
      BY <2>2 DEF Past
    <3> QED
      BY <3>1
  <2> QED
    BY <1>2, <2>1, <2>2
<1> QED
  BY <1>1, <1>2

(* A move that is no line becomes the planner's last block, between the    *)
(* blocks and the queue.                                                   *)
LEMMA ItemBetween ==
  ASSUME Types, Types', NEW s \in Slots, blocks' = Append(blocks, Block(NoLine, s)),
         UNCHANGED queueVars
  PROVE  Len(blocks) + 1 \in 1 .. OnTheWay + 1 /\ OneBetween(Len(blocks) + 1, sdpos[s])
         /\ Len(blocks') = Len(blocks) + 1
<1>1. /\ length \in Nat /\ index_r \in Slots /\ Len(blocks) \in Nat
      /\ OnTheWay \in Nat /\ OnTheWay = Len(blocks) + length
      /\ index_r' = index_r /\ length' = length /\ command' = command /\ sdpos' = sdpos
      /\ blocks \in Seq(BlockT)
  BY Items, Constants DEF Types, QueueTyped, RingTyped, queueVars
<1>2. /\ Len(blocks') = Len(blocks) + 1 /\ blocks'[Len(blocks) + 1] = Block(NoLine, s)
      /\ \A n \in 1 .. Len(blocks) : blocks'[n] = blocks[n]
  BY <1>1
<1>3. OnTheWay' = OnTheWay + 1 /\ Len(blocks) + 1 \in 1 .. OnTheWay + 1
  BY <1>1, <1>2 DEF OnTheWay
<1>4. ASSUME NEW i \in Nat, i = Len(blocks) + 1
      PROVE  Line(i)' = NoLine /\ Pos(i)' = sdpos[s]
  <2>1. Block(NoLine, s).line = NoLine /\ Block(NoLine, s).sdpos = sdpos[s]
    BY DEF Block
  <2>2. i <= Len(blocks')
    BY <1>1, <1>2, <1>4
  <2> QED
    BY <1>2, <1>4, <2>1, <2>2 DEF Line, Pos
<1>5. ASSUME NEW n \in 1 .. OnTheWay, NEW i \in Nat, i = Past(Len(blocks) + 1, n)
      PROVE  Line(i)' = Line(n) /\ Pos(i)' = Pos(n)
  <2>1. CASE n <= Len(blocks)
    <3>1. n \in 1 .. Len(blocks) /\ n <= Len(blocks') /\ i = n
      BY <1>1, <1>2, <1>5, <2>1 DEF Past
    <3> QED
      BY <1>2, <2>1, <3>1 DEF Line, Pos
  <2>2. CASE n > Len(blocks)
    <3>1. /\ i = n + 1 /\ ~(i <= Len(blocks')) /\ ~(n <= Len(blocks))
          /\ i - 1 - Len(blocks') = n - 1 - Len(blocks)
      BY <1>1, <1>2, <1>5, <2>2 DEF Past
    <3>2. SlotOf(i)' = SlotOf(n)
      BY <1>1, <3>1 DEF SlotOf
    <3> QED
      BY <1>1, <3>1, <3>2 DEF Line, Pos
  <2> QED
    BY <1>1, <2>1, <2>2
<1> QED
  BY <1>2, <1>3, <1>4, <1>5 DEF OneBetween

LEMMA OrderBetween ==
  ASSUME Types, First, InOrder, NoneMissing, NEW d \in 1 .. OnTheWay + 1, NEW p, OneBetween(d, p),
         Done' = Done, jobs' = jobs, udisk'.flag = udisk.flag, udisk'.psize = udisk.psize
  PROVE  InOrder' /\ NoneMissing'
<1>1. PICK N \in Nat : N = OnTheWay
  BY Items
<1>2. /\ OnTheWay' = N + 1 /\ Line(d)' = NoLine
      /\ \A n \in 1 .. N, i \in Nat : i = Past(d, n) => Line(i)' = Line(n)
      /\ d \in 1 .. N + 1
  BY <1>1 DEF OneBetween
<1>3. /\ \A n \in 1 .. N : Past(d, n) \in 1 .. N + 1 /\ Past(d, n) # d
      /\ \A i, j \in 1 .. N : Past(d, i) < Past(d, j) => i < j
      /\ \A i \in 1 .. N + 1 : i # d => \E n \in 1 .. N : Past(d, n) = i
  BY <1>2, Sides
<1>4. ASSUME NEW i \in 1 .. N + 1, Line(i)' # NoLine
      PROVE  \E n \in 1 .. N : Past(d, n) = i /\ Line(i)' = Line(n)
  BY <1>2, <1>3, <1>4
<1>5. InOrder'
  <2>1. ASSUME NEW i \in 1 .. N + 1, NEW j \in 1 .. N + 1, i < j, Line(i)' # NoLine, Line(j)' # NoLine
        PROVE  Line(i)' < Line(j)'
    <3>1. PICK m \in 1 .. N : Past(d, m) = i /\ Line(i)' = Line(m)
      BY <1>4, <2>1
    <3>2. PICK n \in 1 .. N : Past(d, n) = j /\ Line(j)' = Line(n)
      BY <1>4, <2>1
    <3>3. m < n
      BY <1>3, <2>1, <3>1, <3>2
    <3> QED
      BY <1>1, <2>1, <3>1, <3>2, <3>3 DEF InOrder
  <2>2. ASSUME NEW i \in 1 .. N + 1, Line(i)' # NoLine
        PROVE  jobs' = 1 /\ Done' <= Line(i)' /\ (udisk'.flag => Line(i)' < udisk'.psize)
    <3>1. PICK m \in 1 .. N : Past(d, m) = i /\ Line(i)' = Line(m)
      BY <1>4, <2>2
    <3> QED
      BY <1>1, <2>2, <3>1 DEF InOrder
  <2>3. udisk'.flag => Done' <= udisk'.psize
    BY DEF InOrder
  <2> QED
    BY <1>2, <2>1, <2>2, <2>3 DEF InOrder
<1>6. ASSUME NEW m \in Moves, Done' < m, Awaited(m)'
      PROVE  \E i \in 1 .. OnTheWay' : Line(i)' = m
  <2>1. Awaited(m)
    <3>1. CASE \E i \in 1 .. N + 1 : Line(i)' # NoLine /\ m < Line(i)'
      <4>1. PICK i \in 1 .. N + 1 : Line(i)' # NoLine /\ m < Line(i)'
        BY <3>1
      <4>2. PICK n \in 1 .. N : Past(d, n) = i /\ Line(i)' = Line(n)
        BY <1>4, <4>1
      <4> QED
        BY <1>1, <4>1, <4>2 DEF Awaited
    <3> QED
      BY <1>2, <1>6, <3>1 DEF Awaited
  <2>2. PICK n \in 1 .. N : Line(n) = m
    BY <1>1, <1>6, <2>1 DEF NoneMissing
  <2> QED
    BY <1>2, <1>3, <2>2
<1> QED
  BY <1>5, <1>6 DEF NoneMissing

LEMMA MarksBetween ==
  ASSUME Types, First, Marks, NEW d \in 1 .. OnTheWay + 1, NEW p \in Nat, OneBetween(d, p),
         Done' = Done, udisk'.psize = udisk.psize, cmd_sdpos' = cmd_sdpos,
         Done <= p, p <= udisk.psize,
         \A n \in 1 .. OnTheWay : Line(n) # NoLine => IF n < d THEN Line(n) < p ELSE p <= Line(n)
  PROVE  Marks'
<1>1. PICK N \in Nat : N = OnTheWay
  BY Items
<1>2. /\ OnTheWay' = N + 1 /\ Line(d)' = NoLine /\ Pos(d)' = p
      /\ \A n \in 1 .. N, i \in Nat : i = Past(d, n) => Line(i)' = Line(n) /\ Pos(i)' = Pos(n)
      /\ d \in 1 .. N + 1
  BY <1>1 DEF OneBetween
<1>3. /\ \A n \in 1 .. N : (n < d => Past(d, n) = n) /\ (n >= d => Past(d, n) = n + 1)
      /\ \A i, j \in 1 .. N : Past(d, i) < Past(d, j) => i < j
      /\ \A i \in 1 .. N + 1 : i # d => \E n \in 1 .. N : Past(d, n) = i
  BY <1>2, Sides
<1>4. /\ cmd_sdpos = udisk.psize
      /\ \A i \in 1 .. N : Done <= Pos(i) /\ Pos(i) <= udisk.psize
      /\ \A i \in 1 .. N : Line(i) # NoLine => Pos(i) = Line(i)
      /\ \A i, j \in 1 .. N : i < j =>
           /\ Line(i) # NoLine => Line(i) < Pos(j)
           /\ Line(j) # NoLine => Pos(i) <= Line(j)
  BY <1>1 DEF Marks
<1>5. ASSUME NEW i \in 1 .. N + 1
      PROVE  /\ Done' <= Pos(i)' /\ Pos(i)' <= udisk'.psize
             /\ Line(i)' # NoLine => Pos(i)' = Line(i)'
  <2>1. CASE i = d
    BY <1>2, <2>1
  <2>2. CASE i # d
    <3>1. PICK n \in 1 .. N : Past(d, n) = i
      BY <1>3, <2>2
    <3> QED
      BY <1>2, <1>4, <3>1
  <2> QED
    BY <2>1, <2>2
<1>6. ASSUME NEW i \in 1 .. N + 1, NEW j \in 1 .. N + 1, i < j
      PROVE  /\ Line(i)' # NoLine => Line(i)' < Pos(j)'
             /\ Line(j)' # NoLine => Pos(i)' <= Line(j)'
  <2>1. CASE i = d
    <3>1. PICK n \in 1 .. N : Past(d, n) = j
      BY <1>3, <1>6, <2>1
    <3>2. ~(n < d)
      BY <1>3, <1>6, <2>1, <3>1
    <3> QED
      BY <1>1, <1>2, <2>1, <3>1, <3>2
  <2>2. CASE j = d
    <3>1. PICK n \in 1 .. N : Past(d, n) = i
      BY <1>3, <1>6, <2>2
    <3>2. n < d
      <4>1. n >= d => i = n + 1
        BY <1>3, <3>1
      <4> QED
        BY <1>6, <2>2, <4>1
    <3> QED
      BY <1>1, <1>2, <2>2, <3>1, <3>2
  <2>3. CASE i # d /\ j # d
    <3>1. PICK m \in 1 .. N : Past(d, m) = i
      BY <1>3, <2>3
    <3>2. PICK n \in 1 .. N : Past(d, n) = j
      BY <1>3, <2>3
    <3>3. m < n
      BY <1>3, <1>6, <3>1, <3>2
    <3> QED
      BY <1>2, <1>4, <3>1, <3>2, <3>3
  <2> QED
    BY <2>1, <2>2, <2>3
<1> QED
  BY <1>2, <1>4, <1>5, <1>6 DEF Marks
-----------------------------------------------------------------------------
(* The slot of the command that was active last *)

(* A commit does not write it again while the file is read: a slot is free *)
(* between the last command and it, and nothing is read yet if not.        *)
LEMMA ActivePosStays ==
  ASSUME Types, ActiveMark, ActiveSlot, NEW p, p = udisk.psize, sdpos' = [sdpos EXCEPT ![index_w] = p],
         queue_index_r' = queue_index_r, length < BufSize,
         udisk.psize = 0 \/ length < BufSize - 1
  PROVE  ActivePos' = ActivePos
<1>1. /\ length \in Nat /\ BufSize \in Nat /\ index_r \in Slots /\ queue_index_r \in Slots /\ index_w \in Slots
      /\ index_w = (index_r + length) % BufSize /\ sdpos \in [Slots -> Positions] /\ udisk.psize \in Nat
      /\ \A q \in Positions : q \in Nat
  BY Items, Constants DEF Types, QueueTyped, Switches, UdiskT
<1>2. ActivePos \in Nat /\ ActivePos <= udisk.psize
  BY <1>1 DEF ActiveMark, ActivePos
<1>3. \A q \in Slots : q \in Nat /\ q < BufSize /\ (q + 0) % BufSize = q
  <2> SUFFICES ASSUME NEW q \in Slots
               PROVE  q \in Nat /\ q < BufSize /\ (q + 0) % BufSize = q
    OBVIOUS
  <2>1. q \in Nat /\ q < BufSize /\ q + 0 = q
    BY <1>1 DEF Slots
  <2> QED
    BY <1>1, <2>1, Wrap
<1>4. CASE udisk.psize = 0
  BY <1>1, <1>2, <1>4 DEF ActivePos
<1>5. CASE udisk.psize # 0
  <2>1. index_w # queue_index_r
    <3>1. CASE queue_index_r = index_r
      <4>1. 0 < length
        BY <1>1, <1>5, <3>1 DEF ActiveSlot
      <4>2. (index_r + 0) % BufSize # (index_r + length) % BufSize
        BY <1>1, <4>1, SlotsDiffer
      <4> QED
        BY <1>1, <1>3, <3>1, <4>2
    <3>2. CASE (queue_index_r + 1) % BufSize = index_r
      <4>1. length + 1 < BufSize /\ length + 1 \in Nat /\ 0 < length + 1
        BY <1>1, <1>5
      <4>2. (queue_index_r + 0) % BufSize # (queue_index_r + (length + 1)) % BufSize
        BY <1>1, <4>1, SlotsDiffer
      <4>3. (((queue_index_r + 1) % BufSize) + length) % BufSize = (queue_index_r + (length + 1)) % BufSize
        BY <1>1, NextSlot
      <4> QED
        BY <1>1, <1>3, <3>2, <4>2, <4>3
    <3> QED
      BY <3>1, <3>2 DEF ActiveSlot
  <2> QED
    BY <1>1, <2>1 DEF ActivePos
<1> QED
  BY <1>4, <1>5

(* A command is added, be it a line of the file or not ...                 *)
LEMMA ActiveMore ==
  ASSUME Types, First, InOrder, Tracked, ActiveMark, ActiveSlot, NEW l, NEW p, OneMore(l, p), Done' = Done,
         blocks' = blocks, p = udisk.psize, sdpos' = [sdpos EXCEPT ![index_w] = p],
         queue_index_r' = queue_index_r, index_r' = index_r, length' = length + 1, length < BufSize,
         udisk.psize = 0 \/ length < BufSize - 1,
         udisk'.psize \in Nat, udisk.psize <= udisk'.psize, l = NoLine \/ l = udisk.psize,
         pc' = "resuming" /\ handler' = "M24" => pc = "resuming" /\ handler = "M24"
  PROVE  ActiveMark' /\ ActiveSlot'
<1>0. PICK N \in Nat : N = OnTheWay
  BY Items
<1>1. /\ OnTheWay' = N + 1
      /\ \A n \in 1 .. N : Line(n)' = Line(n)
      /\ \A n \in Nat : n = N + 1 => Line(n)' = l
      /\ \A n \in 1 .. N + 1 : n \in 1 .. N \/ n = N + 1
  BY <1>0 DEF OneMore
<1>2. ActivePos' = ActivePos
  BY ActivePosStays
<1>3. /\ ActivePos \in Nat /\ udisk.psize \in Nat /\ Done \in Int /\ length \in Nat
      /\ Len(blocks) \in Nat /\ N = Len(blocks) + length
  <2>1. sdpos \in [Slots -> Positions] /\ queue_index_r \in Slots
    BY DEF Types, QueueTyped
  <2> QED
    BY <1>0, <2>1, Items, Numbers DEF ActivePos
<1>4. ActiveMark'
  <2>1. Done' <= ActivePos' /\ ActivePos' <= udisk'.psize
    BY <1>2, <1>3 DEF ActiveMark
  <2>2. ASSUME NEW i \in 1 .. N + 1, Line(i)' # NoLine
        PROVE  IF i <= Len(blocks') THEN Line(i)' <= ActivePos' ELSE ActivePos' <= Line(i)'
    <3>1. CASE i \in 1 .. N
      BY <1>0, <1>1, <1>2, <2>2, <3>1 DEF ActiveMark
    <3>2. CASE i = N + 1
      <4>1. Line(i)' = udisk.psize
        BY <1>1, <2>2, <3>2
      <4>2. ~(i <= Len(blocks'))
        BY <1>3, <3>2
      <4> QED
        BY <1>2, <1>3, <4>1, <4>2 DEF ActiveMark
    <3> QED
      BY <1>1, <3>1, <3>2
  <2> QED
    BY <1>1, <2>1, <2>2 DEF ActiveMark
<1>5. ActiveSlot'
  <2>1. length' # 0
    BY <1>3
  <2> QED
    BY <2>1 DEF ActiveSlot
<1> QED
  BY <1>4, <1>5

(* ... the planner's first block ends ...                                  *)
LEMMA ActiveDone ==
  ASSUME Types, First, ActiveMark, ActiveSlot, EndBlock, OneLess(1), 1 \in 1 .. OnTheWay,
         Done' = Done \/ (Line(1) # NoLine /\ Done' = Line(1))
  PROVE  ActiveMark' /\ ActiveSlot'
<1>1. PICK N \in Nat : N = OnTheWay
  BY Items
<1>2. /\ blocks \in Seq(BlockT) /\ blocks # <<>> /\ blocks' = Tail(blocks)
      /\ UNCHANGED <<sdpos, queue_index_r, index_r, length, udisk, pc, handler>>
  BY DEF Types, RingTyped, EndBlock, queueVars, fileVars, pauseVars
<1>3. Len(blocks) \in Nat /\ Len(blocks) > 0 /\ Len(blocks') = Len(blocks) - 1
  BY <1>2
<1>4. /\ OnTheWay' = N - 1
      /\ \A n \in 1 .. N - 1 : Line(n)' = Line(n + 1) /\ n + 1 \in 1 .. N
  BY <1>1 DEF OneLess, Past
<1>5. ActivePos' = ActivePos
  BY <1>2 DEF ActivePos
<1>6. Done' <= ActivePos
  BY <1>3 DEF ActiveMark
<1>7. ASSUME NEW i \in 1 .. N - 1, Line(i)' # NoLine
      PROVE  IF i <= Len(blocks') THEN Line(i)' <= ActivePos' ELSE ActivePos' <= Line(i)'
  <2>1. Line(i)' = Line(i + 1) /\ i + 1 \in 1 .. N /\ (i <= Len(blocks') <=> i + 1 <= Len(blocks))
    BY <1>3, <1>4
  <2> QED
    BY <1>1, <1>5, <1>7, <2>1 DEF ActiveMark
<1>8. ActiveMark'
  BY <1>2, <1>4, <1>5, <1>6, <1>7 DEF ActiveMark
<1>9. ActiveSlot'
  BY <1>2 DEF ActiveSlot
<1> QED
  BY <1>8, <1>9

(* ... the next command becomes active ...                                 *)
LEMMA ActiveNext ==
  ASSUME Types, First, Marks, length > 0, queue_index_r' = index_r, sdpos' = sdpos, Done' = Done,
         udisk'.psize = udisk.psize,
         \A i \in 1 .. OnTheWay' : Line(i)' # NoLine =>
           \E n \in 1 .. OnTheWay : /\ Line(i)' = Line(n)
                                    /\ IF i <= Len(blocks') THEN n <= Len(blocks) + 1 ELSE n >= Len(blocks) + 1
  PROVE  ActiveMark'
<1>1. PICK d \in Nat : d = Len(blocks) + 1
  BY Items
<1>2. /\ d \in 1 .. OnTheWay /\ Pos(d) = sdpos[index_r] /\ OnTheWay \in Nat
      /\ \A n \in 1 .. OnTheWay : Line(n) \in Int /\ Pos(n) \in Nat
  <2>1. length \in Nat /\ Len(blocks) \in Nat /\ OnTheWay = Len(blocks) + length /\ index_r \in Slots
    BY Items DEF Types, QueueTyped
  <2>2. ~(d <= Len(blocks)) /\ d - 1 - Len(blocks) = 0 /\ d \in 1 .. OnTheWay
    BY <1>1, <2>1
  <2>3. (index_r + 0) % BufSize = index_r
    <3>1. index_r \in Nat /\ index_r < BufSize /\ BufSize \in Nat /\ index_r + 0 = index_r
      BY <2>1, Constants DEF Slots
    <3> QED
      BY <3>1, Wrap
  <2> QED
    BY <2>2, <2>3, Numbers DEF Pos, SlotOf
<1>3. ActivePos' = Pos(d)
  BY <1>2 DEF ActivePos
<1>4. Done <= Pos(d) /\ Pos(d) <= udisk.psize
  BY <1>2 DEF Marks
<1>5. ASSUME NEW n \in 1 .. OnTheWay, Line(n) # NoLine
      PROVE  (n <= d => Line(n) <= Pos(d)) /\ (n >= d => Pos(d) <= Line(n))
  <2>1. CASE n < d
    <3>1. Line(n) < Pos(d)
      BY <1>2, <1>5, <2>1 DEF Marks
    <3> QED
      BY <1>2, <2>1, <3>1
  <2>2. CASE n = d
    <3>1. Pos(d) = Line(n)
      BY <1>5, <2>2 DEF Marks
    <3> QED
      BY <1>2, <3>1
  <2>3. CASE n > d
    <3>1. Pos(d) <= Line(n)
      BY <1>2, <1>5, <2>3 DEF Marks
    <3> QED
      BY <1>2, <2>3, <3>1
  <2> QED
    BY <1>2, <2>1, <2>2, <2>3
<1>6. ASSUME NEW i \in 1 .. OnTheWay', Line(i)' # NoLine
      PROVE  IF i <= Len(blocks') THEN Line(i)' <= ActivePos' ELSE ActivePos' <= Line(i)'
  <2>1. PICK n \in 1 .. OnTheWay : /\ Line(i)' = Line(n)
                                   /\ IF i <= Len(blocks') THEN n <= Len(blocks) + 1 ELSE n >= Len(blocks) + 1
    BY <1>6
  <2>2. Line(n) # NoLine /\ IF i <= Len(blocks') THEN n <= d ELSE n >= d
    BY <1>1, <1>6, <2>1
  <2>3. (n <= d => Line(n) <= Pos(d)) /\ (n >= d => Pos(d) <= Line(n))
    BY <1>5, <2>2
  <2> QED
    BY <1>3, <2>1, <2>2, <2>3
<1> QED
  BY <1>3, <1>4, <1>6 DEF ActiveMark

(* ... and is taken away, while the first stays where it is.               *)
LEMMA SlotTaken ==
  ASSUME Types, length > 0, queue_index_r' = index_r, index_r' = (index_r + 1) % BufSize,
         ~(pc' = "resuming" /\ handler' = "M24")
  PROVE  ActiveSlot'
<1>1. index_r \in Slots /\ BufSize \in Nat /\ 1 < BufSize /\ index_r \in Nat /\ index_r < BufSize /\ index_r + 0 = index_r
  BY Constants DEF Types, QueueTyped, Slots
<1>2. (index_r + 0) % BufSize = index_r
  BY <1>1, Wrap
<1>3. (index_r + 0) % BufSize # (index_r + 1) % BufSize
  BY <1>1, SlotsDiffer
<1> QED
  BY <1>2, <1>3 DEF ActiveSlot

(* Steps that move nothing of the print.                                   *)
LEMMA NothingMoves ==
  ASSUME Types, First, Ordered,
         UNCHANGED <<queueVars, queue_index_r, blocks, busy, info, jobs, outages, last>>,
         udisk'.flag => udisk.flag /\ udisk'.psize = udisk.psize,
         jobs = 0 => ~udisk'.flag /\ ~udisk'.stop /\ udisk'.psize = 0 /\ disk' = NoRecord,
         pc' = "resuming" /\ handler' = "M24" => pc = "resuming" /\ handler = "M24"
  PROVE  InOrder' /\ NoneMissing' /\ OfFirst' /\ Marked' /\ SameItems /\ Done' = Done
<1>1. InOrder /\ NoneMissing /\ OfFirst /\ Marked
  BY DEF Ordered
<1>2. SameItems /\ Done' = Done /\ cmd_sdpos' = cmd_sdpos
  BY Still DEF Done, queueVars
<1>3. InOrder' /\ NoneMissing'
  BY <1>1, <1>2, OrderKept
<1>4. OfFirst'
  <2>1. Queued("line")' <=> Queued("line")
    BY DEF Queued, queueVars
  <2> QED
    BY <1>1, <2>1 DEF OfFirst
<1>5. Marked'
  <2> SUFFICES ASSUME Tracked'
               PROVE  Marked'
    BY DEF Marked
  <2>1. Tracked /\ udisk'.psize = udisk.psize
    BY <1>1 DEF Tracked, OfFirst
  <2>2. /\ Marks /\ ActiveMark /\ ActiveSlot /\ (busy => info.pos = Pos(1)) /\ GoesOn(info.pos)
        /\ (jobs = 0 => info.pos = 0)
    BY <1>1, <2>1 DEF Marked
  <2>3. Marks'
    BY <1>2, <2>1, <2>2, MarksKept
  <2>4. busy' => info'.pos = Pos(1)'
    <3>1. busy => 1 \in 1 .. OnTheWay
      BY Items, EmptySeq DEF Types, RingTyped
    <3> QED
      BY <1>2, <2>2, <3>1 DEF SameItems
  <2>5. GoesOn(info.pos)'
    BY <1>2, <2>2 DEF GoesOn
  <2>6. ActiveMark'
    <3>1. ActivePos' = ActivePos
      BY DEF ActivePos, queueVars
    <3>2. /\ OnTheWay' = OnTheWay
          /\ \A n \in 1 .. OnTheWay : Line(n)' = Line(n)
      BY <1>2 DEF SameItems
    <3> QED
      BY <1>2, <2>1, <2>2, <3>1, <3>2 DEF ActiveMark
  <2>7. ActiveSlot'
    BY <2>1, <2>2 DEF ActiveSlot, queueVars
  <2> QED
    BY <2>2, <2>3, <2>4, <2>5, <2>6, <2>7 DEF Marked
<1> QED
  BY <1>2, <1>3, <1>4, <1>5
-----------------------------------------------------------------------------
(* Each step keeps the order of the first print *)

(* A command that is no line of the file is added, with the position of    *)
(* the line that is read next.                                             *)
LEMMA CommandAdded ==
  ASSUME Types, Types', First, Ordered, NEW op \in Ops, op # "line", NEW p \in Positions, length < BufSize,
         Tracked => p = cmd_sdpos /\ (udisk.psize = 0 \/ length < BufSize - 1),
         command' = [command EXCEPT ![index_w] = Command(op)], sdpos' = [sdpos EXCEPT ![index_w] = p],
         index_r' = index_r, length' = length + 1,
         Tracked => cmd_sdpos' = cmd_sdpos,
         UNCHANGED <<queue_index_r, udisk, blocks, busy, disk, jobs, outages, last>>,
         info'.pos = info.pos, jobs = 1 \/ info' = info, info'.file = info.file \/ info'.file = 1,
         pc' = "resuming" /\ handler' = "M24" => pc = "resuming" /\ handler = "M24"
  PROVE  InOrder' /\ NoneMissing' /\ OfFirst' /\ Marked' /\ OneMore(NoLine, p) /\ Done' = Done
<1>1. InOrder /\ NoneMissing /\ OfFirst /\ Marked /\ QueueTyped
  BY DEF Ordered, Types
<1>2. Command(op) \in CommandT /\ Command(op).line = NoLine /\ Command(op).op = op
  BY Entry
<1>3. OneMore(NoLine, p)
  BY <1>2, ItemAdded
<1>4. Done' = Done
  BY DEF Done
<1>5. InOrder' /\ NoneMissing'
  BY <1>1, <1>3, <1>4, OrderMore
<1>6. OfFirst'
  <2>1. Queued("line")' => Queued("line")
    BY <1>1, <1>2, AddedLast DEF Ops
  <2> QED
    BY <1>1, <2>1 DEF OfFirst
<1>7. Marked'
  <2> SUFFICES ASSUME Tracked
               PROVE  Marked'
    BY DEF Marked, Tracked
  <2>1. /\ Marks /\ ActiveMark /\ ActiveSlot /\ (busy => info.pos = Pos(1)) /\ GoesOn(info.pos)
        /\ (jobs = 0 => info.pos = 0) /\ p = cmd_sdpos /\ cmd_sdpos = udisk.psize
    BY <1>1 DEF Marked, Marks
  <2>2. Marks'
    BY <1>1, <1>3, <1>4, <2>1, MarksMore
  <2>3. ActiveMark' /\ ActiveSlot'
    <3>1. /\ udisk'.psize \in Nat /\ udisk.psize <= udisk'.psize
          /\ p = udisk.psize /\ (udisk.psize = 0 \/ length < BufSize - 1)
      BY <2>1, Numbers
    <3>2. sdpos' = [sdpos EXCEPT ![index_w] = p] /\ blocks' = blocks /\ queue_index_r' = queue_index_r
      OBVIOUS
    <3> QED
      BY <1>1, <1>3, <1>4, <2>1, <3>1, <3>2, ActiveMore
  <2>4. busy' => info'.pos = Pos(1)'
    <3>1. busy => 1 \in 1 .. OnTheWay
      BY Items, EmptySeq DEF Types, RingTyped
    <3> QED
      BY <1>3, <2>1, <3>1 DEF OneMore
  <2>5. GoesOn(info.pos)'
    BY <1>4, <2>1 DEF GoesOn
  <2> QED
    BY <2>1, <2>2, <2>3, <2>4, <2>5 DEF Marked
<1> QED
  BY <1>3, <1>4, <1>5, <1>6, <1>7

LEMMA AddingStep ==
  ASSUME Patient, Types, Types', IInv, First, First', Ordered, [Next]_vars,
         ReadLine \/ OtherCommand \/ FinishPrinting \/ FileOpened \/ ConfirmResume
  PROVE  Ordered'
<1>1. InOrder /\ NoneMissing /\ OfFirst /\ Marked /\ Restored /\ ResumedOnce /\ OneAtATime /\ RecordNames
  BY DEF Ordered, IInv
<1>2. /\ jobs \in {0, 1} /\ (jobs = 0 => Done = NoLine) /\ udisk.psize \in Nat /\ OnTheWay \in Nat
      /\ NoLine = -1 /\ (\A m \in Moves : m \in Nat) /\ udisk \in UdiskT /\ length \in Nat
  BY Numbers, Items DEF Types, Switches
<1>3. /\ pc \in {"heating", "homing"} => Resuming
      /\ Resuming => /\ ~udisk.flag /\ ~complete /\ jobs # 0 /\ ~Tracked
                     /\ pc \in {"loop", "heating", "homing"}
  BY WhileResuming
<1>4. CASE ReadLine
  <2>1. /\ on /\ udisk.flag /\ pc # "opening" /\ length < BufSize - 2 /\ udisk.psize < FileLines
        /\ udisk' = [udisk EXCEPT !.psize = @ + 1] /\ cmd_sdpos' = udisk.psize + 1
        /\ Commit(LineOfFile(udisk.psize))
        /\ UNCHANGED <<on, queue_index_r, blocks, busy, info, disk, jobs, outages, last, pc, handler>>
    BY <1>4 DEF ReadLine, ringVars, countVars, histVars, pauseVars
  <2>2. OneMore(udisk.psize, cmd_sdpos)
    <3>1. OneMore(LineOfFile(udisk.psize).line, cmd_sdpos)
      BY <2>1, ItemAdded DEF Commit
    <3> QED
      BY <3>1 DEF LineOfFile
  <2>3. Done' = Done /\ jobs = 1 /\ udisk'.flag /\ udisk'.psize = udisk.psize + 1
    BY <1>1, <1>2, <2>1 DEF Done, OfFirst, UdiskT
  <2>4. InOrder' /\ NoneMissing'
    BY <1>1, <2>1, <2>2, <2>3, OrderMore
  <2>5. OfFirst'
    <3>1. unsaved = "none"
      BY <2>3 DEF First
    <3>2. info.file # 0 /\ info.file <= 1 /\ info.file \in Nat
      BY <1>1, <2>1, <2>3, <3>1, Constants DEF RecordNames, Types, RecordTyped, Record
    <3> QED
      BY <1>1, <2>1, <2>3, <3>2 DEF OfFirst
  <2>6. Marked'
    <3> SUFFICES ASSUME outages = 0
                 PROVE  Marked'
      BY <2>1 DEF Marked, Tracked
    <3>1. /\ Tracked /\ Marks /\ ActiveMark /\ ActiveSlot /\ (busy => info.pos = Pos(1)) /\ GoesOn(info.pos)
          /\ cmd_sdpos = udisk.psize
      BY <1>1, <2>1 DEF Marked, Tracked, Marks
    <3>2. Marks'
      BY <1>1, <2>1, <2>2, <2>3, <3>1, MarksMore
    <3>3. ActiveMark' /\ ActiveSlot'
      <4>1. udisk'.psize \in Nat /\ udisk.psize <= udisk'.psize /\ length < BufSize /\ length < BufSize - 1
        BY <1>2, <2>1, <2>3, Constants
      <4>2. sdpos' = [sdpos EXCEPT ![index_w] = cmd_sdpos] /\ index_r' = index_r /\ length' = length + 1
        BY <2>1 DEF Commit
      <4> QED
        BY <1>1, <2>1, <2>2, <2>3, <3>1, <4>1, <4>2, ActiveMore
    <3>4. busy' => info'.pos = Pos(1)'
      <4>1. busy => 1 \in 1 .. OnTheWay
        BY Items, EmptySeq DEF Types, RingTyped
      <4> QED
        BY <2>1, <2>2, <3>1, <4>1 DEF OneMore
    <3>5. GoesOn(info.pos)'
      BY <2>1, <2>3, <3>1 DEF GoesOn
    <3> QED
      BY <2>1, <2>3, <3>2, <3>3, <3>4, <3>5 DEF Marked
  <2>7. Restored'
    <3>1. ~Resuming'
      BY <1>1, <1>3, <1>4, <2>1, MarksChange
    <3> QED
      BY <1>1, <1>3, <2>1, <3>1, NotResuming
  <2> QED
    BY <2>4, <2>5, <2>6, <2>7 DEF Ordered
<1>5. CASE OtherCommand \/ FinishPrinting
  <2>1. /\ UNCHANGED <<cmd_sdpos, queue_index_r, udisk, blocks, busy, info, disk, jobs, outages, last,
                       on, pc, handler, asked>>
        /\ on /\ (Commit(Command("move")) \/ Commit(Command("M1001")))
    BY <1>5 DEF OtherCommand, FinishPrinting, InLoop, ringVars, fileVars, countVars, histVars, pauseVars
  <2>2. PICK op \in Ops : op # "line" /\ Commit(Command(op))
    BY <2>1 DEF Ops
  <2>3. Tracked => udisk.psize = 0 \/ length < BufSize - 1
    <3>1. FinishPrinting => ~udisk.flag
      BY <1>1 DEF FinishPrinting, OneAtATime
    <3> QED
      BY <1>1, <1>5, <3>1 DEF Tracked, OfFirst, OtherCommand
  <2>4. InOrder' /\ NoneMissing' /\ OfFirst' /\ Marked'
    <3>1. cmd_sdpos \in Positions
      BY DEF Types, QueueTyped
    <3>2. /\ length < BufSize
          /\ command' = [command EXCEPT ![index_w] = Command(op)] /\ sdpos' = [sdpos EXCEPT ![index_w] = cmd_sdpos]
          /\ index_r' = index_r /\ length' = length + 1
      BY <2>2 DEF Commit
    <3> QED
      BY <2>1, <2>2, <2>3, <3>1, <3>2, CommandAdded
  <2>5. ~Resuming
    BY <1>3, <1>5 DEF OtherCommand, FinishPrinting, Resuming
  <2>6. ~Resuming' /\ pc' \notin {"heating", "homing"}
    BY <1>1, <1>3, <1>5, <2>1, <2>5, MarksChange
  <2>7. Restored'
    BY <2>1, <2>6, NotResuming
  <2> QED
    BY <2>4, <2>7 DEF Ordered
<1>6. CASE FileOpened
  <2>1. /\ on /\ on' = on /\ pc = "opening" /\ pc' = "loop" /\ cmd_sdpos' = 0 /\ length < BufSize
        /\ command' = [command EXCEPT ![index_w] = Command("M24")]
        /\ sdpos' = [sdpos EXCEPT ![index_w] = 0] /\ index_r' = index_r /\ length' = length + 1
        /\ info' = [info EXCEPT !.file = jobs]
        /\ UNCHANGED <<queue_index_r, udisk, blocks, busy, disk, jobs, outages, last, asked>>
    BY <1>6 DEF FileOpened, Prepare, ringVars, fileVars, countVars, histVars
  <2>2. udisk.flag /\ udisk.psize = 0 /\ jobs = 1 /\ ~Resuming
    <3>1. udisk.flag /\ udisk.psize = 0
      BY <1>1, <2>1 DEF OneAtATime
    <3> QED
      BY <1>1, <1>2, <1>3, <3>1 DEF OfFirst
  <2>3. info'.pos = info.pos /\ info'.file = 1
    BY <2>1, <2>2 DEF Types, RecordTyped, Record
  <2>4. InOrder' /\ NoneMissing' /\ OfFirst' /\ Marked'
    <3>1. 0 \in Positions /\ "M24" \in Ops
      BY Constants DEF Positions, Ops
    <3>2. Tracked => cmd_sdpos = 0
      BY <1>1, <2>2 DEF Marked, Marks
    <3> QED
      BY <2>1, <2>2, <2>3, <3>1, <3>2, CommandAdded
  <2>5. ~Resuming'
    BY <1>1, <1>6, <2>2, MarksChange
  <2>6. Restored'
    BY <2>1, <2>5, NotResuming
  <2> QED
    BY <2>4, <2>6 DEF Ordered
<1>7. CASE ConfirmResume
  <2>1. /\ UNCHANGED <<cmd_sdpos, queue_index_r, udisk, blocks, busy, info, disk, jobs, outages, last,
                       on, pc, handler, resume_sdpos, timer, inject>>
        /\ on /\ asked /\ length < BufSize
        /\ command' = [command EXCEPT ![index_w] = Command("M1000")] /\ sdpos' = [sdpos EXCEPT ![index_w] = cmd_sdpos]
        /\ index_r' = index_r /\ length' = length + 1
    BY <1>7 DEF ConfirmResume, Commit, fileVars, ringVars, countVars, histVars, pauseVars
  <2>2. Resuming /\ pc = "loop" /\ ~Tracked
    <3>1. Resuming /\ pc \notin {"heating", "homing"}
      BY <1>1, <2>1 DEF Resuming, ResumedOnce
    <3> QED
      BY <1>3, <3>1
  <2>3. InOrder' /\ NoneMissing' /\ OfFirst' /\ Marked' /\ OneMore(NoLine, cmd_sdpos) /\ Done' = Done
    <3>1. cmd_sdpos \in Positions /\ "M1000" \in Ops /\ "M1000" # "line"
      BY DEF Types, QueueTyped, Ops
    <3> QED
      BY <2>1, <2>2, <3>1, CommandAdded
  <2>4. \A i \in 1 .. OnTheWay' : Line(i)' = NoLine
    <3>1. PICK N \in Nat : N = OnTheWay
      BY <1>2
    <3>2. \A i \in 1 .. N : Line(i)' = NoLine
      BY <1>1, <2>2, <2>3, <3>1 DEF Restored, OneMore
    <3>3. \A i \in Nat : i = N + 1 => Line(i)' = NoLine
      BY <2>3, <3>1 DEF OneMore
    <3>4. OnTheWay' = N + 1
      BY <2>3, <3>1 DEF OneMore
    <3> QED
      BY <3>1, <3>2, <3>3, <3>4
  <2>5. \A k \in 0 .. length' - 1 : OpAt(k)' = "M1000"
    <3>1. QueueMore("M1000")
      BY <1>1, <1>7, QueueChange
    <3>2. length \in Nat
      BY Items
    <3>3. \A k \in 0 .. length - 1 : OpAt(k)' = "M1000"
      BY <1>1, <2>2, <3>1 DEF Restored, QueueMore
    <3> QED
      BY <3>1, <3>2, <3>3 DEF QueueMore
  <2>6. GoesOn(info.pos)' /\ blocks' = <<>> /\ timer' = "stopped" /\ inject' = "none"
    BY <1>1, <2>1, <2>2, <2>3 DEF Restored, GoesOn
  <2>7. Restored'
    <3>1. outages' # 0
      BY <1>1, <2>1, <2>2 DEF Restored
    <3> QED
      BY <2>1, <2>2, <2>4, <2>5, <2>6, <3>1 DEF Restored
  <2> QED
    BY <2>3, <2>7 DEF Ordered
<1> QED
  BY <1>4, <1>5, <1>6, <1>7

LEMMA RunningStep ==
  ASSUME Types, Types', IInv, First, First', Ordered, [Next]_vars,
         StartBlock \/ EndBlock \/ RunMove \/ RunOther \/ RunM1001
  PROVE  Ordered'
<1>1. /\ InOrder /\ NoneMissing /\ OfFirst /\ Marked /\ Restored /\ ResumedOnce /\ OneAtATime /\ EndIsLast
  BY DEF Ordered, IInv
<1>2. /\ jobs \in {0, 1} /\ (jobs = 0 => Done = NoLine) /\ (jobs = 1 => Done = last[1] /\ 1 \in Jobs)
      /\ OnTheWay \in Nat /\ NoLine = -1 /\ (\A m \in Moves : m \in Nat)
      /\ \A n \in 1 .. OnTheWay : Line(n) \in Int /\ Pos(n) \in Nat
  BY Numbers
<1>3. /\ pc \in {"heating", "homing"} => Resuming
      /\ Resuming => /\ ~udisk.flag /\ ~complete /\ jobs # 0 /\ ~Tracked
                     /\ pc \in {"loop", "heating", "homing"}
  BY WhileResuming
<1>4. busy => 1 \in 1 .. OnTheWay /\ 1 \in 1 .. Len(blocks)
  BY Items, EmptySeq DEF Types, RingTyped
<1>5. CASE StartBlock
  <2>1. /\ on /\ blocks # <<>> /\ ~busy /\ info' = [info EXCEPT !.pos = Head(blocks).sdpos]
        /\ UNCHANGED <<on, queueVars, queue_index_r, blocks, udisk, asked, resume_sdpos, pc, handler,
                       timer, disk, jobs, outages, last>>
    BY <1>5 DEF StartBlock, fileVars, pauseVars, countVars, histVars
  <2>2. SameItems /\ Done' = Done /\ cmd_sdpos' = cmd_sdpos /\ sdpos' = sdpos /\ index_r' = index_r /\ length' = length
    BY <2>1, Still DEF Done, queueVars
  <2>3. InOrder' /\ NoneMissing'
    BY <1>1, <2>1, <2>2, OrderKept
  <2>4. info'.pos = Head(blocks).sdpos /\ info'.file = info.file
    BY <2>1 DEF Types, RecordTyped, Record
  <2>5. OfFirst'
    <3>1. Queued("line")' <=> Queued("line")
      BY <2>1 DEF Queued, queueVars
    <3> QED
      BY <1>1, <2>1, <2>4, <3>1 DEF OfFirst
  <2>6. 1 \in 1 .. OnTheWay /\ Head(blocks).sdpos = Pos(1)
    <3>1. 1 \in 1 .. Len(blocks) /\ 1 \in 1 .. OnTheWay /\ Head(blocks) = blocks[1]
      BY <2>1, Items, EmptySeq, HeadTailProperties DEF Types, RingTyped
    <3> QED
      BY <3>1, Items
  <2>7. Marked'
    <3> SUFFICES ASSUME Tracked
                 PROVE  Marked'
      BY <2>1 DEF Marked, Tracked
    <3>1. Marks /\ ActiveMark /\ ActiveSlot /\ GoesOn(Pos(1)) /\ (jobs = 0 => Pos(1) = 0)
      BY <1>1, <2>6, HeadGoesOn DEF Marked
    <3>2. Marks'
      BY <2>1, <2>2, <3>1, MarksKept
    <3>3. info'.pos = Pos(1) /\ Pos(1)' = Pos(1)
      BY <2>2, <2>4, <2>6 DEF SameItems
    <3>4. GoesOn(info.pos)'
      BY <2>2, <3>1, <3>3 DEF GoesOn
    <3>5. ActiveMark'
      <4>1. ActivePos' = ActivePos
        BY <2>1, <2>2 DEF ActivePos
      <4>2. OnTheWay' = OnTheWay /\ \A n \in 1 .. OnTheWay : Line(n)' = Line(n)
        BY <2>2 DEF SameItems
      <4> QED
        BY <2>1, <2>2, <3>1, <4>1, <4>2 DEF ActiveMark
    <3>6. ActiveSlot'
      BY <2>1, <2>2, <3>1 DEF ActiveSlot
    <3> QED
      BY <2>1, <3>1, <3>2, <3>3, <3>4, <3>5, <3>6 DEF Marked
  <2>8. Restored'
    <3>1. Resuming' <=> Resuming
      BY <1>1, <1>5, MarksChange
    <3>2. pc' \in {"heating", "homing"} => GoesOn(resume_sdpos)'
      BY <1>1, <2>1, <2>2 DEF Restored, GoesOn
    <3>3. Resuming' => \A i \in 1 .. OnTheWay' : Line(i)' = NoLine
      BY <1>1, <2>2, <3>1 DEF Restored, SameItems
    <3>4. ~(Resuming' /\ pc' = "loop")
      BY <1>1, <2>1, <3>1 DEF Restored
    <3> QED
      BY <1>1, <2>1, <3>1, <3>2, <3>3, <3>4 DEF Restored
  <2> QED
    BY <2>3, <2>5, <2>7, <2>8 DEF Ordered
<1>6. CASE EndBlock
  <2>1. /\ on /\ busy /\ busy' = FALSE /\ blocks' = Tail(blocks)
        /\ last' = IF Head(blocks).line = NoLine THEN last
                   ELSE [last EXCEPT ![Head(blocks).job] = Head(blocks).line]
        /\ UNCHANGED <<on, queueVars, udisk, asked, resume_sdpos, pc, disk, jobs, outages, info>>
    BY <1>6 DEF EndBlock, countVars, fileVars
  <2>2. /\ 1 \in 1 .. OnTheWay /\ OneLess(1) /\ 1 \in 1 .. Len(blocks)
        /\ Line(1) = Head(blocks).line /\ Pos(1) = Head(blocks).sdpos /\ Head(blocks) = blocks[1]
    BY <1>6, <2>1, ItemDone, HeadTailProperties, EmptySeq DEF Types, RingTyped
  <2>4. IF Line(1) = NoLine THEN Done' = Done ELSE Done' = Line(1) /\ jobs = 1
    <3>1. CASE Line(1) = NoLine
      BY <2>1, <2>2, <3>1 DEF Done
    <3>2. CASE Line(1) # NoLine
      <4>1. jobs = 1 /\ Head(blocks).job = 1
        BY <1>1, <2>2, <3>2 DEF InOrder, OfFirst
      <4>2. last \in [Jobs -> Moves \cup {NoLine}] /\ 1 \in Jobs
        BY <1>2, <4>1 DEF Types, HistoryTyped
      <4> QED
        BY <2>1, <2>2, <3>2, <4>1, <4>2 DEF Done
    <3> QED
      BY <3>1, <3>2
  <2>5. InOrder' /\ NoneMissing'
    <3>1. NoLine \notin Moves
      BY <1>2
    <3> QED
      BY <1>1, <2>1, <2>2, <2>4, <3>1, OrderLess
  <2>6. OfFirst'
    <3>1. \A k \in 1 .. Len(blocks') : k + 1 \in 1 .. Len(blocks) /\ blocks'[k] = blocks[k + 1]
      <4>1. blocks \in Seq(BlockT) /\ blocks # <<>>
        BY <2>1 DEF Types, RingTyped
      <4> QED
        BY <2>1, <4>1
    <3>2. jobs = 0 => last' = last
      BY <1>2, <2>1, <2>2, <2>4
    <3>3. Queued("line")' <=> Queued("line")
      BY <2>1 DEF Queued, queueVars
    <3> QED
      BY <1>1, <2>1, <3>1, <3>2, <3>3 DEF OfFirst
  <2>7. Marked'
    <3> SUFFICES ASSUME Tracked
                 PROVE  Marked'
      BY <2>1 DEF Marked, Tracked
    <3>1. /\ Marks /\ ActiveMark /\ ActiveSlot /\ info.pos = Pos(1) /\ GoesOn(info.pos)
          /\ (jobs = 0 => info.pos = 0)
      BY <1>1, <2>1 DEF Marked
    <3>2. Marks'
      BY <1>1, <2>1, <2>2, <2>4, <3>1, MarksLess DEF queueVars
    <3>3. GoesOn(info.pos)'
      <4>1. CASE Line(1) = NoLine
        BY <2>1, <2>4, <3>1, <4>1 DEF GoesOn
      <4>2. CASE Line(1) # NoLine
        <5>1. info'.pos = Line(1) /\ Done' = Line(1)
          BY <2>1, <2>2, <2>4, <3>1, <4>2 DEF Marks
        <5>2. Line(1) \in Int
          BY <1>2, <2>2
        <5> QED
          BY <1>2, <5>1, <5>2 DEF GoesOn
      <4> QED
        BY <4>1, <4>2
    <3>4. ActiveMark' /\ ActiveSlot'
      BY <1>6, <2>2, <2>4, <3>1, ActiveDone
    <3> QED
      BY <2>1, <3>1, <3>2, <3>3, <3>4 DEF Marked
  <2>8. Restored'
    <3>1. Resuming' <=> Resuming
      BY <1>1, <1>6, MarksChange
    <3>2. CASE Resuming
      <4>1. \A i \in 1 .. OnTheWay : Line(i) = NoLine
        BY <1>1, <3>2 DEF Restored
      <4>2. Done' = Done
        BY <2>2, <2>4, <4>1
      <4>3. pc' # "loop"
        BY <1>1, <2>1, <3>2, EmptySeq DEF Restored, Types, RingTyped
      <4>4. \A i \in 1 .. OnTheWay' : Line(i)' = NoLine
        <5>1. PICK N \in Nat : N = OnTheWay
          BY <1>2
        <5>2. OnTheWay' = N - 1 /\ \A n \in 1 .. N - 1 : Line(n)' = Line(Past(1, n))
          BY <2>2, <5>1 DEF OneLess
        <5>3. \A n \in 1 .. N - 1 : Past(1, n) \in 1 .. N
          BY DEF Past
        <5> QED
          BY <4>1, <5>1, <5>2, <5>3
      <4>5. pc' \in {"heating", "homing"} => GoesOn(resume_sdpos)'
        BY <1>1, <2>1, <4>2 DEF Restored, GoesOn
      <4> QED
        BY <1>1, <2>1, <3>1, <3>2, <4>3, <4>4, <4>5 DEF Restored
    <3>3. CASE ~Resuming
      BY <1>3, <2>1, <3>1, <3>3, NotResuming
    <3> QED
      BY <3>2, <3>3
  <2> QED
    BY <2>5, <2>6, <2>7, <2>8 DEF Ordered
(* The main loop runs no other command while a print is being resumed. *)
<1>7. ASSUME Dispatch, Active.op # "M1000"
      PROVE  on /\ pc = "loop" /\ length > 0 /\ ~Resuming
  <2>1. on /\ pc = "loop" /\ length > 0
    BY <1>7 DEF Dispatch, Advancing, InLoop
  <2>2. Active.op = OpAt(0) /\ 0 \in 0 .. length - 1
    BY <2>1, HeadOfQueue, Items
  <2> QED
    BY <1>1, <1>7, <2>1, <2>2 DEF Restored
<1>8. LinesAreLines /\ index_r \in Slots
  BY DEF Types, QueueTyped
<1>9. CASE RunMove
  <2>1. /\ Dispatch /\ (Active.op = "move" \/ Active.line \in Moves) /\ busy' = busy /\ Advance
        /\ UNCHANGED <<on, udisk, cmd_sdpos, sdpos, resume_sdpos, pc, disk, jobs, outages, info, last>>
        /\ queue_index_r' = index_r /\ index_r' = (index_r + 1) % BufSize
    BY <1>9 DEF RunMove, Advance, Dispatch, fileVars, countVars, histVars
  <2>2. on /\ pc = "loop" /\ length > 0 /\ ~Resuming
    <3>1. Active.op # "M1000"
      BY <1>2, <1>8, <2>1 DEF Active, LinesAreLines
    <3> QED
      BY <1>7, <2>1, <3>1
  <2>3. /\ SameItems /\ Len(blocks) + 1 \in 1 .. OnTheWay /\ Line(Len(blocks) + 1) = Active.line
        /\ blocks' = Append(blocks, Block(Active.line, index_r)) /\ Done' = Done
    BY <1>9, <2>1, ItemPlanned DEF Done
  <2>4. InOrder' /\ NoneMissing'
    BY <1>1, <2>1, <2>3, OrderKept
  <2>9. blocks \in Seq(BlockT) /\ Len(blocks) \in Nat
    BY LenProperties DEF Types, RingTyped
  <2>10. Len(blocks') = Len(blocks) + 1
    BY <2>3, <2>9
  <2>5. OfFirst'
    <3>1. Active.line # NoLine => info.file = 1
      <4>1. Active.line # NoLine => Active.op = "line"
        BY <1>8 DEF LinesAreLines, Active
      <4>2. Active.op = "line" => Queued("line")
        BY <2>2, HeadOfQueue
      <4> QED
        BY <1>1, <4>1, <4>2 DEF OfFirst
    <3>2. \A k \in 1 .. Len(blocks') :
            blocks'[k] = Block(Active.line, index_r) \/ (k \in 1 .. Len(blocks) /\ blocks'[k] = blocks[k])
      <4>2. blocks'[Len(blocks) + 1] = Block(Active.line, index_r)
        BY <2>3, <2>9
      <4>3. \A k \in 1 .. Len(blocks) : blocks'[k] = blocks[k]
        BY <2>3, <2>9
      <4>4. \A k \in 1 .. Len(blocks) + 1 : k \in 1 .. Len(blocks) \/ k = Len(blocks) + 1
        BY <2>9
      <4> QED
        BY <2>10, <4>2, <4>3, <4>4
    <3>3. Block(Active.line, index_r).line # NoLine => Block(Active.line, index_r).job = 1
      BY <3>1 DEF Block
    <3>4. Queued("line")' => Queued("line")
      BY <2>1, <2>2, FirstRemoved DEF Types, Ops
    <3> QED
      BY <1>1, <2>1, <3>2, <3>3, <3>4 DEF OfFirst
  <2>6. Marked'
    <3> SUFFICES ASSUME Tracked
                 PROVE  Marked'
      BY <2>1 DEF Marked, Tracked
    <3>1. Marks /\ (busy => info.pos = Pos(1)) /\ GoesOn(info.pos) /\ (jobs = 0 => info.pos = 0)
      BY <1>1 DEF Marked
    <3>2. Marks'
      BY <2>1, <2>3, <3>1, MarksKept
    <3>3. busy' => info'.pos = Pos(1)'
      BY <1>4, <2>1, <2>3, <3>1 DEF SameItems
    <3>4. GoesOn(info.pos)'
      BY <2>1, <2>3, <3>1 DEF GoesOn
    <3>5. ActiveMark'
      <4>1. ASSUME NEW i \in 1 .. OnTheWay'
            PROVE  /\ i \in 1 .. OnTheWay /\ Line(i)' = Line(i)
                   /\ IF i <= Len(blocks') THEN i <= Len(blocks) + 1 ELSE i >= Len(blocks) + 1
        BY <2>3, <2>9, <2>10, <4>1 DEF SameItems
      <4> QED
        BY <2>1, <2>2, <2>3, <3>1, <4>1, ActiveNext
    <3>6. ActiveSlot'
      BY <2>1, <2>2, SlotTaken
    <3> QED
      BY <2>1, <3>1, <3>2, <3>3, <3>4, <3>5, <3>6 DEF Marked
  <2>7. ~Resuming'
    BY <1>1, <1>9, <2>2, MarksChange
  <2>8. Restored'
    BY <2>1, <2>2, <2>7, NotResuming
  <2> QED
    BY <2>4, <2>5, <2>6, <2>8 DEF Ordered
(* A command that is no move is done when it is taken from the queue. *)
<1>10. CASE RunOther \/ RunM1001
  <2>1. /\ Dispatch /\ Advance /\ busy' = busy /\ blocks' = blocks
        /\ UNCHANGED <<on, udisk, cmd_sdpos, sdpos, resume_sdpos, pc, jobs, outages, last>>
        /\ queue_index_r' = index_r /\ index_r' = (index_r + 1) % BufSize
        /\ RunOther => info' = info /\ disk' = disk
        /\ RunM1001 => info' = Cleared /\ disk' = NoRecord
    BY <1>10 DEF RunOther, RunM1001, Purge, Advance, Dispatch, countVars, histVars, ringVars, fileVars
  <2>2. Active.line \notin Moves /\ Active.op # "M1000"
    BY <1>2, <1>8, <1>10 DEF RunOther, RunM1001, Active, LinesAreLines
  <2>3. on /\ pc = "loop" /\ length > 0 /\ ~Resuming
    BY <1>7, <2>1, <2>2
  <2>4. /\ Len(blocks) + 1 \in 1 .. OnTheWay /\ OneLess(Len(blocks) + 1)
        /\ Line(Len(blocks) + 1) \notin Moves /\ Done' = Done
    BY <2>1, <2>2, <2>3, ItemTaken DEF Done
  <2>5. InOrder' /\ NoneMissing'
    BY <1>1, <2>1, <2>4, OrderLess
  <2>11. PICK d \in Nat : d = Len(blocks) + 1
    BY Items
  <2>12. PICK N \in Nat : N = OnTheWay
    BY <1>2
  <2>13. /\ OnTheWay' = N - 1 /\ d \in 1 .. N
         /\ \A n \in 1 .. N - 1 : Line(n)' = Line(Past(d, n)) /\ Pos(n)' = Pos(Past(d, n))
    BY <2>4, <2>11, <2>12 DEF OneLess
  <2>6. OfFirst'
    <3>1. Queued("line")' => Queued("line")
      BY <2>1, <2>3, FirstRemoved DEF Types, Ops
    <3>2. RunM1001 => ~Queued("line")'
      <4>1. length \in Nat
        BY Items
      <4>2. (\A k \in 0 .. length - 2 : OpAt(k)' = OpAt(k + 1)) /\ length' = length - 1 /\ Active.op = OpAt(0)
        BY <2>1, <2>3, FirstRemoved DEF Types
      <4>3. RunM1001 => OpAt(0) = "M1001"
        BY <4>2 DEF RunM1001
      <4>4. RunM1001 => \A k \in 0 .. length - 2 : OpAt(k + 1) # "line"
        <5> SUFFICES ASSUME RunM1001, NEW k \in 0 .. length - 2
                     PROVE  OpAt(k + 1) # "line"
          OBVIOUS
        <5>1. 0 \in 0 .. length - 1 /\ k + 1 \in 0 .. length - 1 /\ 0 < k + 1
          BY <4>1
        <5> QED
          BY <1>1, <4>3, <5>1 DEF EndIsLast
      <4>5. Queued("line")' <=> \E k \in 0 .. length - 2 : OpAt(k)' = "line"
        BY <4>1, <4>2 DEF Queued, OpAt
      <4> QED
        BY <4>2, <4>4, <4>5
    <3> QED
      BY <1>1, <1>10, <2>1, <3>1, <3>2 DEF OfFirst
  <2>7. Marked'
    <3> SUFFICES ASSUME Tracked
                 PROVE  Marked'
      BY <2>1 DEF Marked, Tracked
    <3>1. Marks /\ (busy => info.pos = Pos(1)) /\ GoesOn(info.pos) /\ (jobs = 0 => info.pos = 0)
      BY <1>1 DEF Marked
    <3>2. Marks'
      BY <2>1, <2>4, <3>1, MarksLess
    <3>3. busy => Pos(1)' = Pos(1)
      <4>1. busy => 1 \in 1 .. N - 1 /\ Past(d, 1) = 1
        BY <1>4, <2>11, <2>13, Items DEF Past
      <4> QED
        BY <2>13, <4>1
    <3>4. RunM1001 => jobs = 0 /\ info'.pos = 0
      <4>1. RunM1001 => ~udisk.flag
        BY <1>1, MarksChange DEF OneAtATime
      <4> QED
        BY <2>1, <4>1 DEF Tracked, Cleared
    <3>5. info'.pos = info.pos
      BY <1>10, <2>1, <3>1, <3>4
    <3>6. GoesOn(info.pos)'
      BY <2>4, <3>1, <3>5 DEF GoesOn
    <3>7. ActiveMark'
      <4>1. ASSUME NEW i \in 1 .. N - 1
            PROVE  \E n \in 1 .. N : /\ Line(i)' = Line(n)
                                     /\ IF i <= Len(blocks') THEN n <= Len(blocks) + 1 ELSE n >= Len(blocks) + 1
        <5>1. Past(d, i) \in 1 .. N /\ IF i <= Len(blocks') THEN Past(d, i) <= d ELSE Past(d, i) >= d
          BY <2>1, <2>11, <2>13, Items DEF Past
        <5> QED
          BY <2>11, <2>13, <5>1
      <4> QED
        BY <2>1, <2>3, <2>4, <2>12, <2>13, <3>1, <4>1, ActiveNext
    <3>8. ActiveSlot'
      BY <2>1, <2>3, SlotTaken
    <3> QED
      BY <2>1, <3>1, <3>2, <3>3, <3>5, <3>6, <3>7, <3>8 DEF Marked
  <2>8. ~Resuming'
    BY <1>1, <1>10, <2>3, MarksChange
  <2>9. Restored'
    BY <2>1, <2>3, <2>8, NotResuming
  <2> QED
    BY <2>5, <2>6, <2>7, <2>9 DEF Ordered
<1> QED
  BY <1>5, <1>6, <1>9, <1>10

LEMMA StoppingStep ==
  ASSUME Types, Types', IInv, First, First', Ordered, [Next]_vars,
         StartPrint \/ FileHasFinish \/ StopKey \/ Abort \/ Aborted \/ CancelResume \/ UNCHANGED vars
  PROVE  Ordered'
<1>1. InOrder /\ NoneMissing /\ OfFirst /\ Marked /\ Restored /\ ResumedOnce /\ OneAtATime
  BY DEF Ordered, IInv
<1>2. udisk \in UdiskT /\ jobs \in {0, 1} /\ (jobs = 0 => Done = NoLine)
  BY Numbers DEF Types, Switches
<1>3. /\ pc \in {"heating", "homing"} => Resuming
      /\ Resuming => ~udisk.flag /\ ~udisk.stop /\ jobs # 0 /\ ~Tracked
  BY WhileResuming
<1>4. CASE StartPrint
  <2>1. /\ jobs' = jobs + 1 /\ udisk' = [OffUdisk EXCEPT !.flag = TRUE] /\ pc' = "opening"
        /\ UNCHANGED <<on, queueVars, queue_index_r, blocks, busy, info, disk, outages, last>> /\ on
        /\ ~asked /\ ~Queued("M1000")
    BY <1>4 DEF StartPrint, InLoop, ringVars
  <2>2. jobs = 0 /\ jobs' = 1 /\ udisk'.flag /\ udisk'.psize = 0
    <3>1. jobs' < 2
      BY DEF First
    <3> QED
      BY <1>2, <2>1, <3>1 DEF OffUdisk
  <2>3. SameItems /\ cmd_sdpos' = cmd_sdpos /\ sdpos' = sdpos /\ index_r' = index_r /\ length' = length
    BY <2>1, Still DEF queueVars
  <2>4. Done' = Done /\ Done = NoLine /\ NoLine = -1 /\ udisk.psize = 0 /\ \A m \in Moves : m \in Nat
    <3>1. last \in [Jobs -> Moves \cup {NoLine}] /\ 1 \in Jobs /\ jobs' = 1
      BY <2>2, Constants DEF Types, HistoryTyped, Jobs
    <3> QED
      BY <1>1, <1>2, <2>1, <2>2, <3>1, Numbers DEF Done, OfFirst
  <2>5. \A i \in 1 .. OnTheWay : Line(i) = NoLine
    BY <1>1, <2>2 DEF InOrder
  <2>6. InOrder' /\ NoneMissing'
    <3>1. GoesOn(udisk.psize)'
      BY <2>2, <2>4 DEF GoesOn
    <3>2. \A i \in 1 .. OnTheWay' : Line(i)' = NoLine
      BY <2>3, <2>5 DEF SameItems
    <3> QED
      BY <3>1, <3>2, OrderOfNone
  <2>7. OfFirst'
    <3>1. Queued("line")' <=> Queued("line")
      BY <2>1 DEF Queued, queueVars
    <3> QED
      BY <1>1, <2>1, <2>2, <3>1 DEF OfFirst
  <2>8. Marked'
    <3> SUFFICES ASSUME outages = 0
                 PROVE  Marked'
      BY <2>1 DEF Marked, Tracked
    <3>1. /\ Tracked /\ Marks /\ ActiveMark /\ ActiveSlot /\ (busy => info.pos = Pos(1)) /\ info.pos = 0
      BY <1>1, <2>2 DEF Marked, Tracked
    <3>2. Marks'
      BY <2>2, <2>3, <2>4, <3>1, MarksKept
    <3>3. busy' => info'.pos = Pos(1)'
      <4>1. busy => 1 \in 1 .. OnTheWay
        BY Items, EmptySeq DEF Types, RingTyped
      <4> QED
        BY <2>1, <2>3, <3>1, <4>1 DEF SameItems
    <3>4. GoesOn(info.pos)'
      BY <2>1, <2>4, <3>1 DEF GoesOn
    <3>5. ActiveMark'
      <4>1. ActivePos' = ActivePos
        BY <2>1, <2>3 DEF ActivePos
      <4>2. OnTheWay' = OnTheWay /\ \A n \in 1 .. OnTheWay : Line(n)' = Line(n)
        BY <2>3 DEF SameItems
      <4> QED
        BY <2>1, <2>2, <2>3, <2>4, <3>1, <4>1, <4>2 DEF ActiveMark
    <3>6. ActiveSlot'
      BY <2>1, <2>2, <2>3, <3>1 DEF ActiveSlot
    <3> QED
      BY <2>1, <2>2, <3>2, <3>3, <3>4, <3>5, <3>6 DEF Marked
  <2>9. Restored'
    <3>1. ~Resuming'
      BY <1>1, <1>4, <2>1, MarksChange DEF Resuming
    <3> QED
      BY <2>1, <3>1, NotResuming
  <2> QED
    BY <2>6, <2>7, <2>8, <2>9 DEF Ordered
<1>6. CASE FileHasFinish \/ StopKey
  <2>1. /\ UNCHANGED <<queueVars, queue_index_r, blocks, busy, info, jobs, outages, last, disk, pc, handler, on>>
        /\ on /\ ~udisk'.flag
    BY <1>2, <1>6 DEF FileHasFinish, StopKey, UdiskT, ringVars, countVars, histVars, pauseVars
  <2>2. udisk.flag \/ udisk.stop
    BY <1>1, <1>6 DEF FileHasFinish, StopKey, OneAtATime
  <2>3. jobs # 0 /\ ~Resuming
    BY <1>1, <1>3, <2>2 DEF OfFirst
  <2>4. InOrder' /\ NoneMissing' /\ OfFirst' /\ Marked'
    BY <2>1, <2>3, NothingMoves
  <2>5. ~Resuming' /\ pc' \notin {"heating", "homing"}
    BY <1>1, <1>3, <1>6, <2>1, <2>3, MarksChange
  <2>6. Restored'
    BY <2>1, <2>5, NotResuming
  <2> QED
    BY <2>4, <2>6 DEF Ordered
<1>7. CASE Aborted
  <2>1. /\ UNCHANGED <<queueVars, queue_index_r, blocks, busy, info, jobs, outages, last, disk, on>>
        /\ on /\ udisk.stop /\ ~udisk'.flag /\ pc' = "loop"
    BY <1>1, <1>7 DEF Aborted, OffUdisk, OneAtATime, ringVars, countVars, histVars
  <2>2. jobs # 0 /\ ~Resuming
    BY <1>1, <1>3, <2>1 DEF OfFirst
  <2>3. InOrder' /\ NoneMissing' /\ OfFirst' /\ Marked'
    BY <2>1, <2>2, NothingMoves
  <2>4. ~Resuming'
    BY <1>1, <1>7, <2>2, MarksChange
  <2>5. Restored'
    BY <2>1, <2>4, NotResuming
  <2> QED
    BY <2>3, <2>5 DEF Ordered
<1>8. CASE CancelResume
  <2>1. /\ UNCHANGED <<queueVars, queue_index_r, blocks, busy, info, udisk, jobs, outages, last, pc, handler, on>>
        /\ on /\ disk' = NoRecord /\ asked
    BY <1>8 DEF CancelResume, ringVars, countVars, fileVars, pauseVars
  <2>2. InOrder' /\ NoneMissing' /\ OfFirst' /\ Marked'
    BY <1>1, <2>1, NothingMoves DEF OfFirst
  <2>3. ~Resuming' /\ pc' \notin {"heating", "homing"}
    BY <1>1, <1>8, <2>1, MarksChange DEF ResumedOnce
  <2>4. Restored'
    BY <2>1, <2>3, NotResuming
  <2> QED
    BY <2>2, <2>4 DEF Ordered
<1>9. CASE UNCHANGED vars
  <2>1. UNCHANGED <<queueVars, queue_index_r, blocks, busy, info, udisk, jobs, outages, last, on, disk, asked, pc,
                    handler, resume_sdpos, timer, inject>>
    BY <1>9 DEF vars, ringVars, countVars, histVars, fileVars, pauseVars
  <2>2. InOrder' /\ NoneMissing' /\ OfFirst' /\ Marked' /\ SameItems /\ Done' = Done
    BY <1>1, <2>1, NothingMoves DEF OfFirst
  <2>3. (Resuming' <=> Resuming) /\ length' = length /\ \A k \in 0 .. length - 1 : OpAt(k)' = OpAt(k)
    BY <2>1 DEF Resuming, Queued, OpAt, queueVars
  <2>4. \A p : (Done <= p /\ \A m \in Moves : Done < m => p <= m)
               <=> (Done' <= p /\ \A m \in Moves : Done' < m => p <= m)
    BY <2>2
  <2>5. /\ GoesOn(info.pos)' <=> GoesOn(info.pos)
        /\ GoesOn(disk.pos)' <=> GoesOn(disk.pos)
        /\ GoesOn(resume_sdpos)' <=> GoesOn(resume_sdpos)
    BY <2>1, <2>4 DEF GoesOn
  <2>6. (\A i \in 1 .. OnTheWay : Line(i) = NoLine) <=> (\A i \in 1 .. OnTheWay' : Line(i)' = NoLine)
    BY <2>2 DEF SameItems
  <2>7. Restored'
    BY <1>1, <2>1, <2>3, <2>5, <2>6 DEF Restored
  <2> QED
    BY <2>2, <2>7 DEF Ordered
(* Only the move that lifts the head is left. *)
<1>10. CASE Abort
  <2>1. /\ length' = 0 /\ blocks' = <<Move>> /\ on /\ on' = on
        /\ UNCHANGED <<udisk, jobs, outages, last>> /\ disk' = NoRecord /\ pc' = "stopping" /\ udisk.stop
    BY <1>10 DEF Abort, Purge, InLoop, countVars, fileVars
  <2>2. ~udisk.flag /\ jobs # 0 /\ ~Resuming
    BY <1>1, <1>3, <2>1 DEF OfFirst, OneAtATime
  <2>3. Len(blocks') = 1 /\ \A k \in 1 .. Len(blocks') : blocks'[k].line = NoLine
    BY <2>1 DEF Block, Move
  <2>4. \A i \in 1 .. OnTheWay' : Line(i)' = NoLine
    BY <2>1, <2>3, NoLineThere
  <2>5. InOrder' /\ NoneMissing'
    BY <2>1, <2>2, <2>4, OrderOfNone
  <2>6. OfFirst'
    BY <2>1, <2>2, <2>3 DEF OfFirst, Queued
  <2>7. Marked'
    BY <2>1, <2>2 DEF Marked, Tracked
  <2>8. ~Resuming'
    BY <1>1, <1>10, <2>2, MarksChange DEF Resuming
  <2>9. Restored'
    BY <2>1, <2>8, NotResuming
  <2> QED
    BY <2>5, <2>6, <2>7, <2>9 DEF Ordered
<1> QED
  BY <1>4, <1>6, <1>7, <1>8, <1>9, <1>10

(* The head is parked or goes back: a move that is no line, while nothing  *)
(* else is in the ring.                                                    *)
LEMMA HeadMoves ==
  ASSUME Types, Types', First, Ordered, blocks = <<>>, blocks' = <<Move>>,
         UNCHANGED <<queueVars, queue_index_r, busy, info, udisk, jobs, outages, last, disk>>,
         ~(pc' = "resuming" /\ handler' = "M24")
  PROVE  InOrder' /\ NoneMissing' /\ OfFirst' /\ Marked'
<1>1. InOrder /\ NoneMissing /\ OfFirst /\ Marked
  BY DEF Ordered
<1>2. blocks' = Append(blocks, Move) /\ Len(blocks) = 0 /\ queue_index_r \in Slots /\ ~busy
  BY DEF Types, QueueTyped, RingTyped
<1>3. 1 \in 1 .. OnTheWay + 1 /\ OneBetween(1, ActivePos)
  <2>1. blocks' = Append(blocks, Block(NoLine, queue_index_r)) /\ Len(blocks) + 1 = 1
    BY <1>2 DEF Move
  <2>2. Len(blocks) + 1 \in 1 .. OnTheWay + 1 /\ OneBetween(Len(blocks) + 1, sdpos[queue_index_r])
    BY <1>2, <2>1, ItemBetween
  <2> QED
    BY <2>1, <2>2 DEF ActivePos
<1>4. Done' = Done /\ cmd_sdpos' = cmd_sdpos /\ ActivePos' = ActivePos
  BY DEF Done, queueVars, ActivePos
<1>5. InOrder' /\ NoneMissing'
  BY <1>1, <1>3, <1>4, OrderBetween
<1>6. OfFirst'
  <2>1. Queued("line")' <=> Queued("line")
    BY DEF Queued, queueVars
  <2>2. \A k \in 1 .. Len(blocks') : blocks'[k].line = NoLine
    BY DEF Move, Block
  <2> QED
    BY <1>1, <2>1, <2>2 DEF OfFirst
<1>7. Marked'
  <2> SUFFICES ASSUME Tracked
               PROVE  Marked'
    BY DEF Marked, Tracked
  <2>1. Marks /\ ActiveMark /\ ActiveSlot /\ GoesOn(info.pos) /\ (jobs = 0 => info.pos = 0)
    BY <1>1 DEF Marked
  <2>2. ActivePos \in Nat
    BY <1>2, Items DEF ActivePos, Types, QueueTyped
  <2>3. \A n \in 1 .. OnTheWay : Line(n) # NoLine => ActivePos <= Line(n) /\ ~(n < 1)
    BY <1>2, <2>1 DEF ActiveMark
  <2>4. Marks'
    BY <1>3, <1>4, <2>1, <2>2, <2>3, MarksBetween DEF ActiveMark
  <2>5. ActiveMark'
    <3>1. PICK N \in Nat : N = OnTheWay
      BY Items
    <3>2. OnTheWay' = N + 1 /\ Line(1)' = NoLine /\ \A n \in 1 .. N : Line(n + 1)' = Line(n)
      <4>1. \A n \in 1 .. N : Past(1, n) = n + 1 /\ n + 1 \in Nat
        BY DEF Past
      <4> QED
        BY <1>3, <3>1, <4>1 DEF OneBetween
    <3>3. Len(blocks') = 1
      OBVIOUS
    <3>4. ASSUME NEW i \in 1 .. N + 1, Line(i)' # NoLine
          PROVE  ~(i <= Len(blocks')) /\ ActivePos' <= Line(i)'
      <4>1. i # 1
        BY <3>2, <3>4
      <4>2. i - 1 \in 1 .. N /\ (i - 1) + 1 = i /\ ~(i <= 1)
        BY <4>1
      <4>3. Line(i)' = Line(i - 1)
        BY <3>2, <4>2
      <4> QED
        BY <1>4, <2>3, <3>1, <3>3, <3>4, <4>2, <4>3
    <3> QED
      BY <1>4, <2>1, <3>2, <3>4 DEF ActiveMark
  <2>6. ActiveSlot'
    BY <2>1 DEF ActiveSlot, queueVars
  <2>7. GoesOn(info.pos)'
    BY <1>4, <2>1 DEF GoesOn
  <2> QED
    BY <1>2, <2>1, <2>4, <2>5, <2>6, <2>7 DEF Marked
<1> QED
  BY <1>5, <1>6, <1>7

(* The command at the head of the queue is the one behind the blocks.      *)
LEMMA ItemActive ==
  ASSUME Types, length > 0, NEW d \in Nat, d = Len(blocks) + 1
  PROVE  d \in 1 .. OnTheWay /\ Line(d) = Active.line /\ Pos(d) = sdpos[index_r]
<1>1. length \in Nat /\ Len(blocks) \in Nat /\ OnTheWay = Len(blocks) + length /\ index_r \in Slots
  BY Items DEF Types, QueueTyped
<1>2. ~(d <= Len(blocks)) /\ d - 1 - Len(blocks) = 0 /\ d \in 1 .. OnTheWay
  BY <1>1
<1>3. (index_r + 0) % BufSize = index_r
  <2>1. index_r \in Nat /\ index_r < BufSize /\ BufSize \in Nat /\ index_r + 0 = index_r
    BY <1>1, Constants DEF Slots
  <2> QED
    BY <2>1, Wrap
<1> QED
  BY <1>2, <1>3 DEF Line, Pos, SlotOf, Active

LEMMA PausingStep ==
  ASSUME Types, Types', IInv, First, First', Ordered, [Next]_vars,
         InPause \/ RunM24 \/ Resumed
  PROVE  Ordered'
<1>1. /\ InOrder /\ NoneMissing /\ OfFirst /\ Marked /\ Restored
      /\ ResumedOnce /\ OneAtATime /\ PauseIsStill /\ LinesAreLines /\ Switches
  BY DEF Ordered, IInv, Types
<1>2. /\ pc \in {"heating", "homing"} => Resuming
      /\ Resuming => ~udisk.flag /\ pc \in {"loop", "heating", "homing"}
  BY WhileResuming
<1>3. udisk \in UdiskT /\ (jobs = 0 => ~udisk.flag /\ ~udisk.stop /\ udisk.psize = 0 /\ disk = NoRecord)
  BY <1>1 DEF Switches, OfFirst
(* The moves of a print stay as they are but for that of the head. *)
<1>4. InPause => /\ on /\ UNCHANGED <<on, queueVars, queue_index_r, busy, info, jobs, outages, last, asked, resume_sdpos>>
                 /\ udisk'.flag = udisk.flag /\ udisk'.stop = udisk.stop /\ udisk'.psize = udisk.psize
                 /\ (Resuming' <=> Resuming)
  BY <1>1, PauseChanges, MarksChange DEF histVars
<1>5. CASE InPause /\ ~Park /\ ~(Woken /\ GoBack)
  <2>1. /\ blocks' = blocks
        /\ pc' = "resuming" /\ handler' = "M24" => pc = "resuming" /\ handler = "M24"
        /\ jobs = 0 => disk' = disk
    <3>1. CASE PauseKey \/ Runout
      BY <3>1 DEF PauseKey, Runout, Inject, ringVars
    <3>2. CASE RunPause
      BY <3>2 DEF RunPause, Advancing, InLoop, ringVars
    <3>3. CASE Parked
      BY <1>3, <3>3 DEF Parked, Save, ringVars
    <3>4. CASE ResumeKey
      BY <3>4 DEF ResumeKey, ringVars
    <3>5. CASE Woken
      BY <1>5, <3>5 DEF Woken
    <3> QED
      BY <1>5, <3>1, <3>2, <3>3, <3>4, <3>5 DEF InPause
  <2>2. InOrder' /\ NoneMissing' /\ OfFirst' /\ Marked' /\ SameItems /\ Done' = Done
    BY <1>3, <1>4, <1>5, <2>1, NothingMoves
  <2>3. Restored'
    <3>1. CASE ~Resuming
      <4>1. pc' \notin {"heating", "homing"}
        <5>1. pc \notin {"heating", "homing"}
          BY <1>2, <3>1
        <5> QED
          BY <1>5, <5>1 DEF InPause, PauseKey, Runout, Inject, RunPause, Parked, ResumeKey, Woken
      <4> QED
        BY <1>4, <1>5, <3>1, <4>1, NotResuming
    <3>2. CASE Resuming
      <4>1. Runout
        <5>1. ~PauseKey /\ ~ResumeKey
          BY <1>2, <3>2 DEF PauseKey, ResumeKey
        <5>2. ~RunPause
          BY <1>1, <3>2 DEF RunPause, Advancing, InLoop, Restored
        <5>3. ~Parked /\ ~Woken
          BY <1>2, <3>2 DEF Parked, Woken
        <5> QED
          BY <1>5, <5>1, <5>2, <5>3 DEF InPause
      <4>2. timer = "running" /\ pc' = pc
        BY <4>1 DEF Runout, Inject
      <4>3. pc # "loop"
        BY <1>1, <3>2, <4>2 DEF Restored
      <4>4. \A i \in 1 .. OnTheWay' : Line(i)' = NoLine
        BY <1>1, <2>2, <3>2 DEF Restored, SameItems
      <4>5. pc' \in {"heating", "homing"} => GoesOn(resume_sdpos)'
        BY <1>1, <1>4, <1>5, <2>2, <4>2 DEF Restored, GoesOn
      <4> QED
        BY <1>1, <1>4, <1>5, <3>2, <4>2, <4>3, <4>4, <4>5 DEF Restored
    <3> QED
      BY <3>1, <3>2
  <2> QED
    BY <2>2, <2>3 DEF Ordered
<1>6. CASE Park \/ (Woken /\ GoBack)
  <2>1. /\ blocks = <<>> /\ blocks' = <<Move>> /\ disk' = disk /\ udisk' = udisk
        /\ ~(pc' = "resuming" /\ handler' = "M24") /\ pc \in {"pausing", "waiting"}
        /\ pc' \in {"parking", "resuming"} /\ InPause
    <3>1. CASE Park
      BY <3>1 DEF Park, fileVars, InPause
    <3>2. CASE Woken /\ GoBack
      <4>1. pc = "waiting" /\ pc' = "resuming" /\ blocks = <<>> /\ blocks' = Append(blocks, Move)
        BY <1>1, <3>2 DEF Woken, GoBack, PauseIsStill
      <4>2. blocks' = <<Move>>
        BY <4>1
      <4>3. handler' = handler /\ handler # "M24"
        BY <1>1, <3>2, <4>1 DEF Woken, ResumedOnce
      <4> QED
        BY <3>2, <4>1, <4>2, <4>3 DEF Woken, fileVars, InPause
    <3> QED
      BY <1>6, <3>1, <3>2
  <2>2. InOrder' /\ NoneMissing' /\ OfFirst' /\ Marked'
    BY <1>4, <2>1, HeadMoves
  <2>3. Restored'
    BY <1>2, <1>4, <2>1, NotResuming
  <2> QED
    BY <2>2, <2>3 DEF Ordered
(* The M24 of a print that goes on from the pause of the one before. *)
<1>7. CASE RunM24
  <2>1. /\ on /\ pc = "loop" /\ length > 0 /\ Active.op = "M24" /\ queue_index_r' = index_r
        /\ blocks' = Append(blocks, Block(NoLine, index_r)) /\ pc' = "resuming"
        /\ UNCHANGED <<on, queueVars, busy, info, udisk, disk, jobs, outages, last>>
    BY <1>7 DEF RunM24, Dispatch, Advancing, InLoop, fileVars, countVars, histVars
  <2>2. UNCHANGED <<index_r, length, command, sdpos, cmd_sdpos>> /\ Done' = Done /\ index_r \in Slots
    BY <2>1 DEF queueVars, Done, Types, QueueTyped
  <2>3. PICK d \in Nat : d = Len(blocks) + 1
    BY Items
  <2>4. PICK N \in Nat : N = OnTheWay
    BY Items
  <2>5. d \in 1 .. N /\ Line(d) = NoLine /\ Pos(d) = sdpos[index_r]
    <3>1. Active.line = NoLine
      BY <1>1, <2>1, <2>2 DEF LinesAreLines, Active
    <3> QED
      BY <2>1, <2>3, <2>4, <3>1, ItemActive
  <2>6. d \in 1 .. N + 1 /\ OneBetween(d, Pos(d)) /\ Len(blocks') = d
    BY <2>1, <2>2, <2>3, <2>4, <2>5, ItemBetween
  <2>7. InOrder' /\ NoneMissing'
    BY <1>1, <2>1, <2>2, <2>4, <2>6, OrderBetween
  <2>8. OfFirst'
    <3>1. Queued("line")' <=> Queued("line")
      BY <2>2 DEF Queued
    <3>2. blocks \in Seq(BlockT) /\ Len(blocks) \in Nat
      BY LenProperties DEF Types, RingTyped
    <3>3. \A k \in 1 .. Len(blocks) + 1 : blocks'[k].line = NoLine \/ (k \in 1 .. Len(blocks) /\ blocks'[k] = blocks[k])
      <4>1. blocks'[Len(blocks) + 1] = Block(NoLine, index_r) /\ \A k \in 1 .. Len(blocks) : blocks'[k] = blocks[k]
        BY <2>1, <3>2
      <4>2. \A k \in 1 .. Len(blocks) + 1 : k \in 1 .. Len(blocks) \/ k = Len(blocks) + 1
        BY <3>2
      <4> QED
        BY <4>1, <4>2 DEF Block
    <3> QED
      BY <1>1, <2>1, <2>3, <2>6, <3>1, <3>3 DEF OfFirst
  <2>9. Marked'
    <3> SUFFICES ASSUME Tracked
                 PROVE  Marked'
      BY <2>1 DEF Marked, Tracked
    <3>1. Marks /\ (busy => info.pos = Pos(1)) /\ GoesOn(info.pos) /\ (jobs = 0 => info.pos = 0)
      BY <1>1 DEF Marked
    <3>2. /\ \A n \in 1 .. N : (n < d => Past(d, n) = n) /\ (n >= d => Past(d, n) = n + 1)
          /\ \A i \in 1 .. N + 1 : i # d => \E n \in 1 .. N : Past(d, n) = i
      <4>1. d \in 1 .. N + 1
        BY <2>6
      <4> QED
        BY <4>1, Sides
    <3>3. OnTheWay' = N + 1
          /\ (\A n \in 1 .. N, i \in Nat : i = Past(d, n) => Line(i)' = Line(n) /\ Pos(i)' = Pos(n))
          /\ Line(d)' = NoLine
      BY <2>4, <2>6 DEF OneBetween
    <3>4. Marks'
      <4>1. Pos(d) \in Nat /\ Done <= Pos(d) /\ Pos(d) <= udisk.psize
        BY <2>4, <2>5, <3>1, Numbers DEF Marks
      <4>2. ASSUME NEW n \in 1 .. N, Line(n) # NoLine
            PROVE  IF n < d THEN Line(n) < Pos(d) ELSE Pos(d) <= Line(n)
        <5>1. CASE n < d
          BY <2>4, <2>5, <3>1, <4>2, <5>1 DEF Marks
        <5>2. CASE n > d
          <6>1. Pos(d) <= Line(n)
            BY <2>4, <2>5, <3>1, <4>2, <5>2 DEF Marks
          <6> QED
            BY <5>2, <6>1
        <5>3. n # d
          BY <2>5, <4>2
        <5> QED
          BY <5>1, <5>2, <5>3
      <4> QED
        BY <2>1, <2>2, <2>4, <2>6, <3>1, <4>1, <4>2, MarksBetween
    <3>5. ActiveMark'
      <4>1. ASSUME NEW i \in 1 .. N + 1, Line(i)' # NoLine
            PROVE  \E n \in 1 .. N : /\ Line(i)' = Line(n)
                                     /\ IF i <= Len(blocks') THEN n <= Len(blocks) + 1 ELSE n >= Len(blocks) + 1
        <5>1. i # d
          BY <3>3, <4>1
        <5>2. PICK n \in 1 .. N : Past(d, n) = i
          BY <3>2, <5>1
        <5>3. Line(i)' = Line(n)
          BY <3>3, <5>2
        <5>4. IF i <= d THEN n <= d ELSE n >= d
          BY <3>2, <5>2
        <5> QED
          BY <2>3, <2>6, <5>3, <5>4
      <4> QED
        BY <2>1, <2>2, <2>4, <3>1, <3>3, <4>1, ActiveNext
    <3>6. ActiveSlot'
      BY <2>1, <2>2 DEF ActiveSlot
    <3>7. busy' => info'.pos = Pos(1)'
      <4>1. busy => 1 \in 1 .. N /\ 1 < d
        BY <2>3, <2>4, Items, EmptySeq DEF Types, RingTyped
      <4>2. busy => Pos(1)' = Pos(1)
        BY <3>2, <3>3, <4>1
      <4> QED
        BY <2>1, <3>1, <4>2
    <3>8. GoesOn(info.pos)'
      BY <2>1, <2>2, <3>1 DEF GoesOn
    <3> QED
      BY <2>1, <3>1, <3>4, <3>5, <3>6, <3>7, <3>8 DEF Marked
  <2>10. ~Resuming'
    <3>1. Resuming => OpAt(0) = "M1000"
      <4>1. 0 \in 0 .. length - 1
        BY <2>1, Items
      <4> QED
        BY <1>1, <2>1, <4>1 DEF Restored
    <3>2. Active.op = OpAt(0)
      BY <2>1, HeadOfQueue
    <3> QED
      BY <1>1, <1>7, <2>1, <3>1, <3>2, MarksChange
  <2>11. Restored'
    BY <2>1, <2>10, NotResuming
  <2> QED
    BY <2>7, <2>8, <2>9, <2>11 DEF Ordered
(* The pause is over, and with it the M24 that ended it. *)
<1>8. CASE Resumed
  <2>1. /\ on /\ pc = "resuming" /\ blocks = <<>> /\ pc' = "loop" /\ handler' = "none"
        /\ disk' = IF udisk.flag THEN info ELSE disk
        /\ UNCHANGED <<on, queue_index_r, blocks, busy, info, jobs, outages, last>>
        /\ IF handler = "M24" THEN Advance ELSE UNCHANGED queueVars
    BY <1>8 DEF Resumed, Save, ringVars, countVars, histVars
  <2>2. udisk'.flag = udisk.flag /\ udisk'.stop = udisk.stop /\ udisk'.psize = udisk.psize
    BY <1>3, <1>8 DEF Resumed, UdiskT
  <2>3. InOrder' /\ NoneMissing' /\ OfFirst' /\ Marked'
    <3>1. CASE handler # "M24"
      BY <1>3, <2>1, <2>2, <3>1, NothingMoves
    <3>2. CASE handler = "M24"
      <4>1. Advance /\ length > 0 /\ OpAt(0) = "M24"
        BY <1>1, <2>1, <3>2 DEF ResumedOnce
      <4>2. Active.line = NoLine /\ NoLine \notin Moves
        <5>1. Active.op = "M24"
          BY <4>1, HeadOfQueue
        <5>2. index_r \in Slots
          BY DEF Types, QueueTyped
        <5> QED
          BY <1>1, <5>1, <5>2, Numbers DEF LinesAreLines, Active
      <4>3. Len(blocks) = 0 /\ ~busy /\ Len(blocks') = 0
        BY <2>1 DEF Types, RingTyped
      <4>4. 1 \in 1 .. OnTheWay /\ OneLess(1) /\ Line(1) = NoLine
        <5>1. Len(blocks) + 1 = 1
          BY <4>3
        <5> QED
          BY <2>1, <4>1, <4>2, <5>1, ItemTaken
      <4>5. /\ Done' = Done /\ cmd_sdpos' = cmd_sdpos /\ ActivePos' = ActivePos
            /\ index_r' = (index_r + 1) % BufSize
        BY <2>1, <4>1 DEF Done, Advance, ActivePos
      <4>6. InOrder' /\ NoneMissing'
        BY <1>1, <2>1, <2>2, <4>2, <4>4, <4>5, OrderLess
      <4>7. OfFirst'
        <5>1. Queued("line")' => Queued("line")
          BY <4>1, FirstRemoved DEF Types, Ops
        <5> QED
          BY <1>1, <2>1, <2>2, <5>1 DEF OfFirst
      <4>8. Marked'
        <5> SUFFICES ASSUME Tracked
                     PROVE  Marked'
          BY <2>1, <2>2 DEF Marked, Tracked
        <5>1. Marks /\ ActiveMark /\ ActiveSlot /\ GoesOn(info.pos) /\ (jobs = 0 => info.pos = 0)
          BY <1>1 DEF Marked
        <5>2. Marks'
          BY <2>2, <4>4, <4>5, <5>1, MarksLess
        <5>3. ActiveMark'
          <6>1. PICK N \in Nat : N = OnTheWay
            BY Items
          <6>2. OnTheWay' = N - 1 /\ \A n \in 1 .. N - 1 : Line(n)' = Line(n + 1) /\ n + 1 \in 1 .. N
            BY <4>4, <6>1 DEF OneLess, Past
          <6>3. ASSUME NEW i \in 1 .. N - 1, Line(i)' # NoLine
                PROVE  ~(i <= Len(blocks')) /\ ActivePos' <= Line(i)'
            <7>1. ~(i <= 0) /\ ~(i + 1 <= 0)
              OBVIOUS
            <7> QED
              BY <4>3, <4>5, <5>1, <6>1, <6>2, <6>3, <7>1 DEF ActiveMark
          <6> QED
            BY <2>2, <4>5, <5>1, <6>2, <6>3 DEF ActiveMark
        <5>4. ActiveSlot'
          <6>1. queue_index_r' = index_r
            BY <2>1, <3>2, <5>1 DEF ActiveSlot
          <6> QED
            BY <2>1, <4>1, <4>5, <6>1, SlotTaken
        <5>5. GoesOn(info.pos)'
          BY <2>1, <4>5, <5>1 DEF GoesOn
        <5> QED
          BY <2>1, <4>3, <5>1, <5>2, <5>3, <5>4, <5>5 DEF Marked
      <4> QED
        BY <4>6, <4>7, <4>8
    <3> QED
      BY <3>1, <3>2
  <2>4. ~Resuming'
    BY <1>1, <1>2, <1>8, <2>1, MarksChange
  <2>5. Restored'
    BY <2>1, <2>4, NotResuming
  <2> QED
    BY <2>3, <2>5 DEF Ordered
<1> QED
  BY <1>5, <1>6, <1>7, <1>8 DEF InPause

LEMMA ResumingStep ==
  ASSUME Types, Types', IInv, First, First', Ordered, [Next]_vars,
         Outage \/ Boot \/ RunM1000 \/ ResumeHeated \/ ResumeHomed
  PROVE  Ordered'
<1>1. /\ InOrder /\ NoneMissing /\ OfFirst /\ Marked /\ Restored
      /\ ResumedOnce /\ OneAtATime /\ OffIsEmpty /\ PauseIsStill /\ RecordNames
  BY DEF Ordered, IInv
<1>2. outages \in {0, 1} /\ jobs \in {0, 1} /\ OnTheWay \in Nat /\ \A m \in Moves : m \in Nat
  BY Numbers
<1>3. /\ pc \in {"heating", "homing"} => Resuming
      /\ Resuming => /\ ~udisk.flag /\ ~udisk.stop /\ jobs # 0 /\ outages # 0 /\ ~Tracked
                     /\ pc \in {"loop", "heating", "homing"}
  BY WhileResuming
<1>4. UNCHANGED <<jobs, last>> => Done' = Done
  BY DEF Done
<1>5. CASE Outage
  <2>1. /\ on /\ outages' = outages + 1
        /\ disk' = (IF timer = "running" /\ udisk.flag THEN info ELSE disk)
        /\ length' = 0 /\ blocks' = <<>> /\ on' = FALSE /\ udisk' = OffUdisk /\ pc' = "loop"
        /\ unsaved' = (IF unsaved = "none" THEN Hindrance ELSE unsaved)
        /\ UNCHANGED <<jobs, last>>
    BY <1>5 DEF Outage, Save
  <2>2. outages = 0 /\ ~Resuming
    BY <1>1, <1>2, <2>1 DEF First, Restored
  <2>3. Len(blocks') = 0 /\ ~udisk'.flag /\ ~udisk'.stop /\ udisk'.psize = 0
    BY <2>1 DEF OffUdisk
  <2>4. \A i \in 1 .. OnTheWay' : Line(i)' = NoLine
    BY <2>1, <2>3, NoLineThere
  <2>5. InOrder' /\ NoneMissing'
    BY <2>3, <2>4, OrderOfNone
  <2>6. OfFirst'
    <3>1. ~Queued("line")'
      BY <2>1 DEF Queued
    <3> QED
      BY <1>1, <2>1, <2>3, <3>1 DEF OfFirst
  <2>7. Marked'
    BY <2>1, <2>2 DEF Marked, Tracked
  <2>8. ~Resuming'
    BY <1>1, <1>5, MarksChange
  <2>9. disk' # NoRecord => GoesOn(disk.pos)'
    <3>1. CASE jobs = 0
      BY <1>1, <2>1, <3>1 DEF OfFirst
    <3>2. CASE jobs # 0
      <4>1. unsaved = "none" /\ Hindrance = "none"
        BY <2>1, <3>2 DEF First
      <4>2. udisk.flag /\ (timer = "paused" => Saved) /\ timer # "stopped"
        BY <1>1, <2>2, <4>1 DEF Hindrance, Resuming, OneAtATime
      <4>3. timer \in {"stopped", "running", "paused"}
        BY DEF Types, Switches
      <4>4. disk' = info
        BY <1>1, <2>1, <4>2, <4>3 DEF PauseIsStill
      <4>5. GoesOn(info.pos)
        BY <1>1, <2>2, <4>2 DEF Marked, Tracked
      <4> QED
        BY <1>4, <2>1, <4>4, <4>5 DEF GoesOn
    <3> QED
      BY <3>1, <3>2
  <2>10. Restored'
    BY <1>2, <2>1, <2>2, <2>8, <2>9 DEF Restored
  <2> QED
    BY <2>5, <2>6, <2>7, <2>10 DEF Ordered
<1>6. CASE Boot
  <2>1. /\ ~on /\ on' = TRUE /\ info' = (IF disk = NoRecord THEN Cleared ELSE disk) /\ asked' = (disk # NoRecord)
        /\ UNCHANGED <<queueVars, blocks, busy, udisk, disk, pc, jobs, outages, last, timer, inject>>
    BY <1>6 DEF Boot, ringVars, countVars, histVars, fileVars, pauseVars
  <2>2. /\ outages # 0 /\ blocks = <<>> /\ length = 0 /\ (disk # NoRecord => GoesOn(disk.pos)) /\ pc = "loop"
        /\ timer = "stopped" /\ inject = "none"
    BY <1>1, <2>1 DEF Restored, OffIsEmpty
  <2>3. SameItems /\ length' = 0 /\ OnTheWay = 0
    BY <2>1, <2>2, Still DEF queueVars, OnTheWay
  <2>4. InOrder' /\ NoneMissing'
    BY <1>1, <1>4, <2>1, <2>3, OrderKept
  <2>5. OfFirst'
    <3>1. ~Queued("line")'
      BY <2>3 DEF Queued
    <3> QED
      BY <1>1, <2>1, <3>1 DEF OfFirst
  <2>6. Marked'
    BY <2>1, <2>2 DEF Marked, Tracked
  <2>7. Resuming' => GoesOn(info.pos)'
    <3>1. ~Queued("M1000")'
      BY <2>3 DEF Queued
    <3>2. Resuming' => disk # NoRecord
      BY <2>1, <3>1 DEF Resuming
    <3> QED
      BY <1>4, <2>1, <2>2, <3>2 DEF GoesOn
  <2>8. Restored'
    <3>1. \A i \in 1 .. OnTheWay' : Line(i)' = NoLine
      BY <2>3 DEF SameItems
    <3>2. \A k \in 0 .. length' - 1 : OpAt(k)' = "M1000"
      BY <2>3
    <3> QED
      BY <2>1, <2>2, <2>7, <3>1, <3>2 DEF Restored
  <2> QED
    BY <2>4, <2>5, <2>6, <2>8 DEF Ordered
<1>7. CASE RunM1000
  <2>1. /\ on /\ on' = on /\ pc = "loop" /\ length > 0 /\ Active.op = "M1000"
        /\ resume_sdpos' = info.pos /\ pc' = "heating"
        /\ UNCHANGED <<queueVars, blocks, busy, info, udisk, disk, jobs, outages, last>>
    BY <1>7 DEF RunM1000, Dispatch, Advancing, InLoop, ringVars, fileVars, countVars, histVars
  <2>2. Resuming
    BY <2>1, HeadOfQueue DEF Resuming
  <2>3. GoesOn(info.pos) /\ \A i \in 1 .. OnTheWay : Line(i) = NoLine
    BY <1>1, <2>1, <2>2 DEF Restored
  <2>4. SameItems
    BY <2>1, Still
  <2>5. InOrder' /\ NoneMissing'
    BY <1>1, <1>4, <2>1, <2>4, OrderKept
  <2>6. OfFirst'
    <3>1. Queued("line")' <=> Queued("line")
      BY <2>1 DEF Queued, queueVars
    <3> QED
      BY <1>1, <2>1, <3>1 DEF OfFirst
  <2>7. Marked'
    BY <1>3, <2>1, <2>2 DEF Marked, Tracked
  <2>8. GoesOn(resume_sdpos)' /\ \A i \in 1 .. OnTheWay' : Line(i)' = NoLine
    BY <1>4, <2>1, <2>3, <2>4 DEF GoesOn, SameItems
  <2>9. Restored'
    BY <1>3, <2>1, <2>2, <2>8 DEF Restored
  <2> QED
    BY <2>5, <2>6, <2>7, <2>9 DEF Ordered
(* The moves of the resume are no lines of the file. *)
<1>8. Resuming => /\ \A k \in 1 .. Len(blocks) : blocks[k].line = NoLine
                  /\ \A k \in 0 .. length - 1 : command[(index_r + k) % BufSize].line = NoLine
  <2>1. Resuming => \A i \in 1 .. OnTheWay : Line(i) = NoLine
    BY <1>1 DEF Restored
  <2> QED
    BY <2>1, NoLineLeft
<1>9. CASE ResumeHeated
  <2>1. /\ on /\ on' = on /\ pc = "heating" /\ blocks' = Append(blocks, Move)
        /\ pc' = "homing" /\ UNCHANGED <<queueVars, udisk, info, disk, jobs, outages, last, resume_sdpos>>
    BY <1>9 DEF ResumeHeated, fileVars, countVars, histVars
  <2>2. Resuming /\ ~udisk'.flag
    BY <1>3, <2>1
  <2>3. \A k \in 1 .. Len(blocks') : blocks'[k].line = NoLine
    <3>1. blocks \in Seq(BlockT) /\ Len(blocks) \in Nat
      BY LenProperties DEF Types, RingTyped
    <3>2. Len(blocks') = Len(blocks) + 1 /\ blocks'[Len(blocks) + 1] = Move
      BY <2>1, <3>1
    <3>3. \A k \in 1 .. Len(blocks) : blocks'[k] = blocks[k]
      BY <2>1, <3>1
    <3>4. \A k \in 1 .. Len(blocks) + 1 : k \in 1 .. Len(blocks) \/ k = Len(blocks) + 1
      BY <3>1
    <3>5. Move.line = NoLine
      BY DEF Move, Block
    <3> QED
      BY <1>8, <2>2, <3>2, <3>3, <3>4, <3>5
  <2>4. \A k \in 0 .. length' - 1 : command'[(index_r' + k) % BufSize].line = NoLine
    BY <1>8, <2>1, <2>2 DEF queueVars
  <2>5. \A i \in 1 .. OnTheWay' : Line(i)' = NoLine
    BY <2>3, <2>4, NoLineThere
  <2>6. InOrder' /\ NoneMissing'
    BY <2>2, <2>5, OrderOfNone
  <2>7. OfFirst'
    <3>1. Queued("line")' <=> Queued("line")
      BY <2>1 DEF Queued, queueVars
    <3> QED
      BY <1>1, <2>1, <2>3, <3>1 DEF OfFirst
  <2>8. Marked'
    BY <1>3, <2>1, <2>2 DEF Marked, Tracked
  <2>9. GoesOn(resume_sdpos)'
    BY <1>1, <1>4, <2>1 DEF Restored, GoesOn
  <2>10. Restored'
    BY <1>3, <2>1, <2>2, <2>5, <2>9 DEF Restored
  <2> QED
    BY <2>6, <2>7, <2>8, <2>10 DEF Ordered
(* The file is opened where the print goes on, with none of its lines left. *)
<1>10. CASE ResumeHomed
  <2>1. /\ on /\ on' = on /\ pc = "homing" /\ blocks' = <<Move>> /\ pc' = "loop" /\ Advance
        /\ UNCHANGED <<info, jobs, outages, last, resume_sdpos>>
    BY <1>10 DEF ResumeHomed, countVars, histVars
  <2>2. Resuming /\ ~Resuming' /\ GoesOn(resume_sdpos) /\ jobs # 0 /\ outages # 0
    BY <1>1, <1>3, <1>10, <2>1, ResumeIsOver DEF Restored
  <2>3. udisk' = ReopenAt(resume_sdpos)
    <3>1. unsaved = "none"
      BY <2>2 DEF First
    <3>2. info.file # 0
      BY <1>1, <2>2, <3>1 DEF RecordNames
    <3> QED
      BY <1>10, <3>2 DEF ResumeHomed
  <2>4. Len(blocks') = 1 /\ \A k \in 1 .. Len(blocks') : blocks'[k].line = NoLine
    BY <2>1 DEF Move, Block
  <2>5. length > 0
    BY <1>1, <2>1 DEF ResumedOnce
  <2>6. \A k \in 0 .. length' - 1 : command'[(index_r' + k) % BufSize].line = NoLine
    <3>1. length \in Nat /\ length <= BufSize /\ index_r \in Slots
      BY Constants DEF Types, QueueTyped
    <3>2. command' = command /\ index_r' = (index_r + 1) % BufSize /\ length' = length - 1
      BY <2>1 DEF Advance
    <3> SUFFICES ASSUME NEW k \in 0 .. length - 2
                 PROVE  command[(((index_r + 1) % BufSize) + k) % BufSize].line = NoLine
      BY <3>1, <3>2
    <3>3. k \in Nat /\ k < BufSize /\ k + 1 \in 0 .. length - 1
      BY <3>1, Constants
    <3>4. (((index_r + 1) % BufSize) + k) % BufSize = (index_r + (k + 1)) % BufSize
      BY <3>1, <3>3, NextSlot
    <3> QED
      BY <1>8, <2>2, <3>3, <3>4
  <2>7. \A i \in 1 .. OnTheWay' : Line(i)' = NoLine
    BY <2>4, <2>6, NoLineThere
  <2>8. udisk'.flag /\ GoesOn(udisk.psize)'
    <3>1. udisk'.flag /\ udisk'.psize = resume_sdpos
      BY <2>3 DEF ReopenAt, OffUdisk
    <3> QED
      BY <1>4, <2>1, <2>2, <3>1 DEF GoesOn
  <2>9. InOrder' /\ NoneMissing'
    BY <2>7, <2>8, OrderOfNone
  <2>10. OfFirst'
    <3>1. Queued("line")' => Queued("line")
      BY <2>1, <2>5, FirstRemoved DEF Types, Ops
    <3> QED
      BY <1>1, <2>1, <2>2, <2>4, <3>1 DEF OfFirst
  <2>11. Marked'
    BY <2>1, <2>2 DEF Marked, Tracked
  <2>12. Restored'
    BY <2>1, <2>2, NotResuming
  <2> QED
    BY <2>9, <2>10, <2>11, <2>12 DEF Ordered
<1> QED
  BY <1>5, <1>6, <1>7, <1>9, <1>10

LEMMA OrderInductive == ASSUME Patient PROVE Spec => [](Types /\ IInv /\ Order)
<1>1. Init => Order
  <2> SUFFICES ASSUME Init, Types
               PROVE  Order
    BY InitHolds
  <2>1. /\ jobs = 0 /\ outages = 0 /\ on /\ ~busy /\ blocks = <<>> /\ length = 0 /\ cmd_sdpos = 0
        /\ udisk = OffUdisk /\ info = Cleared /\ disk = NoRecord /\ ~asked /\ pc = "loop"
        /\ sdpos = [s \in Slots |-> 0] /\ queue_index_r = 0 /\ index_r = 0
        /\ last = [j \in Jobs |-> NoLine]
    BY DEF Init, Memory
  <2>2. OnTheWay = 0 /\ ~Resuming /\ Done = NoLine /\ udisk.psize = 0 /\ ~udisk.flag /\ ~udisk.stop
    BY <2>1 DEF OnTheWay, Resuming, Queued, Done, OffUdisk
  <2>3. InOrder /\ NoneMissing /\ OfFirst
    BY <2>1, <2>2 DEF InOrder, NoneMissing, Awaited, OfFirst, Queued
  <2>4. GoesOn(info.pos) /\ info.pos = 0
    <3>1. \A m \in Moves : m \in Nat
      BY Constants
    <3> QED
      BY <2>1, <2>2, <3>1 DEF GoesOn, Cleared, NoLine
  <2>5. ActiveMark /\ ActiveSlot
    <3>1. ActivePos = 0
      BY <2>1, Constants DEF ActivePos, Slots
    <3> QED
      BY <2>1, <2>2, <3>1 DEF ActiveMark, ActiveSlot, NoLine
  <2>6. Marked /\ Restored
    BY <2>1, <2>2, <2>4, <2>5 DEF Marked, Marks, Restored
  <2> QED
    BY <2>3, <2>6 DEF Order, Ordered
<1>2. Types /\ Types' /\ IInv /\ Order /\ [Next]_vars => Order'
  <2> SUFFICES ASSUME Types, Types', IInv, Order, [Next]_vars, First'
               PROVE  Ordered'
    BY DEF Order
  <2>1. First /\ Ordered
    BY CountsGrow DEF Order
  <2> QED
    BY <2>1, AddingStep, RunningStep, StoppingStep, PausingStep, ResumingStep DEF Next, InPause
<1> QED
  BY <1>1, <1>2, Inductive, PTL DEF Spec

(* The first print after power-up moves line by line through its file,     *)
(* none left out and none but the last made again, up to a second outage   *)
(* and through any number of pauses: whatever the queue and the planner    *)
(* hold when power fails, and whenever the display or a host, which wait   *)
(* during a resume and leave a slot free, send their moves; unless an      *)
(* outage finds the record out of date, because its file is not named yet, *)
(* in a pause that has not saved it, or when the file is read to its end.  *)
THEOREM FirstIsInFileOrder == ASSUME Patient PROVE Spec => FirstInFileOrder
<1>1. Types /\ Types' /\ Order /\ [Next]_vars =>
        [jobs < 2 /\ outages < 2 /\ unsaved = "none" =>
         \A j \in Jobs : last'[j] # last[j] => Follows(last'[j], last[j])]_vars
  <2> SUFFICES ASSUME Types, Types', Order, [Next]_vars, jobs < 2, outages < 2, unsaved = "none",
                      NEW j \in Jobs, last'[j] # last[j]
               PROVE  Follows(last'[j], last[j])
    OBVIOUS
  <2>1. First /\ InOrder /\ NoneMissing /\ OfFirst
    BY DEF Order, Ordered, First
  <2>2. EndBlock
    <3>1. InPause => last' = last
      BY PauseChanges DEF histVars, Types
    <3> QED
      BY <3>1 DEF Next, InPause, vars, histVars, ReadLine, FileHasFinish, OtherCommand, FinishPrinting,
         StartBlock, RunMove, RunOther, RunM24, RunM1001, StartPrint, FileOpened, StopKey, Abort, Aborted,
         Resumed, Outage, Boot, ConfirmResume, CancelResume, RunM1000, ResumeHeated, ResumeHomed
  <2>3. /\ 1 \in 1 .. OnTheWay /\ 1 \in 1 .. Len(blocks) /\ Line(1) = Head(blocks).line
        /\ Head(blocks) = blocks[1]
    BY <2>2, ItemDone DEF Types, RingTyped
  <2>4. Line(1) # NoLine /\ last' = [last EXCEPT ![Head(blocks).job] = Line(1)]
    BY <2>2, <2>3 DEF EndBlock
  <2>5. Head(blocks).job = 1 /\ jobs = 1
    BY <2>1, <2>3, <2>4 DEF OfFirst, InOrder
  <2>6. j = 1 /\ last'[j] = Line(1) /\ Done = last[1]
    BY <2>4, <2>5 DEF Types, HistoryTyped, Done
  <2>7. Line(1) # Done
    BY <2>6
  <2> QED
    BY <2>1, <2>3, <2>4, <2>6, <2>7, LineIsNext
<1> QED
  BY <1>1, OrderInductive, PTL DEF Spec, FirstInFileOrder
=============================================================================
