------------------------- MODULE PlannerQueueProofs -------------------------
(***************************************************************************)
(* Planner implements BlockQueue, makes no step of a block that was        *)
(* dropped, and its position agrees with the motors' once it has drained:  *)
(* proofs for every ring size, delay, set of moves and number of blocks,   *)
(* on top of the invariant of PlannerProofs.                               *)
(***************************************************************************)
EXTENDS PlannerProofs

-----------------------------------------------------------------------------
(* Steps of dropped blocks *)

(* A step event comes from the stepper interrupt with nothing held back.   *)
LEMMA StepOfBlock ==
  ASSUME TypeOK, [Next]_vars, done' = done + 1
  PROVE  current # NoSlot /\ ~abort /\ ~wait
<1>1. done \in Nat /\ done' # done /\ done' # 0
  BY DEF TypeOK
<1>2. CASE Interrupt
  <2>1. PulseStep
    BY <1>1, <1>2 DEF Interrupt, PulseDiscard, BlockDone, BlockContinues, FetchNothing, FetchSync,
       FetchMove
  <2> QED
    BY <1>1, <2>1 DEF PulseStep
<1>3. CASE RecalcNext
  BY <1>1, <1>3 DEF RecalcNext, stepVars
<1>4. CASE Display \/ OtherInterrupt \/ UNCHANGED vars
  BY <1>1, <1>4 DEF Display, OtherInterrupt, EndstopTriggered, Tick, vars, stepVars
<1>5. CASE Call
  BY <1>1, <1>5 DEF Call, BufferSteps, SetMachinePosition, Synchronize, QuickStop, CutIn, CallerFrame,
     StopFrame
<1>6. CASE Continue /\ ~RecalcNext
  BY <1>1, <1>6 DEF Continue, GetNextFreeBlock, PopulateBlock, FillSyncBlock, ReloadDelay, Publish,
     PlacePosition, SetStepperPosition, Synchronized, DropBlocks, AbortBlock, StopSynchronized,
     Resync, CallerFrame, StopFrame
<1> QED
  BY <1>2, <1>3, <1>4, <1>5, <1>6 DEF Next

(* Once a quick stop has dropped the queue, the motors make no further     *)
(* step of the block the stepper still holds: it is held until the abort,  *)
(* also when the stop was read in another stop's wait.                     *)
THEOREM NoStepOfDropped == ASSUME ~Overlap PROVE Spec => StepsOnlyQueued
<1>1. Init => StopHolds
  BY DEF Init, StopHolds
<1>2. IInv /\ StopHolds /\ [Next]_vars => [done' = done + 1 => has_blocks_queued]_done
  <2> SUFFICES ASSUME IInv, StopHolds, [Next]_vars, done' = done + 1
               PROVE  has_blocks_queued
    OBVIOUS
  <2>1. current # NoSlot /\ ~abort /\ ~wait
    BY StepOfBlock DEF IInv, Types
  <2> QED
    BY <2>1 DEF IInv, HandOver, BusyIsTail, StopHolds
<1>3. IInv /\ StopHolds /\ [Next]_vars => StopHolds'
  BY StopHoldsStep DEF IInv, Types
<1> QED
  BY <1>1, <1>2, <1>3, Inductive, PTL DEF Spec, StepsOnlyQueued
-----------------------------------------------------------------------------
(* The numbers of the blocks *)

(* The next number is in the caller's block until it is in the ring, where *)
(* every block has one; a stop may have cut into the caller's wait.        *)
RoomDue == pc \in {"room", "fill"} \/ \E k \in 1 .. Len(outer) : outer[k] = "room"
Numbered ==
  /\ RoomDue => cmd.id = made + 1
  /\ pc \in {"delay", "publish"} => blk[head].id = made /\ made > 0
  /\ \A i \in Slots : InQueue(i) => blk[i].id > 0
  /\ current # NoSlot => blk[current].id > 0

(* The slot at the head is neither in the queue nor held.                  *)
LEMMA HeadIsFree ==
  ASSUME IInv, pc \in Filling
  PROVE  /\ ~InQueue(head) /\ current # head /\ NextIndex(head) # tail
         /\ current # NoSlot => has_blocks_queued
<1>1. head \in Slots /\ tail \in Slots /\ cleaning \in Nat /\ current \in Slots \cup {NoSlot}
      /\ NoSlot \notin Slots
  BY DEF IInv, Types, TypeOK, NoSlot, Slots
<1>2. ~InQueue(head)
  BY <1>1, AheadZero DEF InQueue, movesplanned, Slots
<1>3. cleaning = 0 /\ NextIndex(head) # tail
  BY <1>1 DEF IInv, HandOver, CleanIsEmpty, RoomKept
<1>4. pc # "abort" /\ (current # NoSlot => current = tail /\ has_blocks_queued)
  BY <1>3 DEF IInv, HandOver, BusyIsTail, Filling
<1> QED
  BY <1>1, <1>2, <1>3, <1>4 DEF has_blocks_queued

(* What a step that is none of the ring's leaves alone. *)
RingSame == UNCHANGED <<head, tail, blk, current, made>>
NotHere  == /\ RoomDue' => RoomDue /\ cmd' = cmd
            /\ pc' \in {"delay", "publish"} <=> pc \in {"delay", "publish"}

LEMMA OtherSteps ==
  ASSUME TypeOK, [Next]_vars
  PROVE  \/ RingSame /\ NotHere
         \/ GetNextFreeBlock \/ PopulateBlock \/ FillSyncBlock \/ ReloadDelay \/ Publish
         \/ DropBlocks
         \/ /\ PulseDiscard \/ BlockDone \/ FetchSync \/ FetchMove
            /\ UNCHANGED <<blk, pc, outer, cmd, made>>
         \/ (\E p \in Profiles : BufferSteps(p)) \/ PlacePosition
<1> USE DEF RingSame, NotHere, RoomDue, At, Goto
<1>1. CASE RecalcNext
  <2>1. pc \in PlanningSteps /\ pc' \in PlanningSteps \cup {"idle"}
        /\ UNCHANGED <<head, tail, blk, current, outer, cmd, made>>
    BY <1>1, RecalcFrame DEF RecalcNext, userVars
  <2> QED
    BY <2>1 DEF PlanningSteps
<1>2. CASE Interrupt
  BY <1>2 DEF Interrupt, PulseStep, BlockContinues, FetchNothing, idxVars, userVars
<1>3. CASE Display \/ OtherInterrupt \/ UNCHANGED vars
  BY <1>3 DEF Display, StopPrinting, StopHome, OtherInterrupt, EndstopTriggered, Tick, idxVars,
     stepVars, userVars, vars
<1>4. CASE SetMachinePosition(0) \/ Synchronize
  BY <1>4 DEF SetMachinePosition, Synchronize, CallerFrame, StopFrame, userVars
<1>5. CASE Synchronized \/ AbortBlock \/ StopSynchronized \/ Resync
  BY <1>5 DEF Synchronized, AbortBlock, StopSynchronized, Resync, CallerFrame, StopFrame, userVars
(* A stop comes and returns: the same caller waits for room. *)
<1>8. CASE QuickStop
  <2>1. RingSame /\ cmd' = cmd /\ pc' = "drop" /\ CutIn
    BY <1>8 DEF QuickStop, CutIn, StopFrame, userVars
  <2>2. pc \in {"idle"} \cup WaitSteps
    BY <2>1 DEF CutIn, InIdle
  <2>3. (\E k \in 1 .. Len(outer') : outer'[k] = "room") => RoomDue
    <3>1. CASE outer' = outer
      BY <3>1
    <3>2. CASE outer' # outer
      <4>1. /\ Len(outer') = Len(outer) + 1 /\ outer'[1] = pc /\ Len(outer) \in Nat
            /\ \A k \in 1 .. Len(outer) : outer'[k + 1] = outer[k]
        BY <2>1, <3>2, CutInWaits, WaitsTyped
      <4>2. \A k \in 1 .. Len(outer') : k = 1 \/ (k - 1 \in 1 .. Len(outer) /\ outer'[k] = outer[k - 1])
        BY <4>1
      <4> QED
        BY <4>1, <4>2
    <3> QED
      BY <3>1, <3>2
  <2> QED
    BY <2>1, <2>2, <2>3 DEF WaitSteps
<1>9. CASE SetStepperPosition
  <2>1. RingSame /\ cmd' = cmd /\ pc = "setpos"
    BY <1>9 DEF SetStepperPosition, StopFrame, userVars
  <2>2. pc' \in {"idle"} \cup WaitSteps
    BY <1>9, ReturnWaits
  <2>3. RoomDue' => RoomDue
    <3>1. CASE outer = <<>>
      BY <1>9, <3>1, ReturnWaits
    <3>2. CASE outer # <<>>
      <4>1. /\ pc' = outer[1] /\ Len(outer) \in Nat /\ Len(outer) > 0 /\ Len(outer') = Len(outer) - 1
            /\ \A k \in 1 .. Len(outer') : outer'[k] = outer[k + 1]
        BY <1>9, <3>2, ReturnWaits
      <4>2. \A k \in 1 .. Len(outer') : k + 1 \in 1 .. Len(outer)
        BY <4>1
      <4> QED
        BY <2>2, <4>1, <4>2 DEF WaitSteps
    <3> QED
      BY <3>1, <3>2
  <2> QED
    BY <2>1, <2>2, <2>3 DEF WaitSteps
<1>6. CASE Call
  BY <1>4, <1>6, <1>8 DEF Call
<1>7. CASE Continue
  BY <1>1, <1>5, <1>7, <1>9 DEF Continue
<1> QED
  BY <1>2, <1>3, <1>6, <1>7 DEF Next

LEMMA NumberedStep == IInv /\ Numbered /\ [Next]_vars => Numbered'
<1> SUFFICES ASSUME IInv, Numbered, [Next]_vars
             PROVE  Numbered'
  OBVIOUS
<1>1. /\ head \in Slots /\ tail \in Slots /\ current \in Slots \cup {NoSlot} /\ NoSlot \notin Slots
      /\ made \in Nat /\ cmd \in Blocks /\ blk \in [Slots -> Blocks]
  BY DEF IInv, Types, TypeOK, NoSlot, Slots
<1>13. pc \in {"fill", "delay", "publish"} => outer = <<>>
  BY DEF IInv, Nested, StopSteps
<1>14. outer = <<>> => ~ \E k \in 1 .. Len(outer) : outer[k] = "room"
  BY WaitsTyped DEF IInv, Types
<1> USE <1>1 DEF Numbered, At, Goto, CallerFrame, StopFrame
<1>2. CASE RingSame /\ NotHere
  <2>1. UNCHANGED <<head, tail, blk, current, made>>
    BY <1>2 DEF RingSame
  <2>2. RoomDue' => RoomDue /\ cmd' = cmd
    BY <1>2 DEF NotHere
  <2>3. pc' \in {"delay", "publish"} => pc \in {"delay", "publish"}
    BY <1>2 DEF NotHere
  <2> QED
    BY <2>1, <2>2, <2>3 DEF InQueue, movesplanned
<1>3. ASSUME NEW p \in Profiles, BufferSteps(p)
      PROVE  Numbered'
  <2>1. cmd'.id = made + 1
    BY <1>3 DEF BufferSteps, NoBlock
  <2> QED
    BY <1>3, <2>1 DEF BufferSteps, InQueue, movesplanned
<1>4. CASE PlacePosition
  <2>1. \/ cmd'.id = made + 1
        \/ cmd' = cmd /\ pc' = "setpos"
    BY <1>4 DEF PlacePosition, NoBlock
  <2>2. pc' \in {"room", "setpos"} /\ UNCHANGED <<head, tail, blk, current, made, outer>>
    BY <1>4 DEF PlacePosition
  <2>3. RoomDue' => cmd'.id = made + 1
    BY <2>1, <2>2 DEF RoomDue
  <2> QED
    BY <2>2, <2>3 DEF InQueue, movesplanned
<1>5. CASE GetNextFreeBlock
  BY <1>5 DEF GetNextFreeBlock, userVars, InQueue, movesplanned, RoomDue
<1>6. ASSUME NEW b \in Blocks, b.id = cmd.id, pc = "fill", pc' = "delay", made' = made + 1,
             blk' = [blk EXCEPT ![head] = b], UNCHANGED <<head, tail, current, outer>>
      PROVE  Numbered'
  <2>1. ~InQueue(head) /\ current # head
    BY <1>6, HeadIsFree DEF Filling
  <2>2. blk'[head].id = made' /\ made' > 0
    BY <1>6 DEF RoomDue
  <2>3. ASSUME NEW i \in Slots, InQueue(i)'
        PROVE  blk'[i].id > 0
    BY <1>6, <2>1, <2>3 DEF InQueue, movesplanned
  <2>4. current' # NoSlot => blk'[current'].id > 0
    BY <1>6, <2>1
  <2>5. ~RoomDue'
    BY <1>6, <1>13, <1>14 DEF RoomDue
  <2> QED
    BY <1>6, <2>2, <2>3, <2>4, <2>5
<1>7. CASE PopulateBlock
  <2>1. JunctionSpeed \in Nat
    BY <1>6, BoundAssumption DEF JunctionSpeed, Joint, SafeOf, minSpeed, Blocks, IInv, Types, TypeOK
  <2>2. [cmd EXCEPT !.max = JunctionSpeed] \in Blocks /\ [cmd EXCEPT !.max = JunctionSpeed].id = cmd.id
    BY <2>1 DEF Blocks
  <2> QED
    BY <1>6, <1>7, <2>2 DEF PopulateBlock
<1>8. CASE FillSyncBlock
  <2>1. [cmd EXCEPT !.pos = position] \in Blocks /\ [cmd EXCEPT !.pos = position].id = cmd.id
    BY DEF Blocks, IInv, Types, TypeOK
  <2> QED
    BY <1>6, <1>8, <2>1 DEF FillSyncBlock
<1>9. CASE ReloadDelay
  BY <1>9 DEF ReloadDelay, userVars, InQueue, movesplanned, RoomDue
<1>10. CASE Publish
  <2>1. NextIndex(head) # tail
    BY <1>10, HeadIsFree DEF Publish, Filling
  <2>2. \A i \in Slots : InQueue(i)' => InQueue(i) \/ i = head
    BY <1>10, <2>1, HeadAdvance DEF Publish, InQueue, movesplanned
  <2>3. pc = "publish" /\ pc' \in {"idle", "recalc"} /\ UNCHANGED <<blk, current, made, outer>>
    BY <1>10 DEF Publish
  <2>4. ~RoomDue'
    BY <1>13, <1>14, <2>3 DEF RoomDue
  <2> QED
    BY <2>2, <2>3, <2>4
<1>11. CASE DropBlocks
  <2>1. \A i \in Slots : ~InQueue(i)'
    BY <1>11, AheadZero DEF DropBlocks, Slots, InQueue, movesplanned
  <2>2. pc' = "abort" /\ UNCHANGED <<blk, current, outer, cmd, made>>
    BY <1>11 DEF DropBlocks, userVars
  <2>3. RoomDue' => RoomDue
    BY <2>2 DEF RoomDue
  <2> QED
    BY <2>1, <2>2, <2>3
<1>12. CASE /\ PulseDiscard \/ BlockDone \/ FetchSync \/ FetchMove
            /\ UNCHANGED <<blk, pc, outer, cmd, made>>
  <2>1. head' = head /\ (tail' = tail \/ (tail' = NextIndex(tail) /\ tail # head))
    BY <1>12 DEF PulseDiscard, BlockDone, FetchSync, FetchMove, DiscardCurrentBlock, Deliver, Delivered,
       has_blocks_queued
  <2>2. \A i \in Slots : InQueue(i)' => InQueue(i)
    BY <2>1, TailAdvance DEF InQueue, movesplanned
  <2>3. current' \in {NoSlot, current} \/ (current' = tail /\ tail # head)
    BY <1>12 DEF PulseDiscard, BlockDone, FetchSync, FetchMove, DiscardCurrentBlock, Deliver, Delivered,
       has_blocks_queued
  <2>4. tail # head => InQueue(tail)
    BY AheadZero, SizeAssumption DEF InQueue, movesplanned, Slots
  <2>5. RoomDue' => RoomDue
    BY <1>12 DEF RoomDue
  <2> QED
    BY <1>12, <2>1, <2>2, <2>3, <2>4, <2>5
<1> QED
  BY <1>2, <1>3, <1>4, <1>5, <1>7, <1>8, <1>9, <1>10, <1>11, <1>12, OtherSteps
     DEF IInv, Types
-----------------------------------------------------------------------------
(* The ring as a sequence *)

(* The k-th block from the tail.                                           *)
LEMMA SlotOf ==
  ASSUME NEW t \in Slots, NEW k \in 1 .. Size
  PROVE  /\ (t + k - 1) % Size = (IF t + k - 1 < Size THEN t + k - 1 ELSE t + k - 1 - Size)
         /\ (t + k - 1) % Size \in Slots
<1>1. Size \in Nat /\ Size > 2 /\ t \in Nat /\ t < Size /\ k \in Nat /\ k >= 1 /\ k <= Size
  BY SizeAssumption DEF Slots
<1> DEFINE a == t + k - 1
<1>2. a \in Nat /\ a < Size + Size
  BY <1>1
<1>3. a % Size = (IF a < Size THEN a ELSE a - Size)
  BY <1>1, <1>2
<1> QED
  BY <1>1, <1>2, <1>3 DEF Slots

(* It is in the queue as long as k does not exceed the queue's length.     *)
LEMMA SlotQueued ==
  ASSUME NEW t \in Slots, NEW h \in Slots, NEW k \in 1 .. Ahead(t, h)
  PROVE  /\ k \in 1 .. Size
         /\ (t + k - 1) % Size \in Slots /\ Ahead(t, (t + k - 1) % Size) < Ahead(t, h)
<1>1. Size \in Nat /\ t \in Nat /\ t < Size /\ h \in Nat /\ h < Size
  BY SizeAssumption DEF Slots
<1>2. Ahead(t, h) \in Nat /\ Ahead(t, h) < Size
  BY <1>1 DEF Ahead
<1>3. k \in 1 .. Size
  BY <1>1, <1>2
<1> HIDE DEF Slots
<1>4. (t + k - 1) % Size \in Slots
      /\ (t + k - 1) % Size = (IF t + k - 1 < Size THEN t + k - 1 ELSE t + k - 1 - Size)
  BY <1>3, SlotOf
<1> DEFINE s == (t + k - 1) % Size
<1>5. s = (IF t + k - 1 < Size THEN t + k - 1 ELSE t + k - 1 - Size) /\ s \in Nat
  BY <1>1, <1>4 DEF Slots
<1> HIDE DEF s
<1>6. Ahead(t, s) < Ahead(t, h)
  BY <1>1, <1>2, <1>3, <1>5 DEF Ahead
<1> QED
  BY <1>3, <1>4, <1>6 DEF s

(* Publishing makes the queue longer by the slot at the head.              *)
LEMMA QueueGrows ==
  ASSUME NEW t \in Slots, NEW h \in Slots, NextIndex(h) # t
  PROVE  /\ Ahead(t, NextIndex(h)) = Ahead(t, h) + 1
         /\ (t + (Ahead(t, h) + 1) - 1) % Size = h
<1>1. Size \in Nat /\ Size > 2 /\ t \in Nat /\ t < Size /\ h \in Nat /\ h < Size
  BY SizeAssumption DEF Slots
<1>2. Ahead(t, NextIndex(h)) = Ahead(t, h) + 1
  BY <1>1 DEF Ahead, NextIndex
<1>3. Ahead(t, h) + 1 \in 1 .. Size
  BY <1>1 DEF Ahead
<1> DEFINE n == Ahead(t, h) + 1
<1>4. (t + n - 1) % Size = (IF t + n - 1 < Size THEN t + n - 1 ELSE t + n - 1 - Size)
  BY <1>3, SlotOf
<1>5. (IF t + n - 1 < Size THEN t + n - 1 ELSE t + n - 1 - Size) = h
  BY <1>1 DEF Ahead
<1> QED
  BY <1>2, <1>4, <1>5

(* Releasing the block at the tail takes the first slot away.              *)
LEMMA QueueShrinks ==
  ASSUME NEW t \in Slots, NEW h \in Slots, t # h
  PROVE  /\ Ahead(NextIndex(t), h) = Ahead(t, h) - 1
         /\ \A k \in 1 .. Size - 1 : (NextIndex(t) + k - 1) % Size = (t + (k + 1) - 1) % Size
         /\ (t + 1 - 1) % Size = t
<1>1. Size \in Nat /\ Size > 2 /\ t \in Nat /\ t < Size /\ h \in Nat /\ h < Size
      /\ NextIndex(t) \in Slots
  BY SizeAssumption, NeighbourIsSlot DEF Slots
<1>2. Ahead(NextIndex(t), h) = Ahead(t, h) - 1
  BY <1>1 DEF Ahead, NextIndex
<1>3. ASSUME NEW k \in 1 .. Size - 1
      PROVE  (NextIndex(t) + k - 1) % Size = (t + (k + 1) - 1) % Size
  <2>1. k \in 1 .. Size /\ k + 1 \in 1 .. Size
    BY <1>1
  <2>2. (NextIndex(t) + k - 1) % Size =
          IF NextIndex(t) + k - 1 < Size THEN NextIndex(t) + k - 1 ELSE NextIndex(t) + k - 1 - Size
    BY <1>1, <2>1, SlotOf
  <2>3. (t + (k + 1) - 1) % Size =
          IF t + (k + 1) - 1 < Size THEN t + (k + 1) - 1 ELSE t + (k + 1) - 1 - Size
    BY <2>1, SlotOf
  <2> QED
    BY <1>1, <2>1, <2>2, <2>3 DEF NextIndex
<1>4. 1 \in 1 .. Size
  BY <1>1
<1>5. (t + 1 - 1) % Size = (IF t + 1 - 1 < Size THEN t + 1 - 1 ELSE t + 1 - 1 - Size)
  BY <1>4, SlotOf
<1>6. (t + 1 - 1) % Size = t
  BY <1>1, <1>5
<1> QED
  BY <1>2, <1>3, <1>6

-----------------------------------------------------------------------------
(* The refinement: what the variables of BlockQueue are here *)

Pend  == [k \in 1 .. movesplanned |-> BlockAt(k)]
Busy  == IF current = NoSlot THEN 0 ELSE blk[current].id
Added == IF Unpublished THEN made - 1 ELSE made

(* The numbers in the slots from t up to h.                                *)
NumbersOf(t, h, b) == [k \in 1 .. Ahead(t, h) |-> b[(t + k - 1) % Size].id]

LEMMA NumbersTyped ==
  ASSUME NEW t \in Slots, NEW h \in Slots, NEW b \in [Slots -> Blocks]
  PROVE  /\ NumbersOf(t, h, b) \in Seq(Nat) /\ Len(NumbersOf(t, h, b)) = Ahead(t, h)
         /\ Ahead(t, h) \in Slots /\ Ahead(t, h) \in Nat
<1>1. Ahead(t, h) \in Slots
  BY AheadZero
<1>2. Ahead(t, h) \in Nat
  BY <1>1, SizeAssumption DEF Slots
<1>3. ASSUME NEW k \in 1 .. Ahead(t, h)
      PROVE  b[(t + k - 1) % Size].id \in Nat
  <2>1. (t + k - 1) % Size \in Slots
    BY SlotQueued
  <2> QED
    BY <2>1 DEF Blocks
<1>4. NumbersOf(t, h, b) \in [1 .. Ahead(t, h) -> Nat]
  BY <1>3 DEF NumbersOf
<1> QED
  BY <1>1, <1>2, <1>4 DEF NumbersOf

LEMMA PendTyped ==
  ASSUME TypeOK
  PROVE  /\ Pend \in Seq(Nat) /\ Len(Pend) = movesplanned /\ movesplanned \in Slots
         /\ movesplanned \in Nat
         /\ \A k \in 1 .. movesplanned : Pend[k] = BlockAt(k)
<1>1. head \in Slots /\ tail \in Slots /\ blk \in [Slots -> Blocks]
  BY DEF TypeOK
<1>2. Pend = NumbersOf(tail, head, blk)
  BY DEF Pend, NumbersOf, movesplanned, BlockAt
<1>3. \A k \in 1 .. movesplanned : Pend[k] = BlockAt(k)
  BY DEF Pend
<1> QED
  BY <1>1, <1>2, <1>3, NumbersTyped DEF movesplanned

LEMMA PendTypedNext ==
  ASSUME TypeOK'
  PROVE  Pend' \in Seq(Nat) /\ Len(Pend') = movesplanned' /\ movesplanned' \in Slots
<1>1. head' \in Slots /\ tail' \in Slots /\ blk' \in [Slots -> Blocks]
  BY DEF TypeOK
<1>2. Pend' = NumbersOf(tail', head', blk')
  BY DEF Pend, NumbersOf, movesplanned, BlockAt
<1> QED
  BY <1>1, <1>2, NumbersTyped DEF movesplanned

(* The queue is empty in both, or in neither; its first block is at the tail. *)
LEMMA PendFirst ==
  ASSUME TypeOK
  PROVE  /\ has_blocks_queued <=> Pend # <<>>
         /\ has_blocks_queued => Head(Pend) = blk[tail].id
<1>1. head \in Slots /\ tail \in Slots
  BY DEF TypeOK
<1>2. movesplanned = 0 <=> ~has_blocks_queued
  BY <1>1, AheadZero DEF movesplanned, has_blocks_queued
<1>3. Pend \in Seq(Nat) /\ Len(Pend) = movesplanned /\ movesplanned \in Nat
  BY PendTyped
<1>4. has_blocks_queued <=> Pend # <<>>
  BY <1>2, <1>3, EmptySeq
<1>5. ASSUME has_blocks_queued
      PROVE  Head(Pend) = blk[tail].id
  <2>1. 1 \in 1 .. movesplanned
    BY <1>2, <1>3, <1>5
  <2>2. Pend[1] = blk[(tail + 1 - 1) % Size].id
    BY <2>1, PendTyped DEF BlockAt
  <2>3. (tail + 1 - 1) % Size = tail
    BY <1>1, <1>5, QueueShrinks DEF has_blocks_queued
  <2>4. Head(Pend) = Pend[1]
    BY <1>3, <1>4, <1>5
  <2> QED
    BY <2>2, <2>3, <2>4
<1> QED
  BY <1>4, <1>5

(* Writing a slot that is not queued changes nothing the queue shows.      *)
LEMMA PendSame ==
  ASSUME TypeOK, UNCHANGED <<head, tail>>,
         \A i \in Slots : InQueue(i) => blk'[i].id = blk[i].id
  PROVE  Pend' = Pend
<1>1. head \in Slots /\ tail \in Slots
  BY DEF TypeOK
<1>2. movesplanned' = movesplanned
  BY DEF movesplanned
<1>3. ASSUME NEW k \in 1 .. movesplanned
      PROVE  BlockAt(k)' = BlockAt(k)
  <2>1. (tail + k - 1) % Size \in Slots /\ InQueue((tail + k - 1) % Size)
    BY <1>1, SlotQueued DEF movesplanned, InQueue
  <2> QED
    BY <2>1 DEF BlockAt
<1> QED
  BY <1>2, <1>3 DEF Pend

(* The tail moves on: the first block leaves.                              *)
LEMMA PendTail ==
  ASSUME TypeOK, TypeOK', has_blocks_queued, UNCHANGED <<head, blk>>, tail' = NextIndex(tail)
  PROVE  Pend' = Tail(Pend)
<1>1. head \in Slots /\ tail \in Slots /\ tail # head
  BY DEF TypeOK, has_blocks_queued
<1>2. /\ Pend \in Seq(Nat) /\ Len(Pend) = movesplanned /\ movesplanned \in Nat /\ Pend # <<>>
      /\ movesplanned < Size
  BY PendTyped, PendFirst, SizeAssumption DEF Slots
<1>3. Pend' \in Seq(Nat) /\ Len(Pend') = movesplanned'
  BY PendTypedNext
<1>4. movesplanned' = movesplanned - 1
  BY <1>1, QueueShrinks DEF movesplanned
<1>5. /\ Tail(Pend) \in Seq(Nat) /\ Len(Tail(Pend)) = movesplanned - 1
      /\ \A k \in 1 .. movesplanned - 1 : Tail(Pend)[k] = Pend[k + 1]
  BY <1>2, HeadTailProperties
<1>6. ASSUME NEW k \in 1 .. movesplanned - 1
      PROVE  Pend'[k] = Tail(Pend)[k]
  <2>1. k \in 1 .. movesplanned' /\ k + 1 \in 1 .. movesplanned /\ k \in 1 .. Size - 1
    BY <1>2, <1>4, SizeAssumption
  <2>2. Pend'[k] = blk[(NextIndex(tail) + k - 1) % Size].id
    BY <2>1 DEF Pend, BlockAt
  <2>3. Pend[k + 1] = blk[(tail + (k + 1) - 1) % Size].id
    BY <2>1, PendTyped DEF BlockAt
  <2>4. (NextIndex(tail) + k - 1) % Size = (tail + (k + 1) - 1) % Size
    BY <1>1, <2>1, QueueShrinks
  <2> QED
    BY <1>5, <2>2, <2>3, <2>4
<1> QED
  BY <1>3, <1>4, <1>5, <1>6, SeqEqual

(* The head moves on: the block written there is added.                    *)
LEMMA PendAppend ==
  ASSUME TypeOK, TypeOK', NextIndex(head) # tail, UNCHANGED <<tail, blk>>, head' = NextIndex(head)
  PROVE  Pend' = Append(Pend, blk[head].id) /\ Len(Pend) < Size - 1
<1>1. head \in Slots /\ tail \in Slots /\ blk \in [Slots -> Blocks] /\ blk[head].id \in Nat
  BY DEF TypeOK, Blocks
<1>2. Pend \in Seq(Nat) /\ Len(Pend) = movesplanned /\ movesplanned \in Nat
  BY PendTyped
<1>3. Pend' \in Seq(Nat) /\ Len(Pend') = movesplanned' /\ movesplanned' \in Slots
  BY PendTypedNext
<1>4. movesplanned' = movesplanned + 1 /\ (tail + (movesplanned + 1) - 1) % Size = head
  BY <1>1, QueueGrows DEF movesplanned
<1>5. /\ Append(Pend, blk[head].id) \in Seq(Nat)
      /\ Len(Append(Pend, blk[head].id)) = movesplanned + 1
      /\ \A k \in 1 .. movesplanned : Append(Pend, blk[head].id)[k] = Pend[k]
      /\ Append(Pend, blk[head].id)[movesplanned + 1] = blk[head].id
  BY <1>1, <1>2, AppendProperties
<1>6. ASSUME NEW k \in 1 .. movesplanned + 1
      PROVE  Pend'[k] = Append(Pend, blk[head].id)[k]
  <2>1. Pend'[k] = blk[(tail + k - 1) % Size].id
    BY <1>4 DEF Pend, BlockAt
  <2>2. CASE k \in 1 .. movesplanned
    BY <1>5, <2>1, <2>2, PendTyped DEF BlockAt
  <2>3. CASE k = movesplanned + 1
    BY <1>4, <1>5, <2>1, <2>3
  <2> QED
    BY <1>2, <2>2, <2>3
<1>7. movesplanned < Size - 1
  BY <1>2, <1>3, <1>4, SizeAssumption DEF Slots
<1> QED
  BY <1>2, <1>3, <1>4, <1>5, <1>6, <1>7, SeqEqual
-----------------------------------------------------------------------------
(* Every step is a step of BlockQueue or changes nothing of it *)

QueueStep == [Queue!QNext]_<<Pend, Busy, Added>>

LEMMA Stutters ==
  ASSUME Pend' = Pend, Busy' = Busy, Added' = Added
  PROVE  QueueStep
BY DEF QueueStep

LEMMA Adds ==
  ASSUME Len(Pend) < Size - 1, Busy = 0 \/ Pend # <<>>,
         Added' = Added + 1, Pend' = Append(Pend, Added + 1), Busy' = Busy
  PROVE  QueueStep
BY DEF QueueStep, Pend, Busy, Added, Queue!QNext, Queue!Add

LEMMA Takes ==
  ASSUME Busy = 0, Pend # <<>>, Busy' = Head(Pend), Pend' = Pend, Added' = Added
  PROVE  QueueStep
BY DEF QueueStep, Pend, Busy, Added, Queue!QNext, Queue!Take

LEMMA Leaves ==
  ASSUME Pend # <<>>, Busy \in {0, Head(Pend)}, Pend' = Tail(Pend), Busy' = 0, Added' = Added
  PROVE  QueueStep
BY DEF QueueStep, Pend, Busy, Added, Queue!QNext, Queue!Leave

LEMMA Empties ==
  ASSUME Pend' = <<>>, Busy' = Busy, Added' = Added
  PROVE  QueueStep
BY DEF QueueStep, Pend, Busy, Added, Queue!QNext, Queue!Stop

LEMMA LetsGo ==
  ASSUME Pend = <<>>, Busy # 0, Busy' = 0, Pend' = Pend, Added' = Added
  PROVE  QueueStep
BY DEF QueueStep, Pend, Busy, Added, Queue!QNext, Queue!LetGo

LEMMA RingSteps ==
  ASSUME IInv, Numbered, [Next]_vars, TypeOK'
  PROVE  QueueStep
<1>0. TypeOK
  BY DEF IInv, Types
<1>1. /\ TypeOK /\ head \in Slots /\ tail \in Slots /\ current \in Slots \cup {NoSlot}
      /\ NoSlot \notin Slots /\ made \in Nat /\ blk \in [Slots -> Blocks] /\ cmd \in Blocks
  <2>1. NoSlot \notin Slots
    BY DEF NoSlot, Slots
  <2>2. /\ head \in Slots /\ tail \in Slots /\ current \in Slots \cup {NoSlot}
        /\ made \in Nat /\ blk \in [Slots -> Blocks] /\ cmd \in Blocks
    BY <1>0 DEF TypeOK
  <2> QED
    BY <1>0, <2>1, <2>2
<1> USE DEF At, Goto, CallerFrame, StopFrame
<1>2. ASSUME UNCHANGED <<head, tail, blk, current, made>>, Unpublished' <=> Unpublished
      PROVE  QueueStep
  <2>1. Pend' = Pend
    BY <1>1, <1>2, PendSame
  <2> QED
    BY <1>2, <2>1, Stutters DEF Busy, Added
<1>3. CASE RingSame /\ NotHere
  <2>1. Unpublished' <=> Unpublished
    BY <1>3 DEF NotHere, Unpublished
  <2> QED
    BY <1>2, <1>3, <2>1 DEF RingSame
<1>4. ASSUME NEW p \in Profiles, BufferSteps(p)
      PROVE  QueueStep
  BY <1>2, <1>4 DEF BufferSteps, Unpublished
<1>5. CASE PlacePosition
  BY <1>2, <1>5 DEF PlacePosition, Unpublished
<1>6. CASE GetNextFreeBlock \/ ReloadDelay
  BY <1>2, <1>6 DEF GetNextFreeBlock, ReloadDelay, Unpublished, userVars
<1>7. CASE PopulateBlock \/ FillSyncBlock
  <2>1. ~InQueue(head) /\ current # head
    BY <1>7, HeadIsFree DEF PopulateBlock, FillSyncBlock, Filling
  <2>2. /\ UNCHANGED <<head, tail, current>> /\ made' = made + 1 /\ pc = "fill" /\ pc' = "delay"
        /\ \A i \in Slots \ {head} : blk'[i] = blk[i]
    BY <1>1, <1>7 DEF PopulateBlock, FillSyncBlock
  <2>3. Pend' = Pend
    BY <1>1, <2>1, <2>2, PendSame
  <2>4. Busy' = Busy
    BY <1>1, <2>1, <2>2 DEF Busy
  <2>5. Added' = Added
    BY <1>1, <2>2 DEF Added, Unpublished
  <2> QED
    BY <2>3, <2>4, <2>5, Stutters
<1>8. CASE Publish
  <2>1. /\ pc = "publish" /\ pc' \in {"idle", "recalc"} /\ head' = NextIndex(head)
        /\ UNCHANGED <<tail, blk, current, made>>
    BY <1>8 DEF Publish
  <2>2. NextIndex(head) # tail /\ (current # NoSlot => has_blocks_queued)
    BY <2>1, HeadIsFree DEF Filling
  <2>3. Pend' = Append(Pend, blk[head].id) /\ Len(Pend) < Size - 1
    BY <1>1, <2>1, <2>2, PendAppend
  <2>4. Added = made - 1 /\ Added' = made /\ blk[head].id = made
    BY <2>1 DEF Added, Unpublished, Numbered
  <2>5. Busy' = Busy /\ (Busy = 0 \/ Pend # <<>>)
    BY <1>1, <2>1, <2>2, PendFirst DEF Busy
  <2>6. Added' = Added + 1 /\ Added + 1 = blk[head].id
    BY <1>1, <2>4
  <2> QED
    BY <2>3, <2>5, <2>6, Adds
<1>9. CASE DropBlocks
  <2>1. head' = tail /\ tail' = tail /\ UNCHANGED <<blk, current, made>> /\ pc = "drop" /\ pc' = "abort"
    BY <1>9 DEF DropBlocks, userVars
  <2>2. Pend' = <<>>
    <3>1. movesplanned' = 0
      BY <1>1, <2>1, AheadZero DEF movesplanned
    <3> QED
      BY <3>1, PendTypedNext, EmptySeq
  <2>3. Busy' = Busy /\ Added' = Added
    BY <2>1 DEF Busy, Added, Unpublished
  <2> QED
    BY <2>2, <2>3, Empties
(* The interrupt: a block leaves the queue, or only the stepper. *)
<1>10. ASSUME UNCHANGED <<blk, pc, made, head>>, current' = NoSlot,
              tail' = IF has_blocks_queued THEN NextIndex(tail) ELSE tail,
              has_blocks_queued \/ current # NoSlot
       PROVE  QueueStep
  <2>1. Busy' = 0 /\ Added' = Added
    BY <1>10 DEF Busy, Added, Unpublished
  <2>2. CASE has_blocks_queued
    <3>1. Pend' = Tail(Pend) /\ Pend # <<>> /\ Head(Pend) = blk[tail].id
      BY <1>1, <1>10, <2>2, PendTail, PendFirst
    <3>2. Busy \in {0, Head(Pend)}
      BY <3>1 DEF Busy, IInv, HandOver, BusyIsTail
    <3> QED
      BY <2>1, <3>1, <3>2, Leaves
  <2>3. CASE ~has_blocks_queued
    <3>1. Pend = <<>>
      BY <1>1, <2>3, PendFirst
    <3>2. Pend' = Pend
      BY <1>1, <1>10, <2>3, PendSame
    <3>3. Busy # 0
      BY <1>1, <1>10, <2>3 DEF Busy, Numbered
    <3> QED
      BY <2>1, <3>1, <3>2, <3>3, LetsGo
  <2> QED
    BY <2>2, <2>3
<1>11. CASE (PulseDiscard \/ BlockDone) /\ UNCHANGED <<blk, pc, outer, cmd, made>>
  BY <1>10, <1>11 DEF PulseDiscard, BlockDone, DiscardCurrentBlock
<1>12. CASE FetchSync /\ UNCHANGED <<blk, pc, outer, cmd, made>>
  <2>1. isr = "fetch" /\ has_blocks_queued /\ tail' = NextIndex(tail) /\ UNCHANGED <<head, current>>
    BY <1>12 DEF FetchSync, Deliver, Delivered
  <2>2. current = NoSlot
    BY <2>1 DEF IInv, HandOver, FetchFree
  <2> QED
    BY <1>10, <1>12, <2>1, <2>2
<1>13. CASE FetchMove /\ UNCHANGED <<blk, pc, outer, cmd, made>>
  <2>1. isr = "fetch" /\ has_blocks_queued /\ current' = tail /\ UNCHANGED <<head, tail>>
    BY <1>13 DEF FetchMove, Deliver, Delivered
  <2>2. Pend # <<>> /\ Head(Pend) = blk[tail].id /\ Pend' = Pend
    BY <1>1, <1>13, <2>1, PendFirst, PendSame
  <2>3. Busy = 0 /\ Busy' = Head(Pend) /\ Added' = Added
    BY <1>1, <1>13, <2>1, <2>2 DEF Busy, Added, Unpublished, IInv, HandOver, FetchFree
  <2> QED
    BY <2>2, <2>3, Takes
<1> HIDE DEF At, Goto, CallerFrame, StopFrame
<1>14. \/ RingSame /\ NotHere
       \/ GetNextFreeBlock \/ PopulateBlock \/ FillSyncBlock \/ ReloadDelay \/ Publish
       \/ DropBlocks
       \/ /\ PulseDiscard \/ BlockDone \/ FetchSync \/ FetchMove
          /\ UNCHANGED <<blk, pc, outer, cmd, made>>
       \/ (\E p \in Profiles : BufferSteps(p)) \/ PlacePosition
  BY <1>0, OtherSteps
<1> QED
  BY <1>3, <1>4, <1>5, <1>6, <1>7, <1>8, <1>9, <1>11, <1>12, <1>13, <1>14

(* The ring, its four indices and the two programs that share it without a *)
(* lock implement a queue: blocks are executed in the order they were      *)
(* added, once each, none that was thrown away is taken, the queue never   *)
(* overflows, and after a stop nothing is added before the stepper has let *)
(* go of the block it held.                                                *)
THEOREM RingIsAQueue == ASSUME ~Overlap PROVE Spec => ImplementsBlockQueue
<1>1. Init => Queue!QInit /\ Numbered
  <2> SUFFICES ASSUME Init PROVE Queue!QInit /\ Numbered
    OBVIOUS
  <2>1. movesplanned = 0 /\ \A i \in Slots : ~InQueue(i)
    BY SizeAssumption, AheadZero DEF Init, InQueue, movesplanned, Slots
  <2>2. [k \in 1 .. movesplanned |-> BlockAt(k)] = <<>>
    BY <2>1
  <2> QED
    BY <2>1, <2>2, EmptySeq DEF Init, Numbered, RoomDue, Queue!QInit, Unpublished
<1>2. IInv /\ Numbered /\ [Next]_vars /\ IInv' => [Queue!QNext]_(Queue!qvars)
  BY RingSteps DEF IInv, Types, QueueStep, Pend, Busy, Added, Queue!qvars
<1> QED
  BY <1>1, <1>2, NumberedStep, Inductive, PTL DEF Spec, ImplementsBlockQueue, Queue!QSpec
-----------------------------------------------------------------------------
(* Where the motors will be *)

(* Blocks in the ring, the one about to be published included.             *)
Entered   == IF Unpublished THEN movesplanned + 1 ELSE movesplanned
Within(i) == Ahead(tail, i) < Entered

(* Between a change of the planner's position and its arrival in the ring, *)
(* or at the stepper, the two need not agree.                              *)
Setting ==
  \/ pc \in {"place", "setpos", "drop", "abort", "drain", "resync"}
  \/ pc \in {"room", "fill"} /\ cmd.sync

LastSync(i) ==
  /\ Within(i) /\ blk[i].sync
  /\ \A j \in Slots : Within(j) /\ blk[j].sync => Ahead(tail, j) <= Ahead(tail, i)

(* The stepper executes moves, no further than their length.               *)
Executing == current # NoSlot => ~blk[current].sync /\ done <= StepEvents

(* A block dropped under the stepper is not even looked at by it.          *)
Emptied == current # NoSlot /\ ~has_blocks_queued => isr = "out"

(* A stop that has dropped the queue sets the position at the stepper.     *)
StopIsEmpty == pc \in {"setpos", "abort", "drain", "resync"} => ~has_blocks_queued

(* The last sync block in the ring and the moves after it lead to the      *)
(* planner's position, and so do, with no sync block, the moves left to do *)
(* from where the motors are, unless steps were thrown away.               *)
AfterSync ==
  \A i \in Slots : LastSync(i) =>
    blk[i].pos + StepEvents * (Entered - 1 - Ahead(tail, i)) = position

FromMotors ==
  (\A i \in Slots : Within(i) => ~blk[i].sync) /\ ~lost /\ (current # NoSlot => has_blocks_queued)
    => count - (IF current = NoSlot THEN 0 ELSE done) + StepEvents * Entered = position

Placed == ~Setting => AfterSync /\ FromMotors

PInv == Executing /\ Emptied /\ StopIsEmpty /\ Placed

LEMMA Places ==
  ASSUME IInv
  PROVE  /\ TypeOK /\ head \in Slots /\ tail \in Slots /\ current \in Slots \cup {NoSlot}
         /\ NoSlot \notin Slots /\ blk \in [Slots -> Blocks] /\ cmd \in Blocks
         /\ movesplanned \in Nat /\ Entered \in Nat /\ StepEvents \in Nat
         /\ count \in Int /\ done \in Nat /\ position \in Int
         /\ \A i \in Slots : Ahead(tail, i) \in Nat
<1>1. /\ TypeOK /\ head \in Slots /\ tail \in Slots /\ current \in Slots \cup {NoSlot}
      /\ blk \in [Slots -> Blocks] /\ cmd \in Blocks
      /\ count \in Int /\ done \in Nat /\ position \in Int
  BY DEF IInv, Types, TypeOK
<1>2. NoSlot \notin Slots
  BY DEF NoSlot, Slots
<1>3. \A i \in Slots : Ahead(tail, i) \in Nat
  BY <1>1, AheadZero, SizeAssumption DEF Slots
<1>4. movesplanned \in Nat /\ Entered \in Nat
  BY <1>1, <1>3 DEF movesplanned, Entered
<1> QED
  BY <1>1, <1>2, <1>3, <1>4, BoundAssumption

(* The first block leaves, while the caller may be filling a slot.         *)
LEMMA TailLeaves ==
  ASSUME IInv, has_blocks_queued, tail' = NextIndex(tail), UNCHANGED <<head, pc>>
  PROVE  /\ Entered' = Entered - 1
         /\ Within(tail) /\ Ahead(tail, tail) = 0
         /\ \A i \in Slots : Within(i)' => Within(i) /\ i # tail
         /\ \A i \in Slots \ {tail} : /\ Within(i) => Within(i)'
                                      /\ Ahead(tail', i) = Ahead(tail, i) - 1
<1>1. head \in Slots /\ tail \in Slots /\ head # tail
  BY Places DEF has_blocks_queued
<1>2. Unpublished => NextIndex(head) # tail
  BY DEF IInv, HandOver, RoomKept, Filling, Unpublished
<1>3. movesplanned' = movesplanned - 1 /\ movesplanned \in Nat /\ movesplanned > 0
      /\ (Unpublished => movesplanned + 1 < Size) /\ movesplanned < Size
  BY <1>1, <1>2, SizeAssumption DEF movesplanned, Ahead, NextIndex, Slots
<1>4. Unpublished' <=> Unpublished
  BY DEF Unpublished
<1>5. Entered' = Entered - 1 /\ Entered \in Nat /\ Entered > 0 /\ Entered < Size
  BY <1>3, <1>4 DEF Entered
<1>6. \A i \in Slots \ {tail} : Ahead(tail', i) = Ahead(tail, i) - 1 /\ Ahead(tail, i) \in Nat
  BY <1>1, SizeAssumption DEF Ahead, NextIndex, Slots
<1>7. Ahead(tail, tail) = 0 /\ Ahead(tail', tail) = Size - 1
  BY <1>1, SizeAssumption DEF Ahead, NextIndex, Slots
<1>8. Size \in Nat
  BY SizeAssumption
<1>9. ~(Ahead(tail', tail) < Entered') /\ Within(tail)
  BY <1>5, <1>7, <1>8 DEF Within
<1>10. \A i \in Slots : Within(i)' <=> Ahead(tail', i) < Entered'
  BY DEF Within
<1>11. \A i \in Slots \ {tail} : Within(i)' <=> Within(i)
  BY <1>5, <1>6, <1>10 DEF Within
<1> QED
  BY <1>1, <1>5, <1>6, <1>7, <1>9, <1>10, <1>11

(* With the first block gone the last sync block is the same.              *)
LEMMA SyncStays ==
  ASSUME IInv, Placed, ~Setting, has_blocks_queued, tail' = NextIndex(tail),
         UNCHANGED <<head, pc, blk, position>>
  PROVE  AfterSync'
<1> SUFFICES ASSUME NEW i \in Slots, LastSync(i)'
             PROVE  blk[i].pos + StepEvents * (Entered' - 1 - Ahead(tail', i)) = position
  BY DEF AfterSync
<1>1. /\ Entered' = Entered - 1 /\ Within(i) /\ i # tail /\ blk[i].sync
      /\ Ahead(tail', i) = Ahead(tail, i) - 1
  BY TailLeaves DEF LastSync
<1>2. Entered \in Nat /\ Ahead(tail, i) \in Nat /\ Ahead(tail, tail) = 0
  BY Places, TailLeaves
<1>3. ASSUME NEW j \in Slots, Within(j), blk[j].sync
      PROVE  Ahead(tail, j) <= Ahead(tail, i)
  <2>1. CASE j = tail
    BY <1>2, <2>1
  <2>2. CASE j # tail
    <3>1. /\ Within(j)' /\ Ahead(tail', j) = Ahead(tail, j) - 1
          /\ Ahead(tail, j) \in Nat
      BY <1>3, <2>2, TailLeaves, Places
    <3>2. Ahead(tail', j) <= Ahead(tail', i)
      BY <1>3, <3>1 DEF LastSync
    <3> QED
      BY <1>1, <1>2, <3>1, <3>2
  <2> QED
    BY <2>1, <2>2
<1>4. blk[i].pos + StepEvents * (Entered - 1 - Ahead(tail, i)) = position
  BY <1>1, <1>3 DEF Placed, AfterSync, LastSync
<1>5. Entered' - 1 - Ahead(tail', i) = Entered - 1 - Ahead(tail, i)
  BY <1>1, <1>2
<1> QED
  BY <1>4, <1>5

(* Nothing moves. *)
LEMMA PlacedSame ==
  ASSUME Placed, ~Setting, UNCHANGED <<tail, blk, current, position>>,
         UNCHANGED <<done, count, lost>>, Entered' = Entered,
         current # NoSlot /\ has_blocks_queued' => has_blocks_queued
  PROVE  AfterSync' /\ FromMotors'
<1>1. \A i \in Slots : Within(i)' <=> Within(i)
  BY DEF Within
<1>2. \A i \in Slots : LastSync(i)' <=> LastSync(i)
  BY <1>1 DEF LastSync
<1> QED
  BY <1>1, <1>2 DEF Placed, AfterSync, FromMotors

(* What the steps do to the places: one that only sets the position leaves *)
(* them alone.                                                             *)
LEMMA PlaceSteps ==
  ASSUME IInv, [Next]_vars
  PROVE  \/ Setting'
         \/ /\ UNCHANGED <<head, tail, blk, current, position>>
            /\ UNCHANGED <<done, count, lost>>
            /\ (Unpublished' <=> Unpublished) /\ ~Setting
         \/ SetStepperPosition \/ PopulateBlock \/ FillSyncBlock \/ Publish
         \/ /\ PulseStep \/ PulseDiscard \/ BlockDone \/ FetchSync \/ FetchMove
            /\ UNCHANGED <<blk, pc, cmd, position, made>>
<1> USE DEF Setting, Unpublished, At, Goto
<1>1. CASE RecalcNext
  <2>1. pc \in PlanningSteps /\ pc' \in PlanningSteps \cup {"idle"}
        /\ UNCHANGED <<head, tail, blk, current, cmd, position, done, count, lost>>
    BY <1>1, RecalcFrame DEF RecalcNext, userVars, stepVars
  <2> QED
    BY <2>1 DEF PlanningSteps
<1>2. CASE Interrupt
  BY <1>2 DEF Interrupt, BlockContinues, FetchNothing, idxVars, userVars
<1>3. CASE Display \/ OtherInterrupt \/ UNCHANGED vars
  BY <1>3 DEF Display, StopPrinting, StopHome, OtherInterrupt, EndstopTriggered, Tick, idxVars,
     stepVars, userVars, vars
<1>4. CASE SetMachinePosition(0) \/ Synchronize \/ QuickStop
  BY <1>4 DEF SetMachinePosition, Synchronize, QuickStop, CutIn, CallerFrame, StopFrame, userVars
<1>5. CASE Synchronized \/ AbortBlock \/ StopSynchronized \/ Resync \/ DropBlocks
  BY <1>5 DEF Synchronized, AbortBlock, StopSynchronized, Resync, DropBlocks, CallerFrame, StopFrame, userVars
<1>6. ASSUME NEW p \in Profiles, BufferSteps(p)
      PROVE  /\ UNCHANGED <<head, tail, blk, current, position>>
             /\ UNCHANGED <<done, count, lost>>
             /\ (Unpublished' <=> Unpublished) /\ ~Setting
  BY <1>6 DEF BufferSteps, CallerFrame, StopFrame
<1>7. CASE PlacePosition
  <2>1. Setting'
    BY <1>7 DEF PlacePosition, NoBlock
  <2> QED
    BY <2>1
<1>8. CASE GetNextFreeBlock \/ ReloadDelay
  BY <1>8 DEF GetNextFreeBlock, ReloadDelay, CallerFrame, StopFrame, userVars
<1>9. CASE Call
  BY <1>4, <1>6, <1>9 DEF Call
<1>10. CASE Continue
  BY <1>1, <1>5, <1>7, <1>8, <1>10 DEF Continue
<1> QED
  BY <1>2, <1>3, <1>9, <1>10 DEF Next

(* A block is filled in at the head, behind all that are in the ring.      *)
LEMMA FilledLast ==
  ASSUME IInv, pc = "fill", pc' = "delay", UNCHANGED <<head, tail, current>>
  PROVE  /\ Entered' = Entered + 1 /\ Ahead(tail, head) = Entered
         /\ ~Within(head) /\ current # head
         /\ \A i \in Slots : Within(i)' <=> Within(i) \/ i = head
         /\ current # NoSlot => has_blocks_queued
<1>1. /\ head \in Slots /\ tail \in Slots /\ Entered \in Nat
      /\ \A i \in Slots : Ahead(tail, i) \in Nat
  BY Places
<1>2. Entered = movesplanned /\ Entered' = movesplanned + 1 /\ Ahead(tail, head) = Entered
  BY DEF Entered, Unpublished, movesplanned
<1>3. current # head /\ (current # NoSlot => has_blocks_queued)
  BY HeadIsFree DEF Filling
<1>4. \A i \in Slots : Ahead(tail, i) = Ahead(tail, head) => i = head
  BY <1>1, SizeAssumption DEF Slots, Ahead
<1> QED
  BY <1>1, <1>2, <1>3, <1>4 DEF Within

LEMMA PopulatePlaced == IInv /\ Placed /\ PopulateBlock => AfterSync' /\ FromMotors'
<1> SUFFICES ASSUME IInv, Placed, PopulateBlock
             PROVE  AfterSync' /\ FromMotors'
  OBVIOUS
<1>1. /\ pc = "fill" /\ pc' = "delay" /\ ~cmd.sync /\ position' = position + StepEvents
      /\ UNCHANGED <<head, tail, current, done, count, lost>>
      /\ blk' = [blk EXCEPT ![head] = [cmd EXCEPT !.max = JunctionSpeed]]
  BY DEF PopulateBlock, CallerFrame, StopFrame, At, Goto
<1>2. /\ Entered' = Entered + 1 /\ ~Within(head) /\ current # head
      /\ \A i \in Slots : Within(i)' <=> Within(i) \/ i = head
      /\ current # NoSlot => has_blocks_queued
  BY <1>1, FilledLast
<1>3. /\ head \in Slots /\ Entered \in Nat /\ StepEvents \in Nat /\ count \in Int /\ done \in Nat
      /\ position \in Int /\ \A i \in Slots : Ahead(tail, i) \in Nat
      /\ blk \in [Slots -> Blocks] /\ cmd \in Blocks
  BY Places
<1>4. ~blk'[head].sync /\ \A i \in Slots \ {head} : blk'[i] = blk[i] /\ blk[i].pos \in Int
  BY <1>1, <1>3 DEF Blocks
<1>5. ~Setting
  BY <1>1 DEF Setting
<1>6. AfterSync'
  <2> SUFFICES ASSUME NEW i \in Slots, LastSync(i)'
               PROVE  blk'[i].pos + StepEvents * (Entered' - 1 - Ahead(tail, i)) = position'
    BY <1>1 DEF AfterSync
  <2>1. i # head /\ LastSync(i)
    BY <1>1, <1>2, <1>4 DEF LastSync
  <2>2. blk[i].pos + StepEvents * (Entered - 1 - Ahead(tail, i)) = position
    BY <1>5, <2>1 DEF Placed, AfterSync
  <2>3. Entered' - 1 - Ahead(tail, i) = (Entered - 1 - Ahead(tail, i)) + 1
    BY <1>2, <1>3
  <2>4. StepEvents * ((Entered - 1 - Ahead(tail, i)) + 1)
          = StepEvents * (Entered - 1 - Ahead(tail, i)) + StepEvents
    BY <1>3
  <2> QED
    BY <1>1, <1>3, <1>4, <2>1, <2>2, <2>3, <2>4
<1>7. FromMotors'
  <2> SUFFICES ASSUME \A i \in Slots : Within(i)' => ~blk'[i].sync, ~lost,
                      current # NoSlot => has_blocks_queued
               PROVE  count - (IF current = NoSlot THEN 0 ELSE done) + StepEvents * Entered' = position'
    BY <1>1, <1>2 DEF FromMotors
  <2>1. count - (IF current = NoSlot THEN 0 ELSE done) + StepEvents * Entered = position
    BY <1>2, <1>4, <1>5 DEF Placed, FromMotors
  <2>2. StepEvents * (Entered + 1) = StepEvents * Entered + StepEvents
    BY <1>3
  <2> QED
    BY <1>1, <1>2, <1>3, <2>1, <2>2
<1> QED
  BY <1>6, <1>7

LEMMA SyncPlaced == IInv /\ FillSyncBlock => AfterSync' /\ FromMotors'
<1> SUFFICES ASSUME IInv, FillSyncBlock
             PROVE  AfterSync' /\ FromMotors'
  OBVIOUS
<1>1. /\ pc = "fill" /\ pc' = "delay" /\ cmd.sync /\ UNCHANGED <<head, tail, current, position>>
      /\ blk' = [blk EXCEPT ![head] = [cmd EXCEPT !.pos = position]]
  BY DEF FillSyncBlock, CallerFrame, StopFrame, At, Goto
<1>2. /\ Entered' = Entered + 1 /\ Ahead(tail, head) = Entered
      /\ \A i \in Slots : Within(i)' <=> Within(i) \/ i = head
  BY <1>1, FilledLast
<1>3. /\ head \in Slots /\ Entered \in Nat /\ StepEvents \in Nat /\ position \in Int
      /\ \A i \in Slots : Ahead(tail, i) \in Nat
      /\ blk \in [Slots -> Blocks] /\ cmd \in Blocks
  BY Places
<1>4. blk'[head].sync /\ blk'[head].pos = position
  BY <1>1, <1>3 DEF Blocks
<1>5. FromMotors'
  BY <1>2, <1>3, <1>4 DEF FromMotors
<1>6. AfterSync'
  <2> SUFFICES ASSUME NEW i \in Slots, LastSync(i)'
               PROVE  blk'[i].pos + StepEvents * (Entered' - 1 - Ahead(tail, i)) = position
    BY <1>1 DEF AfterSync
  <2>2. Ahead(tail, head) <= Ahead(tail, i)
    <3>1. \A j \in Slots : Within(j)' /\ blk'[j].sync => Ahead(tail, j) <= Ahead(tail, i)
      BY <1>1 DEF LastSync
    <3>2. Ahead(tail, head) < Entered'
      BY <1>2, <1>3
    <3>3. \A j \in Slots : Within(j)' <=> Ahead(tail, j) < Entered'
      BY <1>1 DEF Within
    <3> QED
      BY <1>3, <1>4, <3>1, <3>2, <3>3
  <2>3. i = head
    BY <1>2, <1>3, <2>2 DEF LastSync, Within
  <2>4. Entered' - 1 - Ahead(tail, i) = 0
    BY <1>2, <1>3, <2>3
  <2> QED
    BY <1>3, <1>4, <2>3, <2>4
<1> QED
  BY <1>5, <1>6

(* The queue grows by the block that was filled in.                        *)
LEMMA PublishPlaced == IInv /\ Placed /\ Publish => Placed'
<1> SUFFICES ASSUME IInv, Placed, Publish
             PROVE  Placed'
  OBVIOUS
<1>1. /\ pc = "publish" /\ pc' \in {"idle", "recalc"} /\ head' = NextIndex(head)
      /\ UNCHANGED <<tail, blk, current, position, done, count, lost>>
  BY DEF Publish, CallerFrame, StopFrame, At, Goto
<1>2. head \in Slots /\ tail \in Slots /\ NextIndex(head) # tail /\ (current # NoSlot => has_blocks_queued)
  BY <1>1, Places, HeadIsFree DEF Filling
<1>3. Entered' = Entered
  BY <1>1, <1>2, QueueGrows DEF Entered, Unpublished, movesplanned
<1>4. ~Setting
  BY <1>1 DEF Setting
<1> QED
  BY <1>1, <1>2, <1>3, <1>4, PlacedSame DEF Placed

(* The stepper makes a step of a block or takes the next one.              *)
LEMMA StepPlaced ==
  ASSUME IInv, PInv, ~Setting, PulseStep \/ FetchMove, UNCHANGED <<blk, pc, cmd, position, made>>
  PROVE  AfterSync' /\ FromMotors'
<1>1. /\ UNCHANGED <<head, tail, lost>>
      /\ Entered \in Nat /\ StepEvents \in Nat /\ count \in Int /\ done \in Nat /\ position \in Int
      /\ NoSlot \notin Slots /\ tail \in Slots
  BY Places DEF PulseStep, FetchMove, Deliver, idxVars
<1>2. Entered' = Entered /\ (has_blocks_queued' <=> has_blocks_queued)
  BY <1>1 DEF Entered, Unpublished, movesplanned, has_blocks_queued
<1>3. \A i \in Slots : (Within(i)' <=> Within(i)) /\ (LastSync(i)' <=> LastSync(i))
  BY <1>1, <1>2 DEF Within, LastSync
<1>4. AfterSync'
  BY <1>1, <1>2, <1>3 DEF AfterSync, PInv, Placed
<1>5. /\ count' - (IF current' = NoSlot THEN 0 ELSE done')
           = count - (IF current = NoSlot THEN 0 ELSE done)
      /\ current' # NoSlot /\ has_blocks_queued' => (current # NoSlot => has_blocks_queued)
      /\ current' = NoSlot => current = NoSlot
  <2>1. CASE PulseStep
    BY <1>1, <1>2, <2>1 DEF PulseStep
  <2>2. CASE FetchMove
    <3>1. current = NoSlot /\ current' = tail /\ done' = 0 /\ count' = count
      BY <2>2 DEF FetchMove, Deliver, IInv, HandOver, FetchFree
    <3> QED
      BY <1>1, <3>1
  <2> QED
    BY <2>1, <2>2
<1>6. FromMotors'
  <2> SUFFICES ASSUME \A i \in Slots : Within(i)' => ~blk[i].sync, ~lost,
                      current' # NoSlot => has_blocks_queued'
               PROVE  count' - (IF current' = NoSlot THEN 0 ELSE done') + StepEvents * Entered'
                        = position
    BY <1>1 DEF FromMotors
  <2> QED
    BY <1>1, <1>2, <1>3, <1>5 DEF PInv, Placed, FromMotors
<1> QED
  BY <1>4, <1>6

(* The stepper lets a block go.                                            *)
LEMMA DonePlaced ==
  ASSUME IInv, PInv, ~Setting, PulseDiscard \/ BlockDone,
         UNCHANGED <<blk, pc, cmd, position, made>>
  PROVE  AfterSync' /\ FromMotors'
<1>1. /\ current # NoSlot /\ current = tail /\ current' = NoSlot /\ UNCHANGED <<head, done, count>>
      /\ tail' = (IF has_blocks_queued THEN NextIndex(tail) ELSE tail)
      /\ ~blk[tail].sync /\ done <= StepEvents
  BY DEF PulseDiscard, BlockDone, DiscardCurrentBlock, IInv, HandOver, BusyIsTail, PInv, Executing
<1>2. /\ Entered \in Nat /\ StepEvents \in Nat /\ count \in Int /\ done \in Nat /\ position \in Int
      /\ tail \in Slots
  BY Places
<1>3. AfterSync'
  <2>1. CASE has_blocks_queued
    BY <1>1, <2>1, SyncStays DEF PInv
  <2>2. CASE ~has_blocks_queued
    <3>1. Entered' = Entered /\ tail' = tail
      BY <1>1, <2>2 DEF Entered, Unpublished, movesplanned
    <3>2. \A i \in Slots : LastSync(i)' <=> LastSync(i)
      BY <3>1 DEF LastSync, Within
    <3> QED
      BY <3>1, <3>2 DEF AfterSync, PInv, Placed
  <2> QED
    BY <2>1, <2>2
<1>4. FromMotors'
  <2>1. CASE PulseDiscard
    BY <2>1 DEF PulseDiscard, FromMotors
  <2>2. CASE BlockDone
    <3>1. /\ has_blocks_queued /\ done = StepEvents /\ lost' = lost
      BY <1>1, <1>2, <2>2 DEF BlockDone, PInv, Emptied
    <3>2. Entered' = Entered - 1 /\ \A i \in Slots : Within(i) => i = tail \/ Within(i)'
      BY <1>1, <3>1, TailLeaves
    <3> SUFFICES ASSUME \A i \in Slots : Within(i)' => ~blk[i].sync, ~lost
                 PROVE  count + StepEvents * Entered' = position
      BY <1>1, <1>2, <3>1 DEF FromMotors
    <3>3. count - done + StepEvents * Entered = position
      BY <1>1, <3>1, <3>2 DEF PInv, Placed, FromMotors
    <3>4. StepEvents * (Entered - 1) = StepEvents * Entered - StepEvents
      BY <1>2
    <3> QED
      BY <1>2, <3>1, <3>2, <3>3, <3>4
  <2> QED
    BY <2>1, <2>2
<1> QED
  BY <1>3, <1>4

(* The stepper executes a sync block: it sets the position it carries.     *)
LEMMA FetchSyncPlaced ==
  ASSUME IInv, Placed, ~Setting, FetchSync, UNCHANGED <<blk, pc, cmd, position, made>>
  PROVE  AfterSync' /\ FromMotors'
<1>1. /\ current = NoSlot /\ current' = NoSlot /\ has_blocks_queued /\ blk[tail].sync
      /\ tail' = NextIndex(tail) /\ head' = head /\ count' = blk[tail].pos
  BY DEF FetchSync, Deliver, Delivered, IInv, HandOver, FetchFree
<1>2. /\ Entered \in Nat /\ StepEvents \in Nat /\ position \in Int /\ tail \in Slots
      /\ blk[tail].pos \in Int
  BY Places DEF Blocks
<1>3. AfterSync'
  BY <1>1, SyncStays
<1>4. /\ Entered' = Entered - 1 /\ Within(tail) /\ Ahead(tail, tail) = 0
      /\ \A i \in Slots : Within(i) => i = tail \/ Within(i)'
  BY <1>1, TailLeaves
<1>5. FromMotors'
  <2> SUFFICES ASSUME \A i \in Slots : Within(i)' => ~blk[i].sync
               PROVE  count' + StepEvents * Entered' = position
    BY <1>1, <1>2, <1>4 DEF FromMotors
  <2>1. LastSync(tail)
    <3>1. \A j \in Slots : Within(j) /\ blk[j].sync => j = tail
      BY <1>4
    <3> QED
      BY <1>1, <1>4, <3>1 DEF LastSync
  <2>2. blk[tail].pos + StepEvents * (Entered - 1 - Ahead(tail, tail)) = position
    BY <1>2, <2>1 DEF Placed, AfterSync
  <2>3. Entered - 1 - Ahead(tail, tail) = Entered'
    BY <1>2, <1>4
  <2> QED
    BY <1>1, <2>2, <2>3
<1> QED
  BY <1>3, <1>5

LEMMA PlacedStep == IInv /\ PInv /\ StopHolds /\ [Next]_vars => Placed'
<1> SUFFICES ASSUME IInv, PInv, StopHolds, [Next]_vars
             PROVE  Placed'
  OBVIOUS
<1>1. CASE Setting'
  BY <1>1 DEF Placed
<1>2. CASE /\ UNCHANGED <<head, tail, blk, current, position>>
           /\ UNCHANGED <<done, count, lost>>
           /\ (Unpublished' <=> Unpublished) /\ ~Setting
  <2>1. Entered' = Entered /\ (has_blocks_queued' <=> has_blocks_queued)
    BY <1>2 DEF Entered, movesplanned, has_blocks_queued
  <2> QED
    BY <1>2, <2>1, PlacedSame DEF PInv, Placed
<1>3. CASE SetStepperPosition
  <2>1. /\ pc = "setpos" /\ pc' \in {"idle"} \cup WaitSteps /\ count' = position /\ position' = position
        /\ UNCHANGED <<head, tail, current>>
    BY <1>3, ReturnWaits DEF SetStepperPosition, StopFrame, userVars, At, IInv, Types
  <2>2. ~has_blocks_queued' /\ head \in Slots /\ tail \in Slots /\ StepEvents \in Nat
        /\ position \in Int
    BY <2>1, Places DEF PInv, StopIsEmpty, has_blocks_queued
  <2>3. Entered' = 0
    BY <2>1, <2>2, AheadZero DEF Entered, Unpublished, movesplanned, has_blocks_queued, WaitSteps
  <2>4. AfterSync'
    <3>1. \A i \in Slots : Ahead(tail', i) \in Nat
      BY <2>1, Places
    <3>2. \A i \in Slots : ~Within(i)'
      BY <2>3, <3>1 DEF Within
    <3> QED
      BY <3>2 DEF AfterSync, LastSync
  <2>5. FromMotors'
    <3>1. (current' # NoSlot => has_blocks_queued') => current' = NoSlot
      BY <2>2
    <3>2. count' - 0 + StepEvents * Entered' = position'
      BY <2>1, <2>2, <2>3
    <3> QED
      BY <3>1, <3>2 DEF FromMotors
  <2> QED
    BY <2>4, <2>5 DEF Placed
<1>4. CASE PopulateBlock \/ FillSyncBlock
  BY <1>4, PopulatePlaced, SyncPlaced DEF PInv, Placed
<1>5. CASE Publish
  BY <1>5, PublishPlaced DEF PInv
<1>6. CASE /\ PulseStep \/ PulseDiscard \/ BlockDone \/ FetchSync \/ FetchMove
           /\ UNCHANGED <<blk, pc, cmd, position, made>>
  <2>1. Setting' <=> Setting
    BY <1>6 DEF Setting
  <2> QED
    BY <1>6, <2>1, StepPlaced, DonePlaced, FetchSyncPlaced DEF PInv, Placed
<1> QED
  BY <1>1, <1>2, <1>3, <1>4, <1>5, <1>6, PlaceSteps

LEMMA ExecutingStep == IInv /\ PInv /\ [Next]_vars => Executing'
<1> SUFFICES ASSUME IInv, PInv, [Next]_vars, current' # NoSlot
             PROVE  ~blk'[current'].sync /\ done' <= StepEvents
  BY DEF Executing
<1>1. done \in Nat /\ StepEvents \in Nat /\ head \in Slots /\ current \in Slots \cup {NoSlot}
      /\ tail \in Slots
  BY Places
<1>2. CASE FetchMove /\ UNCHANGED blk
  BY <1>1, <1>2 DEF FetchMove, Deliver
<1>3. CASE current' = current /\ done' = done
  <2>1. blk'[current] = blk[current]
    BY <1>3, HeldStep DEF IInv, HeldKept
  <2> QED
    BY <1>3, <2>1 DEF PInv, Executing
<1>4. CASE PulseStep /\ UNCHANGED blk
  BY <1>1, <1>4 DEF PulseStep, PInv, Executing
<1>5. CASE Interrupt
  BY <1>2, <1>3, <1>4, <1>5 DEF Interrupt, PulseDiscard, BlockDone, DiscardCurrentBlock, BlockContinues,
     FetchNothing, FetchSync
<1>6. CASE RecalcNext
  BY <1>3, <1>6 DEF RecalcNext, stepVars
<1>7. CASE Display \/ OtherInterrupt \/ UNCHANGED vars
  BY <1>3, <1>7 DEF Display, OtherInterrupt, EndstopTriggered, Tick, vars, stepVars
<1>8. CASE Call
  BY <1>3, <1>8 DEF Call, BufferSteps, SetMachinePosition, Synchronize, QuickStop, CutIn, CallerFrame, StopFrame
<1>9. CASE Continue /\ ~RecalcNext
  BY <1>3, <1>9 DEF Continue, GetNextFreeBlock, PopulateBlock, FillSyncBlock, ReloadDelay, Publish,
     PlacePosition, SetStepperPosition, Synchronized, DropBlocks, AbortBlock, StopSynchronized,
     Resync, CallerFrame, StopFrame, StopFrame
<1> QED
  BY <1>5, <1>6, <1>7, <1>8, <1>9 DEF Next

LEMMA EmptiedStep == IInv /\ PInv /\ StopHolds /\ [Next]_vars => Emptied' /\ StopIsEmpty'
<1> SUFFICES ASSUME IInv, PInv, StopHolds, [Next]_vars
             PROVE  Emptied' /\ StopIsEmpty'
  OBVIOUS
<1>1. head \in Slots /\ tail \in Slots /\ NextIndex(head) \in Slots
  BY Places, NeighbourIsSlot
<1> USE DEF PInv, Emptied, StopIsEmpty, has_blocks_queued, At, Goto
<1>2. CASE Interrupt
  <2>1. pc' = pc /\ head' = head /\ (head = tail => tail' = tail)
    BY <1>2 DEF Interrupt, PulseDiscard, PulseStep, BlockDone, BlockContinues, FetchNothing,
       FetchSync, FetchMove, DiscardCurrentBlock, Deliver, Delivered, idxVars
  <2>2. Emptied'
    <3>1. CASE PulseStep
      BY <3>1 DEF PulseStep, IInv, HandOver, BusyIsTail, StopHolds, idxVars
    <3>2. CASE FetchMove
      BY <3>2 DEF FetchMove
    <3>3. CASE BlockContinues
      BY <3>3 DEF BlockContinues, idxVars
    <3>4. CASE FetchNothing
      BY <3>4 DEF FetchNothing
    <3>5. CASE FetchSync
      BY <3>5 DEF FetchSync, Deliver, IInv, HandOver, FetchFree
    <3>6. CASE PulseDiscard \/ BlockDone
      BY <3>6 DEF PulseDiscard, BlockDone, DiscardCurrentBlock
    <3> QED
      BY <1>2, <3>1, <3>2, <3>3, <3>4, <3>5, <3>6 DEF Interrupt
  <2> QED
    BY <2>1, <2>2
<1>3. CASE Display \/ OtherInterrupt \/ UNCHANGED vars
  BY <1>3 DEF Display, StopPrinting, StopHome, OtherInterrupt, EndstopTriggered, Tick, vars, idxVars,
     stepVars
<1>4. CASE RecalcNext
  BY <1>4, RecalcFrame DEF PlanningSteps
<1>5. CASE Call
  BY <1>5 DEF Call, BufferSteps, SetMachinePosition, Synchronize, QuickStop, CutIn, CallerFrame, StopFrame
<1>6. CASE Publish
  <2>1. NextIndex(head) # tail
    BY <1>6, HeadIsFree DEF Publish, Filling
  <2> QED
    BY <1>6, <2>1 DEF Publish, CallerFrame, StopFrame
<1>7. CASE PlacePosition
  BY <1>7 DEF PlacePosition, CallerFrame, StopFrame
<1>8. CASE DropBlocks
  BY <1>8 DEF DropBlocks
<1>10. CASE SetStepperPosition
  BY <1>10 DEF SetStepperPosition, StopFrame
<1>9. CASE Continue /\ ~RecalcNext /\ ~Publish /\ ~PlacePosition /\ ~DropBlocks
           /\ ~SetStepperPosition
  BY <1>9 DEF Continue, GetNextFreeBlock, PopulateBlock, FillSyncBlock, ReloadDelay,
     Synchronized, AbortBlock, StopSynchronized, Resync, CallerFrame, StopFrame
<1> QED
  BY <1>2, <1>3, <1>4, <1>5, <1>6, <1>7, <1>8, <1>9, <1>10 DEF Next, Continue

(* With the queue drained the planner and the motors agree on where they   *)
(* are, whatever was executed, stopped, aborted by an endstop or set       *)
(* through the queue, unless steps were lost and the position has not been *)
(* set since.                                                              *)
THEOREM PlacesAgree == ASSUME ~Overlap PROVE Spec => []PositionsAgree
<1>1. Init => StopHolds /\ PInv
  <2> SUFFICES ASSUME Init PROVE StopHolds /\ PInv
    OBVIOUS
  <2>1. Entered = 0 /\ \A i \in Slots : ~Within(i)
    BY SizeAssumption, AheadZero DEF Init, Entered, Unpublished, Within, movesplanned, Slots
  <2>2. count - 0 + StepEvents * Entered = position
    BY <2>1, BoundAssumption DEF Init
  <2>3. current = NoSlot /\ pc = "idle"
    BY DEF Init
  <2> QED
    BY <2>1, <2>2, <2>3 DEF PInv, StopHolds, Executing, Emptied, StopIsEmpty, Placed, AfterSync,
       FromMotors, LastSync
<1>2. IInv /\ PInv /\ StopHolds /\ [Next]_vars => PInv'
  BY PlacedStep, ExecutingStep, EmptiedStep DEF PInv
<1>3. IInv /\ PInv => PositionsAgree
  <2> SUFFICES ASSUME IInv, PInv, pc = "idle", ~has_blocks_queued, current = NoSlot, ~lost
               PROVE  count = position
    BY DEF PositionsAgree
  <2>1. Entered = 0
    BY Places, AheadZero DEF Entered, Unpublished, movesplanned, has_blocks_queued
  <2>2. \A i \in Slots : ~Within(i)
    BY <2>1, Places DEF Within
  <2>3. count - 0 + StepEvents * Entered = position
    BY <2>2 DEF PInv, Placed, Setting, FromMotors
  <2> QED
    BY <2>1, <2>3, Places
<1>4. IInv /\ StopHolds /\ [Next]_vars => StopHolds'
  BY StopHoldsStep DEF IInv, Types
<1> QED
  BY <1>1, <1>2, <1>3, <1>4, Inductive, PTL DEF Spec
=============================================================================
