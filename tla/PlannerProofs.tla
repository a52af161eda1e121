--------------------------- MODULE PlannerProofs ---------------------------
(***************************************************************************)
(* Proofs about Planner, for every ring size, delay, set of moves and      *)
(* number of blocks, and for every place at which the interrupt may fall.  *)
(***************************************************************************)
EXTENDS Planner, SequenceTheorems, TLAPS

(* Where the main program has a free slot to itself. *)
Filling == {"fill", "delay", "publish"}

(* A slot that holds a block. *)
InQueue(i) == Ahead(tail, i) < movesplanned

(* The main program's reference is a slot where it is dereferenced. *)
RefDefined ==
  pc \in {"fwdKernel", "fwdCheck", "fwdWrite", "fwdMax", "trapCheck", "trapWrite", "trapClear"}
    => ref \in Slots

(* The interrupt fetches only once it has let its block go. *)
FetchFree == isr = "fetch" => current = NoSlot

(* A stopped planner has an empty queue and nobody filling it. *)
CleanIsEmpty ==
  cleaning > 0 => head = tail /\ pc \notin Filling \cup {"room"}

(* The slot being filled is not the one the ring would be full with. *)
RoomKept == pc \in Filling => NextIndex(head) # tail

(* A slot about to be rewritten is flagged, so that the interrupt will not *)
(* take it, and has been seen not to be busy since.                        *)
FlagRaised ==
  /\ pc \in {"revCheck", "fwdCheck"}             => recalc[bi]
  /\ pc \in {"trapCheck", "trapWrite"}           => recalc[ref]
  /\ pc \in {"revWrite", "fwdWrite"}             => recalc[bi] /\ current # bi
  /\ pc = "trapWrite"                            => current # ref

(* A block with no trapezoid is flagged. *)
PlannedOrFlagged ==
  /\ \A i \in Slots :
       InQueue(i) \/ (i = head /\ pc \in {"delay", "publish"})
         => blk[i].sync \/ recalc[i] \/ trap[i] # NoTrap
  /\ pc = "trapClear" => trap[ref] # NoTrap

(* Only stops cut into a wait, and into one another's; the wait cut into   *)
(* first may be anybody's.  When the stop returns to it the queue is empty,*)
(* and no caller who waits for room finds the planner still cleaning.      *)
StopSteps == {"drop", "abort", "drain", "resync", "place", "setpos"}
Nested ==
  /\ \A k \in 1 .. Len(outer) : k < Len(outer) => outer[k] \in {"drain", "setpos"}
  /\ outer # <<>> => pc \in StopSteps /\ (pc = "drop" \/ ~has_blocks_queued)
  /\ \A k \in 1 .. Len(outer) : outer[k] = "room" => ~stopHome
  /\ ~Overlap

Types    == TypeOK /\ RefDefined
HandOver == FetchFree /\ CleanIsEmpty /\ RoomKept /\ BusyIsTail
Planned  == PlannedOrFlagged /\ DeliveredPlanned
IInv     == Types /\ Nested /\ HandOver /\ FlagRaised /\ Planned
-----------------------------------------------------------------------------
(* The ring's indices *)

(* A neighbour of a slot is a slot, and another one. *)
LEMMA NeighbourIsSlot ==
  ASSUME NEW i \in Slots
  PROVE  NextIndex(i) \in Slots /\ PrevIndex(i) \in Slots /\ NextIndex(i) # i
BY SizeAssumption DEF Slots, NextIndex, PrevIndex

(* Only the distance of a slot to itself is zero. *)
LEMMA AheadZero ==
  ASSUME NEW i \in Slots, NEW j \in Slots
  PROVE  Ahead(i, j) \in Slots /\ (Ahead(i, j) = 0 <=> i = j)
BY SizeAssumption DEF Slots, Ahead

(* A slot that holds a block after the tail has moved held one before. *)
LEMMA TailAdvance ==
  ASSUME NEW t \in Slots, NEW h \in Slots, NEW i \in Slots, t # h,
         Ahead(NextIndex(t), i) < Ahead(NextIndex(t), h)
  PROVE  Ahead(t, i) < Ahead(t, h)
BY SizeAssumption DEF Slots, Ahead, NextIndex

(* Publishing adds one slot, the one at the head. *)
LEMMA HeadAdvance ==
  ASSUME NEW t \in Slots, NEW h \in Slots, NEW i \in Slots, NextIndex(h) # t,
         Ahead(t, i) < Ahead(t, NextIndex(h))
  PROVE  Ahead(t, i) < Ahead(t, h) \/ i = h
BY SizeAssumption DEF Slots, Ahead, NextIndex

(* A free slot is one the ring can grow by. *)
LEMMA FreeSlot ==
  ASSUME TypeOK, moves_free >= 1
  PROVE  NextIndex(head) # tail
BY SizeAssumption DEF TypeOK, moves_free, movesplanned, Slots, Ahead, NextIndex
-----------------------------------------------------------------------------
(* Waits that stops cut into *)

LEMMA WaitsTyped ==
  ASSUME TypeOK
  PROVE  /\ outer \in Seq(WaitSteps) /\ Len(outer) \in Nat
         /\ \A k \in 1 .. Len(outer) : outer[k] \in WaitSteps
         /\ outer = <<>> <=> Len(outer) = 0
<1>1. outer \in Seq(WaitSteps)
  BY DEF TypeOK
<1> QED
  BY <1>1, EmptySeq, ElementOfSeq, LenProperties

(* What a stop pushes, and what its return takes away.                     *)
LEMMA CutInWaits ==
  ASSUME TypeOK, CutIn
  PROVE  /\ outer' \in Seq(WaitSteps)
         /\ \/ pc = "idle" /\ outer' = outer
            \/ /\ pc \in WaitSteps
               /\ Len(outer') = Len(outer) + 1
               /\ outer'[1] = pc
               /\ \A k \in 1 .. Len(outer) : outer'[k + 1] = outer[k]
<1>1. outer \in Seq(WaitSteps)
  BY WaitsTyped
<1>2. CASE pc = "idle"
  BY <1>1, <1>2 DEF CutIn
<1>3. CASE pc # "idle"
  <2>1. pc \in WaitSteps /\ outer' = <<pc>> \o outer
    BY <1>3 DEF CutIn, InIdle
  <2>2. <<pc>> \in Seq(WaitSteps) /\ Len(<<pc>>) = 1 /\ <<pc>>[1] = pc
    BY <2>1
  <2> QED
    BY <1>1, <2>1, <2>2, ConcatProperties
<1> QED
  BY <1>2, <1>3

LEMMA ReturnWaits ==
  ASSUME TypeOK, SetStepperPosition
  PROVE  \/ outer = <<>> /\ outer' = outer /\ pc' = "idle"
         \/ /\ outer # <<>> /\ Len(outer) \in Nat /\ Len(outer) > 0
            /\ pc' = outer[1] /\ pc' \in WaitSteps
            /\ outer' \in Seq(WaitSteps) /\ Len(outer') = Len(outer) - 1
            /\ \A k \in 1 .. Len(outer') : outer'[k] = outer[k + 1]
<1>1. outer \in Seq(WaitSteps)
  BY WaitsTyped
<1>2. CASE outer = <<>>
  BY <1>2 DEF SetStepperPosition, Goto
<1>3. CASE outer # <<>>
  <2>1. pc' = Head(outer) /\ outer' = Tail(outer)
    BY <1>3 DEF SetStepperPosition, Goto
  <2> QED
    BY <1>1, <1>3, <2>1, HeadTailProperties, WaitsTyped
<1> QED
  BY <1>2, <1>3

-----------------------------------------------------------------------------
(* Types *)

(* The ring after the interrupt has let a block go. *)
LEMMA InterruptType == Types /\ Interrupt => Types'
<1> SUFFICES ASSUME Types, Interrupt
             PROVE  Types'
  OBVIOUS
<1>1. UNCHANGED <<blk, planVars, pc, outer, locVars, userVars>>
  BY DEF Interrupt
<1>2. RefDefined'
  BY <1>1 DEF Types, RefDefined, locVars
<1>3. NextIndex(tail) \in Slots
  BY NeighbourIsSlot DEF Types, TypeOK
<1> USE <1>1, <1>3 DEF Types, TypeOK, planVars, locVars, userVars
<1>4. CASE PulseDiscard
  BY <1>2, <1>4 DEF PulseDiscard, DiscardCurrentBlock
<1>5. CASE PulseStep
  <2>1. done' \in Nat /\ count' \in Int
    BY <1>5 DEF PulseStep
  <2> QED
    BY <1>2, <1>5, <2>1 DEF PulseStep, idxVars
<1>6. CASE BlockDone
  <2>1. exit' \in Nat \cup {Unknown}
    BY <1>6 DEF BlockDone, Traps, NoTrap
  <2> QED
    BY <1>2, <1>6, <2>1 DEF BlockDone, DiscardCurrentBlock, gateVars
<1>7. CASE BlockContinues
  BY <1>2, <1>7 DEF BlockContinues, idxVars, gateVars
<1>8. CASE FetchNothing
  BY <1>2, <1>8 DEF FetchNothing, HeldBack, idxVars
<1>9. CASE FetchSync
  <2>1. blk[tail].pos \in Int
    BY DEF Blocks
  <2> QED
    BY <1>2, <1>9, <2>1 DEF FetchSync, Deliver
<1>10. CASE FetchMove
  BY <1>2, <1>10 DEF FetchMove, Deliver
<1> QED
  BY <1>4, <1>5, <1>6, <1>7, <1>8, <1>9, <1>10 DEF Interrupt

(* recalculate() keeps the types. *)
LEMMA RecalcType == Types /\ RecalcNext => Types'
<1> SUFFICES ASSUME Types, RecalcNext
             PROVE  Types'
  OBVIOUS
<1>1. UNCHANGED <<blk, gateVars, stepVars, outer, userVars>>
  BY DEF RecalcNext
<1>2. /\ NextIndex(bi) \in Slots /\ PrevIndex(bi) \in Slots
      /\ NextIndex(pl) \in Slots
      /\ PrevIndex(head) \in Slots /\ PrevIndex(hd) \in Slots
  BY NeighbourIsSlot DEF Types, TypeOK
<1>3. 0 \in Slots
  BY SizeAssumption DEF Slots
<1>4. \A i \in Slots : blk[i].max \in Nat /\ blk[i].dist \in Nat /\ entry[i] \in Nat
  BY DEF Types, TypeOK, Blocks
<1> USE <1>1, <1>2, <1>3, <1>4 DEF Types, TypeOK, RefDefined, idxVars, planVars, locVars, gateVars,
        stepVars, userVars, At, Goto, CallerSteps, PlanningSteps, Return
<1>5. CASE Recalculate
  BY <1>5 DEF Recalculate
<1>6. CASE RevStart
  BY <1>6 DEF RevStart
<1>7. CASE RevDone
  BY <1>7 DEF RevDone
<1>8. CASE RevKernel
  <2>1. ReverseEntry \in Nat
    BY DEF ReverseEntry, minSpeed
  <2> QED
    BY <1>8, <2>1 DEF RevKernel, MarkRecalculate
<1>9. CASE RevCheck
  BY <1>9 DEF RevCheck, ClearRecalculate
<1>10. CASE RevWrite
  BY <1>10 DEF RevWrite
<1>11. CASE RevStep
  BY <1>11 DEF RevStep
<1>12. CASE RevFollow
  BY <1>12 DEF RevFollow
<1>13. CASE FwdStart
  BY <1>13 DEF FwdStart
<1>14. CASE FwdDone
  BY <1>14 DEF FwdDone
<1>15. CASE FwdLoop
  BY <1>15 DEF FwdLoop
<1>16. CASE FwdKernel
  <2>1. ForwardEntry \in Nat
    BY <1>16 DEF ForwardEntry, FwdKernel
  <2> QED
    BY <1>16, <2>1 DEF FwdKernel, MarkRecalculate
<1>17. CASE FwdCheck
  BY <1>17 DEF FwdCheck, ClearRecalculate
<1>18. CASE FwdWrite
  BY <1>18 DEF FwdWrite
<1>19. CASE FwdMax
  BY <1>19 DEF FwdMax
<1>20. CASE FwdStep
  BY <1>20 DEF FwdStep
<1>21. CASE TrapStart
  BY <1>21 DEF TrapStart
<1>22. CASE TrapTrim
  BY <1>22 DEF TrapTrim
<1>23. CASE TrapLoop
  <2>1. CASE TrapDue
    BY <1>23, <2>1 DEF TrapLoop, TrapDue, MarkRecalculate
  <2>2. CASE ~TrapDue /\ AtLast
    BY <1>23, <2>2 DEF TrapLoop
  <2>3. CASE ~TrapDue /\ ~AtLast
    BY <1>23, <2>3 DEF TrapLoop
  <2> QED
    BY <2>1, <2>2, <2>3
<1>24. CASE TrapCheck
  BY <1>24 DEF TrapCheck
<1>25. CASE TrapWrite
  <2>1. [initial |-> entry[ref], final |-> IF AtLast THEN 0 ELSE entry[bi]] \in Traps
    BY <1>25 DEF TrapWrite, Traps
  <2> QED
    BY <1>25, <2>1 DEF TrapWrite
<1>26. CASE TrapClear
  BY <1>26 DEF TrapClear, ClearRecalculate
<1>27. CASE TrapStep
  BY <1>27 DEF TrapStep
<1> QED
  BY <1>5, <1>6, <1>7, <1>8, <1>9, <1>10, <1>11, <1>12, <1>13, <1>14, <1>15, <1>16,
     <1>17, <1>18, <1>19, <1>20, <1>21, <1>22, <1>23, <1>24, <1>25, <1>26, <1>27 DEF RecalcNext

(* So do the callers. *)
LEMMA CallerType ==
  Types /\ (Call \/ Continue) => Types'
<1> SUFFICES ASSUME Types, Call \/ Continue
             PROVE  Types'
  OBVIOUS
<1>1. NextIndex(head) \in Slots
  BY NeighbourIsSlot DEF Types, TypeOK
<1>2. FirstDelay \in Nat /\ CleanTicks \in Nat /\ StepEvents \in Nat
  BY BoundAssumption
<1>3. NoTrap \in Traps /\ NoBlock \in Blocks
  BY DEF Traps, NoBlock, Blocks
<1>4. made + 1 \in Nat /\ position + StepEvents \in Int
  BY <1>2 DEF Types, TypeOK
<1> USE <1>1, <1>3, <1>4 DEF Types, TypeOK, RefDefined, idxVars, planVars, locVars, userVars, At, Goto,
        CallerSteps, PlanningSteps, CallerFrame, StopFrame
<1>5. ASSUME NEW p \in Profiles, BufferSteps(p)
      PROVE  Types'
  <2>1. cmd' \in Blocks
    <3>1. \A long \in BOOLEAN :
            [NoBlock EXCEPT !.id = made + 1, !.max = p.max, !.nominal = p.nominal, !.dist = p.dist,
                            !.nlen = long] \in Blocks
      BY ProfileAssumption DEF NoBlock, Blocks
    <3>2. (p.nominal <= p.dist) \in BOOLEAN
      OBVIOUS
    <3> QED
      BY <1>5, <3>1, <3>2, Zenon DEF BufferSteps
  <2> QED
    BY <1>5, <2>1 DEF BufferSteps
<1>6. CASE SetMachinePosition(0)
  BY <1>6 DEF SetMachinePosition
<1>7. CASE Synchronize
  BY <1>7 DEF Synchronize
<1>19. CASE QuickStop
  <2>1. outer' \in Seq(WaitSteps)
    BY <1>19, CutInWaits DEF QuickStop
  <2> QED
    BY <1>19, <2>1 DEF QuickStop, CutIn
<1>8. CASE GetNextFreeBlock
  BY <1>8 DEF GetNextFreeBlock
<1>9. CASE PopulateBlock
  <2>1. JunctionSpeed \in Nat
    BY BoundAssumption DEF JunctionSpeed, Joint, SafeOf, minSpeed, Blocks
  <2>2. [cmd EXCEPT !.max = JunctionSpeed] \in Blocks
    BY <2>1 DEF Blocks
  <2>3. cmd.nominal \in Nat
    BY DEF Blocks
  <2> QED
    BY <1>9, <2>2, <2>3 DEF PopulateBlock, MarkRecalculate
<1>10. CASE FillSyncBlock
  <2>1. [cmd EXCEPT !.pos = position] \in Blocks
    BY DEF Blocks
  <2> QED
    BY <1>10, <2>1 DEF FillSyncBlock, ClearRecalculate
<1>11. CASE ReloadDelay
  BY <1>2, <1>11 DEF ReloadDelay
<1>12. CASE Publish
  BY <1>12 DEF Publish
<1>13. CASE PlacePosition
  <2>1. cmd' \in Blocks
    BY <1>13 DEF PlacePosition, NoBlock, Blocks
  <2> QED
    BY <1>13, <2>1 DEF PlacePosition
<1>14. CASE SetStepperPosition
  <2>1. outer' \in Seq(WaitSteps) /\ pc' \in {"idle"} \cup WaitSteps
    BY <1>14, ReturnWaits
  <2> QED
    BY <1>14, <2>1 DEF SetStepperPosition, WaitSteps
<1>15. CASE Synchronized
  BY <1>15 DEF Synchronized
<1>16. CASE DropBlocks
  BY <1>2, <1>16 DEF DropBlocks, has_blocks_queued
<1>17. CASE AbortBlock \/ StopSynchronized \/ Resync
  BY <1>17 DEF AbortBlock, StopSynchronized, Resync
<1>18. CASE RecalcNext
  BY <1>18, RecalcType
<1> QED
  BY <1>5, <1>6, <1>7, <1>8, <1>9, <1>10, <1>11, <1>12, <1>13, <1>14, <1>15, <1>16, <1>17, <1>18,
     <1>19 DEF Call, Continue

LEMMA OtherType ==
  Types /\ (Display \/ OtherInterrupt) => Types'
<1> SUFFICES ASSUME Types, Display \/ OtherInterrupt
             PROVE  Types'
  OBVIOUS
<1> USE DEF Types, TypeOK, RefDefined, idxVars, planVars, locVars, userVars, stepVars
<1>1. CASE Display
  BY <1>1 DEF Display, StopPrinting, StopHome
<1>2. CASE OtherInterrupt /\ EndstopTriggered
  BY <1>2 DEF OtherInterrupt, EndstopTriggered
<1>3. CASE OtherInterrupt /\ Tick
  BY <1>3 DEF OtherInterrupt, Tick
<1> QED
  BY <1>1, <1>2, <1>3 DEF OtherInterrupt

LEMMA TypesAlways == Spec => []Types
<1>1. Init => Types
  <2> SUFFICES ASSUME Init PROVE Types
    OBVIOUS
  <2>1. 0 \in Slots
    BY SizeAssumption DEF Slots
  <2>2. NoBlock \in Blocks /\ NoTrap \in Traps
    BY DEF NoBlock, Blocks, Traps
  <2>3. blk \in [Slots -> Blocks] /\ trap \in [Slots -> Traps]
    BY <2>2 DEF Init
  <2>4. recalc \in [Slots -> BOOLEAN] /\ entry \in [Slots -> Nat]
    BY DEF Init
  <2>5. /\ {head, tail, nonbusy, planned} \subseteq Slots
        /\ bi \in Slots /\ pl \in Slots /\ hd \in Slots /\ ref \in Slots \cup {NoSlot}
    BY <2>1 DEF Init
  <2>6. /\ delay \in Nat /\ cleaning \in Nat
        /\ isr \in {"out", "block", "fetch"}
        /\ current \in Slots \cup {NoSlot} /\ done \in Nat /\ count \in Int
        /\ exit \in Nat \cup {Unknown}
    BY DEF Init
  <2>9. outer \in Seq(WaitSteps)
    BY EmptySeq DEF Init
  <2>7. /\ pc \in CallerSteps \cup PlanningSteps /\ RefDefined
        /\ newv \in Nat /\ cmd \in Blocks /\ position \in Int /\ made \in Nat /\ nominal \in Nat
    BY <2>2 DEF Init, CallerSteps, RefDefined
  <2>8. {abort, wait, stopHome, lost} \subseteq BOOLEAN
    <3>1. /\ abort \in BOOLEAN /\ wait \in BOOLEAN
          /\ stopHome \in BOOLEAN /\ lost \in BOOLEAN
      BY DEF Init
    <3> QED
      BY <3>1
  <2> QED
    BY <2>3, <2>4, <2>5, <2>6, <2>7, <2>8, <2>9 DEF Types, TypeOK
<1>2. Types /\ [Next]_vars => Types'
  <2>1. Types /\ UNCHANGED vars => Types'
    BY DEF vars, Types, TypeOK, RefDefined, idxVars, planVars, gateVars, stepVars, locVars, userVars
  <2> QED
    BY <2>1, InterruptType, CallerType, OtherType DEF Next
<1> QED
  BY <1>1, <1>2, PTL DEF Spec

(* Every variable keeps its type: no slot index leaves the ring, no speed  *)
(* or count drops below zero, whatever the interrupt interrupts.           *)
THEOREM TypeCorrect == Spec => []TypeOK
<1>1. Types => TypeOK
  BY DEF Types
<1> QED
  BY <1>1, TypesAlways, PTL

-----------------------------------------------------------------------------
(* The block being executed is at the tail *)

(* recalculate() moves no block and does not enter or leave a caller.      *)
LEMMA RecalcFrame ==
  RecalcNext => /\ pc \in PlanningSteps /\ pc' \in PlanningSteps \cup {"idle"}
                /\ isr = "out"
                /\ UNCHANGED <<head, tail, blk, delay, cleaning, abort, stopHome, current, isr, outer>>
<1> SUFFICES ASSUME RecalcNext
             PROVE  /\ pc \in PlanningSteps /\ pc' \in PlanningSteps \cup {"idle"}
                    /\ isr = "out"
                    /\ UNCHANGED <<head, tail, blk, delay, cleaning, abort, stopHome, current, isr, outer>>
  OBVIOUS
<1>1. UNCHANGED <<blk, delay, cleaning, abort, stopHome, current, isr, outer>>
  BY DEF RecalcNext, gateVars, stepVars
<1> USE DEF PlanningSteps, idxVars, At, Goto, Return
<1>2. CASE Recalculate \/ RevStart \/ RevDone \/ RevKernel
  BY <1>1, <1>2 DEF Recalculate, RevStart, RevDone, RevKernel
<1>3. CASE RevCheck \/ RevWrite \/ RevStep \/ RevFollow
  BY <1>1, <1>3 DEF RevCheck, RevWrite, RevStep, RevFollow
<1>4. CASE FwdStart \/ FwdDone \/ FwdLoop \/ FwdKernel
  BY <1>1, <1>4 DEF FwdStart, FwdDone, FwdLoop, FwdKernel
<1>5. CASE FwdCheck \/ FwdWrite \/ FwdMax \/ FwdStep
  BY <1>1, <1>5 DEF FwdCheck, FwdWrite, FwdMax, FwdStep
<1>6. CASE TrapStart \/ TrapTrim \/ TrapLoop \/ TrapCheck
  BY <1>1, <1>6 DEF TrapStart, TrapTrim, TrapLoop, TrapCheck
<1>7. CASE TrapWrite \/ TrapClear \/ TrapStep
  BY <1>1, <1>7 DEF TrapWrite, TrapClear, TrapStep
<1> QED
  BY <1>2, <1>3, <1>4, <1>5, <1>6, <1>7 DEF RecalcNext

LEMMA InterruptHandOver == Types /\ HandOver /\ Interrupt => HandOver'
<1> SUFFICES ASSUME Types, HandOver, Interrupt
             PROVE  HandOver'
  OBVIOUS
<1>1. pc' = pc
  BY DEF Interrupt
<1>2. /\ head \in Slots /\ tail \in Slots /\ cleaning \in Nat
      /\ NoSlot \notin Slots /\ NextIndex(tail) \in Slots
  BY NeighbourIsSlot DEF Types, TypeOK, NoSlot, Slots
<1>3. head # tail /\ NextIndex(head) # tail => NextIndex(head) # NextIndex(tail)
  BY SizeAssumption DEF Types, TypeOK, Slots, NextIndex
<1> USE <1>1, <1>2 DEF HandOver, FetchFree, CleanIsEmpty, RoomKept, BusyIsTail, has_blocks_queued,
        idxVars, gateVars
<1>4. CASE PulseDiscard
  BY <1>3, <1>4 DEF PulseDiscard, DiscardCurrentBlock
<1>5. CASE PulseStep
  BY <1>5 DEF PulseStep
<1>6. CASE BlockDone
  BY <1>3, <1>6 DEF BlockDone, DiscardCurrentBlock
<1>7. CASE BlockContinues
  BY <1>7 DEF BlockContinues
<1>8. CASE FetchNothing
  BY <1>8 DEF FetchNothing
<1>9. CASE FetchSync
  BY <1>3, <1>9 DEF FetchSync, Deliver, Delivered
<1>10. CASE FetchMove
  BY <1>10 DEF FetchMove, Deliver, Delivered
<1> QED
  BY <1>4, <1>5, <1>6, <1>7, <1>8, <1>9, <1>10 DEF Interrupt

LEMMA CallerHandOver == Types /\ Nested /\ HandOver /\ (Call \/ Continue) => HandOver'
<1> SUFFICES ASSUME Types, Nested, HandOver, Call \/ Continue
             PROVE  HandOver'
  OBVIOUS
<1>1. head \in Slots /\ tail \in Slots /\ NoSlot \notin Slots
  BY DEF Types, TypeOK, NoSlot, Slots
<1>2. moves_free >= 1 => NextIndex(head) # tail
  BY FreeSlot DEF Types
<1> USE <1>1 DEF HandOver, FetchFree, CleanIsEmpty, RoomKept, BusyIsTail, has_blocks_queued,
        Filling, At, Goto, CallerFrame, StopFrame
<1>3. ASSUME NEW p \in Profiles, BufferSteps(p)
      PROVE  HandOver'
  BY <1>3 DEF BufferSteps
<1>4. CASE SetMachinePosition(0) \/ Synchronize \/ QuickStop
  BY <1>4 DEF SetMachinePosition, Synchronize, QuickStop, CutIn, InIdle, WaitSteps
<1>5. CASE GetNextFreeBlock
  BY <1>2, <1>5 DEF GetNextFreeBlock
<1>6. CASE PopulateBlock \/ FillSyncBlock \/ ReloadDelay
  BY <1>6 DEF PopulateBlock, FillSyncBlock, ReloadDelay
<1>7. CASE Publish
  BY <1>7 DEF Publish
<1>8. CASE PlacePosition
  BY <1>8 DEF PlacePosition
<1>9. CASE Synchronized
  BY <1>9 DEF Synchronized
(* The wait for room a stop returns to: the stop has drained. *)
<1>13. CASE SetStepperPosition
  <2>1. UNCHANGED <<head, tail, cleaning, abort, current, isr>> /\ pc = "setpos" /\ Drained
    BY <1>13 DEF SetStepperPosition
  <2>2. pc' \in {"idle"} \cup WaitSteps /\ (pc' = "room" => ~stopHome)
    BY <1>13, ReturnWaits DEF Types, Nested
  <2>3. pc' = "room" => cleaning = 0
    BY <2>1, <2>2 DEF Drained
  <2> QED
    BY <2>1, <2>2, <2>3 DEF WaitSteps, Types, TypeOK
<1>10. CASE DropBlocks
  BY <1>10, BoundAssumption DEF DropBlocks
<1>11. CASE AbortBlock \/ StopSynchronized \/ Resync
  BY <1>11 DEF AbortBlock, StopSynchronized, Resync
<1>12. CASE RecalcNext
  BY <1>12, RecalcFrame DEF PlanningSteps
<1> QED
  BY <1>3, <1>4, <1>5, <1>6, <1>7, <1>8, <1>9, <1>10, <1>11, <1>12, <1>13
     DEF Call, Continue

(* A stop's second does not end while a stopped block is still held.       *)
LEMMA OtherHandOver == Types /\ HandOver /\ (Display \/ OtherInterrupt) => HandOver'
<1> SUFFICES ASSUME Types, HandOver, Display \/ OtherInterrupt
             PROVE  HandOver'
  OBVIOUS
<1> USE DEF HandOver, FetchFree, CleanIsEmpty, RoomKept, BusyIsTail, has_blocks_queued,
        idxVars, stepVars
<1>1. CASE Display
  BY <1>1 DEF Display, StopPrinting, StopHome
<1>2. CASE OtherInterrupt /\ EndstopTriggered
  BY <1>2 DEF OtherInterrupt, EndstopTriggered
<1>3. CASE OtherInterrupt /\ Tick
  BY <1>3 DEF OtherInterrupt, Tick, Types, TypeOK
<1> QED
  BY <1>1, <1>2, <1>3 DEF OtherInterrupt

(* Stops come and return, and nothing is queued while one is in a wait.    *)
LEMMA NestedStep == Types /\ Nested /\ [Next]_vars => Nested'
<1> SUFFICES ASSUME Types, Nested, [Next]_vars
             PROVE  Nested'
  OBVIOUS
<1>1. Len(outer) \in Nat /\ \A k \in 1 .. Len(outer) : outer[k] \in WaitSteps
  BY WaitsTyped DEF Types
<1>2. outer = <<>> <=> Len(outer) = 0
  BY WaitsTyped DEF Types
<1> USE DEF has_blocks_queued, At, Goto
<1>3. ASSUME UNCHANGED <<outer, stopHome>>,
             outer # <<>> => pc' \in StopSteps /\ (pc' = "drop" \/ head' = tail')
      PROVE  Nested'
  BY <1>3 DEF Nested
<1>4. CASE QuickStop
  <2>1. /\ pc' = "drop" /\ UNCHANGED stopHome /\ (pc = "room" => ~stopHome)
    BY <1>4 DEF QuickStop, CutIn, StopFrame, Nested
  <2>2. CASE pc = "idle"
    <3>1. outer' = outer
      BY <1>4, <2>2 DEF QuickStop, CutIn
    <3> QED
      BY <1>3, <2>1, <3>1 DEF StopSteps
  <2>3. CASE pc # "idle"
    <3>1. /\ Len(outer') = Len(outer) + 1 /\ outer'[1] = pc
          /\ \A k \in 1 .. Len(outer) : outer'[k + 1] = outer[k]
          /\ pc \in WaitSteps
      BY <1>4, <2>3, CutInWaits DEF QuickStop, Types
    <3>2. Len(outer) # 0 => pc \in {"drain", "setpos"}
      BY <1>2, <3>1 DEF Nested, StopSteps, WaitSteps
    <3>3. ASSUME NEW k \in 1 .. Len(outer')
          PROVE  /\ k < Len(outer') => outer'[k] \in {"drain", "setpos"}
                 /\ outer'[k] = "room" => ~stopHome
      <4>1. CASE k = 1
        BY <1>1, <2>1, <3>1, <3>2, <4>1
      <4>2. CASE k # 1
        <5>1. k - 1 \in 1 .. Len(outer) /\ outer'[k] = outer[k - 1]
          BY <1>1, <3>1, <4>2
        <5> QED
          BY <1>1, <3>1, <5>1 DEF Nested
      <4> QED
        BY <4>1, <4>2
    <3> QED
      BY <2>1, <3>3 DEF Nested, StopSteps
  <2> QED
    BY <2>2, <2>3
<1>5. CASE SetStepperPosition
  <2>1. UNCHANGED <<head, tail, stopHome>> /\ pc = "setpos"
    BY <1>5 DEF SetStepperPosition, StopFrame
  <2>2. CASE outer = <<>>
    BY <1>3, <1>5, <2>1, <2>2, ReturnWaits DEF Types
  <2>3. CASE outer # <<>>
    <3>1. /\ pc' = outer[1] /\ Len(outer') = Len(outer) - 1 /\ Len(outer) > 0
          /\ outer' \in Seq(WaitSteps)
          /\ \A k \in 1 .. Len(outer') : outer'[k] = outer[k + 1]
      BY <1>5, <2>3, ReturnWaits DEF Types
    <3>2. head = tail
      BY <2>1, <2>3 DEF Nested
    <3>3. outer' # <<>> => pc' \in StopSteps
      <4>1. outer' # <<>> => 1 < Len(outer)
        BY <1>1, <3>1, EmptySeq
      <4> QED
        BY <1>1, <3>1, <4>1 DEF Nested, StopSteps
    <3>4. ASSUME NEW k \in 1 .. Len(outer')
          PROVE  /\ k < Len(outer') => outer'[k] \in {"drain", "setpos"}
                 /\ outer'[k] = "room" => ~stopHome
      BY <1>1, <3>1 DEF Nested
    <3> QED
      BY <2>1, <3>2, <3>3, <3>4 DEF Nested
  <2> QED
    BY <2>2, <2>3
<1>6. CASE Display
  <2>1. UNCHANGED <<outer, pc, head, tail>> /\ (stopHome' => stopHome \/ "room" \notin Suspended)
    BY <1>6 DEF Display, StopPrinting, StopHome, Nested, Types, TypeOK, idxVars
  <2>2. DOMAIN outer = 1 .. Len(outer)
    BY DEF Types, TypeOK
  <2>3. "room" \notin Suspended => \A k \in 1 .. Len(outer) : outer[k] # "room"
    BY <2>2 DEF Suspended
  <2> QED
    BY <2>1, <2>3 DEF Nested
<1>7. CASE Interrupt \/ OtherInterrupt
  <2>1. UNCHANGED <<outer, pc, head, stopHome>> /\ (head = tail => tail' = tail)
    BY <1>7 DEF Interrupt, PulseDiscard, PulseStep, BlockDone, BlockContinues, FetchNothing, FetchSync,
       FetchMove, DiscardCurrentBlock, Deliver, Delivered, OtherInterrupt, EndstopTriggered, Tick,
       idxVars, gateVars, stepVars
  <2> QED
    BY <1>3, <2>1 DEF Nested
<1>8. CASE RecalcNext
  BY <1>3, <1>8, RecalcFrame DEF Nested, StopSteps, PlanningSteps
<1>9. CASE Call /\ ~QuickStop
  BY <1>3, <1>9 DEF Nested, StopSteps, Call, BufferSteps, SetMachinePosition, Synchronize, CallerFrame,
     StopFrame
<1>10. CASE DropBlocks \/ AbortBlock \/ StopSynchronized \/ Resync \/ PlacePosition
  BY <1>3, <1>10 DEF Nested, StopSteps, DropBlocks, AbortBlock, StopSynchronized, Resync, PlacePosition,
     CallerFrame, StopFrame
<1>11. CASE GetNextFreeBlock \/ PopulateBlock \/ FillSyncBlock \/ ReloadDelay \/ Publish \/ Synchronized
  BY <1>3, <1>11 DEF Nested, StopSteps, GetNextFreeBlock, PopulateBlock, FillSyncBlock, ReloadDelay,
     Publish, Synchronized, CallerFrame, StopFrame
<1>12. CASE UNCHANGED vars
  BY <1>3, <1>12 DEF Nested, vars, idxVars, gateVars
<1> QED
  BY <1>4, <1>5, <1>6, <1>7, <1>8, <1>9, <1>10, <1>11, <1>12 DEF Next, Call, Continue

LEMMA HandOverStep == Types /\ Nested /\ HandOver /\ [Next]_vars => HandOver'
<1>1. HandOver /\ UNCHANGED vars => HandOver'
  BY DEF vars, HandOver, FetchFree, CleanIsEmpty, RoomKept, BusyIsTail, has_blocks_queued,
         idxVars, gateVars, stepVars
<1> QED
  BY <1>1, InterruptHandOver, CallerHandOver, OtherHandOver DEF Next

-----------------------------------------------------------------------------
(* A block is not rewritten while it is executed *)

LEMMA RecalcFlag == Types /\ FlagRaised /\ RecalcNext => FlagRaised'
<1> SUFFICES ASSUME Types, FlagRaised, RecalcNext
             PROVE  FlagRaised'
  OBVIOUS
<1>1. current' = current
  BY RecalcFrame
<1>2. /\ recalc \in [Slots -> BOOLEAN]
      /\ bi \in Slots
      /\ pc \in {"trapCheck", "trapWrite", "fwdWrite"} => ref \in Slots
  BY DEF Types, TypeOK, RefDefined
<1> USE <1>1, <1>2 DEF FlagRaised, At, Goto, Return, idxVars, planVars, locVars,
        MarkRecalculate, ClearRecalculate, is_block_busy
<1>3. CASE Recalculate \/ RevStart \/ RevDone
  BY <1>3 DEF Recalculate, RevStart, RevDone
<1>4. CASE RevKernel
  BY <1>4 DEF RevKernel
<1>5. CASE RevCheck
  BY <1>5 DEF RevCheck
<1>6. CASE RevWrite \/ RevStep \/ RevFollow
  BY <1>6 DEF RevWrite, RevStep, RevFollow
<1>7. CASE FwdStart \/ FwdDone \/ FwdLoop
  BY <1>7 DEF FwdStart, FwdDone, FwdLoop
<1>8. CASE FwdKernel
  BY <1>8 DEF FwdKernel
<1>9. CASE FwdCheck
  BY <1>9 DEF FwdCheck
<1>10. CASE FwdWrite \/ FwdMax \/ FwdStep
  BY <1>10 DEF FwdWrite, FwdMax, FwdStep
<1>11. CASE TrapStart \/ TrapTrim \/ TrapStep
  BY <1>11 DEF TrapStart, TrapTrim, TrapStep
<1>12. CASE TrapLoop
  <2>1. TrapDue => ref \in Slots
    BY DEF TrapDue, Types, TypeOK
  <2> QED
    BY <1>12, <2>1 DEF TrapLoop
<1>13. CASE TrapCheck
  BY <1>13 DEF TrapCheck
<1>14. CASE TrapWrite \/ TrapClear
  BY <1>14 DEF TrapWrite, TrapClear
<1> QED
  BY <1>3, <1>4, <1>5, <1>6, <1>7, <1>8, <1>9, <1>10, <1>11, <1>12, <1>13, <1>14 DEF RecalcNext

(* The interrupt takes no flagged block. *)
LEMMA InterruptFlag == Types /\ FlagRaised /\ Interrupt => FlagRaised'
<1> SUFFICES ASSUME Types, FlagRaised, Interrupt
             PROVE  FlagRaised'
  OBVIOUS
<1>1. UNCHANGED <<recalc, pc, bi, ref>>
  BY DEF Interrupt, planVars, locVars
<1>2. /\ bi \in Slots /\ NoSlot \notin Slots
      /\ pc \in {"trapCheck", "trapWrite"} => ref \in Slots
  BY DEF Types, TypeOK, RefDefined, NoSlot, Slots
<1>3. current' \in {current, NoSlot} \/ (current' = tail /\ ~recalc[tail])
  BY DEF Interrupt, PulseDiscard, PulseStep, BlockDone, BlockContinues, FetchNothing, FetchSync,
         FetchMove, Deliver, Delivered, DiscardCurrentBlock
<1> QED
  BY <1>1, <1>2, <1>3 DEF FlagRaised

LEMMA FlagStep == Types /\ FlagRaised /\ [Next]_vars => FlagRaised'
<1> SUFFICES ASSUME Types, FlagRaised, [Next]_vars
             PROVE  FlagRaised'
  OBVIOUS
<1>1. CASE UNCHANGED <<recalc, pc, bi, ref, current>>
  BY <1>1 DEF FlagRaised
<1>2. CASE Call
  BY <1>2 DEF Call, BufferSteps, SetMachinePosition, Synchronize, QuickStop, CutIn, FlagRaised, Goto
<1>3. CASE Continue
  <2>1. CASE RecalcNext
    BY <2>1, RecalcFlag
  <2>2. CASE ~RecalcNext
    <3>1. pc' \in CallerSteps \cup {"recalc"}
      <4>1. SetStepperPosition => pc' \in CallerSteps
        BY ReturnWaits DEF Types, WaitSteps, CallerSteps
      <4> QED
        BY <1>3, <2>2, <4>1 DEF Continue, GetNextFreeBlock, PopulateBlock, FillSyncBlock, ReloadDelay,
         Publish, PlacePosition, Synchronized, DropBlocks, AbortBlock,
         StopSynchronized, Resync, Goto, CallerSteps
    <3> QED
      BY <3>1 DEF FlagRaised, CallerSteps
  <2> QED
    BY <2>1, <2>2
<1>4. CASE Display \/ OtherInterrupt
  BY <1>1, <1>4 DEF Display, OtherInterrupt, EndstopTriggered, Tick, planVars, locVars, stepVars
<1>5. CASE Interrupt
  BY <1>5, InterruptFlag
<1>6. CASE UNCHANGED vars
  BY <1>1, <1>6 DEF vars, planVars, stepVars, locVars
<1> QED
  BY <1>2, <1>3, <1>4, <1>5, <1>6 DEF Next

HeldKept(i) == blk'[i] = blk[i] /\ entry'[i] = entry[i] /\ trap'[i] = trap[i]

(* Callers write only the slot at the head, which is not the one held.     *)
LEMMA CallerKeeps ==
  Types /\ HandOver /\ (Call \/ (Continue /\ ~RecalcNext)) /\ current # NoSlot
    => HeldKept(current)
<1> SUFFICES ASSUME Types, HandOver, Call \/ (Continue /\ ~RecalcNext), current # NoSlot
             PROVE  HeldKept(current)
  OBVIOUS
<1>1. /\ current \in Slots /\ head \in Slots
      /\ pc = "fill" => current # head
  BY DEF Types, TypeOK, HandOver, BusyIsTail, CleanIsEmpty, has_blocks_queued, Filling
<1> USE <1>1 DEF Types, TypeOK, HeldKept, planVars
<1>2. CASE PopulateBlock
  BY <1>2 DEF PopulateBlock, At
<1>3. CASE FillSyncBlock
  BY <1>3 DEF FillSyncBlock, At
<1>4. CASE UNCHANGED <<blk, planVars>>
  BY <1>4
<1> QED
  BY <1>2, <1>3, <1>4 DEF Call, Continue, BufferSteps, SetMachinePosition, Synchronize, QuickStop,
     GetNextFreeBlock, ReloadDelay, Publish, PlacePosition, SetStepperPosition, Synchronized,
     DropBlocks, AbortBlock, StopSynchronized, Resync

(* recalculate() writes only a slot it has seen not to be busy. *)
LEMMA RecalcKeeps ==
  Types /\ FlagRaised /\ RecalcNext /\ current # NoSlot => HeldKept(current)
<1> SUFFICES ASSUME Types, FlagRaised, RecalcNext, current # NoSlot
             PROVE  HeldKept(current)
  OBVIOUS
<1>1. /\ current \in Slots /\ blk' = blk
      /\ pc \in {"revWrite", "fwdWrite"} => current # bi
      /\ pc = "trapWrite" => current # ref
  BY DEF Types, TypeOK, FlagRaised, RecalcNext
<1> USE <1>1 DEF Types, TypeOK, HeldKept, planVars
<1>2. CASE RevWrite
  BY <1>2 DEF RevWrite, At
<1>3. CASE FwdWrite
  BY <1>3 DEF FwdWrite, At
<1>4. CASE TrapWrite
  BY <1>4 DEF TrapWrite, At
<1>5. CASE UNCHANGED <<entry, trap>>
  BY <1>5
<1> QED
  BY <1>2, <1>3, <1>4, <1>5 DEF RecalcNext, Recalculate, RevStart, RevDone, RevKernel, RevCheck,
     RevStep, RevFollow, FwdStart, FwdDone, FwdLoop, FwdKernel, FwdCheck, FwdMax, FwdStep,
     TrapStart, TrapTrim, TrapLoop, TrapCheck, TrapClear, TrapStep

LEMMA HeldStep ==
  Types /\ HandOver /\ FlagRaised /\ [Next]_vars /\ current # NoSlot => HeldKept(current)
<1>1. UNCHANGED <<blk, planVars>> => HeldKept(current)
  BY DEF HeldKept, planVars
<1> QED
  BY <1>1, CallerKeeps, RecalcKeeps
     DEF Next, Continue, Display, Interrupt, OtherInterrupt, vars

-----------------------------------------------------------------------------
(* A block is not executed before it has a trapezoid *)

LEMMA RecalcPlanned == Types /\ HandOver /\ FlagRaised /\ Planned /\ RecalcNext => Planned'
<1> SUFFICES ASSUME Types, HandOver, FlagRaised, Planned, RecalcNext
             PROVE  Planned'
  OBVIOUS
<1>1. UNCHANGED <<head, tail, blk, current>> /\ pc' \in PlanningSteps \cup {"idle"}
  BY RecalcFrame
<1>2. DeliveredPlanned'
  BY <1>1, RecalcKeeps DEF Planned, DeliveredPlanned, HeldKept
<1>3. /\ recalc \in [Slots -> BOOLEAN] /\ trap \in [Slots -> Traps]
      /\ bi \in Slots
      /\ pc \in {"trapCheck", "trapWrite", "trapClear"} => ref \in Slots
      /\ \A i \in Slots : entry[i] \in Nat
  BY DEF Types, TypeOK, RefDefined
<1>4. \A i \in Slots : InQueue(i)' <=> InQueue(i)
  BY <1>1 DEF InQueue, movesplanned
<1>5. SUFFICES /\ \A i \in Slots : blk[i].sync \/ recalc[i] \/ trap[i] # NoTrap
                                     => recalc'[i] \/ trap'[i] # NoTrap \/ blk[i].sync
               /\ pc' = "trapClear" => trap'[ref'] # NoTrap
  <2>1. pc' \notin {"delay", "publish"}
    BY <1>1 DEF PlanningSteps
  <2> QED
    BY <1>1, <1>2, <1>4, <2>1 DEF Planned, PlannedOrFlagged
<1> USE <1>3 DEF At, Goto, Return, idxVars, planVars, locVars,
        MarkRecalculate, ClearRecalculate, is_block_busy
<1>6. CASE RevKernel \/ FwdKernel
  BY <1>6 DEF RevKernel, FwdKernel
<1>7. CASE RevCheck
  <2>1. current = bi => trap[bi] # NoTrap
    BY DEF Planned, DeliveredPlanned, NoSlot, Slots
  <2>2. trap' = trap /\ pc' # "trapClear"
    BY <1>7 DEF RevCheck
  <2>3. \A i \in Slots : recalc[i] => recalc'[i] \/ (i = bi /\ current = bi)
    BY <1>7 DEF RevCheck
  <2> QED
    BY <2>1, <2>2, <2>3
<1>8. CASE FwdCheck
  <2>1. current = bi => trap[bi] # NoTrap
    BY DEF Planned, DeliveredPlanned, NoSlot, Slots
  <2>2. trap' = trap /\ pc' # "trapClear"
    BY <1>8 DEF FwdCheck
  <2>3. \A i \in Slots : recalc[i] => recalc'[i] \/ (i = bi /\ current = bi)
    BY <1>8 DEF FwdCheck
  <2> QED
    BY <2>1, <2>2, <2>3
<1>9. CASE TrapLoop
  BY <1>9 DEF TrapLoop
<1>10. CASE TrapCheck
  BY <1>10 DEF TrapCheck, Planned, DeliveredPlanned, NoSlot, Slots
<1>11. CASE TrapWrite
  <2>1. [initial |-> entry[ref], final |-> IF AtLast THEN 0 ELSE entry[bi]] # NoTrap
    BY <1>11 DEF TrapWrite, NoTrap, Unknown
  <2> QED
    BY <1>11, <2>1 DEF TrapWrite
<1>12. CASE TrapClear
  BY <1>12 DEF TrapClear, Planned, PlannedOrFlagged
<1>13. CASE UNCHANGED <<recalc, trap>> /\ pc' # "trapClear"
  BY <1>13
<1> QED
  BY <1>6, <1>7, <1>8, <1>9, <1>10, <1>11, <1>12, <1>13 DEF RecalcNext, Recalculate, RevStart,
     RevDone, RevWrite, RevStep, RevFollow, FwdStart, FwdDone, FwdLoop, FwdWrite, FwdMax, FwdStep,
     TrapStart, TrapTrim, TrapStep

LEMMA InterruptPlanned == Types /\ HandOver /\ Planned /\ Interrupt => Planned'
<1> SUFFICES ASSUME Types, HandOver, Planned, Interrupt
             PROVE  Planned'
  OBVIOUS
<1>1. UNCHANGED <<head, blk, recalc, trap, pc, ref>>
  BY DEF Interrupt, planVars, locVars, PulseDiscard, PulseStep, BlockDone, BlockContinues,
         FetchNothing, FetchSync, FetchMove, Deliver, idxVars
<1>2. head \in Slots /\ tail \in Slots
  BY DEF Types, TypeOK
<1>3. tail' = tail \/ (head # tail /\ tail' = NextIndex(tail))
  BY DEF Interrupt, PulseDiscard, PulseStep, BlockDone, BlockContinues, FetchNothing, FetchSync,
         FetchMove, Deliver, Delivered, DiscardCurrentBlock, has_blocks_queued, idxVars
<1>4. \A i \in Slots : InQueue(i)' => InQueue(i)
  BY <1>1, <1>2, <1>3, TailAdvance DEF InQueue, movesplanned
<1>5. PlannedOrFlagged'
  BY <1>1, <1>4 DEF Planned, PlannedOrFlagged
<1>6. CASE current' = NoSlot \/ current' = current
  BY <1>1, <1>5, <1>6 DEF Planned, DeliveredPlanned
<1>7. CASE FetchMove
  <2>1. InQueue(tail)
    BY <1>2, <1>7, AheadZero
       DEF FetchMove, Deliver, Delivered, has_blocks_queued, InQueue, movesplanned, Slots
  <2>2. trap[tail] # NoTrap
    BY <1>2, <1>7, <2>1 DEF FetchMove, Deliver, Delivered, Planned, PlannedOrFlagged
  <2> QED
    BY <1>1, <1>5, <1>7, <2>2 DEF FetchMove, Planned, DeliveredPlanned
<1> QED
  BY <1>6, <1>7 DEF Interrupt, PulseDiscard, PulseStep, BlockDone, BlockContinues, FetchNothing,
     FetchSync, DiscardCurrentBlock

LEMMA CallerPlanned ==
  Types /\ HandOver /\ Planned /\ (Call \/ (Continue /\ ~RecalcNext)) => Planned'
<1> SUFFICES ASSUME Types, HandOver, Planned, Call \/ (Continue /\ ~RecalcNext)
             PROVE  Planned'
  OBVIOUS
<1>1. current' = current
  BY DEF Call, Continue, BufferSteps, SetMachinePosition, Synchronize, QuickStop,
     GetNextFreeBlock, PopulateBlock, FillSyncBlock, ReloadDelay, Publish, PlacePosition,
     SetStepperPosition, Synchronized, DropBlocks, AbortBlock, StopSynchronized, Resync, CutIn, CallerFrame, StopFrame
<1>2. DeliveredPlanned'
  BY <1>1, CallerKeeps DEF Planned, DeliveredPlanned, HeldKept
<1>3. /\ head \in Slots /\ tail \in Slots
      /\ blk \in [Slots -> Blocks] /\ recalc \in [Slots -> BOOLEAN] /\ trap \in [Slots -> Traps]
      /\ cmd \in Blocks
  BY DEF Types, TypeOK
<1> USE <1>3 DEF Planned, PlannedOrFlagged, InQueue, movesplanned, At, Goto, CallerFrame, StopFrame, planVars
<1>4. CASE PopulateBlock
  <2>1. /\ UNCHANGED <<head, tail>>
        /\ recalc'[head]
        /\ \A i \in Slots \ {head} : blk'[i] = blk[i] /\ recalc'[i] = recalc[i] /\ trap'[i] = trap[i]
    BY <1>4 DEF PopulateBlock, MarkRecalculate
  <2>2. pc = "fill" /\ pc' = "delay"
    BY <1>4 DEF PopulateBlock
  <2> QED
    BY <1>2, <2>1, <2>2
<1>5. CASE FillSyncBlock
  <2>1. /\ UNCHANGED <<head, tail>>
        /\ blk'[head].sync
        /\ \A i \in Slots \ {head} : blk'[i] = blk[i] /\ recalc'[i] = recalc[i] /\ trap'[i] = trap[i]
    BY <1>5 DEF FillSyncBlock, ClearRecalculate, Blocks
  <2>2. pc = "fill" /\ pc' = "delay"
    BY <1>5 DEF FillSyncBlock
  <2> QED
    BY <1>2, <2>1, <2>2
<1>6. CASE ReloadDelay
  BY <1>2, <1>6 DEF ReloadDelay
<1>7. CASE Publish
  <2>1. NextIndex(head) # tail
    BY <1>7 DEF Publish, HandOver, RoomKept, Filling
  <2>2. \A i \in Slots : InQueue(i)' => InQueue(i) \/ i = head
    BY <1>7, <2>1, HeadAdvance DEF Publish
  <2>3. pc = "publish" /\ pc' \notin {"delay", "publish", "trapClear"} /\ UNCHANGED <<blk, recalc, trap>>
    BY <1>7 DEF Publish
  <2> QED
    BY <1>2, <2>2, <2>3
<1>8. CASE DropBlocks
  <2>1. \A i \in Slots : ~InQueue(i)'
    BY <1>8, AheadZero DEF DropBlocks, Slots
  <2> QED
    BY <1>2, <1>8, <2>1 DEF DropBlocks
<1>9. CASE /\ UNCHANGED <<head, tail, blk, planVars>>
           /\ pc' \notin {"delay", "publish", "trapClear"}
  BY <1>2, <1>9
<1>10. CASE SetStepperPosition
  <2>1. pc' \notin {"delay", "publish", "trapClear"}
    BY <1>10, ReturnWaits DEF Types, WaitSteps
  <2> QED
    BY <1>9, <1>10, <2>1 DEF SetStepperPosition
<1> QED
  BY <1>4, <1>5, <1>6, <1>7, <1>8, <1>9, <1>10 DEF Call, Continue, BufferSteps, SetMachinePosition,
     Synchronize, QuickStop, CutIn, GetNextFreeBlock, PlacePosition, Synchronized,
     AbortBlock, StopSynchronized, Resync

LEMMA PlannedStep ==
  Types /\ HandOver /\ FlagRaised /\ Planned /\ [Next]_vars => Planned'
<1> SUFFICES ASSUME Types, HandOver, FlagRaised, Planned, [Next]_vars
             PROVE  Planned'
  OBVIOUS
<1>1. CASE UNCHANGED <<head, tail, blk, planVars, pc, ref, current>>
  BY <1>1 DEF Planned, PlannedOrFlagged, DeliveredPlanned, InQueue, movesplanned, planVars
<1>2. CASE Display \/ OtherInterrupt \/ UNCHANGED vars
  BY <1>1, <1>2 DEF Display, StopPrinting, StopHome, OtherInterrupt, EndstopTriggered, Tick,
     idxVars, planVars, locVars, stepVars, vars
<1> QED
  BY <1>2, RecalcPlanned, InterruptPlanned, CallerPlanned DEF Next, Continue

-----------------------------------------------------------------------------
(* The theorems *)

LEMMA Inductive == ASSUME ~Overlap PROVE Spec => []IInv
<1>1. Init => Nested /\ HandOver /\ FlagRaised /\ Planned
  <2> SUFFICES ASSUME Init PROVE Nested /\ HandOver /\ FlagRaised /\ Planned
    OBVIOUS
  <2>1. \A i \in Slots : ~InQueue(i)
    BY SizeAssumption, AheadZero DEF Init, InQueue, movesplanned, Slots
  <2> QED
    BY <2>1 DEF Init, Nested, HandOver, FetchFree, CleanIsEmpty, RoomKept, BusyIsTail, FlagRaised, Planned,
       PlannedOrFlagged, DeliveredPlanned, Filling
<1>2. IInv /\ [Next]_vars /\ Types' => IInv'
  BY NestedStep, HandOverStep, FlagStep, PlannedStep DEF IInv
<1>3. Init /\ Types => IInv
  BY <1>1 DEF IInv
<1> QED
  BY <1>2, <1>3, TypesAlways, PTL DEF Spec

(* "Always consider tail busy / read-only" (planner.h:303): the block the  *)
(* stepper executes is the one at the tail, still queued unless a quick    *)
(* stop has emptied the queue and is about to abort it.                    *)
THEOREM ExecutedIsTail == ASSUME ~Overlap PROVE Spec => []BusyIsTail
<1>1. IInv => BusyIsTail
  BY DEF IInv, HandOver
<1> QED
  BY <1>1, Inductive, PTL

(* "No trapezoid calculated? Don't execute yet." (planner.cpp:748).        *)
THEOREM ExecutedIsPlanned == ASSUME ~Overlap PROVE Spec => []DeliveredPlanned
<1>1. IInv => DeliveredPlanned
  BY DEF IInv, Planned
<1> QED
  BY <1>1, Inductive, PTL

(* The stepper interrupt and recalculate() share the ring without a lock,  *)
(* and yet nothing of a block changes while the stepper executes it.       *)
THEOREM ExecutedIsUntouched == ASSUME ~Overlap PROVE Spec => BusyUntouched
<1>1. IInv /\ [Next]_vars =>
        [ current # NoSlot /\ current' = current =>
            /\ blk'[current] = blk[current]
            /\ entry'[current] = entry[current]
            /\ trap'[current] = trap[current] ]_vars
  BY HeldStep DEF IInv, HeldKept
<1> QED
  BY <1>1, Inductive, PTL DEF Spec, BusyUntouched
-----------------------------------------------------------------------------
(* Quick stops *)

(* The stepper is held from before a quick stop drops the queue until it   *)
(* has asked for the abort; a stop inside its wait may release it then.    *)
StopHolds == pc \in {"drop", "abort"} => wait

(* The display may hold the stepper too, but only a quick stop releases it.*)
LEMMA StopHoldsStep == TypeOK /\ StopHolds /\ [Next]_vars => StopHolds'
<1> SUFFICES ASSUME TypeOK, StopHolds, [Next]_vars
             PROVE  StopHolds'
  OBVIOUS
<1> USE DEF StopHolds, At, Goto
<1>1. CASE UNCHANGED <<pc, wait>>
  BY <1>1
<1>2. CASE wait' = wait /\ pc' \notin {"drop", "abort"}
  BY <1>2
<1>3. CASE QuickStop
  BY <1>3 DEF QuickStop, CutIn
<1>4. CASE DropBlocks \/ AbortBlock
  BY <1>4 DEF DropBlocks, AbortBlock
<1>5. CASE StopSynchronized
  BY <1>5 DEF StopSynchronized
<1>6. CASE Display
  BY <1>6 DEF Display, StopPrinting, StopHome
<1>7. CASE RecalcNext
  <2>1. pc' \in PlanningSteps \cup {"idle"} /\ wait' = wait
    BY <1>7, RecalcFrame DEF RecalcNext, gateVars
  <2> QED
    BY <1>2, <2>1 DEF PlanningSteps
<1>8. CASE Interrupt \/ OtherInterrupt
  BY <1>1, <1>8 DEF Interrupt, PulseDiscard, PulseStep, BlockDone, BlockContinues, FetchNothing,
     FetchSync, FetchMove, OtherInterrupt, EndstopTriggered, Tick, gateVars
<1>11. CASE SetStepperPosition
  BY <1>2, <1>11, ReturnWaits DEF SetStepperPosition, WaitSteps
<1>9. CASE Call \/ Continue
  BY <1>2, <1>3, <1>4, <1>5, <1>7, <1>9, <1>11 DEF Call, Continue, BufferSteps, SetMachinePosition,
     Synchronize, GetNextFreeBlock, PopulateBlock, FillSyncBlock, ReloadDelay, Publish,
     PlacePosition, Synchronized, Resync
<1>10. CASE UNCHANGED vars
  BY <1>1, <1>10 DEF vars, gateVars
<1> QED
  BY <1>6, <1>8, <1>9, <1>10 DEF Next
=============================================================================
