-------------------------- MODULE PlannerPassProofs --------------------------
(***************************************************************************)
(* What recalculate() leaves behind, however often the interrupt comes     *)
(* into it: the order of the ring's indices (Look) and trapezoids that can *)
(* be driven (Plan), proved for every ring size, set of moves and number   *)
(* of blocks, sync blocks and stops included, on top of the invariant of   *)
(* PlannerProofs; and speeds that meet from block to block (Flow), where   *)
(* no interrupt comes inside it and no sync block is queued.               *)
(*                                                                         *)
(* The head stands still while the passes run, so a block's place is its   *)
(* distance to the head: the interrupt moves tail and planned index, but   *)
(* no block.                                                               *)
(***************************************************************************)
EXTENDS PlannerProofs

ToHead(i) == Ahead(i, head)

(* A move the ring holds, or held until it was executed. *)
Move(i) == ToHead(i) >= 1 /\ ~blk[i].sync

(* Only sync blocks lie between two slots; the one move follows the other. *)
OnlySync(a, b) ==
  \A c \in Slots : ToHead(b) < ToHead(c) /\ ToHead(c) < ToHead(a) => blk[c].sync
Follows(a, b) == Move(a) /\ Move(b) /\ ToHead(b) < ToHead(a) /\ OnlySync(a, b)

(* The look-ahead's work on a move and the one after it: the planned index *)
(* stands behind every move at its maximum entry speed, and a move reaches *)
(* the entry speed of the next.  While the passes run, a raised flag marks *)
(* what is still to do.                                                    *)
Reaches(a, b) == blk[a].nlen \/ entry[b] <= entry[a] + blk[a].dist
Settled(a, b) == entry[b] # blk[b].max /\ Reaches(a, b)
Pending(a, b) == /\ entry[b] # blk[b].max \/ recalc[b]
                 /\ Reaches(a, b) \/ recalc[a] \/ recalc[b]

(* Pairs the planned index has not passed. *)
Open(a, b) == Follows(a, b) /\ ToHead(a) <= ToHead(planned)

Reverse == {"recalc", "revStart", "revLoop", "revCheck", "revWrite", "revStep", "revFollow",
            "fwdStart"}
Forward == {"fwdLoop", "fwdKernel", "fwdCheck", "fwdWrite", "fwdMax", "fwdStep"}

(* The tail, the first non-busy block and the planned index; while a block *)
(* is executed the planned index is ahead of it.                           *)
Ordered ==
  /\ ToHead(planned) <= ToHead(tail)
  /\ current # NoSlot /\ has_blocks_queued => ToHead(planned) < ToHead(tail)
  /\ nonbusy = IF current # NoSlot /\ has_blocks_queued THEN NextIndex(tail) ELSE tail

(* The forward pass is done with a block. *)
Passed(b) == ToHead(b) > ToHead(bi) \/ (pc = "fwdStep" /\ b = bi)

OpenPending == \A a, b \in Slots : Open(a, b) => Pending(a, b)
OpenSettled == \A a, b \in Slots : Open(a, b) => Settled(a, b)
OpenPassed  == \A a, b \in Slots : Open(a, b) /\ Passed(b) => Settled(a, b)

Pairs ==
  /\ pc \in Reverse => OpenPending
  /\ pc \in Forward => OpenPassed
  /\ pc \notin Reverse \cup Forward => OpenSettled

(* The forward pass knows the move before its block, if the pass has met   *)
(* one; what it has not passed is settled or flagged; and what is flagged  *)
(* has not been taken by the interrupt, nor will it be.                    *)
Before ==
  /\ ref # NoSlot => Move(ref) /\ ToHead(ref) > ToHead(bi) /\ OnlySync(ref, bi)
  /\ ref = NoSlot =>
       \A c \in Slots : ToHead(bi) < ToHead(c) /\ ToHead(c) <= ToHead(planned) => blk[c].sync
Coming(a) == a = ref \/ ToHead(a) <= ToHead(bi)
ToDo == \A a, b \in Slots :
          Follows(a, b) /\ ToHead(b) <= ToHead(bi) /\ Coming(a) => Pending(a, b)
Stuck == \A x \in Slots :
           ToHead(x) >= 1 /\ Coming(x) /\ recalc[x] => ToHead(x) <= ToHead(tail) /\ x # current
Kernel ==
  /\ pc # "fwdLoop" => bi # head
  /\ pc \in {"fwdKernel", "fwdCheck", "fwdWrite", "fwdMax"} => ref # NoSlot /\ ~blk[bi].sync
  /\ pc = "fwdMax" => Reaches(ref, bi) \/ ToHead(planned) <= ToHead(bi)
Pass == pc \in Forward => Before /\ ToDo /\ Stuck /\ Kernel

(* The block that is being added. *)
NewBlock ==
  pc \in {"delay", "publish"} =>
    /\ entry[head] = 0 /\ (blk[head].sync <=> cmd.sync)
    /\ ~blk[head].sync => recalc[head]

Look == Ordered /\ Pairs /\ Pass /\ NewBlock
-----------------------------------------------------------------------------
(* Distances *)

LEMMA Distances ==
  ASSUME head \in Slots
  PROVE  /\ \A i \in Slots : ToHead(i) \in Nat /\ ToHead(i) < Size /\ (ToHead(i) = 0 <=> i = head)
         /\ \A i, j \in Slots : ToHead(i) = ToHead(j) => i = j
         /\ \A i \in Slots : i # head =>
              NextIndex(i) \in Slots /\ ToHead(NextIndex(i)) = ToHead(i) - 1
BY SizeAssumption DEF ToHead, Ahead, Slots, NextIndex

(* Publishing moves every slot but the new head one away from the head.    *)
LEMMA Farther ==
  ASSUME head \in Slots, head' = NextIndex(head)
  PROVE  /\ head' \in Slots /\ head' # head /\ ToHead(head') = Size - 1 /\ Ahead(head', head') = 0
         /\ \A i \in Slots : i # head' => ToHead(i)' = ToHead(i) + 1
BY SizeAssumption DEF ToHead, Ahead, Slots, NextIndex

(* Only one slot is at a distance. *)
LEMMA Places ==
  ASSUME IInv
  PROVE  /\ head \in Slots /\ tail \in Slots /\ planned \in Slots /\ nonbusy \in Slots
         /\ bi \in Slots /\ pl \in Slots /\ hd \in Slots
         /\ current \in Slots \cup {NoSlot} /\ ref \in Slots \cup {NoSlot} /\ NoSlot \notin Slots
         /\ blk \in [Slots -> Blocks] /\ cmd \in Blocks /\ recalc \in [Slots -> BOOLEAN]
         /\ entry \in [Slots -> Nat] /\ trap \in [Slots -> Traps] /\ newv \in Nat
         /\ \A i \in Slots : blk[i].dist \in Nat /\ blk[i].max \in Nat /\ entry[i] \in Nat
         /\ current # NoSlot => current = tail
<1>1. NoSlot \notin Slots
  BY DEF NoSlot, Slots
<1>2. TypeOK /\ BusyIsTail
  BY DEF IInv, Types, HandOver
<1>3. \A i \in Slots : blk[i].dist \in Nat /\ blk[i].max \in Nat /\ entry[i] \in Nat
  BY <1>2 DEF TypeOK, Blocks
<1>4. current # NoSlot => current = tail
  BY <1>2 DEF BusyIsTail
<1> QED
  BY <1>1, <1>2, <1>3, <1>4 DEF TypeOK

(* What the interrupt finds and leaves: the order of the indices, and the  *)
(* planned index no farther from the head than before.                     *)
LEMMA InterruptOrder ==
  ASSUME IInv, Ordered, Interrupt
  PROVE  Ordered' /\ ToHead(planned)' <= ToHead(planned)
<1>1. head' = head
  BY DEF Interrupt, PulseDiscard, PulseStep, BlockDone, BlockContinues, FetchNothing, FetchSync,
         FetchMove, Deliver, idxVars
<1>2. /\ head \in Slots /\ tail \in Slots /\ planned \in Slots /\ NoSlot \notin Slots
      /\ current # NoSlot => current = tail
  BY Places
<1>3. /\ ToHead(planned) \in Nat /\ ToHead(tail) \in Nat /\ (ToHead(tail) = 0 <=> tail = head)
      /\ tail # head => NextIndex(tail) \in Slots /\ ToHead(NextIndex(tail)) = ToHead(tail) - 1
      /\ \A i \in Slots : ToHead(i) = ToHead(tail) => i = tail
  BY <1>2, Distances
<1>4. \A i \in Slots : ToHead(i)' = ToHead(i)
  BY <1>1 DEF ToHead
<1>5. ToHead(planned)' = Ahead(planned', head) /\ ToHead(tail)' = Ahead(tail', head)
  BY <1>1 DEF ToHead
<1> USE <1>1, <1>2, <1>3, <1>5 DEF Ordered, has_blocks_queued
<1>6. CASE PulseDiscard \/ BlockDone
  BY <1>6 DEF PulseDiscard, BlockDone, DiscardCurrentBlock, ToHead
<1>7. CASE PulseStep \/ BlockContinues \/ FetchNothing
  BY <1>7 DEF PulseStep, BlockContinues, FetchNothing, idxVars, ToHead
<1>8. CASE FetchSync
  <2>1. /\ current = NoSlot /\ current' = NoSlot /\ tail # head /\ tail' = NextIndex(tail)
        /\ nonbusy' = NextIndex(tail)
        /\ planned' = IF planned = tail THEN NextIndex(tail) ELSE planned
    BY <1>8 DEF FetchSync, Deliver, Delivered, IInv, HandOver, FetchFree
  <2>2. ToHead(planned)' <= ToHead(planned) /\ ToHead(planned)' <= ToHead(tail)'
    BY <2>1 DEF ToHead
  <2> QED
    BY <2>1, <2>2
<1>9. CASE FetchMove
  <2>1. /\ current = NoSlot /\ current' = tail /\ tail # head /\ tail' = tail
        /\ nonbusy' = NextIndex(tail)
        /\ planned' = IF planned = tail THEN NextIndex(tail) ELSE planned
    BY <1>9 DEF FetchMove, Deliver, Delivered, IInv, HandOver, FetchFree
  <2>2. /\ ToHead(planned)' <= ToHead(planned) /\ ToHead(planned)' < ToHead(tail)'
        /\ ToHead(planned)' <= ToHead(tail)'
    BY <2>1 DEF ToHead
  <2> QED
    BY <2>1, <2>2
<1> QED
  BY <1>6, <1>7, <1>8, <1>9 DEF Interrupt

(* The interrupt touches nothing else the passes rest on. *)
LEMMA InterruptLook == IInv /\ Look /\ Interrupt => Look'
<1> SUFFICES ASSUME IInv, Look, Interrupt
             PROVE  Look'
  OBVIOUS
<1>1. /\ Ordered' /\ ToHead(planned)' <= ToHead(planned)
      /\ UNCHANGED <<head, blk, recalc, entry, pc, bi, ref, cmd>>
  <2>1. UNCHANGED <<head, blk, recalc, entry, pc, bi, ref, cmd>>
    BY DEF Interrupt, PulseDiscard, PulseStep, BlockDone, BlockContinues, FetchNothing, FetchSync,
           FetchMove, Deliver, idxVars, planVars, locVars, userVars
  <2> QED
    BY <2>1, InterruptOrder DEF Look
<1>2. head \in Slots /\ tail \in Slots /\ planned \in Slots /\ bi \in Slots /\ planned' \in Slots
  <2>1. planned' \in Slots
    BY InterruptType DEF IInv, Types, TypeOK
  <2> QED
    BY <2>1, Places
<1>3. /\ \A i \in Slots : ToHead(i)' = ToHead(i) /\ ToHead(i) \in Nat
      /\ ToHead(planned)' \in Nat /\ ToHead(planned) \in Nat /\ ToHead(bi)' = ToHead(bi)
      /\ ToHead(ref)' = ToHead(ref)
  BY <1>1, <1>2, Distances DEF ToHead
<1>4. \A a, b \in Slots : /\ Follows(a, b)' <=> Follows(a, b)
                          /\ Settled(a, b)' <=> Settled(a, b)
                          /\ Pending(a, b)' <=> Pending(a, b)
                          /\ OnlySync(a, b)' <=> OnlySync(a, b)
                          /\ Passed(b)' <=> Passed(b)
                          /\ Coming(a)' <=> Coming(a)
                          /\ Move(a)' <=> Move(a)
  BY <1>1, <1>3 DEF Follows, Settled, Pending, OnlySync, Passed, Coming, Move, Reaches
<1>5. \A a, b \in Slots : Open(a, b)' => Open(a, b)
  BY <1>1, <1>2, <1>3, <1>4 DEF Open
<1>6. Pairs'
  BY <1>1, <1>4, <1>5 DEF Look, Pairs, OpenPending, OpenSettled, OpenPassed
<1>7. ASSUME pc \in Forward
      PROVE  Before' /\ ToDo' /\ Stuck' /\ Kernel'
  <2>0. Before /\ ToDo /\ Stuck /\ Kernel
    BY <1>7 DEF Look, Pass
  <2>1. Before'
    <3>1. ref # NoSlot => (Move(ref)' <=> Move(ref)) /\ (OnlySync(ref, bi)' <=> OnlySync(ref, bi))
      BY <1>1, <1>2, <1>3 DEF Move, OnlySync
    <3> QED
      BY <1>1, <1>2, <1>3, <2>0, <3>1 DEF Before
  <2>2. ToDo'
    BY <1>3, <1>4, <2>0 DEF ToDo
  <2>3. Stuck'
    <3> SUFFICES ASSUME NEW x \in Slots, ToHead(x) >= 1, Coming(x), recalc[x]
                 PROVE  ToHead(x) <= ToHead(tail)' /\ x # current'
      BY <1>1, <1>3, <1>4 DEF Stuck
    <3>1. ToHead(x) <= ToHead(tail) /\ x # current
      BY <2>0 DEF Stuck
    <3>2. /\ tail' = tail \/ (tail' = NextIndex(tail) /\ tail # head /\ x # tail)
          /\ current' \in {current, NoSlot} \/ (current' = tail /\ ~recalc[tail])
      BY <3>1, Places DEF Interrupt, PulseDiscard, PulseStep, BlockDone, BlockContinues, FetchNothing,
         FetchSync, FetchMove, Deliver, Delivered, DiscardCurrentBlock, has_blocks_queued, idxVars
    <3>3. ToHead(x) \in Nat /\ ToHead(tail) \in Nat /\ (ToHead(x) = ToHead(tail) => x = tail)
          /\ (tail # head => ToHead(NextIndex(tail)) = ToHead(tail) - 1)
      BY <1>2, Distances
    <3>4. ToHead(x) <= ToHead(tail)'
      BY <1>1, <3>1, <3>2, <3>3 DEF ToHead
    <3> QED
      BY <3>1, <3>2, <3>4, Places
  <2>4. Kernel'
    <3>1. ToHead(planned) <= ToHead(bi) => ToHead(planned)' <= ToHead(bi)'
      BY <1>1, <1>2, <1>3
    <3>2. Reaches(ref, bi) => Reaches(ref, bi)'
      BY <1>1 DEF Reaches
    <3> QED
      BY <1>1, <2>0, <3>1, <3>2 DEF Kernel
  <2> QED
    BY <2>1, <2>2, <2>3, <2>4
<1> QED
  BY <1>1, <1>6, <1>7 DEF Look, Pass, NewBlock
-----------------------------------------------------------------------------
(* The passes *)

(* Facts of a step of recalculate().                                       *)
LEMMA PassStep ==
  ASSUME IInv, RecalcNext
  PROVE  /\ UNCHANGED <<head, tail, blk, current, cmd>>
         /\ pc' \in PlanningSteps \cup {"idle"} /\ pc' \notin {"delay", "publish"}
         /\ \A i \in Slots : ToHead(i)' = ToHead(i) /\ ToHead(i) \in Nat
         /\ \A a, b \in Slots : Follows(a, b)' <=> Follows(a, b)
         /\ (has_blocks_queued' <=> has_blocks_queued)
<1>1. /\ UNCHANGED <<head, tail, blk, current, cmd>> /\ pc' \in PlanningSteps \cup {"idle"}
  BY RecalcFrame DEF RecalcNext, userVars
<1>2. \A i \in Slots : ToHead(i)' = ToHead(i) /\ ToHead(i) \in Nat
  BY <1>1, Places, Distances DEF ToHead
<1>3. \A a, b \in Slots : Follows(a, b)' <=> Follows(a, b)
  BY <1>1, <1>2 DEF Follows, Move, OnlySync
<1> QED
  BY <1>1, <1>2, <1>3 DEF PlanningSteps, has_blocks_queued

(* The reverse pass raises the flag of every block it changes, and takes   *)
(* none back but that of a block which is being executed.                  *)
LEMMA ReverseLook ==
  IInv /\ Look /\ RecalcNext /\ pc \in Reverse /\ pc' \in Reverse => Look'
<1> SUFFICES ASSUME IInv, Look, RecalcNext, pc \in Reverse, pc' \in Reverse
             PROVE  Look'
  OBVIOUS
<1>1. /\ UNCHANGED <<head, tail, blk, current>>
      /\ \A i \in Slots : ToHead(i)' = ToHead(i) /\ ToHead(i) \in Nat
      /\ \A a, b \in Slots : Follows(a, b)' <=> Follows(a, b)
      /\ (has_blocks_queued' <=> has_blocks_queued)
  BY PassStep
<1>2. /\ bi \in Slots /\ planned \in Slots /\ recalc \in [Slots -> BOOLEAN] /\ entry \in [Slots -> Nat]
      /\ tail \in Slots /\ NoSlot \notin Slots /\ (current # NoSlot => current = tail)
  BY Places
<1>3. UNCHANGED <<planned, nonbusy>>
  BY DEF RecalcNext, Recalculate, RevStart, RevDone, RevKernel, RevCheck, RevWrite, RevStep, RevFollow,
     FwdStart, FwdDone, FwdLoop, FwdKernel, FwdCheck, FwdWrite, FwdMax, FwdStep, TrapStart, TrapTrim,
     TrapLoop, TrapCheck, TrapWrite, TrapClear, TrapStep, idxVars, Reverse, Forward, At, Goto
<1>4. Ordered'
  <2>1. ToHead(planned)' = ToHead(planned) /\ ToHead(tail)' = ToHead(tail)
    BY <1>1, <1>3 DEF ToHead
  <2> QED
    BY <1>1, <1>3, <2>1 DEF Look, Ordered
<1>5. \A a, b \in Slots : Open(a, b)' <=> Open(a, b)
  BY <1>1, <1>3 DEF Open, ToHead
<1>6. OpenPending
  BY DEF Look, Pairs
<1>7. ASSUME NEW a \in Slots, NEW b \in Slots, Open(a, b)
      PROVE  Pending(a, b)'
  <2>1. Pending(a, b) /\ ToHead(b) < ToHead(a) /\ ToHead(a) <= ToHead(planned) /\ ToHead(b) >= 1
    BY <1>6, <1>7 DEF OpenPending, Open, Follows, Move
  <2>2. CASE UNCHANGED <<recalc, entry>>
    BY <1>1, <2>1, <2>2 DEF Pending, Reaches
  <2>3. CASE RevKernel
    BY <1>1, <1>2, <2>1, <2>3 DEF RevKernel, MarkRecalculate, Pending, Reaches
  <2>4. CASE RevCheck
    <3>1. CASE current = bi
      <4>1. bi = tail /\ ToHead(a) \in Nat /\ ToHead(b) \in Nat /\ ToHead(tail) \in Nat
            /\ ToHead(planned) \in Nat
        BY <1>1, <1>2, <3>1
      <4>2. has_blocks_queued
        <5>1. ToHead(planned) <= ToHead(tail)
          BY DEF Look, Ordered
        <5>2. ToHead(tail) # 0
          BY <2>1, <4>1, <5>1
        <5> QED
          BY <5>2, <1>2, Places, Distances DEF has_blocks_queued
      <4>3. ToHead(planned) < ToHead(tail)
        BY <1>2, <3>1, <4>2 DEF Look, Ordered
      <4>4. a # bi /\ b # bi
        BY <2>1, <4>1, <4>3
      <4> QED
        BY <1>1, <1>2, <2>1, <2>4, <4>4 DEF RevCheck, ClearRecalculate, Pending, Reaches
    <3>2. CASE current # bi
      BY <2>2, <2>4, <3>2 DEF RevCheck, is_block_busy
    <3> QED
      BY <3>1, <3>2
  <2>5. CASE RevWrite
    <3>1. recalc[bi] /\ recalc' = recalc
      BY <2>5 DEF IInv, FlagRaised, RevWrite, At
    <3> QED
      BY <1>1, <1>2, <2>1, <2>5, <3>1 DEF RevWrite, Pending, Reaches
  <2> QED
    BY <2>2, <2>3, <2>4, <2>5 DEF RecalcNext, Recalculate, RevStart, RevDone, RevStep, RevFollow,
       FwdStart, FwdDone, FwdLoop, FwdKernel, FwdCheck, FwdWrite, FwdMax, FwdStep, TrapStart,
       TrapTrim, TrapLoop, TrapCheck, TrapWrite, TrapClear, TrapStep, planVars, Reverse, Forward,
       At, Goto
<1>8. pc' \notin {"delay", "publish"} /\ pc' \notin Forward
  BY DEF Reverse, Forward
<1> QED
  BY <1>4, <1>5, <1>7, <1>8 DEF Look, Pairs, OpenPending, Pass, NewBlock

(* The forward pass begins at the planned index.                           *)
LEMMA FwdStartLook == IInv /\ Look /\ RecalcNext /\ FwdStart => Look'
<1> SUFFICES ASSUME IInv, Look, RecalcNext, FwdStart
             PROVE  Look'
  OBVIOUS
<1>1. /\ UNCHANGED <<head, tail, blk, current>>
      /\ \A i \in Slots : ToHead(i)' = ToHead(i) /\ ToHead(i) \in Nat
      /\ \A a, b \in Slots : Follows(a, b)' <=> Follows(a, b)
      /\ (has_blocks_queued' <=> has_blocks_queued)
  BY PassStep
<1>2. /\ pc = "fwdStart" /\ pc' = "fwdLoop" /\ bi' = planned /\ ref' = NoSlot
      /\ UNCHANGED <<planned, nonbusy, recalc, entry>>
  BY DEF FwdStart, At, Goto, idxVars, planVars
<1>3. /\ planned \in Slots /\ tail \in Slots /\ NoSlot \notin Slots
      /\ (current # NoSlot => current = tail)
  BY Places
<1>4. /\ \A i \in Slots : i = head <=> ToHead(i) = 0
      /\ ToHead(planned)' = ToHead(planned) /\ ToHead(tail)' = ToHead(tail)
      /\ ToHead(bi)' = ToHead(planned)
  BY <1>1, <1>2, Places, Distances DEF ToHead
<1>5. Ordered'
  BY <1>1, <1>2, <1>4 DEF Look, Ordered
<1>6. OpenPending
  BY <1>2 DEF Look, Pairs, Reverse
<1>7. OpenPassed'
  <2> SUFFICES ASSUME NEW a \in Slots, NEW b \in Slots, Open(a, b)', Passed(b)'
               PROVE  FALSE
    BY DEF OpenPassed
  <2>1. ToHead(b) < ToHead(a) /\ ToHead(a) <= ToHead(planned) /\ ToHead(b) > ToHead(planned)
    BY <1>1, <1>2, <1>4 DEF Open, Follows, Passed
  <2> QED
    BY <1>1, <1>3, <2>1
<1>8. Before'
  <2>1. \A c \in Slots : ~(ToHead(bi)' < ToHead(c)' /\ ToHead(c)' <= ToHead(planned)')
    BY <1>1, <1>3, <1>4
  <2> QED
    BY <1>2, <2>1 DEF Before
<1>9. ToDo'
  <2> SUFFICES ASSUME NEW a \in Slots, NEW b \in Slots, Follows(a, b), Coming(a)'
               PROVE  Pending(a, b)'
    BY <1>1 DEF ToDo
  <2>1. ToHead(a) <= ToHead(planned)
    BY <1>1, <1>2, <1>3, <1>4 DEF Coming
  <2>2. Pending(a, b)
    BY <1>6, <2>1 DEF OpenPending, Open
  <2> QED
    BY <1>1, <1>2, <2>2 DEF Pending, Reaches
<1>10. Stuck'
  <2> SUFFICES ASSUME NEW x \in Slots, ToHead(x) >= 1, Coming(x)'
               PROVE  ToHead(x) <= ToHead(tail) /\ x # current
    BY <1>1, <1>4 DEF Stuck
  <2>1. ToHead(x) <= ToHead(planned) /\ ToHead(planned) <= ToHead(tail)
    BY <1>1, <1>2, <1>3, <1>4 DEF Coming, Look, Ordered
  <2>2. x = current => has_blocks_queued /\ current = tail
    BY <1>1, <1>3, <1>4, <2>1, Places DEF has_blocks_queued
  <2>3. x = current => ToHead(planned) < ToHead(x)
    BY <1>3, <2>2 DEF Look, Ordered
  <2> QED
    BY <1>1, <1>3, <2>1, <2>3
<1>11. Kernel'
  BY <1>2 DEF Kernel
<1> QED
  BY <1>2, <1>5, <1>7, <1>8, <1>9, <1>10, <1>11 DEF Look, Pairs, Pass, NewBlock, Reverse, Forward

(* What the forward pass knows of its block. *)
LEMMA ForwardFacts ==
  ASSUME IInv, Look, pc \in Forward
  PROVE  /\ OpenPassed /\ Before /\ ToDo /\ Stuck /\ Kernel
         /\ ref # NoSlot /\ bi # head /\ ~blk[bi].sync => Follows(ref, bi) /\ Pending(ref, bi)
         /\ \A a \in Slots : Open(a, bi) => ref # NoSlot /\ a = ref
<1>1. OpenPassed /\ Before /\ ToDo /\ Stuck /\ Kernel
  BY DEF Look, Pairs, Pass, Reverse, Forward
<1>2. /\ bi \in Slots /\ ref \in Slots \cup {NoSlot} /\ head \in Slots
      /\ \A i \in Slots : ToHead(i) \in Nat /\ (ToHead(i) = 0 <=> i = head)
      /\ \A i, j \in Slots : ToHead(i) = ToHead(j) => i = j
  BY Places, Distances
<1>3. ref # NoSlot /\ bi # head /\ ~blk[bi].sync => Follows(ref, bi) /\ Pending(ref, bi)
  <2> SUFFICES ASSUME ref # NoSlot, bi # head, ~blk[bi].sync
               PROVE  Follows(ref, bi) /\ Pending(ref, bi)
    OBVIOUS
  <2>1. Follows(ref, bi)
    BY <1>1, <1>2 DEF Before, Follows, Move
  <2> QED
    BY <1>1, <1>2, <2>1 DEF ToDo, Coming
<1>4. ASSUME NEW a \in Slots, Open(a, bi)
      PROVE  ref # NoSlot /\ a = ref
  <2>1. /\ ToHead(bi) < ToHead(a) /\ ToHead(a) <= ToHead(planned) /\ ~blk[a].sync
        /\ OnlySync(a, bi)
    BY <1>4 DEF Open, Follows, Move
  <2>2. ref # NoSlot
    BY <1>1, <2>1 DEF Before
  <2>3. ref \in Slots /\ ~blk[ref].sync /\ ToHead(bi) < ToHead(ref) /\ OnlySync(ref, bi)
    BY <1>1, <1>2, <2>2 DEF Before, Move
  <2>4. ~(ToHead(a) < ToHead(ref)) /\ ~(ToHead(ref) < ToHead(a))
    BY <2>1, <2>3 DEF OnlySync
  <2> QED
    BY <1>2, <2>2, <2>3, <2>4
<1> QED
  BY <1>1, <1>3, <1>4

(* A step that leaves the blocks, the planned index and the pass's place.  *)
LEMMA ForwardKept ==
  ASSUME IInv, Look, RecalcNext, pc \in Forward,
         UNCHANGED <<planned, nonbusy, entry, bi, ref>>
  PROVE  /\ Ordered' /\ Before'
         /\ \A a, b \in Slots : /\ Open(a, b)' <=> Open(a, b)
                                /\ Settled(a, b)' <=> Settled(a, b)
                                /\ Coming(a)' <=> Coming(a)
         /\ ToHead(bi)' = ToHead(bi) /\ ToHead(planned)' = ToHead(planned)
         /\ recalc' = recalc => ToDo' /\ Stuck'
         /\ Reaches(ref, bi)' <=> Reaches(ref, bi)
<1>1. /\ UNCHANGED <<head, tail, blk, current>>
      /\ \A i \in Slots : ToHead(i)' = ToHead(i) /\ ToHead(i) \in Nat
      /\ \A a, b \in Slots : Follows(a, b)' <=> Follows(a, b)
      /\ (has_blocks_queued' <=> has_blocks_queued)
  BY PassStep
<1>2. /\ ToHead(planned)' = ToHead(planned) /\ ToHead(tail)' = ToHead(tail)
      /\ ToHead(bi)' = ToHead(bi) /\ ToHead(ref)' = ToHead(ref)
  BY <1>1 DEF ToHead
<1>3. Ordered'
  BY <1>1, <1>2 DEF Look, Ordered
<1>4. \A a, b \in Slots : /\ Open(a, b)' <=> Open(a, b)
                          /\ Settled(a, b)' <=> Settled(a, b)
                          /\ Coming(a)' <=> Coming(a)
                          /\ recalc' = recalc => (Pending(a, b)' <=> Pending(a, b))
  BY <1>1, <1>2 DEF Open, Settled, Coming, Pending, Reaches
<1>5. OpenPassed /\ Before /\ ToDo /\ Stuck /\ Kernel
  BY ForwardFacts
<1>6. Before'
  <2>1. ref # NoSlot => (Move(ref)' <=> Move(ref)) /\ (OnlySync(ref, bi)' <=> OnlySync(ref, bi))
    BY <1>1, <1>2 DEF Move, OnlySync
  <2> QED
    BY <1>1, <1>2, <1>5, <2>1 DEF Before
<1>7. ASSUME recalc' = recalc
      PROVE  ToDo' /\ Stuck'
  <2>1. ToDo'
    BY <1>1, <1>2, <1>4, <1>5, <1>7 DEF ToDo
  <2>2. Stuck'
    BY <1>1, <1>2, <1>4, <1>5, <1>7 DEF Stuck
  <2> QED
    BY <2>1, <2>2
<1>8. Reaches(ref, bi)' <=> Reaches(ref, bi)
  BY <1>1 DEF Reaches
<1> QED
  BY <1>2, <1>3, <1>4, <1>6, <1>7, <1>8

(* The kernel is left out for a sync block, for the first move of the      *)
(* pass, and for one behind the executed block: the planned index is ahead *)
(* of what the interrupt executes.                                         *)
LEMMA FwdLoopLook == IInv /\ Look /\ RecalcNext /\ FwdLoop => Look'
<1> SUFFICES ASSUME IInv, Look, RecalcNext, FwdLoop
             PROVE  Look'
  OBVIOUS
<1>1. /\ pc = "fwdLoop" /\ bi # head
      /\ pc' = IF blk[bi].sync \/ ref = NoSlot \/ current = ref THEN "fwdStep" ELSE "fwdKernel"
      /\ UNCHANGED <<planned, nonbusy, recalc, entry, bi, ref, head, blk, current>>
  BY PassStep DEF FwdLoop, At, Goto, idxVars, planVars, locVars, is_block_busy
<1>2. pc \in Forward /\ pc' \in Forward
  BY <1>1 DEF Forward
<1>3. /\ OpenPassed /\ Before
      /\ \A a \in Slots : Open(a, bi) => ref # NoSlot /\ a = ref
  BY <1>2, ForwardFacts
<1>4. /\ Ordered' /\ Before' /\ ToDo' /\ Stuck'
      /\ \A a, b \in Slots : (Open(a, b)' <=> Open(a, b)) /\ (Settled(a, b)' <=> Settled(a, b))
      /\ \A i \in Slots : ToHead(i)' = ToHead(i)
      /\ ToHead(bi)' = ToHead(bi)
  BY <1>1, <1>2, ForwardKept, PassStep
<1>5. /\ bi \in Slots /\ planned \in Slots /\ tail \in Slots /\ NoSlot \notin Slots
      /\ head \in Slots /\ (current # NoSlot => current = tail)
      /\ \A i \in Slots : ToHead(i) \in Nat /\ (ToHead(i) = 0 <=> i = head)
  BY Places, Distances
<1>6. ASSUME pc' = "fwdStep", NEW a \in Slots, Open(a, bi)
      PROVE  FALSE
  <2>1. ~blk[bi].sync /\ ref # NoSlot /\ a = ref /\ ToHead(bi) < ToHead(a)
        /\ ToHead(a) <= ToHead(planned)
    BY <1>3, <1>6 DEF Open, Follows, Move
  <2>2. current = ref /\ current = tail
    BY <1>1, <1>5, <1>6, <2>1
  <2>3. has_blocks_queued
    BY <1>5, <2>1, <2>2 DEF has_blocks_queued
  <2>4. ToHead(planned) < ToHead(tail)
    BY <2>1, <2>2, <2>3 DEF Look, Ordered
  <2> QED
    BY <1>5, <2>1, <2>2, <2>4
<1>7. OpenPassed'
  <2> SUFFICES ASSUME NEW a \in Slots, NEW b \in Slots, Open(a, b), Passed(b)'
               PROVE  Settled(a, b)
    BY <1>4 DEF OpenPassed
  <2>1. ToHead(b) > ToHead(bi) \/ (pc' = "fwdStep" /\ b = bi)
    BY <1>1, <1>4 DEF Passed
  <2>2. b # bi \/ pc' # "fwdStep"
    BY <1>6
  <2> QED
    BY <1>3, <2>1, <2>2 DEF OpenPassed, Passed
<1>8. Kernel'
  BY <1>1 DEF Kernel
<1> QED
  BY <1>1, <1>4, <1>7, <1>8 DEF Look, Pairs, Pass, NewBlock, Reverse, Forward

(* The kernel changes only an entry speed whose flag, or that of the move  *)
(* before it, was up already: so neither was being executed.               *)
LEMMA FwdKernelLook == IInv /\ Look /\ RecalcNext /\ FwdKernel => Look'
<1> SUFFICES ASSUME IInv, Look, RecalcNext, FwdKernel
             PROVE  Look'
  OBVIOUS
<1>1. /\ pc = "fwdKernel"
      /\ IF ForwardChanges THEN recalc' = [recalc EXCEPT ![bi] = TRUE] /\ pc' = "fwdCheck"
         ELSE recalc' = recalc /\ pc' = "fwdMax"
      /\ UNCHANGED <<head, tail, blk, current, planned, nonbusy, entry, bi, ref>>
  BY PassStep DEF FwdKernel, At, Goto, idxVars, MarkRecalculate
<1>2. pc \in Forward /\ pc' \in {"fwdCheck", "fwdMax"}
  BY <1>1 DEF Forward
<1>3. /\ OpenPassed /\ ToDo /\ Stuck /\ Kernel
      /\ ref # NoSlot /\ bi # head /\ ~blk[bi].sync => Follows(ref, bi) /\ Pending(ref, bi)
  BY <1>2, ForwardFacts
<1>4. ref # NoSlot /\ bi # head /\ ~blk[bi].sync /\ Follows(ref, bi) /\ Pending(ref, bi)
  BY <1>1, <1>3 DEF Kernel
<1>5. /\ bi \in Slots /\ planned \in Slots /\ tail \in Slots /\ NoSlot \notin Slots
      /\ head \in Slots /\ (current # NoSlot => current = tail) /\ ref \in Slots
      /\ \A i \in Slots : ToHead(i) \in Nat /\ (ToHead(i) = 0 <=> i = head)
      /\ recalc \in [Slots -> BOOLEAN] /\ entry \in [Slots -> Nat]
      /\ \A i \in Slots : blk[i].dist \in Nat
      /\ \A i, j \in Slots : ToHead(i) = ToHead(j) => i = j
  BY <1>4, Places, Distances
<1>6. /\ Ordered' /\ Before'
      /\ \A a, b \in Slots : /\ Open(a, b)' <=> Open(a, b)
                             /\ Settled(a, b)' <=> Settled(a, b)
                             /\ Coming(a)' <=> Coming(a)
      /\ \A i \in Slots : ToHead(i)' = ToHead(i)
      /\ \A a, b \in Slots : Follows(a, b)' <=> Follows(a, b)
      /\ ToHead(bi)' = ToHead(bi)
      /\ Reaches(ref, bi)' <=> Reaches(ref, bi)
  BY <1>1, <1>2, ForwardKept, PassStep
<1>7. OpenPassed'
  BY <1>1, <1>2, <1>3, <1>6 DEF OpenPassed, Passed
<1>8. ToDo'
  <2>1. \A i \in Slots : recalc[i] => recalc'[i]
    BY <1>1, <1>5
  <2> QED
    BY <1>1, <1>3, <1>6, <2>1 DEF ToDo, Pending, Reaches
<1>9. Reaches(ref, bi) <=> ~ForwardChanges
  BY <1>5 DEF Reaches, ForwardChanges, ForwardEntry
<1>10. Stuck'
  <2>1. CASE ~ForwardChanges
    BY <1>1, <1>2, <2>1, ForwardKept
  <2>2. CASE ForwardChanges
    <3>1. recalc[ref] \/ recalc[bi]
      BY <1>4, <1>9, <2>2 DEF Pending
    <3>2. \E x \in {ref, bi} : ToHead(x) <= ToHead(tail) /\ x # current /\ ToHead(bi) <= ToHead(x)
      BY <1>3, <1>4, <1>5, <3>1 DEF Stuck, Coming, Follows, Move
    <3>3. ToHead(bi) <= ToHead(tail) /\ bi # current
      BY <1>4, <1>5, <3>2 DEF Follows
    <3>4. \A x \in Slots : recalc'[x] => recalc[x] \/ x = bi
      BY <1>1, <1>5, <2>2
    <3>5. ToHead(tail)' = ToHead(tail)
      BY <1>1 DEF ToHead
    <3> QED
      BY <1>1, <1>3, <1>6, <3>3, <3>4, <3>5 DEF Stuck
  <2> QED
    BY <2>1, <2>2
<1>11. Kernel'
  BY <1>1, <1>2, <1>4, <1>6, <1>9 DEF Kernel
<1> QED
  BY <1>2, <1>6, <1>7, <1>8, <1>10, <1>11 DEF Look, Pairs, Pass, NewBlock, Reverse, Forward

(* The pass never meets the executed block once it has raised a flag: the  *)
(* branch that takes the flag back is not reached.                         *)
LEMMA FwdCheckLook == IInv /\ Look /\ RecalcNext /\ FwdCheck => Look'
<1> SUFFICES ASSUME IInv, Look, RecalcNext, FwdCheck
             PROVE  Look'
  OBVIOUS
<1>1. pc = "fwdCheck" /\ pc \in Forward
  BY DEF FwdCheck, At, Forward
<1>2. OpenPassed /\ Stuck /\ Kernel
  BY <1>1, ForwardFacts
<1>3. bi # current
  <2>1. bi # head /\ bi \in Slots /\ recalc[bi]
    BY <1>1, <1>2, Places DEF Kernel, IInv, FlagRaised
  <2>2. ToHead(bi) \in Nat /\ ToHead(bi) >= 1
    BY <2>1, Places, Distances
  <2> QED
    BY <1>2, <2>1, <2>2 DEF Stuck, Coming
<1>4. pc' = "fwdWrite" /\ UNCHANGED <<planned, nonbusy, recalc, entry, bi, ref>>
  BY <1>3 DEF FwdCheck, is_block_busy, Goto, idxVars, locVars
<1>5. /\ Ordered' /\ Before' /\ ToDo' /\ Stuck'
      /\ \A a, b \in Slots : (Open(a, b)' <=> Open(a, b)) /\ (Settled(a, b)' <=> Settled(a, b))
      /\ \A i \in Slots : ToHead(i)' = ToHead(i)
      /\ ToHead(bi)' = ToHead(bi)
  BY <1>1, <1>4, ForwardKept, PassStep
<1>6. OpenPassed'
  BY <1>1, <1>2, <1>4, <1>5 DEF OpenPassed, Passed
<1>7. Kernel'
  BY <1>1, <1>2, <1>4, PassStep DEF Kernel
<1> QED
  BY <1>4, <1>5, <1>6, <1>7 DEF Look, Pairs, Pass, NewBlock, Reverse, Forward

(* The new entry speed and the planned index: the flagged block is ahead   *)
(* of all that the interrupt has.                                          *)
LEMMA FwdWriteLook == IInv /\ Look /\ RecalcNext /\ FwdWrite => Look'
<1> SUFFICES ASSUME IInv, Look, RecalcNext, FwdWrite
             PROVE  Look'
  OBVIOUS
<1>1. /\ pc = "fwdWrite" /\ pc' = "fwdMax" /\ planned' = bi
      /\ entry' = [entry EXCEPT ![bi] = newv]
      /\ UNCHANGED <<head, tail, blk, current, nonbusy, recalc, bi, ref>>
  BY PassStep DEF FwdWrite, At, Goto, locVars
<1>2. pc \in Forward
  BY <1>1 DEF Forward
<1>3. OpenPassed /\ Before /\ ToDo /\ Stuck /\ Kernel
  BY <1>2, ForwardFacts
<1>4. /\ bi \in Slots /\ tail \in Slots /\ planned \in Slots /\ head \in Slots /\ bi # head
      /\ recalc[bi] /\ (current # NoSlot => current = tail)
      /\ entry \in [Slots -> Nat] /\ newv \in Nat
  BY <1>1, <1>3, Places DEF Kernel, IInv, FlagRaised
<1>5. /\ \A i \in Slots : ToHead(i) \in Nat /\ ToHead(i)' = ToHead(i)
      /\ \A i, j \in Slots : ToHead(i) = ToHead(j) => i = j
      /\ ToHead(bi) >= 1 /\ ToHead(bi)' = ToHead(bi) /\ ToHead(tail)' = ToHead(tail)
      /\ ToHead(planned)' = ToHead(bi) /\ ToHead(ref)' = ToHead(ref)
  <2>1. ToHead(bi) >= 1
    BY <1>4, Distances
  <2> QED
    BY <1>1, <1>4, <2>1, Places, Distances, PassStep DEF ToHead
<1>6. ToHead(bi) <= ToHead(tail) /\ bi # current
  BY <1>3, <1>4, <1>5 DEF Stuck, Coming
<1>7. Ordered'
  <2>1. current # NoSlot => ToHead(bi) < ToHead(tail)
    BY <1>4, <1>5, <1>6
  <2>2. has_blocks_queued' <=> has_blocks_queued
    BY PassStep
  <2> QED
    BY <1>1, <1>5, <1>6, <2>1, <2>2 DEF Look, Ordered
<1>8. OpenPassed'
  <2> SUFFICES ASSUME NEW a \in Slots, NEW b \in Slots, Open(a, b)', Passed(b)'
               PROVE  FALSE
    BY DEF OpenPassed
  <2>1. ToHead(b) < ToHead(a) /\ ToHead(a) <= ToHead(bi) /\ ToHead(b) > ToHead(bi)
    BY <1>1, <1>5 DEF Open, Follows, Passed
  <2> QED
    BY <1>4, <1>5, <2>1
<1>9. Before'
  <2>1. ref # NoSlot /\ ref \in Slots
    BY <1>1, <1>3, Places DEF Kernel
  <2>2. (Move(ref)' <=> Move(ref)) /\ (OnlySync(ref, bi)' <=> OnlySync(ref, bi))
    BY <1>1, <1>4, <1>5, <2>1 DEF Move, OnlySync
  <2> QED
    BY <1>1, <1>3, <1>5, <2>1, <2>2 DEF Before
<1>10. ToDo'
  <2> SUFFICES ASSUME NEW a \in Slots, NEW b \in Slots, Follows(a, b), ToHead(b) <= ToHead(bi),
                      Coming(a)
               PROVE  Pending(a, b)'
    BY <1>1, <1>5, PassStep DEF ToDo, Coming
  <2>1. Pending(a, b)
    BY <1>3 DEF ToDo
  <2> QED
    BY <1>1, <1>4, <2>1 DEF Pending, Reaches
<1>11. Stuck'
  BY <1>1, <1>3, <1>5 DEF Stuck, Coming
<1>12. Kernel'
  BY <1>1, <1>3, <1>4, <1>5 DEF Kernel
<1> QED
  BY <1>1, <1>7, <1>8, <1>9, <1>10, <1>11, <1>12 DEF Look, Pairs, Pass, NewBlock, Reverse, Forward

(* A block at its maximum entry speed is flagged if the planned index is   *)
(* behind it; if it is not, its pair is settled.                           *)
LEMMA FwdMaxLook == IInv /\ Look /\ RecalcNext /\ FwdMax => Look'
<1> SUFFICES ASSUME IInv, Look, RecalcNext, FwdMax
             PROVE  Look'
  OBVIOUS
<1>1. /\ pc = "fwdMax" /\ pc' = "fwdStep"
      /\ planned' = IF entry[bi] = blk[bi].max THEN bi ELSE planned
      /\ UNCHANGED <<head, tail, blk, current, nonbusy, recalc, entry, bi, ref>>
  BY PassStep DEF FwdMax, At, Goto, locVars, planVars
<1>2. pc \in Forward
  BY <1>1 DEF Forward
<1>3. /\ OpenPassed /\ Before /\ ToDo /\ Stuck /\ Kernel
      /\ ref # NoSlot /\ bi # head /\ ~blk[bi].sync => Follows(ref, bi) /\ Pending(ref, bi)
      /\ \A a \in Slots : Open(a, bi) => ref # NoSlot /\ a = ref
  BY <1>2, ForwardFacts
<1>4. /\ bi \in Slots /\ tail \in Slots /\ planned \in Slots /\ head \in Slots /\ bi # head
      /\ (current # NoSlot => current = tail) /\ ref \in Slots /\ ref # NoSlot /\ ~blk[bi].sync
      /\ Follows(ref, bi) /\ Pending(ref, bi)
  BY <1>1, <1>3, Places DEF Kernel
<1>5. /\ \A i \in Slots : ToHead(i) \in Nat /\ ToHead(i)' = ToHead(i)
      /\ \A i, j \in Slots : ToHead(i) = ToHead(j) => i = j
      /\ ToHead(bi) >= 1 /\ ToHead(bi)' = ToHead(bi) /\ ToHead(tail)' = ToHead(tail)
      /\ ToHead(ref)' = ToHead(ref)
      /\ ToHead(planned)' = IF entry[bi] = blk[bi].max THEN ToHead(bi) ELSE ToHead(planned)
  <2>1. ToHead(bi) >= 1
    BY <1>4, Distances
  <2> QED
    BY <1>1, <1>4, <2>1, Places, Distances, PassStep DEF ToHead
<1>6. entry[bi] = blk[bi].max => ToHead(bi) <= ToHead(tail) /\ bi # current
  BY <1>3, <1>4, <1>5 DEF Stuck, Coming, Pending
<1>7. Ordered'
  <2>1. has_blocks_queued' <=> has_blocks_queued
    BY PassStep
  <2>2. CASE entry[bi] = blk[bi].max
    <3>1. current # NoSlot => ToHead(bi) < ToHead(tail)
      BY <1>4, <1>5, <1>6, <2>2
    <3> QED
      BY <1>1, <1>5, <1>6, <2>1, <2>2, <3>1 DEF Look, Ordered
  <2>3. CASE entry[bi] # blk[bi].max
    BY <1>1, <1>5, <2>1, <2>3 DEF Look, Ordered
  <2> QED
    BY <2>2, <2>3
<1>8. OpenPassed'
  <2> SUFFICES ASSUME NEW a \in Slots, NEW b \in Slots, Open(a, b)', Passed(b)'
               PROVE  Settled(a, b)
    BY <1>1 DEF OpenPassed, Settled, Reaches
  <2>1. /\ Follows(a, b) /\ ToHead(b) < ToHead(a) /\ ToHead(b) >= ToHead(bi)
        /\ ToHead(a) <= ToHead(planned)'
        /\ ToHead(b) > ToHead(bi) \/ b = bi
    <3>1. Follows(a, b) /\ ToHead(b) < ToHead(a) /\ ToHead(a) <= ToHead(planned)'
      BY <1>5, PassStep DEF Open, Follows
    <3>2. ToHead(b) > ToHead(bi) \/ b = bi
      BY <1>1, <1>5 DEF Passed
    <3> QED
      BY <1>4, <1>5, <3>1, <3>2
  <2>2. entry[bi] # blk[bi].max /\ ToHead(planned)' = ToHead(planned)
    BY <1>4, <1>5, <2>1
  <2>3. Open(a, b)
    BY <2>1, <2>2 DEF Open
  <2>4. CASE ToHead(b) > ToHead(bi)
    BY <1>3, <2>3, <2>4 DEF OpenPassed, Passed
  <2>5. CASE b = bi
    <3>1. a = ref
      BY <1>3, <2>3, <2>5
    <3>2. Reaches(ref, bi)
      BY <1>1, <1>3, <1>4, <1>5, <2>1, <2>2, <2>5, <3>1 DEF Kernel
    <3> QED
      BY <2>2, <2>5, <3>1, <3>2 DEF Settled
  <2> QED
    BY <2>1, <2>4, <2>5
<1>9. Before'
  <2>1. (Move(ref)' <=> Move(ref)) /\ (OnlySync(ref, bi)' <=> OnlySync(ref, bi))
    BY <1>1, <1>4, <1>5 DEF Move, OnlySync
  <2> QED
    BY <1>1, <1>3, <1>4, <1>5, <2>1 DEF Before
<1>10. ToDo'
  BY <1>1, <1>3, <1>5, PassStep DEF ToDo, Coming, Pending, Reaches
<1>11. Stuck'
  BY <1>1, <1>3, <1>5 DEF Stuck, Coming
<1>12. Kernel'
  BY <1>1, <1>4 DEF Kernel
<1> QED
  BY <1>1, <1>7, <1>8, <1>9, <1>10, <1>11, <1>12 DEF Look, Pairs, Pass, NewBlock, Reverse, Forward

(* On to the next block. *)
LEMMA FwdStepLook == IInv /\ Look /\ RecalcNext /\ FwdStep => Look'
<1> SUFFICES ASSUME IInv, Look, RecalcNext, FwdStep
             PROVE  Look'
  OBVIOUS
<1>1. /\ pc = "fwdStep" /\ pc' = "fwdLoop"
      /\ ref' = (IF blk[bi].sync THEN ref ELSE bi) /\ bi' = NextIndex(bi)
      /\ UNCHANGED <<head, tail, blk, current, planned, nonbusy, recalc, entry>>
  BY PassStep DEF FwdStep, At, Goto, idxVars, planVars
<1>2. pc \in Forward
  BY <1>1 DEF Forward
<1>3. OpenPassed /\ Before /\ ToDo /\ Stuck /\ Kernel
  BY <1>2, ForwardFacts
<1>4. /\ bi \in Slots /\ tail \in Slots /\ planned \in Slots /\ head \in Slots /\ bi # head
      /\ ref \in Slots \cup {NoSlot} /\ NoSlot \notin Slots /\ bi' \in Slots
  BY <1>1, <1>3, Places, Distances DEF Kernel
<1>5. /\ \A i \in Slots : ToHead(i) \in Nat /\ ToHead(i)' = ToHead(i)
      /\ \A i, j \in Slots : ToHead(i) = ToHead(j) => i = j
      /\ ToHead(bi) >= 1 /\ ToHead(bi)' = ToHead(bi) - 1 /\ ToHead(tail)' = ToHead(tail)
      /\ ToHead(planned)' = ToHead(planned)
  <2>1. ToHead(bi) >= 1 /\ ToHead(NextIndex(bi)) = ToHead(bi) - 1
    BY <1>4, Distances
  <2> QED
    BY <1>1, <1>4, <2>1, Places, Distances, PassStep DEF ToHead
<1>6. Ordered'
  <2>1. has_blocks_queued' <=> has_blocks_queued
    BY PassStep
  <2> QED
    BY <1>1, <1>5, <2>1 DEF Look, Ordered
<1>7. OpenPassed'
  <2> SUFFICES ASSUME NEW a \in Slots, NEW b \in Slots, Open(a, b)', Passed(b)'
               PROVE  Settled(a, b)
    BY <1>1 DEF OpenPassed, Settled, Reaches
  <2>1. Open(a, b)
    BY <1>1, <1>5, PassStep DEF Open
  <2>2. ToHead(b) > ToHead(bi) - 1
    BY <1>1, <1>5 DEF Passed
  <2>3. ToHead(b) > ToHead(bi) \/ b = bi
    BY <1>4, <1>5, <2>2
  <2> QED
    BY <1>1, <1>3, <2>1, <2>3 DEF OpenPassed, Passed
<1>8. Before'
  <2>1. CASE blk[bi].sync /\ ref # NoSlot
    <3>1. ref' = ref /\ ref \in Slots /\ Move(ref) /\ ToHead(ref) > ToHead(bi) /\ OnlySync(ref, bi)
      BY <1>1, <1>3, <1>4, <2>1 DEF Before
    <3>2. Move(ref)'
      BY <1>1, <1>5, <3>1 DEF Move, ToHead
    <3>3. OnlySync(ref, bi)'
      <4> SUFFICES ASSUME NEW c \in Slots, ToHead(bi) - 1 < ToHead(c), ToHead(c) < ToHead(ref)
                   PROVE  blk[c].sync
        BY <1>1, <1>5, <3>1 DEF OnlySync, ToHead
      <4>1. ToHead(bi) < ToHead(c) \/ c = bi
        BY <1>4, <1>5
      <4> QED
        BY <2>1, <3>1, <4>1 DEF OnlySync
    <3>4. ToHead(ref)' > ToHead(bi)'
      BY <1>1, <1>4, <1>5, <3>1 DEF ToHead
    <3> QED
      BY <2>1, <3>1, <3>2, <3>3, <3>4 DEF Before
  <2>2. CASE blk[bi].sync /\ ref = NoSlot
    <3> SUFFICES ASSUME NEW c \in Slots, ToHead(bi) - 1 < ToHead(c), ToHead(c) <= ToHead(planned)
                 PROVE  blk[c].sync
      BY <1>1, <1>5, <2>2 DEF Before
    <3>1. ToHead(bi) < ToHead(c) \/ c = bi
      BY <1>4, <1>5
    <3> QED
      BY <1>3, <2>2, <3>1 DEF Before
  <2>3. CASE ~blk[bi].sync
    <3>1. ref' = bi /\ ToHead(ref)' = ToHead(bi) /\ ref' # NoSlot
      BY <1>1, <1>4, <2>3 DEF ToHead
    <3>2. Move(ref)'
      BY <1>1, <1>5, <2>3, <3>1 DEF Move
    <3>3. OnlySync(ref, bi)'
      <4> SUFFICES ASSUME NEW c \in Slots, ToHead(bi) - 1 < ToHead(c), ToHead(c) < ToHead(bi)
                   PROVE  FALSE
        BY <1>5, <3>1 DEF OnlySync
      <4> QED
        BY <1>4, <1>5
    <3>4. ToHead(ref)' > ToHead(bi)'
      BY <1>4, <1>5, <3>1
    <3> QED
      BY <3>1, <3>2, <3>3, <3>4 DEF Before
  <2> QED
    BY <1>4, <2>1, <2>2, <2>3
<1>9. ASSUME NEW a \in Slots, Coming(a)'
      PROVE  Coming(a)
  <2>1. a = ref' \/ ToHead(a) <= ToHead(bi) - 1
    BY <1>5, <1>9 DEF Coming
  <2> QED
    BY <1>1, <1>4, <1>5, <2>1 DEF Coming
<1>10. ToDo'
  <2> SUFFICES ASSUME NEW a \in Slots, NEW b \in Slots, Follows(a, b), ToHead(b) <= ToHead(bi) - 1,
                      Coming(a)'
               PROVE  Pending(a, b)
    BY <1>1, <1>5, PassStep DEF ToDo, Pending, Reaches
  <2>1. ToHead(b) <= ToHead(bi)
    BY <1>4, <1>5
  <2> QED
    BY <1>3, <1>9, <2>1 DEF ToDo
<1>11. Stuck'
  BY <1>1, <1>3, <1>5, <1>9 DEF Stuck
<1>12. Kernel'
  BY <1>1 DEF Kernel
<1> QED
  BY <1>1, <1>6, <1>7, <1>8, <1>10, <1>11, <1>12 DEF Look, Pairs, Pass, NewBlock, Reverse, Forward

(* At the head every pair is behind the pass. *)
LEMMA FwdDoneLook == IInv /\ Look /\ RecalcNext /\ FwdDone => Look'
<1> SUFFICES ASSUME IInv, Look, RecalcNext, FwdDone
             PROVE  Look'
  OBVIOUS
<1>1. /\ pc = "fwdLoop" /\ pc' = "trapStart" /\ bi = head
      /\ UNCHANGED <<head, tail, blk, current, planned, nonbusy, recalc, entry, bi, ref>>
  BY PassStep DEF FwdDone, At, Goto, idxVars, planVars, locVars
<1>2. pc \in Forward
  BY <1>1 DEF Forward
<1>3. /\ OpenPassed /\ Ordered' /\ ToHead(bi) = 0
      /\ \A a, b \in Slots : (Open(a, b)' <=> Open(a, b)) /\ (Settled(a, b)' <=> Settled(a, b))
  BY <1>1, <1>2, ForwardFacts, ForwardKept, Places, Distances
<1>4. \A i \in Slots : ToHead(i) \in Nat
  BY Places, Distances
<1>5. OpenSettled
  BY <1>3, <1>4 DEF OpenPassed, OpenSettled, Passed, Open, Follows, Move
<1> QED
  BY <1>1, <1>3, <1>5 DEF Look, Pairs, OpenSettled, Pass, NewBlock, Reverse, Forward

(* Only the block before the head is left: there is nothing to look ahead  *)
(* to.                                                                     *)
LEMMA NoPassLook == IInv /\ Look /\ RecalcNext /\ pc = "recalc" /\ pc' = "trapStart" => Look'
<1> SUFFICES ASSUME IInv, Look, RecalcNext, pc = "recalc", pc' = "trapStart"
             PROVE  Look'
  OBVIOUS
<1>1. /\ planned = PrevIndex(head)
      /\ UNCHANGED <<head, tail, blk, current, planned, nonbusy, recalc, entry>>
  BY PassStep DEF RecalcNext, Recalculate, RevStart, RevDone, RevKernel, RevCheck, RevWrite, RevStep,
     RevFollow, FwdStart, FwdDone, FwdLoop, FwdKernel, FwdCheck, FwdWrite, FwdMax, FwdStep, TrapStart,
     TrapTrim, TrapLoop, TrapCheck, TrapWrite, TrapClear, TrapStep, idxVars, planVars, At, Goto
<1>2. ToHead(planned) = 1
  BY <1>1, Places, SizeAssumption DEF ToHead, Ahead, PrevIndex, Slots
<1>3. Ordered'
  <2>1. (has_blocks_queued' <=> has_blocks_queued)
    BY PassStep
  <2> QED
    BY <1>1, <2>1 DEF Look, Ordered, ToHead
<1>4. OpenSettled'
  <2> SUFFICES ASSUME NEW a \in Slots, NEW b \in Slots, Open(a, b)
               PROVE  FALSE
    BY <1>1, PassStep DEF OpenSettled, Open, ToHead
  <2>1. ToHead(b) < ToHead(a) /\ ToHead(a) <= 1 /\ ToHead(b) >= 1
    BY <1>2 DEF Open, Follows, Move
  <2> QED
    BY <2>1, Places, Distances
<1> QED
  BY <1>3, <1>4 DEF Look, Pairs, Pass, NewBlock, Reverse, Forward

(* The trapezoids touch neither entry speeds nor indices. *)
Trapezoids == {"trapStart", "trapTrim", "trapLoop", "trapCheck", "trapWrite", "trapClear", "trapStep"}

LEMMA TrapLook == IInv /\ Look /\ RecalcNext /\ pc \in Trapezoids => Look'
<1> SUFFICES ASSUME IInv, Look, RecalcNext, pc \in Trapezoids
             PROVE  Look'
  OBVIOUS
<1>1. /\ UNCHANGED <<head, tail, blk, current, planned, nonbusy, entry>>
      /\ pc' \in Trapezoids \cup {"idle"}
  BY PassStep DEF RecalcNext, Recalculate, RevStart, RevDone, RevKernel, RevCheck, RevWrite, RevStep,
     RevFollow, FwdStart, FwdDone, FwdLoop, FwdKernel, FwdCheck, FwdWrite, FwdMax, FwdStep, TrapStart,
     TrapTrim, TrapLoop, TrapCheck, TrapWrite, TrapClear, TrapStep, idxVars, planVars, At, Goto,
     Return, Trapezoids
<1>2. Ordered'
  <2>1. (has_blocks_queued' <=> has_blocks_queued)
    BY PassStep
  <2> QED
    BY <1>1, <2>1 DEF Look, Ordered, ToHead
<1>3. OpenSettled
  BY DEF Look, Pairs, Trapezoids, Reverse, Forward
<1>4. OpenSettled'
  BY <1>1, <1>3, PassStep DEF OpenSettled, Open, Settled, Reaches, ToHead
<1> QED
  BY <1>1, <1>2, <1>4 DEF Look, Pairs, Pass, NewBlock, Trapezoids, Reverse, Forward

LEMMA RecalcLook == IInv /\ Look /\ RecalcNext => Look'
<1> SUFFICES ASSUME IInv, Look, RecalcNext
             PROVE  Look'
  OBVIOUS
<1>1. CASE pc \in Reverse /\ pc' \in Reverse
  BY <1>1, ReverseLook
<1>2. CASE pc \in Trapezoids
  BY <1>2, TrapLook
<1>3. CASE pc \in Reverse /\ pc' \notin Reverse
  <2>1. FwdStart \/ (pc = "recalc" /\ pc' = "trapStart")
    BY <1>3 DEF RecalcNext, Recalculate, RevStart, RevDone, RevKernel, RevCheck, RevWrite, RevStep,
       RevFollow, FwdDone, FwdLoop, FwdKernel, FwdCheck, FwdWrite, FwdMax, FwdStep, TrapStart, TrapTrim,
       TrapLoop, TrapCheck, TrapWrite, TrapClear, TrapStep, At, Goto, Reverse
  <2> QED
    BY <2>1, FwdStartLook, NoPassLook
<1>4. CASE pc \in Forward
  <2>1. FwdDone \/ FwdLoop \/ FwdKernel \/ FwdCheck \/ FwdWrite \/ FwdMax \/ FwdStep
    BY <1>4 DEF RecalcNext, Recalculate, RevStart, RevDone, RevKernel, RevCheck, RevWrite, RevStep,
       RevFollow, FwdStart, TrapStart, TrapTrim, TrapLoop, TrapCheck, TrapWrite, TrapClear, TrapStep, At,
       Forward
  <2> QED
    BY <2>1, FwdDoneLook, FwdLoopLook, FwdKernelLook, FwdCheckLook, FwdWriteLook, FwdMaxLook, FwdStepLook
<1> QED
  BY <1>1, <1>2, <1>3, <1>4, RecalcFrame DEF PlanningSteps, Reverse, Forward, Trapezoids
-----------------------------------------------------------------------------
(* The callers *)

(* Steps that touch nothing the look-ahead rests on. *)
LEMMA QuietLook ==
  IInv /\ Look /\ UNCHANGED <<idxVars, blk, recalc, entry, current>>
  /\ (pc' = pc => UNCHANGED <<bi, ref, cmd>>)
  /\ (pc' # pc => /\ pc' \notin Reverse \cup Forward \cup {"delay", "publish"}
                  /\ pc \notin Reverse \cup Forward)
  => Look'
<1> SUFFICES ASSUME IInv, Look, UNCHANGED <<idxVars, blk, recalc, entry, current>>,
                    pc' = pc => UNCHANGED <<bi, ref, cmd>>,
                    pc' # pc => /\ pc' \notin Reverse \cup Forward \cup {"delay", "publish"}
                                /\ pc \notin Reverse \cup Forward
             PROVE  Look'
  OBVIOUS
<1>1. UNCHANGED <<head, tail, nonbusy, planned, blk, recalc, entry, current>>
  BY DEF idxVars
<1>2. Ordered'
  BY <1>1 DEF Look, Ordered, ToHead, has_blocks_queued
<1>3. \A a, b \in Slots : /\ Open(a, b)' <=> Open(a, b)
                          /\ Settled(a, b)' <=> Settled(a, b)
                          /\ Pending(a, b)' <=> Pending(a, b)
  BY <1>1 DEF Open, Follows, Move, OnlySync, ToHead, Settled, Pending, Reaches
<1>4. CASE pc' # pc
  BY <1>2, <1>3, <1>4 DEF Look, Pairs, OpenSettled, Pass, NewBlock
<1>5. CASE pc' = pc
  <2>1. UNCHANGED <<bi, ref, cmd, pc>>
    BY <1>5
  <2>2. Pairs'
    BY <1>3, <2>1 DEF Look, Pairs, OpenSettled, OpenPending, OpenPassed, Passed, ToHead, Ahead, idxVars
  <2>3. Pass'
    BY <1>1, <2>1 DEF Look, Pass, Before, ToDo, Stuck, Kernel, Coming, Move, OnlySync, Follows,
       Pending, Reaches, ToHead
  <2> QED
    BY <1>1, <1>2, <2>1, <2>2, <2>3 DEF Look, NewBlock
<1> QED
  BY <1>4, <1>5

(* Filling the slot at the head touches no block that has one after it. *)
LEMMA FillLook == IInv /\ Look /\ (PopulateBlock \/ FillSyncBlock) => Look'
<1> SUFFICES ASSUME IInv, Look, PopulateBlock \/ FillSyncBlock
             PROVE  Look'
  OBVIOUS
<1>1. /\ pc = "fill" /\ pc' = "delay"
      /\ UNCHANGED <<head, tail, nonbusy, planned, current, cmd>>
      /\ \A i \in Slots : i # head => blk'[i] = blk[i] /\ entry'[i] = entry[i]
      /\ entry'[head] = 0 /\ blk'[head].sync = cmd.sync /\ (~cmd.sync => recalc'[head])
  BY Places DEF PopulateBlock, FillSyncBlock, CallerFrame, StopFrame, At, Goto, MarkRecalculate, Blocks
<1>2. Ordered'
  BY <1>1 DEF Look, Ordered, ToHead, has_blocks_queued
<1>3. /\ \A i \in Slots : i # head <=> ToHead(i) >= 1
      /\ \A i \in Slots : ToHead(i)' = ToHead(i) /\ ToHead(i) \in Nat
      /\ ToHead(planned)' = ToHead(planned)
  BY <1>1, Places, Distances DEF ToHead
<1>4. OpenSettled
  BY <1>1 DEF Look, Pairs, Reverse, Forward
<1>5. OpenSettled'
  <2> SUFFICES ASSUME NEW a \in Slots, NEW b \in Slots, Open(a, b)'
               PROVE  Settled(a, b)'
    BY DEF OpenSettled
  <2>1. ToHead(a) >= 1 /\ ToHead(b) >= 1
    BY <1>3 DEF Open, Follows, Move
  <2>2. Open(a, b)
    <3>1. Move(a) /\ Move(b) /\ ToHead(b) < ToHead(a) /\ ToHead(a) <= ToHead(planned)
      BY <1>1, <1>3, <2>1 DEF Open, Follows, Move
    <3>2. OnlySync(a, b)
      <4> SUFFICES ASSUME NEW c \in Slots, ToHead(b) < ToHead(c), ToHead(c) < ToHead(a)
                   PROVE  blk[c].sync
        BY DEF OnlySync
      <4>1. ToHead(c) >= 1 /\ blk'[c].sync
        BY <1>3, <2>1 DEF Open, Follows, OnlySync
      <4> QED
        BY <1>1, <1>3, <4>1
    <3> QED
      BY <3>1, <3>2 DEF Open, Follows
  <2> QED
    BY <1>1, <1>3, <1>4, <2>1, <2>2 DEF OpenSettled, Settled, Reaches
<1> QED
  BY <1>1, <1>2, <1>5 DEF Look, Pairs, Pass, NewBlock, Reverse, Forward

(* A new block comes flagged, and with it the pair it makes. *)
LEMMA PublishLook == IInv /\ Look /\ Publish => Look'
<1> SUFFICES ASSUME IInv, Look, Publish
             PROVE  Look'
  OBVIOUS
<1>1. /\ pc = "publish" /\ head' = NextIndex(head) /\ pc' = (IF cmd.sync THEN "idle" ELSE "recalc")
      /\ UNCHANGED <<tail, nonbusy, planned, blk, current, recalc, entry>>
      /\ (blk[head].sync <=> cmd.sync) /\ (~blk[head].sync => recalc[head])
  BY DEF Publish, CallerFrame, StopFrame, At, Goto, planVars, Look, NewBlock
<1>2. /\ head \in Slots /\ tail \in Slots /\ planned \in Slots /\ NextIndex(head) # tail
      /\ current # NoSlot => current = tail
  BY <1>1, Places DEF IInv, HandOver, RoomKept, Filling
<1>3. /\ head' \in Slots /\ head' # head /\ ToHead(head') = Size - 1 /\ Ahead(head', head') = 0
      /\ \A i \in Slots : i # head' => ToHead(i)' = ToHead(i) + 1
  BY <1>1, <1>2, Farther
<1>4. /\ \A i \in Slots : ToHead(i) \in Nat /\ ToHead(i) < Size /\ (ToHead(i) = 0 <=> i = head)
      /\ \A i, j \in Slots : ToHead(i) = ToHead(j) => i = j
  BY <1>2, Distances
<1>5. ToHead(planned) <= ToHead(tail) /\ planned # head' /\ tail # head'
  <2>1. ToHead(planned) <= ToHead(tail) /\ ToHead(tail) # Size - 1
    BY <1>1, <1>2, <1>3, <1>4 DEF Look, Ordered
  <2> QED
    BY <1>1, <1>2, <1>3, <1>4, <2>1, SizeAssumption
<1>6. ToHead(planned)' = ToHead(planned) + 1 /\ ToHead(tail)' = ToHead(tail) + 1
  BY <1>1, <1>2, <1>3, <1>5 DEF ToHead
<1>7. Ordered'
  <2>1. (current # NoSlot) => has_blocks_queued
    <3>1. cleaning \in Nat /\ ~(cleaning > 0)
      BY <1>1 DEF IInv, HandOver, CleanIsEmpty, Filling, Types, TypeOK
    <3> QED
      BY <3>1 DEF IInv, HandOver, BusyIsTail
  <2>2. has_blocks_queued'
    BY <1>1, <1>2 DEF has_blocks_queued
  <2> QED
    BY <1>1, <1>4, <1>5, <1>2, <1>6, <2>1, <2>2 DEF Look, Ordered
<1>8. ASSUME NEW a \in Slots, NEW b \in Slots, Open(a, b)'
      PROVE  /\ a # head' /\ b # head' /\ ToHead(a) <= ToHead(planned) /\ ToHead(b) < ToHead(a)
             /\ ~blk[a].sync /\ ~blk[b].sync
             /\ \A c \in Slots : ToHead(b) < ToHead(c) /\ ToHead(c) < ToHead(a) => blk[c].sync
  <2>1. /\ ToHead(a)' >= 1 /\ ToHead(b)' >= 1 /\ ToHead(b)' < ToHead(a)'
        /\ ToHead(a)' <= ToHead(planned) + 1
        /\ ~blk[a].sync /\ ~blk[b].sync
        /\ \A c \in Slots : ToHead(b)' < ToHead(c)' /\ ToHead(c)' < ToHead(a)' => blk[c].sync
    BY <1>1, <1>6, <1>8 DEF Open, Follows, Move, OnlySync
  <2>2. a # head' /\ b # head'
    BY <1>3, <2>1 DEF ToHead
  <2>3. ToHead(a)' = ToHead(a) + 1 /\ ToHead(b)' = ToHead(b) + 1
    BY <1>3, <2>2
  <2>4. ToHead(a) <= ToHead(planned) /\ ToHead(b) < ToHead(a) /\ ToHead(a) < Size
    BY <1>4, <1>2, <2>1, <2>3
  <2>5. ASSUME NEW c \in Slots, ToHead(b) < ToHead(c), ToHead(c) < ToHead(a)
        PROVE  blk[c].sync
    <3>1. c # head'
      BY <1>3, <1>4, <2>4, <2>5, SizeAssumption
    <3>2. ToHead(c)' = ToHead(c) + 1
      BY <1>3, <3>1
    <3> QED
      BY <1>4, <2>1, <2>3, <2>5, <3>2
  <2> QED
    BY <2>1, <2>2, <2>4, <2>5
<1>9. OpenSettled
  BY <1>1 DEF Look, Pairs, Reverse, Forward
<1>10. ASSUME NEW a \in Slots, NEW b \in Slots, Open(a, b)', b # head
       PROVE  Settled(a, b)
  <2>1. ToHead(b) >= 1 /\ ToHead(a) >= 1
    BY <1>4, <1>8, <1>10
  <2>2. Open(a, b)
    BY <1>8, <1>10, <2>1 DEF Open, Follows, Move, OnlySync
  <2> QED
    BY <1>9, <2>2 DEF OpenSettled
<1>11. ASSUME NEW a \in Slots, NEW b \in Slots, Open(a, b)'
       PROVE  IF cmd.sync THEN Settled(a, b) ELSE Pending(a, b)
  <2>1. CASE b = head
    <3>1. ~cmd.sync /\ recalc[b]
      BY <1>1, <1>8, <1>11, <2>1
    <3> QED
      BY <3>1 DEF Pending
  <2>2. CASE b # head
    BY <1>10, <1>11, <2>2 DEF Settled, Pending
  <2> QED
    BY <2>1, <2>2
<1>12. Pairs'
  BY <1>1, <1>11 DEF Pairs, OpenSettled, OpenPending, Settled, Pending, Reaches, Reverse, Forward
<1> QED
  BY <1>1, <1>7, <1>12 DEF Look, Pass, NewBlock, Forward

(* Dropping the queue leaves no pair. *)
LEMMA DropLook == IInv /\ Look /\ DropBlocks => Look'
<1> SUFFICES ASSUME IInv, Look, DropBlocks
             PROVE  Look'
  OBVIOUS
<1>1. /\ pc' = "abort" /\ head' = tail /\ planned' = tail /\ nonbusy' = tail /\ tail' = tail
      /\ tail \in Slots
  BY Places DEF DropBlocks, Goto
<1>2. ToHead(planned)' = 0 /\ ToHead(tail)' = 0
  BY <1>1 DEF ToHead, Ahead, Slots
<1>3. Ordered'
  BY <1>1, <1>2 DEF Ordered, has_blocks_queued
<1>4. OpenSettled'
  <2>1. \A i \in Slots : ToHead(i)' \in Nat
    BY <1>1, SizeAssumption DEF ToHead, Ahead, Slots
  <2> QED
    BY <1>2, <2>1 DEF OpenSettled, Open, Follows, Move
<1> QED
  BY <1>1, <1>3, <1>4 DEF Look, Pairs, Pass, NewBlock, Reverse, Forward

LEMMA CallerLook == IInv /\ Look /\ (Call \/ Continue) => Look'
<1> SUFFICES ASSUME IInv, Look, Call \/ Continue
             PROVE  Look'
  OBVIOUS
<1> USE DEF CallerFrame, StopFrame, At, Goto, idxVars, planVars, locVars, userVars, Reverse, Forward
<1>1. ASSUME NEW p \in Profiles, BufferSteps(p)
      PROVE  Look'
  BY <1>1, QuietLook DEF BufferSteps
<1>2. CASE SetMachinePosition(0) \/ Synchronize \/ QuickStop
  BY <1>2, QuietLook DEF SetMachinePosition, Synchronize, QuickStop, CutIn, InIdle, WaitSteps
<1>3. CASE GetNextFreeBlock \/ PlacePosition
  BY <1>3, QuietLook DEF GetNextFreeBlock, PlacePosition
<1>10. CASE SetStepperPosition
  <2>1. pc = "setpos" /\ pc' \in {"idle"} \cup WaitSteps
    BY <1>10, ReturnWaits DEF SetStepperPosition, IInv, Types
  <2> QED
    BY <1>10, <2>1, QuietLook DEF SetStepperPosition, WaitSteps
<1>4. CASE Synchronized \/ AbortBlock \/ StopSynchronized \/ Resync
  BY <1>4, QuietLook DEF Synchronized, AbortBlock, StopSynchronized, Resync
<1>5. CASE ReloadDelay
  <2>1. /\ pc = "delay" /\ pc' = "publish"
        /\ UNCHANGED <<idxVars, blk, recalc, entry, current, cmd>>
    BY <1>5 DEF ReloadDelay
  <2>2. \A a, b \in Slots : /\ Open(a, b)' <=> Open(a, b)
                            /\ Settled(a, b)' <=> Settled(a, b)
    BY <2>1 DEF Open, Follows, Move, OnlySync, ToHead, Settled, Reaches
  <2>3. Ordered'
    BY <2>1 DEF Look, Ordered, ToHead, has_blocks_queued
  <2> QED
    BY <2>1, <2>2, <2>3 DEF Look, Pairs, OpenSettled, Pass, NewBlock
<1>6. CASE PopulateBlock \/ FillSyncBlock
  BY <1>6, FillLook
<1>7. CASE Publish
  BY <1>7, PublishLook
<1>8. CASE DropBlocks
  BY <1>8, DropLook
<1>9. CASE RecalcNext
  BY <1>9, RecalcLook
<1> QED
  BY <1>1, <1>2, <1>3, <1>4, <1>5, <1>6, <1>7, <1>8, <1>9, <1>10 DEF Call, Continue

LEMMA LookKept == IInv /\ Look /\ [Next]_vars => Look'
<1> SUFFICES ASSUME IInv, Look, [Next]_vars
             PROVE  Look'
  OBVIOUS
<1>1. CASE Call \/ Continue
  BY <1>1, CallerLook
<1>2. CASE Display \/ OtherInterrupt
  <2>1. UNCHANGED <<idxVars, blk, planVars, current, pc, locVars, userVars>>
    BY <1>2 DEF Display, StopPrinting, StopHome, OtherInterrupt, EndstopTriggered, Tick, stepVars
  <2> QED
    BY <2>1, QuietLook DEF planVars, locVars, userVars
<1>3. CASE Interrupt
  BY <1>3, InterruptLook
<1>4. CASE UNCHANGED vars
  <2>1. UNCHANGED <<idxVars, blk, planVars, current, pc, locVars, userVars>>
    BY <1>4 DEF vars, stepVars
  <2> QED
    BY <2>1, QuietLook DEF planVars, locVars, userVars
<1> QED
  BY <1>1, <1>2, <1>3, <1>4 DEF Next

LEMMA LookAlways == ASSUME ~Overlap PROVE Spec => [](IInv /\ Look)
<1>1. Init => Look
  <2> SUFFICES ASSUME Init PROVE Look
    OBVIOUS
  <2>1. head = 0 /\ tail = 0 /\ nonbusy = 0 /\ planned = 0 /\ current = NoSlot /\ pc = "idle"
    BY DEF Init
  <2>2. ToHead(planned) = 0 /\ ToHead(tail) = 0
    BY <2>1 DEF ToHead, Ahead
  <2>3. \A i \in Slots : ToHead(i) \in Nat
    BY <2>1, SizeAssumption DEF ToHead, Ahead, Slots
  <2>4. OpenSettled
    BY <2>2, <2>3 DEF OpenSettled, Open, Follows, Move
  <2> QED
    BY <2>1, <2>2, <2>4 DEF Look, Ordered, Pairs, Pass, NewBlock, Reverse, Forward
<1> QED
  BY <1>1, Inductive, LookKept, PTL DEF Spec

(* The planned index and the first non-busy one stay between the tail and  *)
(* the head, although the forward pass moves the planned index without     *)
(* looking whether its block has become busy: what it is moved to is       *)
(* flagged, and the interrupt has not passed a flag.                       *)
THEOREM IndicesStayInOrder == ASSUME ~Overlap PROVE Spec => []IndicesInOrder
<1>1. IInv /\ Look => IndicesInOrder
  <2> SUFFICES ASSUME IInv, Look
               PROVE  IndicesInOrder
    OBVIOUS
  <2>1. head \in Slots /\ tail \in Slots /\ planned \in Slots /\ ToHead(planned) <= ToHead(tail)
    BY Places DEF Look, Ordered
  <2>2. Ahead(tail, planned) <= movesplanned
    BY <2>1, SizeAssumption DEF ToHead, Ahead, Slots, movesplanned
  <2>3. nonbusy = tail \/ (has_blocks_queued /\ nonbusy = NextIndex(tail))
    BY DEF Look, Ordered
  <2>4. Ahead(tail, nonbusy) <= movesplanned
    BY <2>1, <2>3, SizeAssumption DEF Ahead, NextIndex, Slots, movesplanned, has_blocks_queued
  <2> QED
    BY <2>2, <2>4 DEF IndicesInOrder
<1> QED
  BY <1>1, LookAlways, PTL
-----------------------------------------------------------------------------
(* What the trapezoids are calculated from *)

(* Moves the stepper has or will have; and one with no move after it.      *)
Waits(i) == Move(i) /\ ToHead(i) <= ToHead(tail)
Last(l)  == \A c \in Slots : 1 <= ToHead(c) /\ ToHead(c) < ToHead(l) => blk[c].sync

(* The planned index is with the first block that is not being executed.   *)
Pushed == \A a \in Slots : ToHead(planned) < ToHead(a) /\ ToHead(a) <= ToHead(tail) => a = current

(* It is at a sync block, or at the head, only where the interrupt has     *)
(* pushed it; and if the reverse pass runs up to another slot than the     *)
(* planned index, the interrupt has pushed it since.                       *)
Pushes ==
  /\ planned = head \/ blk[planned].sync => Pushed
  /\ pc \in {"revLoop", "revCheck", "revWrite"} => pl = planned \/ Pushed

(* Every block respects its junction; one of nominal length has its        *)
(* nominal speed within reach.                                             *)
Own(b) == b.max <= b.nominal /\ (b.nlen => b.nominal <= b.dist)
Limits ==
  /\ \A i \in Slots : entry[i] <= blk[i].max /\ Own(blk[i])
  /\ cmd.nlen => cmd.nominal <= cmd.dist
  /\ cmd.sync => cmd.max = 0

(* A junction is limited by the nominal speed of the move before it, or is *)
(* passed at a speed the machine may start from.                           *)
Linked(a, m) == m <= blk[a].nominal \/ m <= SafeSpeed
Junctions ==
  /\ \A a, b \in Slots : Waits(a) /\ Follows(a, b) => Linked(a, blk[b].max)
  /\ \A a \in Slots : Waits(a) /\ Last(a) =>
       IF pc \in {"delay", "publish"} /\ ~cmd.sync THEN Linked(a, blk[head].max)
       ELSE nominal = blk[a].nominal
  /\ pc \in {"delay", "publish"} /\ ~cmd.sync => nominal = blk[head].nominal

(* A waiting move can slow down to the next one's entry speed, or to a     *)
(* halt if there is none; before the planned index it can also reach it.   *)
Brakes(a, b) == entry[a] <= entry[b] + blk[a].dist
Braking ==
  /\ \A a, b \in Slots : Waits(a) /\ Follows(a, b) => Brakes(a, b)
  /\ \A a \in Slots : Waits(a) /\ Last(a) => entry[a] <= blk[a].dist
Early ==
  \A a, b \in Slots :
    Waits(a) /\ Follows(a, b) /\ a # current /\ ToHead(planned) < ToHead(a) => Reaches(a, b)

(* The passes' references and the speed they have in hand. *)
After == IF ref = NoSlot THEN Last(bi)
         ELSE Move(ref) /\ ToHead(ref) < ToHead(bi) /\ OnlySync(bi, ref)
Backward ==
  /\ pc \in {"revLoop", "revCheck", "revWrite", "revStep", "revFollow"} =>
       bi # head /\ ToHead(bi) <= ToHead(pl) /\ After
  /\ pc \in {"revCheck", "revWrite", "revStep"} => bi # pl
  /\ pc \in {"revCheck", "revWrite"} => newv = ReverseEntry /\ ~blk[bi].sync
Onward == pc \in {"fwdCheck", "fwdWrite"} => newv = ForwardEntry /\ ForwardChanges

(* The trapezoids' reference, and the sync blocks left out at the end.     *)
Trimmed ==
  /\ pc \in {"trapTrim", "trapLoop", "trapCheck", "trapWrite", "trapClear", "trapStep"} =>
       /\ ToHead(hd) <= ToHead(bi)
       /\ \A c \in Slots : 1 <= ToHead(c) /\ ToHead(c) <= ToHead(hd) => blk[c].sync
       /\ ref # NoSlot => Move(ref) /\ ToHead(bi) < ToHead(ref) /\ OnlySync(ref, bi)
  /\ pc \in {"trapCheck", "trapWrite", "trapClear"} => AtLast \/ ~blk[bi].sync
  /\ pc = "trapStep" => ~AtLast

(* Every trapezoid that may be executed can be driven. *)
Drives(i) ==
  LET t == trap[i]
      b == blk[i]
  IN  /\ t.initial <= t.final + b.dist
      /\ t.final <= t.initial + b.dist \/ t.final <= SafeSpeed
      /\ t.initial <= b.max
Trapped ==
  /\ \A i \in Slots : Waits(i) => recalc[i] \/ Drives(i)
  /\ current # NoSlot => Drives(current)
  /\ pc = "trapClear" /\ Waits(ref) => Drives(ref)

Sped  == Pushes /\ Limits /\ Junctions /\ Braking /\ Early
Plan  == Sped /\ Backward /\ Onward /\ Trimmed /\ Trapped
-----------------------------------------------------------------------------
(* Places and types *)

LEMMA Speeds ==
  ASSUME IInv
  PROVE  /\ \A i \in Slots : blk[i].nominal \in Nat /\ blk[i].nlen \in BOOLEAN /\ blk[i].sync \in BOOLEAN
         /\ nominal \in Nat /\ SafeSpeed \in Nat
         /\ cmd.max \in Nat /\ cmd.nominal \in Nat /\ cmd.dist \in Nat
         /\ cmd.nlen \in BOOLEAN /\ cmd.sync \in BOOLEAN
BY BoundAssumption DEF IInv, Types, TypeOK, Blocks

(* The slot before is one farther from the head. *)
LEMMA PreviousPlace ==
  ASSUME head \in Slots, NEW i \in Slots
  PROVE  /\ PrevIndex(i) \in Slots
         /\ ToHead(i) < Size - 1 => ToHead(PrevIndex(i)) = ToHead(i) + 1
BY SizeAssumption DEF ToHead, Ahead, Slots, PrevIndex

(* A move has one next move, and one before it. *)
LEMMA OneNext ==
  ASSUME IInv, NEW a \in Slots, NEW b \in Slots, Follows(a, b)
  PROVE  /\ ~Last(a)
         /\ \A c \in Slots : Follows(a, c) => c = b
         /\ \A c \in Slots : Follows(c, b) => c = a
<1>1. /\ \A i \in Slots : ToHead(i) \in Nat
      /\ \A i, j \in Slots : ToHead(i) = ToHead(j) => i = j
  BY Places, Distances
<1>2. ~Last(a)
  BY <1>1 DEF Last, Follows, Move
<1>3. ASSUME NEW c \in Slots, Follows(a, c)
      PROVE  c = b
  <2>1. ~(ToHead(b) < ToHead(c)) /\ ~(ToHead(c) < ToHead(b))
    BY <1>3 DEF Follows, Move, OnlySync
  <2> QED
    BY <1>1, <2>1
<1>4. ASSUME NEW c \in Slots, Follows(c, b)
      PROVE  c = a
  <2>1. ~(ToHead(a) < ToHead(c)) /\ ~(ToHead(c) < ToHead(a))
    BY <1>4 DEF Follows, Move, OnlySync
  <2> QED
    BY <1>1, <2>1
<1> QED
  BY <1>2, <1>3, <1>4

(* Nothing but the head and the blocks places them. *)
LEMMA SamePlaces ==
  ASSUME IInv, UNCHANGED <<head, blk>>
  PROVE  /\ \A i \in Slots : ToHead(i)' = ToHead(i) /\ ToHead(i) \in Nat /\ ToHead(i) < Size
         /\ \A a, b \in Slots : /\ Follows(a, b)' <=> Follows(a, b)
                                /\ OnlySync(a, b)' <=> OnlySync(a, b)
         /\ \A i \in Slots : (Move(i)' <=> Move(i)) /\ (Last(i)' <=> Last(i))
<1>1. \A i \in Slots : ToHead(i)' = ToHead(i) /\ ToHead(i) \in Nat /\ ToHead(i) < Size
  BY Places, Distances DEF ToHead
<1>2. \A a, b \in Slots : OnlySync(a, b)' <=> OnlySync(a, b)
  BY <1>1 DEF OnlySync
<1>3. \A i \in Slots : Move(i)' <=> Move(i)
  BY <1>1 DEF Move
<1>4. \A i \in Slots : Last(i)' <=> Last(i)
  BY <1>1 DEF Last
<1> QED
  BY <1>1, <1>2, <1>3, <1>4 DEF Follows

(* What the interrupt takes: the tail moves towards the head, the planned  *)
(* index is pushed by the block that is taken.                             *)
LEMMA InterruptMoves ==
  ASSUME IInv, Ordered, Interrupt
  PROVE  /\ UNCHANGED <<head, blk, recalc, entry, trap, pc, locVars, userVars>>
         /\ \A i \in Slots : Waits(i)' => Waits(i)
         /\ \A i \in Slots : Waits(i)' /\ i # current' => i # current
         /\ \A i \in Slots : Waits(i)' /\ i # current' /\ ToHead(planned)' < ToHead(i)
                               => ToHead(planned) < ToHead(i)
         /\ planned' = planned \/ Pushed'
         /\ Pushed => Pushed'
         /\ current' # NoSlot => current' = current \/ (Waits(current') /\ ~recalc[current'])
<1>1. UNCHANGED <<head, blk, recalc, entry, trap, pc, locVars, userVars>>
  BY DEF Interrupt, PulseDiscard, PulseStep, BlockDone, BlockContinues, FetchNothing, FetchSync,
         FetchMove, Deliver, idxVars, planVars
<1>2. /\ head \in Slots /\ tail \in Slots /\ planned \in Slots /\ NoSlot \notin Slots
      /\ current # NoSlot => current = tail
  BY Places
<1>3. /\ ToHead(planned) \in Nat /\ ToHead(tail) \in Nat /\ (ToHead(tail) = 0 <=> tail = head)
      /\ tail # head => NextIndex(tail) \in Slots /\ ToHead(NextIndex(tail)) = ToHead(tail) - 1
      /\ \A i \in Slots : ToHead(i) = ToHead(tail) => i = tail
      /\ \A i \in Slots : ToHead(i)' = ToHead(i) /\ ToHead(i) \in Nat
      /\ \A i \in Slots : Move(i)' <=> Move(i)
  BY <1>1, <1>2, Distances, SamePlaces
<1>4. ToHead(planned)' = Ahead(planned', head) /\ ToHead(tail)' = Ahead(tail', head)
  BY <1>1 DEF ToHead
<1>5. ToHead(planned) <= ToHead(tail)
  BY DEF Ordered
<1>6. CASE PulseDiscard \/ BlockDone
  <2>1. /\ current # NoSlot /\ current' = NoSlot /\ planned' = planned
        /\ tail' = (IF tail # head THEN NextIndex(tail) ELSE tail)
    BY <1>6 DEF PulseDiscard, BlockDone, DiscardCurrentBlock, has_blocks_queued
  <2>2. ToHead(tail)' <= ToHead(tail) /\ ToHead(planned)' = ToHead(planned)
        /\ (tail # head => ToHead(tail)' = ToHead(tail) - 1)
    BY <1>3, <1>4, <2>1 DEF ToHead
  <2>3. \A i \in Slots : Waits(i)' => Waits(i) /\ ToHead(i) < ToHead(tail)
    BY <1>2, <1>3, <2>1, <2>2 DEF Waits, Move
  <2>4. Pushed => Pushed'
    BY <1>2, <1>3, <2>1, <2>2 DEF Pushed
  <2> QED
    BY <1>1, <1>2, <1>3, <2>1, <2>2, <2>3, <2>4
<1>7. CASE PulseStep \/ BlockContinues \/ FetchNothing
  <2>1. UNCHANGED <<planned, tail, current>>
    BY <1>7 DEF PulseStep, BlockContinues, FetchNothing, idxVars
  <2>2. ToHead(tail)' = ToHead(tail) /\ ToHead(planned)' = ToHead(planned)
    BY <1>4, <2>1 DEF ToHead
  <2> QED
    BY <1>1, <1>3, <2>1, <2>2 DEF Waits, Pushed
<1>8. CASE FetchSync
  <2>1. /\ current = NoSlot /\ current' = NoSlot /\ tail # head /\ tail' = NextIndex(tail)
        /\ planned' = IF planned = tail THEN NextIndex(tail) ELSE planned
    BY <1>8 DEF FetchSync, Deliver, Delivered, IInv, HandOver, FetchFree, has_blocks_queued
  <2>2. /\ ToHead(tail)' = ToHead(tail) - 1
        /\ planned = tail => ToHead(planned)' = ToHead(tail)'
        /\ planned # tail => ToHead(planned)' = ToHead(planned)
    BY <1>3, <1>4, <2>1 DEF ToHead
  <2>3. \A i \in Slots : Waits(i)' => Waits(i) /\ ToHead(i) < ToHead(tail)
    BY <1>3, <2>2 DEF Waits
  <2>4. planned' = planned \/ Pushed'
    BY <1>3, <2>1, <2>2 DEF Pushed
  <2>5. Pushed => Pushed'
    <3>1. Pushed /\ planned # tail => FALSE
      BY <1>2, <1>3, <1>5, <2>1 DEF Pushed
    <3> QED
      BY <1>3, <2>1, <2>2, <3>1 DEF Pushed
  <2>6. \A i \in Slots : Waits(i)' /\ ToHead(planned)' < ToHead(i) => ToHead(planned) < ToHead(i)
    BY <1>3, <2>1, <2>2, <2>3 DEF Waits
  <2> QED
    BY <1>1, <1>2, <1>3, <2>1, <2>3, <2>4, <2>5, <2>6
<1>9. CASE FetchMove
  <2>1. /\ current = NoSlot /\ current' = tail /\ tail # head /\ tail' = tail
        /\ planned' = IF planned = tail THEN NextIndex(tail) ELSE planned
        /\ ~recalc[tail] /\ ~blk[tail].sync
    BY <1>9 DEF FetchMove, Deliver, Delivered, IInv, HandOver, FetchFree, has_blocks_queued
  <2>2. /\ ToHead(tail)' = ToHead(tail)
        /\ planned = tail => ToHead(planned)' = ToHead(tail) - 1
        /\ planned # tail => ToHead(planned)' = ToHead(planned)
    BY <1>3, <1>4, <2>1 DEF ToHead
  <2>3. \A i \in Slots : Waits(i)' => Waits(i)
    BY <1>3, <2>2 DEF Waits
  <2>4. planned' = planned \/ Pushed'
    BY <1>3, <2>1, <2>2 DEF Pushed
  <2>5. Pushed => Pushed'
    <3>1. Pushed /\ planned # tail => FALSE
      BY <1>2, <1>3, <1>5, <2>1 DEF Pushed
    <3> QED
      BY <1>3, <2>1, <2>2, <3>1 DEF Pushed
  <2>6. \A i \in Slots : Waits(i)' /\ i # current' /\ ToHead(planned)' < ToHead(i)
                           => ToHead(planned) < ToHead(i)
    BY <1>3, <2>1, <2>2, <2>3 DEF Waits
  <2>7. Waits(tail)
    BY <1>2, <1>3, <2>1 DEF Waits, Move
  <2> QED
    BY <1>1, <1>2, <1>3, <2>1, <2>3, <2>4, <2>5, <2>6, <2>7
<1> QED
  BY <1>6, <1>7, <1>8, <1>9 DEF Interrupt

(* The interrupt keeps the plan. *)
LEMMA InterruptPlan == IInv /\ Look /\ Plan /\ Interrupt => Plan'
<1> SUFFICES ASSUME IInv, Look, Plan, Interrupt
             PROVE  Plan'
  OBVIOUS
<1>1. /\ UNCHANGED <<head, blk, recalc, entry, trap, pc, bi, pl, ref, hd, newv, cmd, nominal>>
      /\ \A i \in Slots : Waits(i)' => Waits(i)
      /\ \A i \in Slots : Waits(i)' /\ i # current' => i # current
      /\ \A i \in Slots : Waits(i)' /\ i # current' /\ ToHead(planned)' < ToHead(i)
                            => ToHead(planned) < ToHead(i)
      /\ planned' = planned \/ Pushed'
      /\ Pushed => Pushed'
      /\ current' # NoSlot => current' = current \/ (Waits(current') /\ ~recalc[current'])
  BY InterruptMoves DEF Look, locVars, userVars
<1>2. /\ \A i \in Slots : ToHead(i)' = ToHead(i)
      /\ \A a, b \in Slots : /\ Follows(a, b)' <=> Follows(a, b)
                             /\ OnlySync(a, b)' <=> OnlySync(a, b)
      /\ \A i \in Slots : (Move(i)' <=> Move(i)) /\ (Last(i)' <=> Last(i))
      /\ bi \in Slots /\ ref \in Slots \cup {NoSlot} /\ hd \in Slots /\ pl \in Slots
      /\ planned \in Slots /\ head \in Slots
      /\ current' \in Slots \cup {NoSlot}
  <2>1. current' \in Slots \cup {NoSlot}
    BY InterruptType DEF IInv, Types, TypeOK
  <2> QED
    BY <1>1, <2>1, SamePlaces, Places
<1>3. Pushes /\ Limits /\ Junctions /\ Braking /\ Early /\ Backward /\ Onward /\ Trimmed /\ Trapped
  BY DEF Plan, Sped
<1>4. Pushes'
  BY <1>1, <1>3 DEF Pushes
<1>5. Limits'
  BY <1>1, <1>3 DEF Limits, Own
<1>6. Junctions'
  BY <1>1, <1>2, <1>3 DEF Junctions, Linked
<1>7. Braking'
  BY <1>1, <1>2, <1>3 DEF Braking, Brakes
<1>8. Early'
  BY <1>1, <1>2, <1>3 DEF Early, Reaches
<1>9. Backward'
  <2>1. After' <=> After
    BY <1>1, <1>2 DEF After, ToHead, Move, OnlySync, Last
  <2>2. ReverseEntry' = ReverseEntry
    BY <1>1 DEF ReverseEntry, minSpeed
  <2> QED
    BY <1>1, <1>2, <1>3, <2>1, <2>2 DEF Backward
<1>10. Onward'
  BY <1>1, <1>3 DEF Onward, ForwardEntry, ForwardChanges
<1>11. Trimmed'
  <2>1. ref # NoSlot => /\ Move(ref)' <=> Move(ref)
                        /\ ToHead(ref)' = ToHead(ref)
                        /\ OnlySync(ref, bi)' <=> OnlySync(ref, bi)
    BY <1>1, <1>2 DEF ToHead, Move, OnlySync
  <2>2. ToHead(bi)' = ToHead(bi) /\ ToHead(hd)' = ToHead(hd)
    BY <1>1 DEF ToHead
  <2> QED
    BY <1>1, <1>2, <1>3, <2>1, <2>2 DEF Trimmed, AtLast
<1>12. Trapped'
  <2>1. \A i : Drives(i)' <=> Drives(i)
    BY <1>1 DEF Drives
  <2>2. \A i \in Slots : Waits(i)' => recalc[i] \/ Drives(i)
    BY <1>1, <1>3 DEF Trapped
  <2>3. current' # NoSlot => Drives(current')
    BY <1>1, <1>2, <1>3 DEF Trapped
  <2>4. pc = "trapClear" /\ Waits(ref)' => Drives(ref)
    <3>1. pc = "trapClear" => ref \in Slots
      BY DEF IInv, Types, RefDefined
    <3> QED
      BY <1>1, <1>3, <3>1 DEF Trapped, Waits, Move, ToHead
  <2> QED
    BY <1>1, <2>1, <2>2, <2>3, <2>4 DEF Trapped, Drives, Waits, Move, ToHead
<1> QED
  BY <1>4, <1>5, <1>6, <1>7, <1>8, <1>9, <1>10, <1>11, <1>12 DEF Plan, Sped

(* A step of the passes that changes neither an entry speed nor an index.  *)
LEMMA StillPlan ==
  ASSUME IInv, Look, Plan, RecalcNext, UNCHANGED <<planned, entry>>
  PROVE  /\ Limits' /\ Junctions' /\ Braking' /\ Early'
         /\ planned' = head' \/ blk'[planned'].sync => Pushed'
         /\ Pushed => Pushed'
         /\ UNCHANGED <<head, tail, blk, current, cmd>>
         /\ \A i \in Slots : Waits(i)' <=> Waits(i)
<1>1. /\ UNCHANGED <<head, tail, blk, current, cmd, nominal>>
      /\ pc \notin {"delay", "publish"} /\ pc' \notin {"delay", "publish"}
  BY PassStep, RecalcFrame DEF RecalcNext, userVars, PlanningSteps
<1>2. /\ \A i \in Slots : ToHead(i)' = ToHead(i)
      /\ \A a, b \in Slots : Follows(a, b)' <=> Follows(a, b)
      /\ \A i \in Slots : (Move(i)' <=> Move(i)) /\ (Last(i)' <=> Last(i))
  BY <1>1, SamePlaces
<1>3. ToHead(planned)' = ToHead(planned) /\ ToHead(tail)' = ToHead(tail)
  BY <1>1 DEF ToHead
<1>4. \A i \in Slots : Waits(i)' <=> Waits(i)
  BY <1>2, <1>3 DEF Waits
<1>5. Pushed' <=> Pushed
  BY <1>1, <1>2, <1>3 DEF Pushed
<1>6. Pushes /\ Limits /\ Junctions /\ Braking /\ Early
  BY DEF Plan, Sped
<1>7. Limits'
  BY <1>1, <1>6 DEF Limits, Own
<1>8. Junctions'
  BY <1>1, <1>2, <1>4, <1>6 DEF Junctions, Linked
<1>9. Braking'
  BY <1>1, <1>2, <1>4, <1>6 DEF Braking, Brakes
<1>10. Early'
  BY <1>1, <1>2, <1>3, <1>4, <1>6 DEF Early, Reaches
<1>11. planned' = head' \/ blk'[planned'].sync => Pushed'
  BY <1>1, <1>5, <1>6 DEF Pushes
<1> QED
  BY <1>1, <1>4, <1>5, <1>7, <1>8, <1>9, <1>10, <1>11

(* And one that leaves flags and trapezoids as well, or raises a flag.     *)
LEMMA RaisedTraps ==
  ASSUME IInv, Look, Plan, RecalcNext, UNCHANGED <<planned, entry, trap>>,
         \A i \in Slots : recalc[i] => recalc'[i], pc' # "trapClear"
  PROVE  Trapped'
<1>1. /\ UNCHANGED <<blk, current>> /\ current \in Slots \cup {NoSlot}
      /\ \A i \in Slots : Waits(i)' <=> Waits(i)
  BY StillPlan, Places
<1>2. Trapped
  BY DEF Plan
<1> QED
  BY <1>1, <1>2 DEF Trapped, Drives

(* The reverse pass. *)
LEMMA RevStartPlan == IInv /\ Look /\ Plan /\ RecalcNext /\ (Recalculate \/ RevStart) => Plan'
<1> SUFFICES ASSUME IInv, Look, Plan, RecalcNext, Recalculate \/ RevStart
             PROVE  Plan'
  OBVIOUS
<1> USE DEF At, Goto, idxVars, planVars, locVars
<1>1. UNCHANGED <<planned, entry, recalc, trap>>
  BY DEF Recalculate, RevStart
<1>2. pc' \in {"revStart", "trapStart", "fwdStart", "revLoop"}
  BY DEF Recalculate, RevStart
<1>3. /\ Limits' /\ Junctions' /\ Braking' /\ Early'
      /\ planned' = head' \/ blk'[planned'].sync => Pushed'
      /\ head' = head /\ Trapped'
  BY <1>1, <1>2, StillPlan, RaisedTraps
<1>4. pc' = "revLoop" => pl' = planned
  BY DEF Recalculate, RevStart
<1>5. Backward'
  <2> SUFFICES ASSUME pc' = "revLoop"
               PROVE  bi' # head' /\ ToHead(bi)' <= ToHead(pl)' /\ After'
    BY <1>2 DEF Backward
  <2>1. bi' = PrevIndex(head) /\ pl' = planned /\ ref' = NoSlot /\ planned # head
    BY DEF Recalculate, RevStart
  <2>2. head \in Slots /\ planned \in Slots /\ ToHead(head) = 0 /\ ToHead(planned) >= 1
    BY <2>1, Places, Distances
  <2>3. ToHead(PrevIndex(head)) = 1 /\ PrevIndex(head) \in Slots
    BY <2>2, PreviousPlace, SizeAssumption
  <2>4. bi' # head'
    BY <1>3, <2>1, <2>2, <2>3
  <2>5. ToHead(bi)' = 1 /\ ToHead(pl)' = ToHead(planned)
    BY <1>3, <2>1, <2>3 DEF ToHead
  <2>6. \A i \in Slots : ToHead(i)' \in Nat
    BY <1>3, Places, Distances DEF ToHead
  <2>7. Last(bi)'
    BY <2>5, <2>6 DEF Last
  <2> QED
    BY <2>1, <2>2, <2>4, <2>5, <2>7 DEF After
<1>6. Onward' /\ Trimmed'
  BY <1>2 DEF Onward, Trimmed
<1> QED
  BY <1>1, <1>2, <1>3, <1>4, <1>5, <1>6 DEF Plan, Sped, Pushes

LEMMA RevKernelPlan == IInv /\ Look /\ Plan /\ RecalcNext /\ (RevKernel \/ RevDone) => Plan'
<1> SUFFICES ASSUME IInv, Look, Plan, RecalcNext, RevKernel \/ RevDone
             PROVE  Plan'
  OBVIOUS
<1> USE DEF At, Goto, idxVars, planVars, locVars
<1>1. UNCHANGED <<planned, entry, trap, bi, pl, ref>>
  BY DEF RevKernel, RevDone
<1>2. /\ pc = "revLoop" /\ pc' \in {"revCheck", "revStep", "fwdStart"}
      /\ pc' # "fwdStart" => bi # pl
      /\ pc' = "revCheck" => newv' = ReverseEntry /\ ~blk[bi].sync
  BY DEF RevKernel, RevDone
<1>3. \A i \in Slots : recalc[i] => recalc'[i]
  BY Places DEF RevKernel, RevDone, MarkRecalculate
<1>4. /\ Limits' /\ Junctions' /\ Braking' /\ Early'
      /\ planned' = head' \/ blk'[planned'].sync => Pushed'
      /\ Pushed => Pushed'
      /\ UNCHANGED <<head, tail, blk, current>> /\ Trapped'
  BY <1>1, <1>2, <1>3, StillPlan, RaisedTraps
<1>5. Pushes'
  BY <1>1, <1>2, <1>4 DEF Plan, Sped, Pushes
<1>6. Backward'
  <2>1. bi # head /\ ToHead(bi) <= ToHead(pl) /\ After
    BY <1>2 DEF Plan, Backward
  <2>2. After' /\ ToHead(bi)' = ToHead(bi) /\ ToHead(pl)' = ToHead(pl)
    BY <1>1, <1>4, <2>1 DEF After, Last, Move, OnlySync, ToHead
  <2>3. ReverseEntry' = ReverseEntry
    BY <1>1, <1>4 DEF ReverseEntry, minSpeed
  <2> QED
    BY <1>1, <1>2, <1>4, <2>1, <2>2, <2>3 DEF Backward
<1>7. Onward' /\ Trimmed'
  BY <1>2 DEF Onward, Trimmed
<1> QED
  BY <1>4, <1>5, <1>6, <1>7 DEF Plan, Sped

(* Only the executed block's flag is taken back. *)
LEMMA RevCheckPlan == IInv /\ Look /\ Plan /\ RecalcNext /\ RevCheck => Plan'
<1> SUFFICES ASSUME IInv, Look, Plan, RecalcNext, RevCheck
             PROVE  Plan'
  OBVIOUS
<1> USE DEF At, Goto, idxVars, planVars, locVars
<1>1. UNCHANGED <<planned, entry, trap, bi, pl, ref, newv>>
  BY DEF RevCheck
<1>2. pc = "revCheck" /\ pc' \in {"revWrite", "revStep"}
  BY DEF RevCheck
<1>3. recalc' = recalc \/ (current = bi /\ recalc' = [recalc EXCEPT ![bi] = FALSE])
  BY DEF RevCheck, is_block_busy, ClearRecalculate
<1>4. /\ Limits' /\ Junctions' /\ Braking' /\ Early'
      /\ planned' = head' \/ blk'[planned'].sync => Pushed'
      /\ Pushed => Pushed'
      /\ UNCHANGED <<head, tail, blk, current>>
      /\ \A i \in Slots : Waits(i)' <=> Waits(i)
  BY <1>1, StillPlan
<1>5. Pushes'
  BY <1>1, <1>2, <1>4 DEF Plan, Sped, Pushes
<1>6. Backward'
  <2>1. bi # head /\ ToHead(bi) <= ToHead(pl) /\ After /\ bi # pl /\ newv = ReverseEntry /\ ~blk[bi].sync
    BY <1>2 DEF Plan, Backward
  <2>2. After' /\ ToHead(bi)' = ToHead(bi) /\ ToHead(pl)' = ToHead(pl)
    BY <1>1, <1>4, <2>1 DEF After, Last, Move, OnlySync, ToHead
  <2>3. ReverseEntry' = ReverseEntry
    BY <1>1, <1>4 DEF ReverseEntry, minSpeed
  <2> QED
    BY <1>1, <1>2, <1>4, <2>1, <2>2, <2>3 DEF Backward
<1>7. Trapped'
  <2>1. /\ Trapped /\ current \in Slots \cup {NoSlot} /\ NoSlot \notin Slots /\ bi \in Slots
        /\ recalc \in [Slots -> BOOLEAN]
    BY Places DEF Plan
  <2>2. \A i \in Slots : Waits(i) => recalc'[i] \/ Drives(i)
    BY <1>3, <2>1 DEF Trapped
  <2> QED
    BY <1>1, <1>2, <1>4, <2>1, <2>2 DEF Trapped, Drives
<1>8. Onward' /\ Trimmed'
  BY <1>2 DEF Onward, Trimmed
<1> QED
  BY <1>4, <1>5, <1>6, <1>7, <1>8 DEF Plan, Sped

LEMMA RevStepPlan == IInv /\ Look /\ Plan /\ RecalcNext /\ RevStep => Plan'
<1> SUFFICES ASSUME IInv, Look, Plan, RecalcNext, RevStep
             PROVE  Plan'
  OBVIOUS
<1> USE DEF At, Goto, idxVars, planVars, locVars
<1>1. /\ UNCHANGED <<planned, entry, recalc, trap, pl>>
      /\ ref' = (IF blk[bi].sync THEN ref ELSE bi) /\ bi' = PrevIndex(bi)
      /\ pc = "revStep" /\ pc' = "revFollow"
  BY DEF RevStep
<1>2. /\ Limits' /\ Junctions' /\ Braking' /\ Early'
      /\ planned' = head' \/ blk'[planned'].sync => Pushed'
      /\ UNCHANGED <<head, tail, blk, current>> /\ Trapped'
  BY <1>1, StillPlan, RaisedTraps
<1>3. bi # head /\ ToHead(bi) <= ToHead(pl) /\ After /\ bi # pl
  BY <1>1 DEF Plan, Backward
<1>4. /\ bi \in Slots /\ pl \in Slots /\ head \in Slots /\ NoSlot \notin Slots
      /\ ref \in Slots \cup {NoSlot}
      /\ \A i \in Slots : ToHead(i) \in Nat /\ ToHead(i) < Size /\ ToHead(i)' = ToHead(i)
      /\ \A i, j \in Slots : ToHead(i) = ToHead(j) => i = j
      /\ ToHead(bi) >= 1 /\ (ToHead(head) = 0)
  BY <1>2, <1>3, Places, Distances DEF ToHead
<1>5. /\ ToHead(bi) < ToHead(pl) /\ bi' \in Slots
      /\ ToHead(bi)' = ToHead(bi) + 1 /\ ToHead(pl)' = ToHead(pl)
  <2>1. ToHead(bi) < ToHead(pl) /\ ToHead(bi) < Size - 1
    BY <1>3, <1>4, SizeAssumption
  <2>2. PrevIndex(bi) \in Slots /\ ToHead(PrevIndex(bi)) = ToHead(bi) + 1
    BY <1>4, <2>1, PreviousPlace
  <2> QED
    BY <1>1, <1>2, <2>1, <2>2 DEF ToHead
<1>6. \A c \in Slots : ToHead(c) < ToHead(bi) + 1 => ToHead(c) < ToHead(bi) \/ c = bi
  BY <1>4
<1>7. After'
  <2>1. CASE blk[bi].sync /\ ref = NoSlot
    BY <1>1, <1>2, <1>3, <1>4, <1>5, <1>6, <2>1 DEF After, Last
  <2>2. CASE blk[bi].sync /\ ref # NoSlot
    <3>1. /\ ref' = ref /\ ref \in Slots /\ Move(ref) /\ ToHead(ref) < ToHead(bi) /\ OnlySync(bi, ref)
          /\ ToHead(ref)' = ToHead(ref)
      BY <1>1, <1>2, <1>3, <1>4, <2>2 DEF After, ToHead
    <3>2. OnlySync(bi, ref)'
      BY <1>1, <1>2, <1>4, <1>5, <1>6, <2>2, <3>1 DEF OnlySync
    <3>3. Move(ref)'
      BY <1>1, <1>2, <3>1 DEF Move
    <3> QED
      BY <1>4, <1>5, <2>2, <3>1, <3>2, <3>3 DEF After
  <2>3. CASE ~blk[bi].sync
    <3>1. ref' = bi /\ ref' # NoSlot /\ ToHead(ref)' = ToHead(bi)
      BY <1>1, <1>2, <1>4, <2>3 DEF ToHead
    <3>2. OnlySync(bi, ref)'
      BY <1>4, <1>5, <3>1 DEF OnlySync
    <3>3. Move(ref)'
      BY <1>2, <1>4, <2>3, <3>1 DEF Move
    <3> QED
      BY <1>4, <1>5, <3>1, <3>2, <3>3 DEF After
  <2> QED
    BY <2>1, <2>2, <2>3
<1>8. Backward'
  <2>1. bi' # head'
    BY <1>2, <1>4, <1>5 DEF ToHead
  <2> QED
    BY <1>1, <1>4, <1>5, <1>7, <2>1 DEF Backward
<1>9. Onward' /\ Trimmed' /\ Pushes'
  BY <1>1, <1>2 DEF Onward, Trimmed, Pushes
<1> QED
  BY <1>2, <1>8, <1>9 DEF Plan, Sped

LEMMA RevFollowPlan == IInv /\ Look /\ Plan /\ RecalcNext /\ RevFollow => Plan'
<1> SUFFICES ASSUME IInv, Look, Plan, RecalcNext, RevFollow
             PROVE  Plan'
  OBVIOUS
<1> USE DEF At, Goto, idxVars, planVars, locVars
<1>1. /\ UNCHANGED <<planned, entry, recalc, trap, bi, ref>>
      /\ pc = "revFollow" /\ pc' \in {"revLoop", "fwdStart", "revFollow"}
      /\ pc' = "revLoop" => pl = planned /\ pl' = pl
      /\ pc' = "revFollow" => bi # pl /\ pl' = NextIndex(pl)
  BY DEF RevFollow
<1>2. /\ Limits' /\ Junctions' /\ Braking' /\ Early'
      /\ planned' = head' \/ blk'[planned'].sync => Pushed'
      /\ UNCHANGED <<head, tail, blk, current>> /\ Trapped'
  BY <1>1, StillPlan, RaisedTraps
<1>3. bi # head /\ ToHead(bi) <= ToHead(pl) /\ After
  BY <1>1 DEF Plan, Backward
<1>4. After' /\ ToHead(bi)' = ToHead(bi)
  BY <1>1, <1>2, <1>3 DEF After, Last, Move, OnlySync, ToHead
<1>5. pc' = "revFollow" => ToHead(bi) <= ToHead(pl)'
  <2> SUFFICES ASSUME pc' = "revFollow"
               PROVE  ToHead(bi) <= ToHead(pl)'
    OBVIOUS
  <2>1. bi \in Slots /\ pl \in Slots /\ head \in Slots
    BY Places
  <2>2. /\ ToHead(bi) < ToHead(pl) /\ ToHead(bi) \in Nat /\ ToHead(pl) \in Nat
        /\ ToHead(NextIndex(pl)) = ToHead(pl) - 1
    BY <1>1, <1>3, <2>1, Distances
  <2>3. ToHead(pl)' = ToHead(pl) - 1
    BY <1>1, <1>2, <2>2 DEF ToHead
  <2> QED
    BY <2>2, <2>3
<1>6. pc' = "revLoop" => ToHead(bi) <= ToHead(pl)'
  BY <1>1, <1>2, <1>3 DEF ToHead
<1>7. Backward'
  BY <1>1, <1>2, <1>3, <1>4, <1>5, <1>6 DEF Backward
<1>8. Onward' /\ Trimmed' /\ Pushes'
  BY <1>1, <1>2 DEF Onward, Trimmed, Pushes
<1> QED
  BY <1>2, <1>7, <1>8 DEF Plan, Sped

(* The entry speed only rises, to what the block can brake from.           *)
LEMMA RevWritePlan == IInv /\ Look /\ Plan /\ RecalcNext /\ RevWrite => Plan'
<1> SUFFICES ASSUME IInv, Look, Plan, RecalcNext, RevWrite
             PROVE  Plan'
  OBVIOUS
<1>1. /\ UNCHANGED <<planned, recalc, trap, bi, pl, ref, head, tail, blk, current, cmd, nominal>>
      /\ entry' = [entry EXCEPT ![bi] = newv]
      /\ pc = "revWrite" /\ pc' = "revStep"
  BY PassStep DEF RevWrite, At, Goto, idxVars, locVars, RecalcNext, userVars
<1>2. /\ Pushes /\ Limits /\ Junctions /\ Braking /\ Early /\ Trapped
      /\ bi # head /\ ToHead(bi) <= ToHead(pl) /\ After /\ bi # pl
      /\ newv = ReverseEntry /\ ~blk[bi].sync
  BY <1>1 DEF Plan, Sped, Backward
<1>3. /\ bi \in Slots /\ pl \in Slots /\ planned \in Slots /\ head \in Slots /\ tail \in Slots
      /\ NoSlot \notin Slots /\ ref \in Slots \cup {NoSlot} /\ entry \in [Slots -> Nat] /\ newv \in Nat
      /\ \A i \in Slots : blk[i].dist \in Nat /\ blk[i].max \in Nat /\ entry[i] \in Nat
      /\ \A i \in Slots : blk[i].nominal \in Nat /\ blk[i].nlen \in BOOLEAN
  BY Places, Speeds
<1>4. /\ \A i \in Slots : ToHead(i) \in Nat /\ (ToHead(i) = 0 <=> i = head)
      /\ \A i, j \in Slots : ToHead(i) = ToHead(j) => i = j
      /\ Move(bi)
  BY <1>2, <1>3, Distances DEF Move
<1>5. /\ \A i \in Slots : ToHead(i)' = ToHead(i)
      /\ \A a, b \in Slots : Follows(a, b)' <=> Follows(a, b)
      /\ \A i \in Slots : (Move(i)' <=> Move(i)) /\ (Last(i)' <=> Last(i))
      /\ ToHead(planned)' = ToHead(planned) /\ ToHead(tail)' = ToHead(tail)
  BY <1>1, SamePlaces DEF ToHead
<1>6. \A i \in Slots : Waits(i)' <=> Waits(i)
  BY <1>5 DEF Waits
<1>7. IF ref = NoSlot THEN Last(bi) ELSE Follows(bi, ref) /\ ~Last(bi)
  BY <1>2, <1>3, <1>4, OneNext DEF After, Follows
<1>8. /\ entry[bi] <= blk[bi].max /\ blk[bi].max <= blk[bi].nominal
      /\ blk[bi].nlen => blk[bi].nominal <= blk[bi].dist
  BY <1>2, <1>3 DEF Limits, Own
<1>9. /\ newv <= blk[bi].max
      /\ blk[bi].nlen => newv <= blk[bi].dist /\ newv = blk[bi].max
      /\ ~blk[bi].nlen => newv = minSpeed(blk[bi].max, (IF ref = NoSlot THEN 0 ELSE entry[ref]) + blk[bi].dist)
  BY <1>2, <1>3, <1>8 DEF ReverseEntry, minSpeed
<1>10. Waits(bi) => entry[bi] <= newv
  <2>1. CASE ref = NoSlot
    BY <1>2, <1>3, <1>7, <1>8, <1>9, <2>1 DEF Braking, minSpeed
  <2>2. CASE ref # NoSlot
    BY <1>2, <1>3, <1>7, <1>8, <1>9, <2>2 DEF Braking, Brakes, minSpeed
  <2> QED
    BY <2>1, <2>2
<1>11. ASSUME NEW b \in Slots, Follows(bi, b)
       PROVE  newv <= entry[b] + blk[bi].dist
  <2>1. ref # NoSlot /\ b = ref
    BY <1>3, <1>7, <1>11, OneNext
  <2> QED
    BY <1>3, <1>9, <2>1 DEF minSpeed
<1>12. Last(bi) => newv <= blk[bi].dist
  BY <1>3, <1>7, <1>9 DEF minSpeed
<1>13. Limits'
  BY <1>1, <1>2, <1>3, <1>9 DEF Limits, Own
<1>14. Junctions'
  BY <1>1, <1>2, <1>5, <1>6 DEF Junctions, Linked
<1>15. Braking'
  <2>1. ASSUME NEW a \in Slots, NEW b \in Slots, Waits(a), Follows(a, b)
        PROVE  entry'[a] <= entry'[b] + blk[a].dist
    <3>1. Brakes(a, b) /\ a # b /\ Waits(b)
      BY <1>2, <1>3, <1>4, <2>1 DEF Braking, Follows, Waits
    <3>2. CASE a = bi
      BY <1>1, <1>3, <1>11, <2>1, <3>1, <3>2
    <3>3. CASE a # bi
      BY <1>1, <1>3, <1>10, <3>1, <3>3 DEF Brakes
    <3> QED
      BY <3>2, <3>3
  <2>2. ASSUME NEW a \in Slots, Waits(a), Last(a)
        PROVE  entry'[a] <= blk[a].dist
    BY <1>1, <1>2, <1>3, <1>12, <2>2 DEF Braking
  <2> QED
    BY <1>1, <1>5, <1>6, <2>1, <2>2 DEF Braking, Brakes
<1>16. Early'
  <2> SUFFICES ASSUME NEW a \in Slots, NEW b \in Slots, Waits(a), Follows(a, b), a # current,
                      ToHead(planned) < ToHead(a)
               PROVE  Reaches(a, b)'
    BY <1>1, <1>5, <1>6 DEF Early
  <2>1. ~Pushed
    BY DEF Pushed, Waits
  <2>2. pl = planned /\ ~blk[planned].sync
    BY <1>1, <1>2, <2>1 DEF Pushes
  <2>3. a # bi /\ ToHead(bi) < ToHead(planned)
    BY <1>2, <1>3, <1>4, <2>2
  <2>4. b # bi
    BY <1>3, <2>2, <2>3 DEF Follows, OnlySync
  <2> QED
    BY <1>1, <1>2, <1>3, <2>3, <2>4 DEF Early, Reaches
<1>17. Pushes'
  BY <1>1, <1>2, <1>5 DEF Pushes, Pushed
<1>18. Backward'
  <2>1. After' /\ ToHead(bi)' = ToHead(bi) /\ ToHead(pl)' = ToHead(pl)
    BY <1>1, <1>2 DEF After, Last, Move, OnlySync, ToHead
  <2> QED
    BY <1>1, <1>2, <2>1 DEF Backward
<1>19. Trapped'
  BY <1>1, <1>2, <1>3, <1>6, Places DEF Trapped, Drives
<1>20. Onward' /\ Trimmed'
  BY <1>1 DEF Onward, Trimmed
<1> QED
  BY <1>13, <1>14, <1>15, <1>16, <1>17, <1>18, <1>19, <1>20 DEF Plan, Sped

(* The forward pass, where it writes neither speed nor index. *)
LEMMA FwdQuietPlan ==
  IInv /\ Look /\ Plan /\ RecalcNext /\ (FwdStart \/ FwdDone \/ FwdLoop \/ FwdKernel \/ FwdCheck \/ FwdStep)
    => Plan'
<1> SUFFICES ASSUME IInv, Look, Plan, RecalcNext,
                    FwdStart \/ FwdDone \/ FwdLoop \/ FwdKernel \/ FwdCheck \/ FwdStep
             PROVE  Plan'
  OBVIOUS
<1> USE DEF At, Goto, idxVars, planVars, locVars
<1>1. UNCHANGED <<planned, entry, trap>>
  BY DEF FwdStart, FwdDone, FwdLoop, FwdKernel, FwdCheck, FwdStep
<1>2. pc' \in {"fwdLoop", "trapStart", "fwdStep", "fwdKernel", "fwdCheck", "fwdMax", "fwdWrite"}
  BY DEF FwdStart, FwdDone, FwdLoop, FwdKernel, FwdCheck, FwdStep
<1>3. ASSUME FwdCheck
      PROVE  recalc' = recalc
  <2>1. pc = "fwdCheck" /\ pc \in Forward
    BY <1>3 DEF FwdCheck, Forward
  <2>2. Stuck /\ Kernel
    BY <2>1, ForwardFacts
  <2>3. bi # head /\ bi \in Slots /\ recalc[bi]
    BY <2>1, <2>2, Places DEF Kernel, IInv, FlagRaised
  <2>4. ToHead(bi) \in Nat /\ ToHead(bi) >= 1
    BY <2>3, Places, Distances
  <2>5. bi # current
    BY <2>2, <2>3, <2>4 DEF Stuck, Coming
  <2> QED
    BY <1>3, <2>5 DEF FwdCheck, is_block_busy
<1>4. \A i \in Slots : recalc[i] => recalc'[i]
  BY <1>3, Places DEF FwdStart, FwdDone, FwdLoop, FwdKernel, FwdStep, MarkRecalculate
<1>5. /\ Limits' /\ Junctions' /\ Braking' /\ Early'
      /\ planned' = head' \/ blk'[planned'].sync => Pushed'
      /\ UNCHANGED <<head, tail, blk, current>> /\ Trapped'
  BY <1>1, <1>2, <1>4, StillPlan, RaisedTraps
<1>6. Onward'
  <2>1. CASE FwdKernel
    <3>1. UNCHANGED <<bi, ref>> /\ (pc' = "fwdCheck" => newv' = ForwardEntry /\ ForwardChanges)
      BY <2>1 DEF FwdKernel
    <3>2. (ForwardEntry' = ForwardEntry) /\ (ForwardChanges' <=> ForwardChanges)
      BY <1>1, <1>5, <3>1 DEF ForwardEntry, ForwardChanges
    <3>3. pc' # "fwdWrite"
      BY <2>1 DEF FwdKernel
    <3> QED
      BY <3>1, <3>2, <3>3 DEF Onward
  <2>2. CASE FwdCheck
    <3>1. UNCHANGED <<bi, ref, newv>> /\ newv = ForwardEntry /\ ForwardChanges
      BY <2>2 DEF FwdCheck, Plan, Onward
    <3>2. (ForwardEntry' = ForwardEntry) /\ (ForwardChanges' <=> ForwardChanges)
      BY <1>1, <1>5, <3>1 DEF ForwardEntry, ForwardChanges
    <3> QED
      BY <3>1, <3>2 DEF Onward
  <2>3. CASE FwdStart \/ FwdDone \/ FwdLoop \/ FwdStep
    BY <2>3 DEF FwdStart, FwdDone, FwdLoop, FwdStep, Onward
  <2> QED
    BY <2>1, <2>2, <2>3
<1>7. Backward' /\ Trimmed' /\ Pushes'
  BY <1>2, <1>5 DEF Backward, Trimmed, Pushes
<1> QED
  BY <1>5, <1>6, <1>7 DEF Plan, Sped

(* Where the planned index goes, the pairs behind it are settled. *)
LEMMA SettledBehind ==
  ASSUME IInv, Look, Plan, pc \in {"fwdWrite", "fwdMax"},
         NEW a \in Slots, NEW b \in Slots, Waits(a), Follows(a, b), a # current,
         ToHead(bi) < ToHead(a)
  PROVE  b # bi => Reaches(a, b)
<1> SUFFICES ASSUME b # bi PROVE Reaches(a, b)
  OBVIOUS
<1>1. OpenPassed /\ Kernel /\ Early
  BY ForwardFacts DEF Forward, Plan, Sped
<1>2. bi \in Slots /\ ~blk[bi].sync /\ planned \in Slots
  BY <1>1, Places DEF Kernel
<1>3. /\ \A i \in Slots : ToHead(i) \in Nat
      /\ \A i, j \in Slots : ToHead(i) = ToHead(j) => i = j
  BY Places, Distances
<1>4. ToHead(bi) < ToHead(b)
  BY <1>2, <1>3 DEF Follows, OnlySync
<1>5. CASE ToHead(a) <= ToHead(planned)
  BY <1>1, <1>4, <1>5 DEF OpenPassed, Open, Passed, Settled
<1>6. CASE ToHead(planned) < ToHead(a)
  BY <1>1, <1>6 DEF Early
<1> QED
  BY <1>2, <1>3, <1>5, <1>6

LEMMA FwdWritePlan == IInv /\ Look /\ Plan /\ RecalcNext /\ FwdWrite => Plan'
<1> SUFFICES ASSUME IInv, Look, Plan, RecalcNext, FwdWrite
             PROVE  Plan'
  OBVIOUS
<1>1. /\ UNCHANGED <<recalc, trap, bi, ref, head, tail, blk, current, cmd, nominal>>
      /\ entry' = [entry EXCEPT ![bi] = newv] /\ planned' = bi
      /\ pc = "fwdWrite" /\ pc' = "fwdMax"
  BY PassStep DEF FwdWrite, At, Goto, locVars, RecalcNext, userVars
<1>2. /\ Limits /\ Junctions /\ Braking /\ Early /\ Trapped
      /\ newv = ForwardEntry /\ ForwardChanges
  BY <1>1 DEF Plan, Sped, Onward
<1>3. bi # head /\ ~blk[bi].sync /\ ref # NoSlot /\ Follows(ref, bi)
  BY <1>1, ForwardFacts DEF Forward, Kernel
<1>4. /\ bi \in Slots /\ head \in Slots /\ tail \in Slots /\ ref \in Slots
      /\ entry \in [Slots -> Nat] /\ newv \in Nat
      /\ \A i \in Slots : blk[i].dist \in Nat /\ blk[i].max \in Nat /\ entry[i] \in Nat
      /\ \A i \in Slots : ToHead(i) \in Nat
  BY <1>3, Places, Distances
<1>5. /\ \A i \in Slots : ToHead(i)' = ToHead(i)
      /\ \A a, b \in Slots : Follows(a, b)' <=> Follows(a, b)
      /\ \A i \in Slots : (Move(i)' <=> Move(i)) /\ (Last(i)' <=> Last(i))
      /\ ToHead(planned)' = ToHead(bi) /\ ToHead(tail)' = ToHead(tail)
  BY <1>1, <1>4, SamePlaces DEF ToHead
<1>6. \A i \in Slots : Waits(i)' <=> Waits(i)
  BY <1>5 DEF Waits
<1>7. newv < entry[bi] /\ newv = entry[ref] + blk[ref].dist /\ bi # ref
  BY <1>2, <1>3, <1>4 DEF ForwardEntry, ForwardChanges, Follows
<1>8. Limits'
  BY <1>1, <1>2, <1>4, <1>7 DEF Limits, Own
<1>9. Junctions'
  BY <1>1, <1>2, <1>5, <1>6 DEF Junctions, Linked
<1>10. Braking'
  <2>1. ASSUME NEW a \in Slots, NEW b \in Slots, Waits(a), Follows(a, b)
        PROVE  entry'[a] <= entry'[b] + blk[a].dist
    <3>1. Brakes(a, b) /\ a # b /\ (b = bi => a = ref)
      BY <1>2, <1>3, <1>4, <2>1, OneNext DEF Braking, Follows
    <3>2. CASE b = bi
      BY <1>1, <1>4, <1>7, <3>1, <3>2
    <3>3. CASE b # bi
      BY <1>1, <1>4, <1>7, <3>1, <3>3 DEF Brakes
    <3> QED
      BY <3>2, <3>3
  <2>2. ASSUME NEW a \in Slots, Waits(a), Last(a)
        PROVE  entry'[a] <= blk[a].dist
    <3>1. entry[a] <= blk[a].dist /\ entry'[a] <= entry[a] /\ entry'[a] \in Nat
      BY <1>1, <1>2, <1>4, <1>7, <2>2 DEF Braking
    <3> QED
      BY <1>4, <3>1
  <2> QED
    BY <1>1, <1>5, <1>6, <2>1, <2>2 DEF Braking, Brakes
<1>11. Early'
  <2> SUFFICES ASSUME NEW a \in Slots, NEW b \in Slots, Waits(a), Follows(a, b), a # current,
                      ToHead(bi) < ToHead(a)
               PROVE  Reaches(a, b)'
    BY <1>1, <1>5, <1>6 DEF Early
  <2>1. a # bi
    BY <1>4
  <2>2. CASE b = bi
    <3>1. a = ref
      BY <1>3, <1>4, <2>2, OneNext
    <3> QED
      BY <1>1, <1>4, <1>7, <2>1, <2>2, <3>1 DEF Reaches
  <2>3. CASE b # bi
    <3>1. Reaches(a, b)
      BY <1>1, <2>3, SettledBehind
    <3> QED
      BY <1>1, <1>4, <2>1, <2>3, <3>1 DEF Reaches
  <2> QED
    BY <2>2, <2>3
<1>12. Pushes'
  BY <1>1, <1>3 DEF Pushes
<1>13. Trapped'
  BY <1>1, <1>2, <1>6, Places DEF Trapped, Drives
<1>14. Backward' /\ Onward' /\ Trimmed'
  BY <1>1 DEF Backward, Onward, Trimmed
<1> QED
  BY <1>8, <1>9, <1>10, <1>11, <1>12, <1>13, <1>14 DEF Plan, Sped

LEMMA FwdMaxPlan == IInv /\ Look /\ Plan /\ RecalcNext /\ FwdMax => Plan'
<1> SUFFICES ASSUME IInv, Look, Plan, RecalcNext, FwdMax
             PROVE  Plan'
  OBVIOUS
<1>1. /\ UNCHANGED <<recalc, entry, trap, bi, ref, head, tail, blk, current, cmd, nominal>>
      /\ planned' = (IF entry[bi] = blk[bi].max THEN bi ELSE planned)
      /\ pc = "fwdMax" /\ pc' = "fwdStep"
  BY PassStep DEF FwdMax, At, Goto, locVars, planVars, RecalcNext, userVars
<1>2. Pushes /\ Limits /\ Junctions /\ Braking /\ Early /\ Trapped
  BY <1>1 DEF Plan, Sped
<1>3. /\ bi # head /\ ~blk[bi].sync /\ ref # NoSlot /\ Follows(ref, bi)
      /\ Reaches(ref, bi) \/ ToHead(planned) <= ToHead(bi)
  BY <1>1, ForwardFacts DEF Forward, Kernel
<1>4. /\ bi \in Slots /\ head \in Slots /\ tail \in Slots /\ ref \in Slots /\ planned \in Slots
      /\ \A i \in Slots : ToHead(i) \in Nat
  BY <1>3, Places, Distances
<1>5. /\ \A i \in Slots : ToHead(i)' = ToHead(i)
      /\ \A a, b \in Slots : Follows(a, b)' <=> Follows(a, b)
      /\ \A i \in Slots : (Move(i)' <=> Move(i)) /\ (Last(i)' <=> Last(i))
      /\ ToHead(tail)' = ToHead(tail)
      /\ ToHead(planned)' = IF entry[bi] = blk[bi].max THEN ToHead(bi) ELSE ToHead(planned)
  BY <1>1, <1>4, SamePlaces DEF ToHead
<1>6. \A i \in Slots : Waits(i)' <=> Waits(i)
  BY <1>5 DEF Waits
<1>7. Limits'
  BY <1>1, <1>2 DEF Limits, Own
<1>8. Junctions'
  BY <1>1, <1>2, <1>5, <1>6 DEF Junctions, Linked
<1>9. Braking'
  BY <1>1, <1>2, <1>5, <1>6 DEF Braking, Brakes
<1>10. Early'
  <2> SUFFICES ASSUME NEW a \in Slots, NEW b \in Slots, Waits(a), Follows(a, b), a # current,
                      ToHead(planned)' < ToHead(a)
               PROVE  Reaches(a, b)
    BY <1>1, <1>5, <1>6 DEF Early, Reaches
  <2>1. CASE ToHead(planned) < ToHead(a)
    BY <1>2, <2>1 DEF Early
  <2>2. CASE ~(ToHead(planned) < ToHead(a))
    <3>1. ToHead(bi) < ToHead(a)
      BY <1>5, <2>2
    <3>2. CASE b = bi
      <4>1. a = ref
        BY <1>3, <1>4, <3>2, OneNext
      <4> QED
        BY <1>3, <1>4, <2>2, <3>1, <3>2, <4>1
    <3>3. CASE b # bi
      BY <1>1, <3>1, <3>3, SettledBehind
    <3> QED
      BY <3>2, <3>3
  <2> QED
    BY <2>1, <2>2
<1>11. Pushes'
  <2>1. CASE planned' = bi
    BY <1>1, <1>3, <2>1 DEF Pushes
  <2>2. CASE planned' = planned
    BY <1>1, <1>2, <1>5, <2>2 DEF Pushes, Pushed, ToHead
  <2> QED
    BY <1>1, <2>1, <2>2
<1>12. Trapped'
  BY <1>1, <1>2, <1>6, Places DEF Trapped, Drives
<1>13. Backward' /\ Onward' /\ Trimmed'
  BY <1>1 DEF Backward, Onward, Trimmed
<1> QED
  BY <1>7, <1>8, <1>9, <1>10, <1>11, <1>12, <1>13 DEF Plan, Sped

(* The trapezoids, where they write none and clear no flag. *)
LEMMA TrapQuietPlan ==
  IInv /\ Look /\ Plan /\ RecalcNext /\ (TrapStart \/ TrapTrim \/ TrapLoop \/ TrapCheck \/ TrapStep)
    => Plan'
<1> SUFFICES ASSUME IInv, Look, Plan, RecalcNext,
                    TrapStart \/ TrapTrim \/ TrapLoop \/ TrapCheck \/ TrapStep
             PROVE  Plan'
  OBVIOUS
<1> USE DEF At, Goto, idxVars, planVars, locVars
<1>1. UNCHANGED <<planned, entry, trap>>
  BY DEF TrapStart, TrapTrim, TrapLoop, TrapCheck, TrapStep
<1>2. \A i \in Slots : recalc[i] => recalc'[i]
  BY Places DEF TrapStart, TrapTrim, TrapLoop, TrapCheck, TrapStep, MarkRecalculate
<1>3. /\ Limits' /\ Junctions' /\ Braking' /\ Early'
      /\ planned' = head' \/ blk'[planned'].sync => Pushed'
      /\ UNCHANGED <<head, tail, blk, current>>
      /\ \A i \in Slots : Waits(i)' <=> Waits(i)
  BY <1>1, StillPlan
<1>4. pc' \in {"trapTrim", "trapLoop", "idle", "trapCheck", "trapStep", "trapClear", "trapWrite"}
  BY DEF TrapStart, TrapTrim, TrapLoop, TrapCheck, TrapStep, Return
<1>5. /\ bi \in Slots /\ hd \in Slots /\ head \in Slots /\ tail \in Slots
      /\ ref \in Slots \cup {NoSlot} /\ NoSlot \notin Slots /\ current \in Slots \cup {NoSlot}
      /\ \A i \in Slots : ToHead(i) \in Nat /\ ToHead(i) < Size /\ (ToHead(i) = 0 <=> i = head)
      /\ \A i, j \in Slots : ToHead(i) = ToHead(j) => i = j
      /\ \A i \in Slots : i # head => NextIndex(i) \in Slots /\ ToHead(NextIndex(i)) = ToHead(i) - 1
  BY Places, Distances
<1>6. \A i : ToHead(i)' = Ahead(i', head)
  BY <1>3 DEF ToHead
<1>7. Trimmed'
  <2>1. CASE TrapStart
    <3>1. pc' = "trapTrim" /\ bi' = tail /\ hd' = head /\ ref' = NoSlot
      BY <2>1 DEF TrapStart
    <3>2. ToHead(hd)' = 0 /\ ToHead(bi)' = ToHead(tail)
      BY <1>3, <1>5, <3>1 DEF ToHead
    <3>3. \A c \in Slots : ToHead(c)' = ToHead(c)
      BY <1>3 DEF ToHead
    <3> QED
      BY <1>5, <3>1, <3>2, <3>3 DEF Trimmed
  <2>2. CASE TrapTrim
    <3>1. /\ pc = "trapTrim" /\ pc' \in {"trapTrim", "trapLoop"} /\ UNCHANGED <<bi, ref>>
          /\ hd' = IF hd # bi /\ blk[PrevIndex(hd)].sync THEN PrevIndex(hd) ELSE hd
      BY <2>2 DEF TrapTrim
    <3>2. /\ ToHead(hd) <= ToHead(bi)
          /\ \A c \in Slots : 1 <= ToHead(c) /\ ToHead(c) <= ToHead(hd) => blk[c].sync
          /\ ref # NoSlot => Move(ref) /\ ToHead(bi) < ToHead(ref) /\ OnlySync(ref, bi)
      BY <3>1 DEF Plan, Trimmed
    <3>3. /\ ToHead(bi)' = ToHead(bi) /\ \A c \in Slots : ToHead(c)' = ToHead(c)
          /\ ToHead(hd)' = Ahead(hd', head)
      BY <1>3, <3>1 DEF ToHead
    <3>4. ToHead(hd)' <= ToHead(bi)
          /\ \A c \in Slots : 1 <= ToHead(c) /\ ToHead(c) <= ToHead(hd)' => blk[c].sync
      <4>1. CASE hd' = hd
        BY <3>2, <3>3, <4>1 DEF ToHead
      <4>2. CASE hd # bi /\ blk[PrevIndex(hd)].sync /\ hd' = PrevIndex(hd)
        <5>1. ToHead(hd) < ToHead(bi)
          BY <1>5, <3>2, <4>2
        <5>2. PrevIndex(hd) \in Slots /\ ToHead(PrevIndex(hd)) = ToHead(hd) + 1
          BY <1>5, <5>1, PreviousPlace, SizeAssumption
        <5>3. ToHead(hd)' = ToHead(hd) + 1
          BY <1>3, <4>2, <5>2 DEF ToHead
        <5>4. ASSUME NEW c \in Slots, 1 <= ToHead(c), ToHead(c) <= ToHead(hd)'
              PROVE  blk[c].sync
          <6>1. CASE ToHead(c) <= ToHead(hd)
            BY <3>2, <5>4, <6>1
          <6>2. CASE ~(ToHead(c) <= ToHead(hd))
            <7>1. c = PrevIndex(hd)
              BY <1>5, <5>2, <5>3, <5>4, <6>2
            <7> QED
              BY <4>2, <7>1
          <6> QED
            BY <6>1, <6>2
        <5> QED
          BY <1>5, <5>1, <5>3, <5>4
      <4> QED
        BY <3>1, <4>1, <4>2
    <3>5. ref # NoSlot => Move(ref)' /\ ToHead(bi)' < ToHead(ref)' /\ OnlySync(ref, bi)'
      BY <1>3, <3>1, <3>2 DEF Move, OnlySync, ToHead
    <3> QED
      BY <1>3, <3>1, <3>3, <3>4, <3>5 DEF Trimmed
  <2>3. CASE TrapLoop
    <3>1. /\ pc = "trapLoop" /\ pc' \in {"trapCheck", "idle", "trapStep"}
          /\ pc' # "idle" => UNCHANGED locVars
          /\ pc' = "trapCheck" => AtLast \/ ~blk[bi].sync
          /\ pc' = "trapStep" => ~AtLast
      BY <2>3 DEF TrapLoop, TrapDue, Return
    <3> SUFFICES ASSUME pc' # "idle" PROVE Trimmed'
      BY <3>1 DEF Trimmed
    <3>2. /\ ToHead(hd) <= ToHead(bi)
          /\ \A c \in Slots : 1 <= ToHead(c) /\ ToHead(c) <= ToHead(hd) => blk[c].sync
          /\ ref # NoSlot => Move(ref) /\ ToHead(bi) < ToHead(ref) /\ OnlySync(ref, bi)
      BY <3>1 DEF Plan, Trimmed
    <3> QED
      BY <1>3, <3>1, <3>2 DEF Trimmed, AtLast, ToHead, Move, OnlySync
  <2>4. CASE TrapCheck
    <3>1. pc = "trapCheck" /\ pc' \in {"trapClear", "trapWrite"} /\ UNCHANGED locVars
      BY <2>4 DEF TrapCheck
    <3>2. /\ ToHead(hd) <= ToHead(bi)
          /\ \A c \in Slots : 1 <= ToHead(c) /\ ToHead(c) <= ToHead(hd) => blk[c].sync
          /\ ref # NoSlot => Move(ref) /\ ToHead(bi) < ToHead(ref) /\ OnlySync(ref, bi)
          /\ AtLast \/ ~blk[bi].sync
      BY <3>1 DEF Plan, Trimmed
    <3> QED
      BY <1>3, <3>1, <3>2 DEF Trimmed, AtLast, ToHead, Move, OnlySync
  <2>5. CASE TrapStep
    <3>1. /\ pc = "trapStep" /\ pc' = "trapLoop" /\ hd' = hd
          /\ ref' = (IF blk[bi].sync THEN ref ELSE bi) /\ bi' = NextIndex(bi)
      BY <2>5 DEF TrapStep
    <3>2. /\ ToHead(hd) <= ToHead(bi)
          /\ \A c \in Slots : 1 <= ToHead(c) /\ ToHead(c) <= ToHead(hd) => blk[c].sync
          /\ ref # NoSlot => Move(ref) /\ ToHead(bi) < ToHead(ref) /\ OnlySync(ref, bi)
          /\ bi # hd
      BY <3>1 DEF Plan, Trimmed, AtLast
    <3>3. ToHead(hd) < ToHead(bi) /\ bi # head
      BY <1>5, <3>2
    <3>4. ToHead(bi)' = ToHead(bi) - 1
      BY <1>3, <1>5, <3>1, <3>3 DEF ToHead
    <3>5. ToHead(hd)' = ToHead(hd) /\ \A c \in Slots : ToHead(c)' = ToHead(c)
      BY <1>3, <3>1 DEF ToHead
    <3>6. ref' # NoSlot => Move(ref)' /\ ToHead(bi)' < ToHead(ref)' /\ OnlySync(ref, bi)'
      <4>1. CASE blk[bi].sync
        <5> SUFFICES ASSUME ref # NoSlot
                     PROVE  Move(ref)' /\ ToHead(bi)' < ToHead(ref)' /\ OnlySync(ref, bi)'
          BY <3>1, <4>1
        <5>1. ref \in Slots /\ ref' = ref
          BY <1>5, <3>1, <4>1
        <5>2. ToHead(ref)' = ToHead(ref)
          BY <1>3, <5>1 DEF ToHead
        <5>3. Move(ref)' /\ ToHead(bi)' < ToHead(ref)'
          BY <1>3, <1>5, <3>2, <3>4, <5>1, <5>2 DEF Move
        <5>4. ASSUME NEW c \in Slots, ToHead(bi) - 1 < ToHead(c), ToHead(c) < ToHead(ref)
              PROVE  blk[c].sync
          <6>1. c = bi \/ ToHead(bi) < ToHead(c)
            BY <1>5, <5>4
          <6> QED
            BY <3>2, <4>1, <5>4, <6>1 DEF OnlySync
        <5> QED
          BY <1>3, <3>4, <3>5, <5>2, <5>3, <5>4 DEF OnlySync
      <4>2. CASE ~blk[bi].sync
        <5>1. ref' = bi /\ ToHead(ref)' = ToHead(bi)
          BY <1>3, <3>1, <4>2 DEF ToHead
        <5>2. Move(ref)' /\ ToHead(bi)' < ToHead(ref)'
          BY <1>3, <1>5, <3>3, <3>4, <4>2, <5>1 DEF Move
        <5>3. OnlySync(ref, bi)'
          BY <1>5, <3>4, <3>5, <5>1 DEF OnlySync
        <5> QED
          BY <5>2, <5>3
      <4> QED
        BY <4>1, <4>2
    <3>7. ToHead(hd)' <= ToHead(bi)'
      BY <1>5, <3>3, <3>4, <3>5
    <3>8. \A c \in Slots : 1 <= ToHead(c)' /\ ToHead(c)' <= ToHead(hd)' => blk'[c].sync
      BY <1>3, <3>2, <3>5
    <3> QED
      BY <3>1, <3>6, <3>7, <3>8 DEF Trimmed
  <2> QED
    BY <2>1, <2>2, <2>3, <2>4, <2>5
<1>8. Trapped'
  <2>1. CASE pc' # "trapClear"
    BY <1>1, <1>2, <2>1, RaisedTraps
  <2>2. CASE pc' = "trapClear"
    <3>1. TrapCheck /\ current = ref /\ UNCHANGED <<recalc, ref>>
      BY <2>2 DEF TrapStart, TrapTrim, TrapLoop, TrapCheck, TrapStep, Return, is_block_busy
    <3>2. ref \in Slots
      BY <3>1 DEF TrapCheck, IInv, Types, RefDefined
    <3> QED
      BY <1>1, <1>3, <1>5, <3>1, <3>2 DEF Plan, Trapped, Drives
  <2> QED
    BY <2>1, <2>2
<1>9. Backward' /\ Onward' /\ Pushes'
  BY <1>3, <1>4 DEF Backward, Onward, Pushes
<1> QED
  BY <1>3, <1>7, <1>8, <1>9 DEF Plan, Sped

(* The new trapezoid begins at the block's entry speed and ends at the next *)
(* one's, or at a halt.                                                     *)
LEMMA TrapWritePlan == IInv /\ Look /\ Plan /\ RecalcNext /\ TrapWrite => Plan'
<1> SUFFICES ASSUME IInv, Look, Plan, RecalcNext, TrapWrite
             PROVE  Plan'
  OBVIOUS
<1>1. /\ UNCHANGED <<planned, entry, recalc, bi, ref, hd>>
      /\ pc = "trapWrite" /\ pc' = "trapClear"
      /\ trap' = [trap EXCEPT ![ref] = [initial |-> entry[ref],
                                        final   |-> IF AtLast THEN 0 ELSE entry[bi]]]
  BY DEF TrapWrite, At, Goto, idxVars, locVars
<1>2. /\ Limits' /\ Junctions' /\ Braking' /\ Early'
      /\ planned' = head' \/ blk'[planned'].sync => Pushed'
      /\ UNCHANGED <<head, tail, blk, current>>
      /\ \A i \in Slots : Waits(i)' <=> Waits(i)
  BY <1>1, StillPlan
<1>3. ref \in Slots /\ recalc[ref] /\ current # ref
  BY <1>1 DEF IInv, Types, RefDefined, FlagRaised
<1>4. /\ bi \in Slots /\ hd \in Slots /\ head \in Slots /\ current \in Slots \cup {NoSlot}
      /\ NoSlot \notin Slots /\ trap \in [Slots -> Traps]
      /\ \A i \in Slots : ToHead(i) \in Nat /\ (ToHead(i) = 0 <=> i = head)
      /\ \A i, j \in Slots : ToHead(i) = ToHead(j) => i = j
      /\ \A i \in Slots : blk[i].dist \in Nat /\ blk[i].max \in Nat /\ entry[i] \in Nat
      /\ \A i \in Slots : blk[i].nominal \in Nat /\ blk[i].nlen \in BOOLEAN
      /\ SafeSpeed \in Nat
  BY Places, Distances, Speeds
<1>5. /\ Limits /\ Junctions /\ Braking /\ Early /\ Trapped
      /\ ToHead(hd) <= ToHead(bi)
      /\ \A c \in Slots : 1 <= ToHead(c) /\ ToHead(c) <= ToHead(hd) => blk[c].sync
      /\ Move(ref) /\ ToHead(bi) < ToHead(ref) /\ OnlySync(ref, bi)
      /\ AtLast \/ ~blk[bi].sync
  BY <1>1, <1>3, <1>4 DEF Plan, Sped, Trimmed
<1>6. Waits(ref) => Drives(ref)'
  <2> SUFFICES ASSUME Waits(ref) PROVE Drives(ref)'
    OBVIOUS
  <2>1. entry[ref] <= blk[ref].max
    BY <1>3, <1>5 DEF Limits
  <2>2. CASE AtLast
    <3>1. Last(ref)
      <4> SUFFICES ASSUME NEW c \in Slots, 1 <= ToHead(c), ToHead(c) < ToHead(ref)
                   PROVE  blk[c].sync
        BY DEF Last
      <4>1. ToHead(c) <= ToHead(hd) \/ ToHead(bi) < ToHead(c)
        BY <1>4, <2>2 DEF AtLast
      <4> QED
        BY <1>5, <4>1 DEF OnlySync
    <3>2. entry[ref] <= blk[ref].dist
      BY <1>3, <1>5, <3>1 DEF Braking
    <3>3. trap'[ref] = [initial |-> entry[ref], final |-> 0]
      BY <1>1, <1>3, <1>4, <2>2
    <3> QED
      BY <1>1, <1>2, <1>3, <1>4, <2>1, <3>2, <3>3 DEF Drives
  <2>3. CASE ~AtLast
    <3>1. Follows(ref, bi)
      BY <1>4, <1>5, <2>3 DEF Follows, Move, AtLast
    <3>2. Brakes(ref, bi) /\ Linked(ref, blk[bi].max)
      BY <1>3, <1>4, <1>5, <3>1 DEF Braking, Junctions
    <3>3. Reaches(ref, bi)
      <4>1. CASE ToHead(ref) <= ToHead(planned)
        BY <1>1, <1>3, <1>4, <3>1, <4>1 DEF Look, Pairs, OpenSettled, Open, Settled, Reverse, Forward
      <4>2. CASE ~(ToHead(ref) <= ToHead(planned))
        <5>1. ToHead(planned) < ToHead(ref)
          BY <1>3, <1>4, <4>2, Places
        <5> QED
          BY <1>3, <1>4, <1>5, <3>1, <5>1 DEF Early
      <4> QED
        BY <4>1, <4>2
    <3>4. entry[bi] <= entry[ref] + blk[ref].dist \/ entry[bi] <= SafeSpeed
      <4>1. CASE blk[ref].nlen
        <5>1. entry[bi] <= blk[bi].max /\ blk[ref].nominal <= blk[ref].dist
          BY <1>3, <1>4, <1>5, <4>1 DEF Limits, Own
        <5> QED
          BY <1>3, <1>4, <3>2, <5>1 DEF Linked
      <4>2. CASE ~blk[ref].nlen
        BY <3>3, <4>2 DEF Reaches
      <4> QED
        BY <4>1, <4>2
    <3>5. trap'[ref] = [initial |-> entry[ref], final |-> entry[bi]]
      BY <1>1, <1>3, <1>4, <2>3
    <3> QED
      BY <1>1, <1>2, <1>3, <1>4, <2>1, <3>2, <3>4, <3>5 DEF Drives, Brakes
  <2> QED
    BY <2>2, <2>3
<1>7. \A i \in Slots : i # ref => (Drives(i)' <=> Drives(i))
  BY <1>1, <1>2, <1>4 DEF Drives
<1>8. Trapped'
  <2>1. \A i \in Slots : Waits(i)' => recalc'[i] \/ Drives(i)'
    BY <1>1, <1>2, <1>3, <1>5, <1>7 DEF Trapped
  <2>2. \A i \in Slots : i = current => Drives(i)'
    BY <1>3, <1>4, <1>5, <1>7 DEF Trapped
  <2>3. Waits(ref)' => Drives(ref)'
    BY <1>1, <1>2, <1>3, <1>6
  <2> QED
    BY <1>1, <1>2, <1>4, <2>1, <2>2, <2>3 DEF Trapped, Drives
<1>9. Trimmed'
  BY <1>1, <1>2, <1>5 DEF Trimmed, AtLast, ToHead, Move, OnlySync
<1>10. Backward' /\ Onward' /\ Pushes'
  BY <1>1, <1>2 DEF Backward, Onward, Pushes
<1> QED
  BY <1>2, <1>8, <1>9, <1>10 DEF Plan, Sped

LEMMA TrapClearPlan == IInv /\ Look /\ Plan /\ RecalcNext /\ TrapClear => Plan'
<1> SUFFICES ASSUME IInv, Look, Plan, RecalcNext, TrapClear
             PROVE  Plan'
  OBVIOUS
<1>1. /\ UNCHANGED <<planned, entry, trap>> /\ recalc' = [recalc EXCEPT ![ref] = FALSE]
      /\ pc = "trapClear" /\ pc' \in {"idle", "trapStep"}
      /\ pc' = "trapStep" => ~AtLast /\ UNCHANGED <<bi, ref, hd>>
  BY DEF TrapClear, Return, At, Goto, idxVars, locVars, ClearRecalculate
<1>2. /\ Limits' /\ Junctions' /\ Braking' /\ Early'
      /\ planned' = head' \/ blk'[planned'].sync => Pushed'
      /\ UNCHANGED <<head, tail, blk, current>>
      /\ \A i \in Slots : Waits(i)' <=> Waits(i)
  BY <1>1, StillPlan
<1>3. ref \in Slots /\ recalc \in [Slots -> BOOLEAN] /\ Trapped
  BY <1>1, Places DEF IInv, Types, RefDefined, Plan
<1>4. Trapped'
  <2>1. \A i : Drives(i)' <=> Drives(i)
    BY <1>1, <1>2 DEF Drives
  <2>2. \A i \in Slots : Waits(i)' => recalc'[i] \/ Drives(i)
    BY <1>1, <1>2, <1>3 DEF Trapped
  <2> QED
    BY <1>1, <1>2, <1>3, <2>1, <2>2 DEF Trapped, Drives
<1>5. Trimmed'
  <2> SUFFICES ASSUME pc' = "trapStep" PROVE Trimmed'
    BY <1>1 DEF Trimmed
  <2>1. /\ ToHead(hd) <= ToHead(bi)
        /\ \A c \in Slots : 1 <= ToHead(c) /\ ToHead(c) <= ToHead(hd) => blk[c].sync
        /\ ref # NoSlot => Move(ref) /\ ToHead(bi) < ToHead(ref) /\ OnlySync(ref, bi)
    BY <1>1 DEF Plan, Trimmed
  <2> QED
    BY <1>1, <1>2, <2>1 DEF Trimmed, AtLast, ToHead, Move, OnlySync
<1>6. Backward' /\ Onward' /\ Pushes'
  BY <1>1, <1>2 DEF Backward, Onward, Pushes
<1> QED
  BY <1>2, <1>4, <1>5, <1>6 DEF Plan, Sped

LEMMA RecalcPlan == IInv /\ Look /\ Plan /\ RecalcNext => Plan'
BY RevStartPlan, RevKernelPlan, RevCheckPlan, RevStepPlan, RevFollowPlan, RevWritePlan, FwdQuietPlan,
   FwdWritePlan, FwdMaxPlan, TrapQuietPlan, TrapWritePlan, TrapClearPlan DEF RecalcNext
-----------------------------------------------------------------------------
(* The callers and the plan *)

(* Outside recalculate(), and on entering it, the passes hold nothing. *)
LEMMA NoPassPlan ==
  ASSUME pc' \notin PlanningSteps \ {"recalc"}, Limits', Junctions', Braking', Early',
         planned' = head' \/ blk'[planned'].sync => Pushed',
         \A i \in Slots : Waits(i)' => recalc'[i] \/ Drives(i)',
         current' # NoSlot => Drives(current)'
  PROVE  Plan'
<1>1. Backward' /\ Onward' /\ Trimmed' /\ Pushes'
  BY DEF Backward, Onward, Trimmed, Pushes, PlanningSteps
<1>2. Trapped'
  BY DEF Trapped, PlanningSteps
<1> QED
  BY <1>1, <1>2 DEF Plan, Sped

(* Steps that touch nothing the plan rests on. *)
LEMMA QuietPlan ==
  IInv /\ Look /\ Plan /\ UNCHANGED <<idxVars, blk, planVars, current, nominal>>
  /\ (pc' = pc => UNCHANGED <<locVars, cmd>>)
  /\ (pc' # pc => /\ {pc, pc'} \cap (PlanningSteps \cup {"delay", "publish"}) = {}
                  /\ cmd'.nlen => cmd'.nominal <= cmd'.dist
                  /\ cmd'.sync => cmd'.max = 0)
  => Plan'
<1> SUFFICES ASSUME IInv, Look, Plan, UNCHANGED <<idxVars, blk, planVars, current, nominal>>,
                    pc' = pc => UNCHANGED <<locVars, cmd>>,
                    pc' # pc => /\ {pc, pc'} \cap (PlanningSteps \cup {"delay", "publish"}) = {}
                                /\ cmd'.nlen => cmd'.nominal <= cmd'.dist
                                /\ cmd'.sync => cmd'.max = 0
             PROVE  Plan'
  OBVIOUS
<1>1. UNCHANGED <<head, tail, planned, blk, recalc, entry, trap, current, nominal>>
  BY DEF idxVars, planVars
<1>2. Pushes /\ Limits /\ Junctions /\ Braking /\ Early /\ Backward /\ Onward /\ Trimmed /\ Trapped
  BY DEF Plan, Sped
<1>3. /\ \A i \in Slots : ToHead(i)' = ToHead(i)
      /\ \A a, b \in Slots : Follows(a, b)' <=> Follows(a, b)
      /\ \A i \in Slots : Last(i)' <=> Last(i)
      /\ ToHead(planned)' = ToHead(planned) /\ ToHead(tail)' = ToHead(tail)
  BY <1>1, SamePlaces DEF ToHead
<1>4. \A i \in Slots : Waits(i)' <=> Waits(i)
  BY <1>1, <1>3 DEF Waits, Move
<1>5. \A i : Drives(i)' <=> Drives(i)
  BY <1>1 DEF Drives
<1>6. Braking' /\ Early' /\ (Pushed' <=> Pushed)
  BY <1>1, <1>2, <1>3, <1>4 DEF Braking, Brakes, Early, Reaches, Pushed
<1>7. CASE pc' # pc
  <2>1. pc \notin {"delay", "publish"} /\ pc' \notin {"delay", "publish"} /\ pc' \notin PlanningSteps
    BY <1>7
  <2>2. Limits'
    BY <1>1, <1>2, <1>7 DEF Limits, Own
  <2>3. Junctions'
    BY <1>1, <1>2, <1>3, <1>4, <2>1 DEF Junctions, Linked
  <2>4. planned' = head' \/ blk'[planned'].sync => Pushed'
    BY <1>1, <1>2, <1>6 DEF Pushes
  <2>5. \A i \in Slots : Waits(i)' => recalc'[i] \/ Drives(i)'
    BY <1>1, <1>2, <1>4, <1>5 DEF Trapped
  <2>6. current' # NoSlot => Drives(current)'
    BY <1>1, <1>2 DEF Trapped, Drives
  <2> QED
    BY <1>6, <2>1, <2>2, <2>3, <2>4, <2>5, <2>6, NoPassPlan
<1>8. CASE pc' = pc
  <2>1. UNCHANGED <<pc, bi, pl, ref, hd, newv, cmd>>
    BY <1>8 DEF locVars
  <2>2. Limits'
    BY <1>1, <1>2, <2>1 DEF Limits, Own
  <2>3. Junctions'
    BY <1>1, <1>2, <1>3, <1>4, <2>1 DEF Junctions, Linked
  <2>4. Pushes'
    BY <1>1, <1>2, <1>6, <2>1 DEF Pushes
  <2>5. Backward'
    BY <1>1, <1>2, <2>1 DEF Backward, After, Last, Move, OnlySync, ToHead, ReverseEntry, minSpeed
  <2>6. Onward'
    BY <1>1, <1>2, <2>1 DEF Onward, ForwardEntry, ForwardChanges
  <2>7. Trimmed'
    BY <1>1, <1>2, <2>1 DEF Trimmed, AtLast, ToHead, Move, OnlySync
  <2>8. Trapped'
    BY <1>1, <1>2, <2>1 DEF Trapped, Drives, Waits, Move, ToHead
  <2> QED
    BY <1>6, <2>2, <2>3, <2>4, <2>5, <2>6, <2>7, <2>8 DEF Plan, Sped
<1> QED
  BY <1>7, <1>8

LEMMA ReloadPlan == IInv /\ Look /\ Plan /\ ReloadDelay => Plan'
<1> SUFFICES ASSUME IInv, Look, Plan, ReloadDelay
             PROVE  Plan'
  OBVIOUS
<1>1. /\ UNCHANGED <<head, tail, planned, blk, recalc, entry, trap, current, nominal, cmd>>
      /\ pc = "delay" /\ pc' = "publish"
  BY DEF ReloadDelay, CallerFrame, StopFrame, At, Goto, planVars, userVars
<1>2. Pushes /\ Limits /\ Junctions /\ Braking /\ Early /\ Trapped
  BY DEF Plan, Sped
<1>3. /\ \A a, b \in Slots : Follows(a, b)' <=> Follows(a, b)
      /\ \A i \in Slots : (Last(i)' <=> Last(i)) /\ ToHead(i)' = ToHead(i)
      /\ ToHead(planned)' = ToHead(planned) /\ ToHead(tail)' = ToHead(tail)
  BY <1>1, SamePlaces DEF ToHead
<1>4. \A i \in Slots : Waits(i)' <=> Waits(i)
  BY <1>1, <1>3 DEF Waits, Move
<1>5. Limits' /\ Braking' /\ Early' /\ (Pushed' <=> Pushed)
  BY <1>1, <1>2, <1>3, <1>4 DEF Limits, Own, Braking, Brakes, Early, Reaches, Pushed
<1>6. Junctions'
  BY <1>1, <1>2, <1>3, <1>4 DEF Junctions, Linked
<1>7. \A i \in Slots : Waits(i)' => recalc'[i] \/ Drives(i)'
  BY <1>1, <1>2, <1>4 DEF Trapped, Drives
<1>8. current' # NoSlot => Drives(current)'
  BY <1>1, <1>2 DEF Trapped, Drives
<1>9. planned' = head' \/ blk'[planned'].sync => Pushed'
  BY <1>1, <1>2, <1>5 DEF Pushes
<1> QED
  BY <1>1, <1>5, <1>6, <1>7, <1>8, <1>9, NoPassPlan DEF PlanningSteps

(* The junction speed suits the move before as well as the new one. *)
LEMMA JunctionSuits ==
  ASSUME IInv
  PROVE  /\ JunctionSpeed \in Nat /\ JunctionSpeed <= cmd.nominal
         /\ JunctionSpeed <= nominal \/ JunctionSpeed <= SafeSpeed
BY Speeds DEF JunctionSpeed, Joint, SafeOf, minSpeed

(* While a slot is being filled it is not the one that is being executed.  *)
LEMMA HeadIsFree ==
  ASSUME IInv, pc \in Filling
  PROVE  current # head
<1>1. cleaning \in Nat /\ ~(cleaning > 0)
  BY DEF IInv, HandOver, CleanIsEmpty, Types, TypeOK
<1> QED
  BY <1>1, Places DEF IInv, HandOver, BusyIsTail, has_blocks_queued

LEMMA FillPlan == IInv /\ Look /\ Plan /\ (PopulateBlock \/ FillSyncBlock) => Plan'
<1> SUFFICES ASSUME IInv, Look, Plan, PopulateBlock \/ FillSyncBlock
             PROVE  Plan'
  OBVIOUS
<1> DEFINE new == blk'[head]
<1>1. /\ pc = "fill" /\ pc' = "delay"
      /\ UNCHANGED <<head, tail, planned, current, cmd>>
      /\ \A i \in Slots : i # head => /\ blk'[i] = blk[i] /\ entry'[i] = entry[i]
                                      /\ trap'[i] = trap[i] /\ recalc'[i] = recalc[i]
      /\ entry'[head] = 0
      /\ new.nominal = cmd.nominal /\ new.dist = cmd.dist /\ new.nlen = cmd.nlen
      /\ cmd.sync => nominal' = nominal /\ new.max = cmd.max
      /\ ~cmd.sync => nominal' = cmd.nominal /\ new.max = JunctionSpeed
  BY Places DEF PopulateBlock, FillSyncBlock, CallerFrame, StopFrame, At, Goto, MarkRecalculate,
     ClearRecalculate,
     Blocks
<1>2. Pushes /\ Limits /\ Junctions /\ Braking /\ Early /\ Trapped
  BY DEF Plan, Sped
<1>3. /\ \A i \in Slots : i # head <=> ToHead(i) >= 1
      /\ \A i \in Slots : ToHead(i)' = ToHead(i) /\ ToHead(i) \in Nat
      /\ ToHead(planned)' = ToHead(planned) /\ ToHead(tail)' = ToHead(tail)
      /\ head \in Slots /\ planned \in Slots /\ current \in Slots \cup {NoSlot}
  BY <1>1, Places, Distances DEF ToHead
<1>4. ASSUME NEW i \in Slots, Waits(i)'
      PROVE  Waits(i) /\ i # head
  BY <1>1, <1>3, <1>4 DEF Waits, Move
<1>5. ASSUME NEW l \in Slots, Last(l)'
      PROVE  Last(l)
  BY <1>1, <1>3, <1>5 DEF Last
<1>6. ASSUME NEW a \in Slots, NEW b \in Slots, Follows(a, b)'
      PROVE  Follows(a, b) /\ a # head /\ b # head
  <2>1. ToHead(a) >= 1 /\ ToHead(b) >= 1 /\ ToHead(b) < ToHead(a)
    BY <1>3, <1>6 DEF Follows, Move
  <2>2. Move(a) /\ Move(b)
    BY <1>1, <1>3, <1>6, <2>1 DEF Follows, Move
  <2>3. ASSUME NEW c \in Slots, ToHead(b) < ToHead(c), ToHead(c) < ToHead(a)
        PROVE  blk[c].sync
    <3>1. ToHead(c) >= 1 /\ blk'[c].sync
      BY <1>3, <1>6, <2>1, <2>3 DEF Follows, OnlySync
    <3> QED
      BY <1>1, <1>3, <3>1
  <2> QED
    BY <1>3, <2>1, <2>2, <2>3 DEF Follows, OnlySync
<1>7. Limits'
  <2>1. new.max \in Nat /\ new.max <= new.nominal
    BY <1>1, <1>2, JunctionSuits, Speeds DEF Limits
  <2>2. Own(new)
    BY <1>1, <1>2, <2>1 DEF Limits, Own
  <2> QED
    BY <1>1, <1>2, <2>1, <2>2 DEF Limits, Own
<1>8. Junctions'
  <2>1. ASSUME NEW a \in Slots, NEW b \in Slots, Waits(a)', Follows(a, b)'
        PROVE  Linked(a, blk[b].max)'
    BY <1>1, <1>2, <1>4, <1>6, <2>1 DEF Junctions, Linked
  <2>2. ASSUME NEW a \in Slots, Waits(a)', Last(a)'
        PROVE  IF ~cmd.sync THEN Linked(a, blk[head].max)' ELSE nominal' = blk'[a].nominal
    <3>1. nominal = blk[a].nominal /\ blk'[a] = blk[a]
      BY <1>1, <1>2, <1>4, <1>5, <2>2 DEF Junctions
    <3> QED
      BY <1>1, <3>1, JunctionSuits DEF Linked
  <2> QED
    BY <1>1, <2>1, <2>2 DEF Junctions, Linked
<1>9. Braking'
  BY <1>1, <1>2, <1>4, <1>5, <1>6 DEF Braking, Brakes
<1>10. Early'
  BY <1>1, <1>2, <1>3, <1>4, <1>6 DEF Early, Reaches
<1>11. planned' = head' \/ blk'[planned'].sync => Pushed'
  <2>1. planned = head \/ blk[planned].sync => Pushed
    BY <1>2 DEF Pushes
  <2>2. Pushed' <=> Pushed
    BY <1>1, <1>3 DEF Pushed
  <2> QED
    BY <1>1, <1>3, <2>1, <2>2
<1>12. \A i \in Slots : Waits(i)' => recalc'[i] \/ Drives(i)'
  BY <1>1, <1>2, <1>4 DEF Trapped, Drives
<1>13. current' # NoSlot => Drives(current)'
  BY <1>1, <1>2, <1>3, HeadIsFree DEF Trapped, Drives, Filling
<1> QED
  BY <1>1, <1>7, <1>8, <1>9, <1>10, <1>11, <1>12, <1>13, NoPassPlan DEF PlanningSteps

(* Publishing: what waits and what follows what, after it.                 *)
LEMMA PublishPlaces ==
  ASSUME IInv, Look, Publish
  PROVE  /\ \A i \in Slots : Waits(i)' => i # head' /\ ((i = head /\ ~cmd.sync) \/ Waits(i))
         /\ \A l \in Slots : l # head' /\ l # head /\ Last(l)' => Last(l) /\ cmd.sync
         /\ \A a, b \in Slots : Follows(a, b)' /\ Waits(a)' =>
              /\ Waits(a) /\ a # head' /\ a # head
              /\ (b = head /\ Last(a) /\ ~cmd.sync) \/ (b # head /\ Follows(a, b))
<1>1. /\ pc = "publish" /\ head' = NextIndex(head) /\ pc' \in {"idle", "recalc"}
      /\ UNCHANGED <<tail, planned, blk, current, recalc, entry, trap, nominal>>
      /\ cmd' = NoBlock
      /\ (blk[head].sync <=> cmd.sync) /\ (~blk[head].sync => recalc[head]) /\ entry[head] = 0
  BY DEF Publish, CallerFrame, StopFrame, At, Goto, planVars, Look, NewBlock
<1>2. /\ head \in Slots /\ tail \in Slots /\ planned \in Slots /\ NextIndex(head) # tail
      /\ \A i \in Slots : blk[i].dist \in Nat /\ blk[i].max \in Nat /\ entry[i] \in Nat
  BY <1>1, Places DEF IInv, HandOver, RoomKept, Filling
<1>3. /\ head' \in Slots /\ head' # head /\ ToHead(head') = Size - 1 /\ Ahead(head', head') = 0
      /\ \A i \in Slots : i # head' => ToHead(i)' = ToHead(i) + 1
  BY <1>1, <1>2, Farther
<1>4. /\ \A i \in Slots : ToHead(i) \in Nat /\ ToHead(i) < Size /\ (ToHead(i) = 0 <=> i = head)
      /\ \A i, j \in Slots : ToHead(i) = ToHead(j) => i = j
  BY <1>2, Distances
<1>5. ToHead(planned) <= ToHead(tail) /\ planned # head' /\ tail # head'
  <2>1. ToHead(planned) <= ToHead(tail) /\ ToHead(tail) # Size - 1
    BY <1>1, <1>2, <1>3, <1>4 DEF Look, Ordered
  <2> QED
    BY <1>1, <1>2, <1>3, <1>4, <2>1, SizeAssumption
<1>6. /\ ToHead(planned)' = ToHead(planned) + 1 /\ ToHead(tail)' = ToHead(tail) + 1
      /\ \A i \in Slots : ToHead(i)' >= 1 => i # head'
      /\ \A i \in Slots : ToHead(i)' \in Nat
  <2>1. ToHead(planned)' = Ahead(planned, head') /\ ToHead(tail)' = Ahead(tail, head')
    BY <1>1 DEF ToHead
  <2>2. \A i \in Slots : ToHead(i)' = Ahead(i, head')
    BY DEF ToHead
  <2> QED
    BY <1>2, <1>3, <1>4, <1>5, <2>1, <2>2
<1>8. ASSUME NEW i \in Slots, Waits(i)'
      PROVE  i # head' /\ ((i = head /\ ~cmd.sync) \/ Waits(i))
  BY <1>1, <1>2, <1>3, <1>4, <1>6, <1>8 DEF Waits, Move
<1>9. ASSUME NEW l \in Slots, l # head', l # head, Last(l)'
      PROVE  Last(l) /\ cmd.sync
  <2>1. /\ ToHead(l) >= 1 /\ ToHead(l)' = ToHead(l) + 1
        /\ \A c \in Slots : c = head => ToHead(c)' = 1
    BY <1>2, <1>3, <1>4, <1>9
  <2>2. blk[head].sync
    BY <1>1, <1>2, <1>4, <1>9, <2>1 DEF Last
  <2>3. ASSUME NEW c \in Slots, 1 <= ToHead(c), ToHead(c) < ToHead(l)
        PROVE  blk[c].sync
    <3>1. c # head'
      BY <1>3, <1>4, <2>3, SizeAssumption
    <3>2. ToHead(c)' = ToHead(c) + 1
      BY <1>3, <3>1
    <3> QED
      BY <1>1, <1>4, <1>9, <2>1, <2>3, <3>2 DEF Last
  <2> QED
    BY <1>1, <2>2, <2>3 DEF Last
<1>10. ASSUME NEW a \in Slots, NEW b \in Slots, Follows(a, b)', Waits(a)'
       PROVE  /\ Waits(a) /\ a # head' /\ a # head
              /\ (b = head /\ Last(a) /\ ~cmd.sync) \/ (b # head /\ Follows(a, b))
  <2>1. /\ a # head' /\ b # head' /\ ToHead(a)' = ToHead(a) + 1 /\ ToHead(b)' = ToHead(b) + 1
        /\ ToHead(b) < ToHead(a) /\ ~blk[a].sync /\ ~blk[b].sync
    <3>1. a # head' /\ b # head'
      BY <1>6, <1>10 DEF Follows, Move
    <3>2. ToHead(a)' = ToHead(a) + 1 /\ ToHead(b)' = ToHead(b) + 1
      BY <1>3, <3>1
    <3> QED
      BY <1>1, <1>4, <1>10, <3>1, <3>2 DEF Follows, Move
  <2>2. a # head /\ Waits(a)
    BY <1>2, <1>4, <1>8, <1>10, <2>1
  <2>3. ASSUME NEW c \in Slots, ToHead(b) < ToHead(c), ToHead(c) < ToHead(a)
        PROVE  blk[c].sync
    <3>1. c # head'
      BY <1>3, <1>4, <2>1, <2>3, SizeAssumption
    <3>2. ToHead(c)' = ToHead(c) + 1
      BY <1>3, <3>1
    <3> QED
      BY <1>1, <1>4, <1>10, <2>1, <2>3, <3>2 DEF Follows, OnlySync
  <2>4. CASE b = head
    <3>1. Last(a)
      BY <1>4, <2>3, <2>4 DEF Last
    <3>2. ~cmd.sync
      BY <1>1, <2>1, <2>4
    <3> QED
      BY <2>1, <2>2, <2>4, <3>1, <3>2
  <2>5. CASE b # head
    <3>1. Follows(a, b)
      BY <1>4, <2>1, <2>3, <2>5 DEF Follows, Move, OnlySync
    <3> QED
      BY <2>1, <2>2, <2>5, <3>1
  <2> QED
    BY <2>4, <2>5
<1> QED
  BY <1>8, <1>9, <1>10

(* The new block comes with an entry speed of zero: the last move before   *)
(* it can brake to that, and reaches it.                                   *)
LEMMA PublishPlan == IInv /\ Look /\ Plan /\ Publish => Plan'
<1> SUFFICES ASSUME IInv, Look, Plan, Publish
             PROVE  Plan'
  OBVIOUS
<1>1. /\ pc = "publish" /\ head' = NextIndex(head) /\ pc' \in {"idle", "recalc"}
      /\ UNCHANGED <<tail, planned, blk, current, recalc, entry, trap, nominal>>
      /\ cmd' = NoBlock
      /\ (blk[head].sync <=> cmd.sync) /\ (~blk[head].sync => recalc[head]) /\ entry[head] = 0
  BY DEF Publish, CallerFrame, StopFrame, At, Goto, planVars, Look, NewBlock
<1>2. /\ head \in Slots /\ tail \in Slots /\ planned \in Slots /\ NextIndex(head) # tail
      /\ \A i \in Slots : blk[i].dist \in Nat /\ blk[i].max \in Nat /\ entry[i] \in Nat
  BY <1>1, Places DEF IInv, HandOver, RoomKept, Filling
<1>3. /\ head' \in Slots /\ head' # head /\ ToHead(head') = Size - 1 /\ Ahead(head', head') = 0
      /\ \A i \in Slots : i # head' => ToHead(i)' = ToHead(i) + 1
  BY <1>1, <1>2, Farther
<1>4. /\ \A i \in Slots : ToHead(i) \in Nat /\ ToHead(i) < Size /\ (ToHead(i) = 0 <=> i = head)
      /\ \A i, j \in Slots : ToHead(i) = ToHead(j) => i = j
  BY <1>2, Distances
<1>5. ToHead(planned) <= ToHead(tail) /\ planned # head' /\ tail # head'
  <2>1. ToHead(planned) <= ToHead(tail) /\ ToHead(tail) # Size - 1
    BY <1>1, <1>2, <1>3, <1>4 DEF Look, Ordered
  <2> QED
    BY <1>1, <1>2, <1>3, <1>4, <2>1, SizeAssumption
<1>6. /\ ToHead(planned)' = ToHead(planned) + 1 /\ ToHead(tail)' = ToHead(tail) + 1
      /\ \A i \in Slots : ToHead(i)' >= 1 => i # head'
      /\ \A i \in Slots : ToHead(i)' \in Nat
  <2>1. ToHead(planned)' = Ahead(planned, head') /\ ToHead(tail)' = Ahead(tail, head')
    BY <1>1 DEF ToHead
  <2>2. \A i \in Slots : ToHead(i)' = Ahead(i, head')
    BY DEF ToHead
  <2> QED
    BY <1>2, <1>3, <1>4, <1>5, <2>1, <2>2
<1>7. Pushes /\ Limits /\ Junctions /\ Braking /\ Early /\ Trapped
  BY DEF Plan, Sped
<1>8. \A i \in Slots : Waits(i)' => i # head' /\ ((i = head /\ ~cmd.sync) \/ Waits(i))
  BY PublishPlaces
<1>9. \A l \in Slots : l # head' /\ l # head /\ Last(l)' => Last(l) /\ cmd.sync
  BY PublishPlaces
<1>10. \A a, b \in Slots : Follows(a, b)' /\ Waits(a)' =>
         /\ Waits(a) /\ a # head' /\ a # head
         /\ (b = head /\ Last(a) /\ ~cmd.sync) \/ (b # head /\ Follows(a, b))
  BY PublishPlaces
<1>11. Limits'
  BY <1>1, <1>7 DEF Limits, Own, NoBlock
<1>12. Junctions'
  <2>1. ASSUME NEW a \in Slots, NEW b \in Slots, Waits(a)', Follows(a, b)'
        PROVE  Linked(a, blk[b].max)
    BY <1>1, <1>7, <1>10, <2>1 DEF Junctions
  <2>2. ASSUME NEW a \in Slots, Waits(a)', Last(a)'
        PROVE  nominal = blk[a].nominal
    <3>1. CASE a = head
      BY <1>1, <1>7, <1>8, <2>2, <3>1 DEF Junctions, Waits, Move
    <3>2. CASE a # head
      BY <1>1, <1>7, <1>8, <1>9, <2>2, <3>2 DEF Junctions
    <3> QED
      BY <3>1, <3>2
  <2> QED
    BY <1>1, <2>1, <2>2 DEF Junctions, Linked
<1>13. Braking'
  <2>1. ASSUME NEW a \in Slots, NEW b \in Slots, Waits(a)', Follows(a, b)'
        PROVE  Brakes(a, b)
    BY <1>1, <1>2, <1>7, <1>10, <2>1 DEF Braking, Brakes
  <2>2. ASSUME NEW a \in Slots, Waits(a)', Last(a)'
        PROVE  entry[a] <= blk[a].dist
    BY <1>1, <1>2, <1>7, <1>8, <1>9, <2>2 DEF Braking
  <2> QED
    BY <1>1, <2>1, <2>2 DEF Braking, Brakes
<1>14. Early'
  <2> SUFFICES ASSUME NEW a \in Slots, NEW b \in Slots, Waits(a)', Follows(a, b)', a # current,
                      ToHead(planned)' < ToHead(a)'
               PROVE  Reaches(a, b)
    BY <1>1 DEF Early, Reaches
  <2>1. ToHead(planned) < ToHead(a)
    BY <1>2, <1>3, <1>4, <1>6, <1>10
  <2> QED
    BY <1>1, <1>2, <1>7, <1>10, <2>1 DEF Early, Reaches
<1>15. planned' = head' \/ blk'[planned'].sync => Pushed'
  <2>1. Pushed => Pushed'
    <3> SUFFICES ASSUME Pushed, NEW a \in Slots, ToHead(planned)' < ToHead(a)', ToHead(a)' <= ToHead(tail)'
                 PROVE  a = current
      BY <1>1 DEF Pushed
    <3>1. ToHead(a)' = ToHead(a) + 1
      BY <1>2, <1>3, <1>4, <1>6
    <3> QED
      BY <1>2, <1>4, <1>6, <3>1 DEF Pushed
  <2> QED
    BY <1>1, <1>5, <1>7, <2>1 DEF Pushes
<1>16. \A i \in Slots : Waits(i)' => recalc'[i] \/ Drives(i)'
  BY <1>1, <1>7, <1>8 DEF Trapped, Drives
<1>17. current' # NoSlot => Drives(current)'
  BY <1>1, <1>7 DEF Trapped, Drives
<1> QED
  BY <1>1, <1>11, <1>12, <1>13, <1>14, <1>15, <1>16, <1>17, NoPassPlan DEF PlanningSteps

LEMMA DropPlan == IInv /\ Look /\ Plan /\ DropBlocks => Plan'
<1> SUFFICES ASSUME IInv, Look, Plan, DropBlocks
             PROVE  Plan'
  OBVIOUS
<1>1. /\ pc' = "abort" /\ head' = tail /\ planned' = tail /\ tail' = tail /\ tail \in Slots
      /\ UNCHANGED <<blk, recalc, entry, trap, current, cmd, nominal>>
  BY Places DEF DropBlocks, Goto, planVars, userVars
<1>2. /\ ToHead(planned)' = 0 /\ ToHead(tail)' = 0
      /\ \A i \in Slots : ToHead(i)' \in Nat
  BY <1>1, SizeAssumption DEF ToHead, Ahead, Slots
<1>3. \A i \in Slots : ~Waits(i)'
  BY <1>2 DEF Waits, Move
<1>4. Limits /\ Trapped
  BY DEF Plan, Sped
<1>5. Limits'
  BY <1>1, <1>4 DEF Limits, Own
<1>6. Junctions' /\ Braking' /\ Early' /\ Pushed'
  BY <1>1, <1>2, <1>3 DEF Junctions, Braking, Early, Pushed
<1>7. current' # NoSlot => Drives(current)'
  BY <1>1, <1>4 DEF Trapped, Drives
<1> QED
  BY <1>1, <1>3, <1>5, <1>6, <1>7, NoPassPlan DEF PlanningSteps

LEMMA CallerPlan == IInv /\ Look /\ Plan /\ (Call \/ Continue) => Plan'
<1> SUFFICES ASSUME IInv, Look, Plan, Call \/ Continue
             PROVE  Plan'
  OBVIOUS
<1> USE DEF CallerFrame, StopFrame, At, Goto, idxVars, planVars, locVars, userVars, PlanningSteps
<1>1. (cmd.nlen => cmd.nominal <= cmd.dist) /\ (cmd.sync => cmd.max = 0)
  BY DEF Plan, Sped, Limits
<1>2. ASSUME NEW p \in Profiles, BufferSteps(p)
      PROVE  Plan'
  <2>1. cmd'.nominal = p.nominal /\ cmd'.dist = p.dist /\ cmd'.nlen = (p.nominal <= p.dist) /\ ~cmd'.sync
    BY <1>2 DEF BufferSteps, NoBlock
  <2> QED
    BY <1>2, <2>1, QuietPlan DEF BufferSteps
<1>3. CASE SetMachinePosition(0) \/ Synchronize \/ QuickStop
  BY <1>1, <1>3, QuietPlan DEF SetMachinePosition, Synchronize, QuickStop, CutIn, InIdle, WaitSteps
<1>4. CASE GetNextFreeBlock
  BY <1>1, <1>4, QuietPlan DEF GetNextFreeBlock
<1>8. CASE SetStepperPosition
  <2>1. pc = "setpos" /\ pc' \in {"idle"} \cup WaitSteps
    BY <1>8, ReturnWaits DEF SetStepperPosition, IInv, Types
  <2> QED
    BY <1>1, <1>8, <2>1, QuietPlan DEF SetStepperPosition, WaitSteps
<1>5. CASE PlacePosition
  <2>1. (cmd'.nlen => cmd'.nominal <= cmd'.dist) /\ (cmd'.sync => cmd'.max = 0)
    BY <1>1, <1>5 DEF PlacePosition, NoBlock
  <2> QED
    BY <1>5, <2>1, QuietPlan DEF PlacePosition
<1>6. CASE Synchronized \/ AbortBlock \/ StopSynchronized \/ Resync
  BY <1>1, <1>6, QuietPlan DEF Synchronized, AbortBlock, StopSynchronized, Resync
<1>7. CASE RecalcNext
  BY <1>7, RecalcPlan
<1> QED
  BY <1>2, <1>3, <1>4, <1>5, <1>6, <1>7, <1>8, ReloadPlan, FillPlan, PublishPlan, DropPlan DEF Call, Continue

LEMMA PlanKept == IInv /\ Look /\ Plan /\ [Next]_vars => Plan'
<1> SUFFICES ASSUME IInv, Look, Plan, [Next]_vars
             PROVE  Plan'
  OBVIOUS
<1>1. CASE Call \/ Continue
  BY <1>1, CallerPlan
<1>2. CASE Display \/ OtherInterrupt
  <2>1. UNCHANGED <<idxVars, blk, planVars, current, pc, locVars, userVars>>
    BY <1>2 DEF Display, StopPrinting, StopHome, OtherInterrupt, EndstopTriggered, Tick, stepVars
  <2> QED
    BY <2>1, QuietPlan DEF userVars
<1>3. CASE Interrupt
  BY <1>3, InterruptPlan
<1>4. CASE UNCHANGED vars
  <2>1. UNCHANGED <<idxVars, blk, planVars, current, pc, locVars, userVars>>
    BY <1>4 DEF vars, stepVars
  <2> QED
    BY <2>1, QuietPlan DEF userVars
<1> QED
  BY <1>1, <1>2, <1>3, <1>4 DEF Next

LEMMA PlanAlways == ASSUME ~Overlap PROVE Spec => [](IInv /\ Look /\ Plan)
<1>1. Init => Plan
  <2> SUFFICES ASSUME Init PROVE Plan
    OBVIOUS
  <2>1. /\ head = 0 /\ tail = 0 /\ planned = 0 /\ current = NoSlot /\ pc = "idle" /\ cmd = NoBlock
        /\ blk = [i \in Slots |-> NoBlock] /\ entry = [i \in Slots |-> 0]
    BY DEF Init
  <2>2. ToHead(tail) = 0 /\ \A i \in Slots : ToHead(i) \in Nat
    BY <2>1, SizeAssumption DEF ToHead, Ahead, Slots
  <2>3. \A i \in Slots : ~Waits(i)
    BY <2>2 DEF Waits, Move
  <2>4. Limits
    BY <2>1 DEF Limits, Own, NoBlock
  <2>5. Pushes /\ Junctions /\ Braking /\ Early
    BY <2>1, <2>2, <2>3 DEF Pushes, Pushed, ToHead, Junctions, Braking, Early
  <2>6. Backward /\ Onward /\ Trimmed /\ Trapped
    BY <2>1, <2>3 DEF Backward, Onward, Trimmed, Trapped
  <2> QED
    BY <2>4, <2>5, <2>6 DEF Plan, Sped
<1> QED
  BY <1>1, LookAlways, PlanKept, PTL DEF Spec

(* Every block is executed with a trapezoid it can be driven with, however *)
(* often the interrupt has pushed the planned index under the passes.      *)
THEOREM BlocksAreFeasible == ASSUME ~Overlap PROVE Spec => []Feasible
<1>1. Plan => Feasible
  BY DEF Plan, Trapped, Drives, Feasible
<1> QED
  BY <1>1, PlanAlways, PTL
-----------------------------------------------------------------------------
(* Speeds from block to block, when the passes run as a whole and no sync  *)
(* block is queued                                                         *)

(* No interrupt is under way inside recalculate().                         *)
Alone == pc \in PlanningSteps => isr = "out"

(* Nothing is in the queue that a sync block would have to wait for.       *)
OnlyMoves ==
  /\ \A i \in Slots : ~blk[i].sync
  /\ ~cmd.sync
  /\ pc \in {"abort", "drain", "resync", "place", "setpos"} => head = tail

(* A waiting move's trapezoid begins at its entry speed and ends at the    *)
(* next move's, or at a halt, where no flag says that it has yet to; that  *)
(* of the move being executed is never rewritten, and has no need to be.   *)
Due(i) == i # current /\ recalc[i]
Met ==
  /\ \A i \in Slots : Waits(i) => trap[i].initial = entry[i] \/ Due(i)
  /\ \A a, b \in Slots :
       Waits(a) /\ Follows(a, b) =>
         trap[a].final = entry[b] \/ (a # current /\ (recalc[a] \/ recalc[b]))
  /\ \A a \in Slots : Waits(a) /\ Last(a) => trap[a].final = 0 \/ Due(a)

(* The passes leave the move after the executed one alone.                 *)
Steady ==
  /\ pc \in {"revLoop", "revCheck", "revWrite", "revStep", "revFollow"} => pl = planned
  /\ pc \in Forward => /\ ToHead(bi) <= ToHead(tail)
                       /\ ref # NoSlot => ToHead(ref) <= ToHead(tail)
  /\ pc \in {"fwdKernel", "fwdCheck", "fwdWrite"} => ref # current

(* Behind the trapezoids' front everything is recalculated; the front is   *)
(* at the reference, and one farther when that is done.                    *)
Front(f) == IF pc = "trapStep" THEN f = bi ELSE f = ref
Behind ==
  \A f \in Slots : Front(f) =>
    /\ \A i \in Slots : Waits(i) /\ ToHead(f) < ToHead(i) => ~recalc[i]
    /\ \A a, b \in Slots :
         Waits(a) /\ Follows(a, b) /\ ToHead(f) <= ToHead(b) => trap[a].final = entry[b]
Sweeping == {"trapTrim", "trapLoop", "trapCheck", "trapWrite", "trapClear", "trapStep"}
Swept ==
  /\ pc \in Sweeping =>
       /\ hd = head /\ (ref = NoSlot => bi = tail)
       /\ Behind
  /\ pc = "trapClear" /\ Waits(ref) =>
       /\ trap[ref].initial = entry[ref]
       /\ trap[ref].final = IF AtLast THEN 0 ELSE entry[bi]
  /\ pc \notin PlanningSteps => \A i \in Slots : Waits(i) => ~recalc[i]

(* The speed the last block ended at is the next one's entry speed; the    *)
(* stepper stands still with nothing to execute only if that is zero.      *)
Ended ==
  /\ current = NoSlot /\ exit # Unknown => exit = IF head = tail THEN 0 ELSE entry[tail]
  /\ current = NoSlot /\ (isr # "fetch" \/ delay > 0) => exit \in {0, Unknown}
  /\ delay > 0 /\ head # tail => current = NoSlot
  /\ isr = "block" /\ current # NoSlot => head # tail

Flow == StopHolds /\ Alone /\ OnlyMoves /\ Met /\ Steady /\ Swept /\ Ended
-----------------------------------------------------------------------------
(* What the two hypotheses give *)

LEMMA AloneStep ==
  ASSUME ~Preemptible, Alone, [Next]_vars
  PROVE  Alone' /\ (Interrupt => pc \notin PlanningSteps /\ pc' = pc)
<1>1. CASE Interrupt
  <2>1. pc' = pc /\ pc \notin PlanningSteps
    BY <1>1 DEF Interrupt, PulseDiscard, PulseStep, MayFire, BlockDone, BlockContinues, FetchNothing,
       FetchSync, FetchMove, Deliver, Alone
  <2> QED
    BY <2>1 DEF Alone
<1>2. CASE ~Interrupt
  <2>1. isr' = isr /\ (pc' = pc \/ isr = "out")
    <3>1. CASE Call
      <4>1. CASE QuickStop
        BY <4>1 DEF QuickStop, CutIn, InIdle, StopFrame
      <4> QED
        BY <3>1, <4>1 DEF Call, BufferSteps, SetMachinePosition, Synchronize, At, CallerFrame, StopFrame
    <3>2. CASE Continue
      BY <3>2 DEF Continue, GetNextFreeBlock, PopulateBlock, FillSyncBlock, ReloadDelay, Publish,
         PlacePosition, SetStepperPosition, Synchronized, DropBlocks, AbortBlock, StopSynchronized,
         Resync, CallerFrame, StopFrame, RecalcNext, stepVars, At, Recalculate, RevStart, RevDone, RevKernel,
         RevCheck, RevWrite, RevStep, RevFollow, FwdStart, FwdDone, FwdLoop, FwdKernel, FwdCheck,
         FwdWrite, FwdMax, FwdStep, TrapStart, TrapTrim, TrapLoop, TrapCheck, TrapWrite, TrapClear,
         TrapStep
    <3>3. CASE Display \/ OtherInterrupt \/ UNCHANGED vars
      BY <3>3 DEF Display, OtherInterrupt, EndstopTriggered, Tick, vars, stepVars
    <3> QED
      BY <1>2, <3>1, <3>2, <3>3 DEF Next
  <2> QED
    BY <1>2, <2>1 DEF Alone
<1> QED
  BY <1>1, <1>2

LEMMA OnlyMovesStep ==
  ASSUME ~SyncBlocks, IInv, OnlyMoves, [Next]_vars
  PROVE  OnlyMoves'
<1> USE DEF At, Goto, CallerFrame, StopFrame, idxVars, userVars
<1>1. blk \in [Slots -> Blocks] /\ cmd \in Blocks /\ head \in Slots
  BY Places
<1>2. CASE UNCHANGED <<blk, cmd, head, tail>> /\ (pc' = pc \/ pc' \notin {"abort", "drain", "resync", "place", "setpos"})
  BY <1>2 DEF OnlyMoves
<1>3. CASE Call
  <2>1. ASSUME NEW p \in Profiles, BufferSteps(p)
        PROVE  OnlyMoves'
    <3>1. ~cmd'.sync
      BY <2>1 DEF BufferSteps, NoBlock
    <3> QED
      BY <2>1, <3>1 DEF BufferSteps, OnlyMoves
  <2>2. CASE Synchronize \/ QuickStop
    BY <1>2, <2>2 DEF Synchronize, QuickStop, CutIn
  <2>3. ~SetMachinePosition(0)
    BY DEF SetMachinePosition
  <2> QED
    BY <1>3, <2>1, <2>2, <2>3 DEF Call
<1>4. CASE PopulateBlock
  <2>1. blk'[head].sync = cmd.sync /\ \A i \in Slots : i # head => blk'[i] = blk[i]
    BY <1>1, <1>4 DEF PopulateBlock, Blocks
  <2> QED
    BY <1>4, <2>1 DEF PopulateBlock, OnlyMoves
<1>5. CASE FillSyncBlock
  BY <1>5 DEF FillSyncBlock, OnlyMoves
<1>6. CASE Publish
  BY <1>6 DEF Publish, OnlyMoves, NoBlock
<1>7. CASE PlacePosition
  BY <1>7 DEF PlacePosition, OnlyMoves, has_blocks_queued
<1>8. CASE DropBlocks
  BY <1>8 DEF DropBlocks, OnlyMoves
<1>9. CASE AbortBlock \/ StopSynchronized \/ Resync
  BY <1>9 DEF AbortBlock, StopSynchronized, Resync, OnlyMoves
<1>10. CASE GetNextFreeBlock \/ ReloadDelay \/ Synchronized
  BY <1>2, <1>10 DEF GetNextFreeBlock, ReloadDelay, Synchronized
<1>14. CASE SetStepperPosition
  BY <1>14 DEF SetStepperPosition, OnlyMoves
<1>11. CASE RecalcNext
  <2>1. UNCHANGED <<blk, cmd, head, tail>> /\ pc' \in PlanningSteps \cup {"idle"}
    BY <1>11, RecalcFrame DEF RecalcNext
  <2> QED
    BY <1>2, <2>1 DEF PlanningSteps
<1>12. CASE Display \/ OtherInterrupt \/ UNCHANGED vars
  BY <1>2, <1>12 DEF Display, StopPrinting, StopHome, OtherInterrupt, EndstopTriggered, Tick, vars
<1>13. CASE Interrupt
  <2>1. UNCHANGED <<blk, cmd, head, pc>> /\ (head = tail => tail' = tail)
    BY <1>13 DEF Interrupt, PulseDiscard, PulseStep, BlockDone, BlockContinues, FetchNothing, FetchSync,
       FetchMove, Deliver, Delivered, DiscardCurrentBlock, has_blocks_queued
  <2> QED
    BY <2>1 DEF OnlyMoves
<1> QED
  BY <1>3, <1>4, <1>5, <1>6, <1>7, <1>8, <1>9, <1>10, <1>11, <1>12, <1>13, <1>14
  DEF Next, Continue

(* With moves only, the places say which block follows which.              *)
LEMMA MovePlaces ==
  ASSUME IInv, OnlyMoves
  PROVE  /\ \A i \in Slots : Waits(i) <=> 1 <= ToHead(i) /\ ToHead(i) <= ToHead(tail)
         /\ \A a, b \in Slots : Move(a) /\ ToHead(b) < ToHead(a) /\ OnlySync(a, b)
                                  => ToHead(a) = ToHead(b) + 1
         /\ \A a, b \in Slots : Follows(a, b) <=> 1 <= ToHead(b) /\ ToHead(a) = ToHead(b) + 1
         /\ \A a \in Slots : 1 <= ToHead(a) => (Last(a) <=> ToHead(a) = 1)
<1>1. /\ head \in Slots
      /\ \A i \in Slots : ToHead(i) \in Nat /\ ToHead(i) < Size /\ ~blk[i].sync
  BY Places, Distances DEF OnlyMoves
<1>2. \A i \in Slots : Waits(i) <=> 1 <= ToHead(i) /\ ToHead(i) <= ToHead(tail)
  BY <1>1 DEF Waits, Move
<1>3. ASSUME NEW a \in Slots, NEW b \in Slots, ToHead(b) < ToHead(a), OnlySync(a, b)
      PROVE  ToHead(a) = ToHead(b) + 1
  <2>1. PrevIndex(b) \in Slots /\ ToHead(PrevIndex(b)) = ToHead(b) + 1
    BY <1>1, <1>3, PreviousPlace, SizeAssumption
  <2> QED
    BY <1>1, <1>3, <2>1 DEF OnlySync
<1>4. ASSUME NEW a \in Slots, NEW b \in Slots, 1 <= ToHead(b), ToHead(a) = ToHead(b) + 1
      PROVE  Follows(a, b)
  BY <1>1, <1>4 DEF Follows, Move, OnlySync
<1>5. ASSUME NEW a \in Slots, 1 <= ToHead(a), Last(a)
      PROVE  ToHead(a) = 1
  <2>1. PrevIndex(head) \in Slots /\ ToHead(head) = 0 /\ ToHead(PrevIndex(head)) = 1
    BY <1>1, PreviousPlace, Distances, SizeAssumption
  <2> QED
    BY <1>1, <1>5, <2>1 DEF Last
<1>6. ASSUME NEW a \in Slots, ToHead(a) = 1
      PROVE  Last(a)
  BY <1>1, <1>6 DEF Last
<1> QED
  BY <1>1, <1>2, <1>3, <1>4, <1>5, <1>6 DEF Follows, Move

(* What a step of recalculate() leaves alone. *)
LEMMA PassPlaces ==
  ASSUME IInv, OnlyMoves, RecalcNext
  PROVE  /\ UNCHANGED <<head, tail, blk, current, cmd, delay, isr, exit>>
         /\ \A i \in Slots : ToHead(i)' = ToHead(i) /\ ToHead(i) \in Nat
         /\ ToHead(tail)' = ToHead(tail)
         /\ \A i \in Slots : (Waits(i)' <=> Waits(i)) /\ (Last(i)' <=> Last(i))
         /\ \A a, b \in Slots : Follows(a, b)' <=> Follows(a, b)
<1>1. UNCHANGED <<head, tail, blk, current, cmd, delay, isr, exit>>
  BY PassStep DEF RecalcNext, gateVars, stepVars
<1>2. /\ \A i \in Slots : ToHead(i)' = ToHead(i) /\ ToHead(i) \in Nat
      /\ \A a, b \in Slots : Follows(a, b)' <=> Follows(a, b)
      /\ \A i \in Slots : (Move(i)' <=> Move(i)) /\ (Last(i)' <=> Last(i))
  BY <1>1, SamePlaces
<1>3. ToHead(tail)' = ToHead(tail)
  BY <1>1 DEF ToHead
<1> QED
  BY <1>1, <1>2, <1>3 DEF Waits
-----------------------------------------------------------------------------
(* The passes, undisturbed *)

(* Flags may be raised, and that of the executed block cleared.            *)
LEMMA MetRaised ==
  ASSUME IInv, OnlyMoves, Met, RecalcNext, UNCHANGED <<entry, trap>>,
         \A i \in Slots : i # current /\ recalc[i] => recalc'[i]
  PROVE  Met'
<1>1. /\ current' = current /\ current \in Slots \cup {NoSlot}
      /\ \A i \in Slots : (Waits(i)' <=> Waits(i)) /\ (Last(i)' <=> Last(i))
      /\ \A a, b \in Slots : Follows(a, b)' <=> Follows(a, b)
  BY PassPlaces, Places
<1>2. ASSUME NEW a \in Slots, NEW b \in Slots, Waits(a), Follows(a, b)
      PROVE  b # current
  BY <1>2, Places, MovePlaces, Distances
<1>3. \A i \in Slots : Due(i) => Due(i)'
  BY <1>1 DEF Due
<1> QED
  BY <1>1, <1>2, <1>3 DEF Met, Due

(* A flagged entry speed may be written, but not that of the move after    *)
(* the executed one.                                                       *)
LEMMA MetWritten ==
  ASSUME IInv, OnlyMoves, Met, Ended, RecalcNext, UNCHANGED <<recalc, trap>>,
         entry' = [entry EXCEPT ![bi] = newv], recalc[bi], bi # current, bi # tail,
         \A a \in Slots : Follows(a, bi) => a # current
  PROVE  Met' /\ Ended'
<1>1. /\ UNCHANGED <<current, head, tail, exit, isr, delay>>
      /\ \A i \in Slots : (Waits(i)' <=> Waits(i)) /\ (Last(i)' <=> Last(i))
      /\ \A a, b \in Slots : Follows(a, b)' <=> Follows(a, b)
      /\ bi \in Slots /\ tail \in Slots /\ entry \in [Slots -> Nat]
  BY PassPlaces, Places
<1>2. \A i \in Slots : (Due(i)' <=> Due(i)) /\ (i # bi => entry'[i] = entry[i])
  BY <1>1 DEF Due
<1>3. Due(bi)
  BY DEF Due
<1>4. Met'
  BY <1>1, <1>2, <1>3 DEF Met
<1>5. Ended'
  BY <1>1, <1>2 DEF Ended
<1> QED
  BY <1>4, <1>5

LEMMA EndedSame ==
  ASSUME IInv, OnlyMoves, Ended, RecalcNext, UNCHANGED entry
  PROVE  Ended'
BY PassPlaces DEF Ended

LEMMA RevFlow ==
  ASSUME IInv, Look, Plan, OnlyMoves, Met, Steady, Ended, RecalcNext,
         Recalculate \/ RevStart \/ RevDone \/ RevKernel \/ RevCheck \/ RevWrite \/ RevStep \/ RevFollow
  PROVE  Met' /\ Steady' /\ Swept' /\ Ended'
<1> USE DEF At, Goto, idxVars, planVars, locVars
<1>1. /\ UNCHANGED <<planned, trap>>
      /\ pc' \in {"revStart", "trapStart", "fwdStart", "revLoop", "revCheck", "revWrite", "revStep",
                  "revFollow"}
  BY DEF Recalculate, RevStart, RevDone, RevKernel, RevCheck, RevWrite, RevStep, RevFollow
<1>2. Swept'
  BY <1>1 DEF Swept, Sweeping, PlanningSteps
<1>3. Steady'
  BY <1>1 DEF Recalculate, RevStart, RevDone, RevKernel, RevCheck, RevWrite, RevStep, RevFollow, Steady,
     Forward
<1>4. CASE ~RevWrite
  <2>1. UNCHANGED entry
    BY <1>4 DEF Recalculate, RevStart, RevDone, RevKernel, RevCheck, RevStep, RevFollow
  <2>2. \A i \in Slots : i # current /\ recalc[i] => recalc'[i]
    BY <1>4, Places DEF Recalculate, RevStart, RevDone, RevKernel, RevCheck, RevStep, RevFollow,
       MarkRecalculate, ClearRecalculate, is_block_busy
  <2> QED
    BY <1>1, <1>2, <1>3, <2>1, <2>2, MetRaised, EndedSame
<1>5. CASE RevWrite
  <2>1. /\ pc = "revWrite" /\ UNCHANGED <<recalc, trap>> /\ entry' = [entry EXCEPT ![bi] = newv]
        /\ recalc[bi] /\ current # bi
    BY <1>5 DEF RevWrite, IInv, FlagRaised
  <2>2. bi # head /\ ToHead(bi) <= ToHead(pl) /\ bi # pl /\ pl = planned
    BY <2>1 DEF Plan, Backward, Steady
  <2>3. /\ bi \in Slots /\ planned \in Slots /\ tail \in Slots /\ head \in Slots
        /\ current # NoSlot => current = tail
        /\ \A i \in Slots : ToHead(i) \in Nat /\ (ToHead(i) = 0 <=> i = head)
        /\ \A i, j \in Slots : ToHead(i) = ToHead(j) => i = j
    BY Places, Distances
  <2>4. /\ ToHead(bi) < ToHead(planned) /\ ToHead(planned) <= ToHead(tail)
        /\ current # NoSlot /\ head # tail => ToHead(planned) < ToHead(tail)
    BY <2>2, <2>3 DEF Look, Ordered, has_blocks_queued
  <2>5. bi # tail
    BY <2>3, <2>4
  <2>6. ASSUME NEW a \in Slots, Follows(a, bi)
        PROVE  a # current
    <3> SUFFICES ASSUME a = current PROVE FALSE
      OBVIOUS
    <3>1. ToHead(a) = ToHead(bi) + 1 /\ ToHead(a) >= 1
      BY <2>3, <2>6, MovePlaces
    <3>2. current # NoSlot
      BY Places
    <3> QED
      BY <2>3, <2>4, <3>1, <3>2
  <2> QED
    BY <1>2, <1>3, <2>1, <2>5, <2>6, MetWritten
<1> QED
  BY <1>4, <1>5

LEMMA FwdFlow ==
  ASSUME IInv, Look, Plan, OnlyMoves, Met, Steady, Ended, RecalcNext,
         FwdStart \/ FwdDone \/ FwdLoop \/ FwdKernel \/ FwdCheck \/ FwdWrite \/ FwdMax \/ FwdStep
  PROVE  Met' /\ Steady' /\ Swept' /\ Ended'
<1> USE DEF At, Goto, idxVars, planVars, locVars
<1>1. /\ UNCHANGED trap
      /\ pc' \in {"trapStart", "fwdLoop", "fwdKernel", "fwdCheck", "fwdWrite", "fwdMax", "fwdStep"}
  BY DEF FwdStart, FwdDone, FwdLoop, FwdKernel, FwdCheck, FwdWrite, FwdMax, FwdStep
<1>2. Swept'
  BY <1>1 DEF Swept, Sweeping, PlanningSteps
<1>3. /\ bi \in Slots /\ planned \in Slots /\ tail \in Slots /\ head \in Slots
      /\ ref \in Slots \cup {NoSlot} /\ NoSlot \notin Slots
      /\ current # NoSlot => current = tail
      /\ \A i \in Slots : ToHead(i) \in Nat /\ (ToHead(i) = 0 <=> i = head)
      /\ \A i \in Slots : i # head => NextIndex(i) \in Slots /\ ToHead(NextIndex(i)) = ToHead(i) - 1
      /\ \A i, j \in Slots : ToHead(i) = ToHead(j) => i = j
      /\ ToHead(planned) <= ToHead(tail)
  BY Places, Distances DEF Look, Ordered
<1>4. UNCHANGED <<head, tail, current, blk>>
  BY PassPlaces
<1>5. Steady'
  <2>1. CASE FwdStart
    <3>1. pc' = "fwdLoop" /\ bi' = planned /\ ref' = NoSlot
      BY <2>1 DEF FwdStart
    <3>2. ToHead(bi)' <= ToHead(tail)'
      BY <1>3, <1>4, <3>1 DEF ToHead
    <3> QED
      BY <3>1, <3>2 DEF Steady
  <2>2. CASE FwdStep
    <3>1. /\ pc = "fwdStep" /\ pc' = "fwdLoop" /\ bi' = NextIndex(bi)
          /\ ref' = (IF blk[bi].sync THEN ref ELSE bi)
      BY <2>2 DEF FwdStep
    <3>2. bi # head /\ ToHead(bi) <= ToHead(tail)
      BY <3>1, ForwardFacts DEF Forward, Kernel, Steady
    <3>3. ToHead(bi)' = ToHead(bi) - 1 /\ ToHead(tail)' = ToHead(tail)
      BY <1>3, <1>4, <3>1, <3>2 DEF ToHead
    <3>4. ref' = bi
      BY <1>3, <3>1 DEF OnlyMoves
    <3>5. ToHead(ref)' = ToHead(bi)
      BY <1>4, <3>4 DEF ToHead
    <3> QED
      BY <1>3, <3>1, <3>2, <3>3, <3>5 DEF Steady
  <2>3. CASE ~FwdStart /\ ~FwdStep
    <3>1. UNCHANGED <<bi, ref>> /\ pc \in Forward
      BY <2>3 DEF FwdDone, FwdLoop, FwdKernel, FwdCheck, FwdWrite, FwdMax, Forward
    <3>2. /\ ToHead(bi)' = ToHead(bi) /\ ToHead(tail)' = ToHead(tail) /\ ToHead(ref)' = ToHead(ref)
      BY <1>4, <3>1 DEF ToHead
    <3>3. pc' \in {"fwdKernel", "fwdCheck", "fwdWrite"} => ref # current
      BY <2>3 DEF FwdDone, FwdLoop, FwdKernel, FwdCheck, FwdWrite, FwdMax, Steady, is_block_busy
    <3>4. pc' \notin {"revLoop", "revCheck", "revWrite", "revStep", "revFollow"}
      BY <1>1
    <3> QED
      BY <1>4, <3>1, <3>2, <3>3, <3>4 DEF Steady
  <2> QED
    BY <2>1, <2>2, <2>3
<1>6. CASE ~FwdWrite
  <2>1. UNCHANGED entry
    BY <1>6 DEF FwdStart, FwdDone, FwdLoop, FwdKernel, FwdCheck, FwdMax, FwdStep
  <2>2. \A i \in Slots : i # current /\ recalc[i] => recalc'[i]
    BY <1>6, Places DEF FwdStart, FwdDone, FwdLoop, FwdKernel, FwdCheck, FwdMax, FwdStep,
       MarkRecalculate, ClearRecalculate, is_block_busy
  <2> QED
    BY <1>1, <1>2, <1>5, <2>1, <2>2, MetRaised, EndedSame
<1>7. CASE FwdWrite
  <2>1. /\ pc = "fwdWrite" /\ UNCHANGED <<recalc, trap>> /\ entry' = [entry EXCEPT ![bi] = newv]
        /\ recalc[bi] /\ current # bi
    BY <1>7 DEF FwdWrite, IInv, FlagRaised
  <2>2. ref # NoSlot /\ ref # current /\ ToHead(ref) <= ToHead(tail) /\ Follows(ref, bi)
    BY <2>1, ForwardFacts DEF Steady, Forward, Kernel
  <2>3. bi # tail
    BY <1>3, <2>2 DEF Follows
  <2>4. ASSUME NEW a \in Slots, Follows(a, bi)
        PROVE  a # current
    BY <1>3, <2>2, <2>4, OneNext
  <2> QED
    BY <1>2, <1>5, <2>1, <2>3, <2>4, MetWritten
<1> QED
  BY <1>6, <1>7

(* The trapezoids: what the reference is, and what follows where the front *)
(* goes on.                                                                *)
LEMMA TrapFacts ==
  ASSUME IInv, Plan, OnlyMoves, Met, Swept, pc \in Sweeping
  PROVE  /\ hd = head /\ (ref = NoSlot => bi = tail) /\ Behind
         /\ ref # NoSlot => /\ ref \in Slots /\ ToHead(ref) = ToHead(bi) + 1
                            /\ bi # head => Follows(ref, bi)
                            /\ bi = head => Last(ref)
         /\ AtLast <=> bi = head
         /\ \A a \in Slots : Follows(a, bi) => ref = NoSlot \/ a = ref
<1>1. /\ bi \in Slots /\ ref \in Slots \cup {NoSlot} /\ NoSlot \notin Slots /\ head \in Slots
      /\ \A i \in Slots : ToHead(i) \in Nat /\ (ToHead(i) = 0 <=> i = head)
      /\ \A i, j \in Slots : ToHead(i) = ToHead(j) => i = j
  BY Places, Distances
<1>2. hd = head /\ (ref = NoSlot => bi = tail) /\ Behind
  BY DEF Swept
<1>3. ref # NoSlot => Move(ref) /\ ToHead(bi) < ToHead(ref) /\ OnlySync(ref, bi)
  BY DEF Plan, Trimmed, Sweeping
<1>4. ref # NoSlot => ToHead(ref) = ToHead(bi) + 1
  BY <1>1, <1>3, MovePlaces
<1>5. ref # NoSlot /\ bi # head => Follows(ref, bi)
  BY <1>1, <1>4, MovePlaces
<1>6. ref # NoSlot /\ bi = head => Last(ref)
  BY <1>1, <1>4, MovePlaces
<1>7. \A a \in Slots : Follows(a, bi) => ref = NoSlot \/ a = ref
  BY <1>1, <1>4, MovePlaces
<1> QED
  BY <1>1, <1>2, <1>4, <1>5, <1>6, <1>7 DEF AtLast

(* The step to the next block: everything up to the old one is done.       *)
LEMMA FrontMoves ==
  ASSUME IInv, Plan, OnlyMoves, Met, Swept, pc \in Sweeping \ {"trapStep"}, RecalcNext,
         UNCHANGED <<entry, trap, bi>>, pc' = "trapStep",
         \A i \in Slots : recalc'[i] => recalc[i],
         ref # NoSlot => ~recalc'[ref] /\ (Waits(ref) /\ bi # head => trap[ref].final = entry[bi])
  PROVE  Behind'
<1>1. /\ \A i \in Slots : (Waits(i)' <=> Waits(i)) /\ ToHead(i)' = ToHead(i) /\ ToHead(i) \in Nat
      /\ \A a, b \in Slots : Follows(a, b)' <=> Follows(a, b)
      /\ tail \in Slots /\ bi \in Slots
  BY PassPlaces, Places
<1>2. /\ ref = NoSlot => bi = tail
      /\ ref # NoSlot => ref \in Slots /\ ToHead(ref) = ToHead(bi) + 1
      /\ \A a \in Slots : Follows(a, bi) => ref = NoSlot \/ a = ref
      /\ \A i, j \in Slots : ToHead(i) = ToHead(j) => i = j
      /\ Behind
  BY TrapFacts, Distances, Places
<1>3. \A a, b \in Slots : Follows(a, b) <=> 1 <= ToHead(b) /\ ToHead(a) = ToHead(b) + 1
  BY MovePlaces
<1>4. \A i \in Slots : Waits(i) => ToHead(i) <= ToHead(tail)
  BY DEF Waits
<1>5. ASSUME NEW i \in Slots, Waits(i), ToHead(bi) < ToHead(i)
      PROVE  ~recalc'[i]
  <2>1. ref # NoSlot
    BY <1>1, <1>2, <1>4, <1>5
  <2>2. CASE i = ref
    BY <2>1, <2>2
  <2>3. CASE i # ref
    <3>1. ToHead(ref) < ToHead(i)
      BY <1>1, <1>2, <1>5, <2>1, <2>3
    <3> QED
      BY <1>1, <1>2, <1>5, <2>1, <3>1 DEF Behind, Front
  <2> QED
    BY <2>2, <2>3
<1>6. ASSUME NEW a \in Slots, NEW b \in Slots, Waits(a), Follows(a, b), ToHead(bi) <= ToHead(b)
      PROVE  trap[a].final = entry[b]
  <2>1. ref # NoSlot
    BY <1>1, <1>2, <1>3, <1>4, <1>6
  <2>2. CASE b = bi
    <3>1. a = ref /\ bi # head
      BY <1>2, <1>6, <2>1, <2>2, Places, Distances DEF Follows, Move
    <3> QED
      BY <1>6, <2>1, <2>2, <3>1
  <2>3. CASE b # bi
    <3>1. ToHead(ref) <= ToHead(b)
      BY <1>1, <1>2, <1>6, <2>1, <2>3
    <3> QED
      BY <1>2, <1>6, <2>1, <3>1 DEF Behind, Front
  <2> QED
    BY <2>2, <2>3
<1>7. \A f \in Slots : Front(f)' => f = bi
  BY DEF Front
<1> QED
  BY <1>1, <1>5, <1>6, <1>7 DEF Behind

(* The end: no flag is left. *)
LEMMA NoFlagLeft ==
  ASSUME IInv, Plan, OnlyMoves, Met, Swept, pc \in Sweeping \ {"trapStep"}, RecalcNext,
         bi = head, \A i \in Slots : recalc'[i] => recalc[i],
         ref # NoSlot => ~recalc'[ref]
  PROVE  \A i \in Slots : Waits(i)' => ~recalc'[i]
<1> SUFFICES ASSUME NEW i \in Slots, Waits(i)
             PROVE  ~recalc'[i]
  BY PassPlaces
<1>1. /\ ref = NoSlot => bi = tail
      /\ ref # NoSlot => ref \in Slots /\ ToHead(ref) = ToHead(bi) + 1
      /\ Behind
  BY TrapFacts
<1>2. /\ ToHead(i) \in Nat /\ 1 <= ToHead(i) /\ ToHead(i) <= ToHead(tail) /\ ToHead(head) = 0
      /\ \A j \in Slots : ToHead(i) = ToHead(j) => i = j
  BY Places, Distances DEF Waits, Move
<1>3. ref # NoSlot
  BY <1>1, <1>2
<1>4. CASE i = ref
  BY <1>3, <1>4
<1>5. CASE i # ref
  <2>1. ToHead(ref) < ToHead(i)
    BY <1>1, <1>2, <1>3, <1>5
  <2> QED
    BY <1>1, <1>3, <2>1 DEF Behind, Front
<1> QED
  BY <1>4, <1>5

LEMMA TrapFlow ==
  ASSUME IInv, Look, Plan, OnlyMoves, Met, Steady, Swept, Ended, RecalcNext,
         TrapStart \/ TrapTrim \/ TrapLoop \/ TrapCheck \/ TrapWrite \/ TrapClear \/ TrapStep
  PROVE  Met' /\ Steady' /\ Swept' /\ Ended'
<1> USE DEF At, Goto, idxVars, planVars, locVars
<1>1. /\ UNCHANGED entry /\ pc' \in Sweeping \cup {"idle"}
  BY DEF TrapStart, TrapTrim, TrapLoop, TrapCheck, TrapWrite, TrapClear, TrapStep, Return, Sweeping
<1>2. Steady' /\ Ended'
  BY <1>1, EndedSame DEF Steady, Sweeping, Forward
<1>3. /\ UNCHANGED <<head, tail, current, blk>>
      /\ \A i \in Slots : (Waits(i)' <=> Waits(i)) /\ ToHead(i)' = ToHead(i) /\ ToHead(i) \in Nat
      /\ \A a, b \in Slots : Follows(a, b)' <=> Follows(a, b)
      /\ \A i \in Slots : Last(i)' <=> Last(i)
  BY PassPlaces
<1>4. /\ bi \in Slots /\ tail \in Slots /\ head \in Slots /\ NoSlot \notin Slots
      /\ ref \in Slots \cup {NoSlot} /\ recalc \in [Slots -> BOOLEAN] /\ trap \in [Slots -> Traps]
  BY Places
<1>5. CASE TrapStart
  <2>1. /\ UNCHANGED <<entry, trap, recalc>> /\ pc' = "trapTrim"
        /\ bi' = tail /\ hd' = head /\ ref' = NoSlot
    BY <1>5 DEF TrapStart
  <2>2. Met'
    BY <2>1, MetRaised
  <2>3. Behind'
    BY <1>4, <2>1 DEF Behind, Front
  <2> QED
    BY <1>2, <1>3, <2>1, <2>2, <2>3 DEF Swept, PlanningSteps
<1>6. CASE TrapTrim
  <2>1. /\ UNCHANGED <<entry, trap, recalc, bi, ref>> /\ pc = "trapTrim" /\ pc' \in {"trapTrim", "trapLoop"}
        /\ hd' = (IF hd # bi /\ blk[PrevIndex(hd)].sync THEN PrevIndex(hd) ELSE hd)
    BY <1>6 DEF TrapTrim
  <2>2. Met'
    BY <2>1, MetRaised
  <2>3. hd = head /\ (ref = NoSlot => bi = tail) /\ Behind
    BY <2>1 DEF Swept, Sweeping
  <2>4. hd' = head
    BY <1>4, <2>1, <2>3, NeighbourIsSlot DEF OnlyMoves
  <2>5. Behind'
    BY <1>3, <2>1, <2>3 DEF Behind, Front
  <2> QED
    BY <1>2, <1>3, <2>1, <2>2, <2>3, <2>4, <2>5 DEF Swept, PlanningSteps
<1>7. CASE TrapLoop
  <2>1. /\ UNCHANGED <<entry, trap>> /\ pc = "trapLoop" /\ pc \in Sweeping \ {"trapStep"}
        /\ \/ TrapDue /\ pc' = "trapCheck" /\ UNCHANGED locVars /\ recalc' = [recalc EXCEPT ![ref] = TRUE]
           \/ ~TrapDue /\ AtLast /\ pc' = "idle" /\ UNCHANGED recalc
           \/ ~TrapDue /\ ~AtLast /\ pc' = "trapStep" /\ UNCHANGED <<recalc, locVars>>
    BY <1>7 DEF TrapLoop, MarkRecalculate, Return, Sweeping
  <2>2. Met'
    <3>1. \A i \in Slots : recalc[i] => recalc'[i]
      BY <1>4, <2>1
    <3> QED
      BY <2>1, <3>1, MetRaised
  <2>3. /\ hd = head /\ (ref = NoSlot => bi = tail) /\ Behind
        /\ AtLast <=> bi = head
        /\ ref # NoSlot /\ bi # head => Follows(ref, bi)
    BY <2>1, TrapFacts
  <2>4. CASE pc' = "trapCheck"
    <3>1. /\ UNCHANGED <<entry, trap, bi, ref, hd>> /\ ref # NoSlot
          /\ recalc' = [recalc EXCEPT ![ref] = TRUE]
      BY <2>1, <2>4 DEF TrapDue
    <3>2. ASSUME NEW f \in Slots, Front(f)'
          PROVE  f = ref /\ Front(f)
      BY <2>1, <2>4, <3>1, <3>2 DEF Front
    <3>3. \A i \in Slots : i # ref => recalc'[i] = recalc[i]
      BY <1>4, <3>1
    <3>4. \A i \in Slots : ToHead(ref) < ToHead(i) => i # ref
      BY <1>3
    <3>5. Behind'
      BY <1>3, <2>3, <3>1, <3>2, <3>3, <3>4 DEF Behind
    <3> QED
      BY <1>2, <1>3, <2>2, <2>3, <2>4, <3>1, <3>5 DEF Swept, PlanningSteps
  <2>5. CASE pc' = "idle"
    <3>1. bi = head /\ ref = NoSlot /\ UNCHANGED recalc
      BY <2>1, <2>3, <2>5 DEF TrapDue
    <3>2. \A i \in Slots : Waits(i)' => ~recalc'[i]
      BY <2>1, <3>1, NoFlagLeft
    <3> QED
      BY <1>2, <2>2, <2>5, <3>2 DEF Swept, Sweeping
  <2>6. CASE pc' = "trapStep"
    <3>1. UNCHANGED <<entry, trap, recalc, bi, ref, hd>> /\ bi # head /\ ~TrapDue
      BY <2>1, <2>3, <2>6
    <3>2. ref # NoSlot => ~recalc[ref] /\ ~recalc[bi]
      BY <1>4, <3>1 DEF TrapDue, OnlyMoves
    <3>3. ref # NoSlot /\ Waits(ref) => trap[ref].final = entry[bi]
      BY <1>4, <2>3, <3>1, <3>2 DEF Met
    <3>4. Behind'
      BY <2>1, <2>6, <3>1, <3>2, <3>3, FrontMoves
    <3> QED
      BY <1>2, <1>3, <2>2, <2>3, <2>6, <3>1, <3>4 DEF Swept, PlanningSteps
  <2> QED
    BY <2>1, <2>4, <2>5, <2>6
<1>8. CASE TrapCheck
  <2>1. /\ UNCHANGED <<entry, trap, recalc, bi, ref, hd>> /\ pc = "trapCheck"
        /\ pc' = (IF current = ref THEN "trapClear" ELSE "trapWrite")
    BY <1>8 DEF TrapCheck, is_block_busy
  <2>2. Met'
    BY <2>1, MetRaised
  <2>3. /\ hd = head /\ (ref = NoSlot => bi = tail) /\ Behind
        /\ AtLast <=> bi = head
        /\ ref # NoSlot /\ bi # head => Follows(ref, bi)
        /\ ref # NoSlot /\ bi = head => Last(ref)
    BY <2>1, TrapFacts DEF Sweeping
  <2>4. ref \in Slots /\ ref # NoSlot
    BY <1>4, <2>1 DEF IInv, Types, RefDefined
  <2>5. Behind'
    BY <1>3, <2>1, <2>3 DEF Behind, Front
  <2>6. ASSUME pc' = "trapClear", Waits(ref)
        PROVE  /\ trap[ref].initial = entry[ref]
               /\ trap[ref].final = IF AtLast THEN 0 ELSE entry[bi]
    <3>1. ref = current
      BY <2>1, <2>6
    <3>2. trap[ref].initial = entry[ref]
      BY <2>4, <2>6, <3>1 DEF Met, Due
    <3>3. CASE bi = head
      BY <2>3, <2>4, <2>6, <3>1, <3>2, <3>3 DEF Met, Due
    <3>4. CASE bi # head
      BY <1>4, <2>3, <2>4, <2>6, <3>1, <3>2, <3>4 DEF Met, Due
    <3> QED
      BY <3>3, <3>4
  <2>7. (pc = "trapClear" /\ Waits(ref) =>
           /\ trap[ref].initial = entry[ref]
           /\ trap[ref].final = IF AtLast THEN 0 ELSE entry[bi])'
    BY <1>3, <2>1, <2>4, <2>6 DEF AtLast
  <2> QED
    BY <1>2, <1>3, <2>1, <2>2, <2>3, <2>5, <2>7 DEF Swept, PlanningSteps
<1>9. CASE TrapWrite
  <2>1. /\ UNCHANGED <<entry, recalc, bi, ref, hd>> /\ pc = "trapWrite" /\ pc' = "trapClear"
        /\ trap' = [trap EXCEPT ![ref] = [initial |-> entry[ref],
                                          final   |-> IF AtLast THEN 0 ELSE entry[bi]]]
    BY <1>9 DEF TrapWrite
  <2>2. ref \in Slots /\ ref # NoSlot /\ recalc[ref] /\ current # ref
    BY <1>4, <2>1 DEF IInv, Types, RefDefined, FlagRaised
  <2>3. /\ hd = head /\ (ref = NoSlot => bi = tail) /\ Behind
        /\ ToHead(ref) = ToHead(bi) + 1
    BY <2>1, <2>2, TrapFacts DEF Sweeping
  <2>4. \A i \in Slots : i # ref => trap'[i] = trap[i]
    BY <1>4, <2>1
  <2>5. /\ trap'[ref].initial = entry[ref]
        /\ trap'[ref].final = IF AtLast THEN 0 ELSE entry[bi]
    BY <1>4, <2>1, <2>2
  <2>6. Met'
    <3>1. Due(ref) /\ (\A i \in Slots : Due(i)' <=> Due(i))
      BY <1>3, <2>1, <2>2 DEF Due
    <3> QED
      BY <1>3, <2>1, <2>2, <2>4, <3>1 DEF Met, Due
  <2>7. Behind'
    <3>1. ASSUME NEW a \in Slots, NEW b \in Slots, Follows(a, b), ToHead(ref) <= ToHead(b)
          PROVE  a # ref
      BY <1>3, <2>2, <3>1 DEF Follows
    <3> QED
      BY <1>3, <2>1, <2>3, <2>4, <3>1 DEF Behind, Front
  <2>8. (pc = "trapClear" /\ Waits(ref) =>
           /\ trap[ref].initial = entry[ref]
           /\ trap[ref].final = IF AtLast THEN 0 ELSE entry[bi])'
    BY <2>1, <2>5 DEF AtLast
  <2> QED
    BY <1>2, <1>3, <2>1, <2>3, <2>6, <2>7, <2>8 DEF Swept, PlanningSteps
<1>10. CASE TrapClear
  <2>1. /\ UNCHANGED <<entry, trap>> /\ pc = "trapClear" /\ pc \in Sweeping \ {"trapStep"}
        /\ recalc' = [recalc EXCEPT ![ref] = FALSE]
        /\ \/ AtLast /\ pc' = "idle"
           \/ ~AtLast /\ pc' = "trapStep" /\ UNCHANGED locVars
    BY <1>10 DEF TrapClear, Return, ClearRecalculate, Sweeping
  <2>2. ref \in Slots /\ ref # NoSlot
    BY <1>4, <2>1 DEF IInv, Types, RefDefined
  <2>3. /\ hd = head /\ (ref = NoSlot => bi = tail) /\ Behind
        /\ ToHead(ref) = ToHead(bi) + 1
        /\ AtLast <=> bi = head
        /\ bi # head => Follows(ref, bi)
        /\ bi = head => Last(ref)
    BY <2>1, <2>2, TrapFacts
  <2>4. ~recalc'[ref] /\ \A i \in Slots : i # ref => recalc'[i] = recalc[i]
    BY <1>4, <2>1, <2>2
  <2>5. Waits(ref) => /\ trap[ref].initial = entry[ref]
                      /\ trap[ref].final = IF AtLast THEN 0 ELSE entry[bi]
    BY <2>1 DEF Swept
  <2>6. Met'
    <3>1. \A i \in Slots : i # ref => (Due(i)' <=> Due(i))
      BY <1>3, <2>4 DEF Due
    <3>2. ASSUME NEW i \in Slots, Waits(i)
          PROVE  trap[i].initial = entry[i] \/ Due(i)'
      BY <2>5, <3>1, <3>2 DEF Met
    <3>3. ASSUME NEW a \in Slots, NEW b \in Slots, Waits(a), Follows(a, b)
          PROVE  trap[a].final = entry[b] \/ (a # current /\ (recalc'[a] \/ recalc'[b]))
      <4>1. CASE a = ref
        <5>1. b = bi /\ bi # head
          <6>1. ToHead(b) = ToHead(bi) /\ ToHead(b) >= 1
            BY <1>3, <1>4, <2>3, <3>3, <4>1, MovePlaces
          <6> QED
            BY <1>4, <6>1, Places, Distances
        <5> QED
          BY <2>3, <2>5, <3>3, <4>1, <5>1
      <4>2. CASE b = ref
        <5>1. trap[a].final = entry[b]
          <6>1. \A f \in Slots : Front(f) <=> f = ref
            BY <2>1 DEF Front
          <6> QED
            BY <1>3, <2>2, <2>3, <3>3, <4>2, <6>1 DEF Behind
        <5> QED
          BY <5>1
      <4>3. CASE a # ref /\ b # ref
        BY <2>4, <3>3, <4>3 DEF Met
      <4> QED
        BY <4>1, <4>2, <4>3
    <3>4. ASSUME NEW a \in Slots, Waits(a), Last(a)
          PROVE  trap[a].final = 0 \/ Due(a)'
      <4>1. CASE a = ref
        <5>1. bi = head
          BY <1>4, <2>3, <3>4, <4>1, OneNext
        <5> QED
          BY <2>3, <2>5, <3>4, <4>1, <5>1
      <4>2. CASE a # ref
        BY <3>1, <3>4, <4>2 DEF Met
      <4> QED
        BY <4>1, <4>2
    <3> QED
      BY <1>3, <2>1, <3>2, <3>3, <3>4 DEF Met
  <2>7. \A i \in Slots : recalc'[i] => recalc[i]
    BY <2>4
  <2>8. CASE pc' = "idle"
    <3>1. bi = head
      BY <2>1, <2>3, <2>8
    <3>2. \A i \in Slots : Waits(i)' => ~recalc'[i]
      BY <2>1, <2>4, <2>7, <3>1, NoFlagLeft
    <3> QED
      BY <1>2, <2>6, <2>8, <3>2 DEF Swept, Sweeping
  <2>9. CASE pc' = "trapStep"
    <3>1. UNCHANGED <<bi, ref, hd>> /\ bi # head /\ ~AtLast
      BY <2>1, <2>3, <2>9
    <3>2. Behind'
      BY <2>1, <2>4, <2>5, <2>7, <2>9, <3>1, FrontMoves
    <3> QED
      BY <1>2, <1>3, <2>3, <2>6, <2>9, <3>1, <3>2 DEF Swept, PlanningSteps
  <2> QED
    BY <2>1, <2>8, <2>9
<1>11. CASE TrapStep
  <2>1. /\ UNCHANGED <<entry, trap, recalc, hd>> /\ pc = "trapStep" /\ pc' = "trapLoop"
        /\ ref' = (IF blk[bi].sync THEN ref ELSE bi)
    BY <1>11 DEF TrapStep
  <2>2. ref' = bi
    BY <1>4, <2>1 DEF OnlyMoves
  <2>3. Met'
    BY <2>1, MetRaised
  <2>4. hd = head /\ Behind
    BY <2>1 DEF Swept, Sweeping
  <2>5. Behind'
    BY <1>3, <2>1, <2>2, <2>4 DEF Behind, Front
  <2> QED
    BY <1>2, <1>3, <1>4, <2>1, <2>2, <2>3, <2>4, <2>5 DEF Swept, PlanningSteps
<1> QED
  BY <1>5, <1>6, <1>7, <1>8, <1>9, <1>10, <1>11

LEMMA RecalcFlow ==
  ASSUME IInv, Look, Plan, Flow, RecalcNext
  PROVE  Met' /\ Steady' /\ Swept' /\ Ended'
BY RevFlow, FwdFlow, TrapFlow DEF RecalcNext, Flow
-----------------------------------------------------------------------------
(* Outside the passes *)

LEMMA OutFlow ==
  ASSUME pc' \notin PlanningSteps \ {"recalc"}, Met', Ended',
         pc' # "recalc" => \A i \in Slots : Waits(i)' => ~recalc'[i]
  PROVE  Met' /\ Steady' /\ Swept' /\ Ended'
BY DEF Steady, Swept, Forward, Sweeping, PlanningSteps

(* There every trapezoid meets its neighbours. *)
LEMMA Strict ==
  ASSUME IInv, Met, Swept, pc \notin PlanningSteps
  PROVE  /\ \A i \in Slots : Waits(i) => ~recalc[i] /\ trap[i].initial = entry[i]
         /\ \A a, b \in Slots : Waits(a) /\ Follows(a, b) => trap[a].final = entry[b]
         /\ \A a \in Slots : Waits(a) /\ Last(a) => trap[a].final = 0
<1>1. \A i \in Slots : Waits(i) => ~recalc[i]
  BY DEF Swept
<1>2. ASSUME NEW a \in Slots, NEW b \in Slots, Waits(a), Follows(a, b)
      PROVE  Waits(b)
  <2>1. ToHead(a) \in Nat /\ ToHead(b) \in Nat /\ ToHead(tail) \in Nat
    BY Places, Distances
  <2> QED
    BY <1>2, <2>1 DEF Waits, Follows
<1> QED
  BY <1>1, <1>2 DEF Met, Due

(* With the head where it was and moves only, nothing else changes places. *)
LEMMA SameOrder ==
  ASSUME IInv, OnlyMoves, OnlyMoves', head' = head
  PROVE  /\ \A i \in Slots : ToHead(i)' = ToHead(i) /\ ToHead(i) \in Nat
         /\ \A i \in Slots : (Move(i)' <=> Move(i)) /\ (Last(i)' <=> Last(i))
         /\ \A a, b \in Slots : Follows(a, b)' <=> Follows(a, b)
<1>1. \A i \in Slots : ToHead(i)' = ToHead(i) /\ ToHead(i) \in Nat
  BY Places, Distances DEF ToHead
<1>2. \A i \in Slots : ~blk[i].sync /\ ~blk'[i].sync
  BY DEF OnlyMoves
<1>3. \A i \in Slots : (Move(i)' <=> Move(i)) /\ (Last(i)' <=> Last(i))
  BY <1>1, <1>2 DEF Move, Last
<1>4. \A a, b \in Slots : OnlySync(a, b)' <=> OnlySync(a, b)
  BY <1>1, <1>2 DEF OnlySync
<1> QED
  BY <1>1, <1>3, <1>4 DEF Follows

(* Steps that touch nothing the speeds rest on. *)
LEMMA QuietFlow ==
  ASSUME IInv, OnlyMoves, OnlyMoves', Met, Steady, Swept, Ended,
         UNCHANGED <<idxVars, planVars, current, exit, isr, delay>>,
         pc' = pc => UNCHANGED locVars,
         pc' # pc => {pc, pc'} \cap PlanningSteps = {}
  PROVE  Met' /\ Steady' /\ Swept' /\ Ended'
<1>1. UNCHANGED <<head, tail, planned, recalc, entry, trap, current, exit, isr, delay>>
  BY DEF idxVars, planVars
<1>2. /\ \A i \in Slots : ToHead(i)' = ToHead(i)
      /\ \A i \in Slots : (Waits(i)' <=> Waits(i)) /\ (Last(i)' <=> Last(i))
      /\ \A a, b \in Slots : Follows(a, b)' <=> Follows(a, b)
      /\ ToHead(tail)' = ToHead(tail) /\ tail \in Slots
  BY <1>1, SameOrder, Places DEF Waits, ToHead
<1>3. Met' /\ Ended'
  BY <1>1, <1>2 DEF Met, Due, Ended
<1>4. CASE pc' # pc
  <2>1. pc \notin PlanningSteps /\ pc' \notin PlanningSteps
    BY <1>4
  <2>2. \A i \in Slots : Waits(i)' => ~recalc'[i]
    BY <1>1, <1>2, <2>1 DEF Swept
  <2> QED
    BY <1>3, <2>1, <2>2, OutFlow
<1>5. CASE pc' = pc
  <2>1. UNCHANGED <<pc, bi, pl, ref, hd>>
    BY <1>5 DEF locVars
  <2>2. Steady'
    BY <1>1, <2>1 DEF Steady, ToHead
  <2>3. Behind' <=> Behind
    BY <1>1, <1>2, <2>1 DEF Behind, Front, ToHead
  <2>4. pc = "trapClear" => ref \in Slots
    BY DEF IInv, Types, RefDefined
  <2>5. Swept'
    <3>1. (pc = "trapClear" /\ Waits(ref) => /\ trap[ref].initial = entry[ref]
                                            /\ trap[ref].final = IF AtLast THEN 0 ELSE entry[bi])'
      BY <1>1, <1>2, <2>1, <2>4 DEF Swept, AtLast
    <3> QED
      BY <1>1, <1>2, <2>1, <2>3, <3>1 DEF Swept
  <2> QED
    BY <1>3, <2>2, <2>5
<1> QED
  BY <1>4, <1>5

LEMMA ReloadFlow ==
  ASSUME IInv, OnlyMoves, OnlyMoves', Met, Steady, Swept, Ended, ReloadDelay
  PROVE  Met' /\ Steady' /\ Swept' /\ Ended'
<1>1. /\ UNCHANGED <<head, tail, planned, recalc, entry, trap, current, exit, isr>>
      /\ pc = "delay" /\ pc' = "publish" /\ isr = "out"
      /\ head # tail => delay' = delay
  BY DEF ReloadDelay, CallerFrame, StopFrame, At, Goto, planVars
<1>2. /\ \A i \in Slots : (Waits(i)' <=> Waits(i)) /\ (Last(i)' <=> Last(i))
      /\ \A a, b \in Slots : Follows(a, b)' <=> Follows(a, b)
  BY <1>1, SameOrder DEF Waits, ToHead
<1>3. Met' /\ Ended'
  BY <1>1, <1>2 DEF Met, Due, Ended
<1>4. \A i \in Slots : Waits(i)' => ~recalc'[i]
  BY <1>1, <1>2 DEF Swept, PlanningSteps
<1> QED
  BY <1>1, <1>3, <1>4, OutFlow DEF PlanningSteps

(* The slot that is being filled is not waiting yet. *)
LEMMA FillFlow ==
  ASSUME IInv, OnlyMoves, OnlyMoves', Met, Steady, Swept, Ended, PopulateBlock
  PROVE  Met' /\ Steady' /\ Swept' /\ Ended'
<1>1. /\ UNCHANGED <<head, tail, current, exit, isr, delay>>
      /\ pc = "fill" /\ pc' = "delay"
      /\ \A i \in Slots : i # head => /\ entry'[i] = entry[i] /\ trap'[i] = trap[i]
                                      /\ recalc'[i] = recalc[i]
  BY Places DEF PopulateBlock, CallerFrame, StopFrame, At, Goto, MarkRecalculate
<1>2. /\ \A i \in Slots : (Waits(i)' <=> Waits(i)) /\ (Last(i)' <=> Last(i))
      /\ \A a, b \in Slots : Follows(a, b)' <=> Follows(a, b)
      /\ tail \in Slots
  BY <1>1, SameOrder, Places DEF Waits, ToHead
<1>3. \A i \in Slots : Move(i) => i # head
  BY Places, Distances DEF Move
<1>4. Met' /\ Ended'
  BY <1>1, <1>2, <1>3 DEF Met, Due, Ended, Waits, Follows
<1>5. \A i \in Slots : Waits(i)' => ~recalc'[i]
  BY <1>1, <1>2, <1>3 DEF Swept, PlanningSteps, Waits
<1> QED
  BY <1>1, <1>4, <1>5, OutFlow DEF PlanningSteps

(* The new block is flagged, and the last move so far halts at its entry.  *)
LEMMA PublishFlow ==
  ASSUME IInv, Look, OnlyMoves, OnlyMoves', Met, Steady, Swept, Ended, Publish
  PROVE  Met' /\ Steady' /\ Swept' /\ Ended'
<1>1. /\ pc = "publish" /\ pc' = "recalc" /\ isr = "out" /\ head' = NextIndex(head)
      /\ UNCHANGED <<tail, recalc, entry, trap, current, exit, isr, delay>>
      /\ entry[head] = 0 /\ recalc[head]
  BY DEF Publish, CallerFrame, StopFrame, At, Goto, planVars, OnlyMoves, Look, NewBlock
<1>2. /\ head \in Slots /\ tail \in Slots /\ head' # tail /\ current # head
      /\ current # NoSlot => current = tail
  BY <1>1, Places, HeadIsFree DEF IInv, HandOver, RoomKept, Filling
<1>3. /\ \A i \in Slots : Waits(i)' => i # head' /\ (i = head \/ Waits(i))
      /\ \A l \in Slots : Last(l)' /\ Waits(l)' => l = head
      /\ \A a, b \in Slots : Follows(a, b)' /\ Waits(a)' =>
           Waits(a) /\ ((b = head /\ Last(a)) \/ Follows(a, b))
  BY PublishPlaces DEF OnlyMoves
<1>4. /\ \A i \in Slots : Waits(i) => trap[i].initial = entry[i]
      /\ \A a, b \in Slots : Waits(a) /\ Follows(a, b) => trap[a].final = entry[b]
      /\ \A a \in Slots : Waits(a) /\ Last(a) => trap[a].final = 0
  BY <1>1, Strict DEF PlanningSteps
<1>6. Met'
  <2>1. ASSUME NEW i \in Slots, Waits(i)'
        PROVE  trap'[i].initial = entry'[i] \/ Due(i)'
    <3>1. CASE i = head
      BY <1>1, <1>2, <3>1 DEF Due
    <3>2. CASE i # head
      BY <1>1, <1>3, <1>4, <2>1, <3>2
    <3> QED
      BY <3>1, <3>2
  <2>2. ASSUME NEW a \in Slots, NEW b \in Slots, Waits(a)', Follows(a, b)'
        PROVE  trap'[a].final = entry'[b]
    BY <1>1, <1>3, <1>4, <2>2
  <2>3. ASSUME NEW a \in Slots, Waits(a)', Last(a)'
        PROVE  Due(a)'
    <3>1. a = head
      BY <1>3, <2>3
    <3> QED
      BY <1>1, <1>2, <3>1 DEF Due
  <2> QED
    BY <2>1, <2>2, <2>3 DEF Met
<1>7. Ended'
  BY <1>1, <1>2 DEF Ended
<1> QED
  BY <1>1, <1>6, <1>7, OutFlow

(* Nothing waits any more. *)
LEMMA DropFlow ==
  ASSUME IInv, Ended, DropBlocks
  PROVE  Met' /\ Steady' /\ Swept' /\ Ended'
<1>1. /\ pc' = "abort" /\ head' = tail /\ tail' = tail /\ tail \in Slots
      /\ UNCHANGED <<current, exit, isr>> /\ isr = "out"
  BY Places DEF DropBlocks, At, Goto
<1>2. ToHead(tail)' = 0 /\ \A i \in Slots : ToHead(i)' \in Nat
  BY <1>1, SizeAssumption DEF ToHead, Ahead, Slots
<1>3. \A i \in Slots : ~Waits(i)'
  BY <1>2 DEF Waits, Move
<1>4. Met'
  BY <1>3 DEF Met
<1>5. Ended'
  BY <1>1 DEF Ended
<1> QED
  BY <1>1, <1>3, <1>4, <1>5, OutFlow DEF PlanningSteps

LEMMA CallerFlow ==
  ASSUME ~SyncBlocks, IInv, Look, Plan, Flow, OnlyMoves', Call \/ Continue
  PROVE  Met' /\ Steady' /\ Swept' /\ Ended'
<1> USE DEF CallerFrame, StopFrame, At, Goto, PlanningSteps, stepVars
<1>1. OnlyMoves /\ Met /\ Steady /\ Swept /\ Ended
  BY DEF Flow
<1>2. ASSUME NEW p \in Profiles, BufferSteps(p)
      PROVE  Met' /\ Steady' /\ Swept' /\ Ended'
  BY <1>1, <1>2, QuietFlow DEF BufferSteps, idxVars
<1>3. CASE Synchronize \/ QuickStop
  BY <1>1, <1>3, QuietFlow DEF Synchronize, QuickStop, CutIn, InIdle, WaitSteps, idxVars
<1>4. ~SetMachinePosition(0)
  BY DEF SetMachinePosition
<1>5. CASE GetNextFreeBlock \/ PlacePosition
  BY <1>1, <1>5, QuietFlow DEF GetNextFreeBlock, PlacePosition, idxVars
<1>8. CASE SetStepperPosition
  <2>1. pc = "setpos" /\ pc' \in {"idle"} \cup WaitSteps
    BY <1>8, ReturnWaits DEF SetStepperPosition, IInv, Types
  <2> QED
    BY <1>1, <1>8, <2>1, QuietFlow DEF SetStepperPosition, WaitSteps, idxVars
<1>6. CASE Synchronized \/ AbortBlock \/ StopSynchronized \/ Resync
  BY <1>1, <1>6, QuietFlow DEF Synchronized, AbortBlock, StopSynchronized, Resync, idxVars
<1>7. ~FillSyncBlock
  BY <1>1 DEF FillSyncBlock, OnlyMoves
<1> QED
  BY <1>1, <1>2, <1>3, <1>4, <1>5, <1>6, <1>7, <1>8, FillFlow, ReloadFlow, PublishFlow, DropFlow, RecalcFlow
  DEF Call, Continue

(* The end of a block: its last speed is the next one's entry speed.       *)
LEMMA DoneEnded ==
  ASSUME IInv, OnlyMoves, Met, Swept, Ended, BlockDone, pc \notin PlanningSteps,
         entry' = entry
  PROVE  Ended'
<1>1. /\ isr = "block" /\ isr' = "fetch" /\ current # NoSlot /\ current' = NoSlot
      /\ exit' = trap[current].final
      /\ UNCHANGED <<head, delay>>
  BY DEF BlockDone, DiscardCurrentBlock, gateVars
<1>2. /\ head # tail /\ current = tail /\ ~(delay > 0)
      /\ tail' = NextIndex(tail)
  BY <1>1, Places DEF Ended, BlockDone, DiscardCurrentBlock, has_blocks_queued
<1>3. /\ head \in Slots /\ tail \in Slots /\ tail' \in Slots
      /\ ToHead(tail) \in Nat /\ ToHead(tail) >= 1 /\ ToHead(NextIndex(tail)) = ToHead(tail) - 1
      /\ (ToHead(NextIndex(tail)) = 0 <=> NextIndex(tail) = head)
  BY <1>2, Places, Distances
<1>4. Waits(tail)
  BY <1>3, MovePlaces
<1>5. CASE tail' = head
  <2>1. Last(tail)
    BY <1>2, <1>3, <1>5, MovePlaces
  <2>2. exit' = 0
    BY <1>1, <1>2, <1>3, <1>4, <2>1, Strict
  <2> QED
    BY <1>1, <1>2, <1>5, <2>2 DEF Ended
<1>6. CASE tail' # head
  <2>1. Follows(tail, NextIndex(tail))
    BY <1>2, <1>3, <1>6, MovePlaces
  <2>2. exit' = entry[tail']
    BY <1>1, <1>2, <1>3, <1>4, <2>1, Strict
  <2> QED
    BY <1>1, <1>2, <1>6, <2>2 DEF Ended
<1> QED
  BY <1>5, <1>6

LEMMA InterruptFlow ==
  ASSUME IInv, Look, OnlyMoves, OnlyMoves', StopHolds, Met, Steady, Swept, Ended, Interrupt,
         pc \notin PlanningSteps, pc' = pc
  PROVE  Met' /\ Steady' /\ Swept' /\ Ended'
<1>1. /\ UNCHANGED <<head, blk, recalc, entry, trap>>
      /\ \A i \in Slots : Waits(i)' => Waits(i)
  BY InterruptMoves DEF Look
<1>2. /\ \A i \in Slots : Last(i)' <=> Last(i)
      /\ \A a, b \in Slots : Follows(a, b)' <=> Follows(a, b)
  BY <1>1, SamePlaces
<1>3. /\ \A i \in Slots : Waits(i) => ~recalc[i] /\ trap[i].initial = entry[i]
      /\ \A a, b \in Slots : Waits(a) /\ Follows(a, b) => trap[a].final = entry[b]
      /\ \A a \in Slots : Waits(a) /\ Last(a) => trap[a].final = 0
  BY Strict
<1>4. Met'
  BY <1>1, <1>2, <1>3 DEF Met
<1>5. Ended'
  <2>1. CASE PulseDiscard
    BY <2>1 DEF PulseDiscard, DiscardCurrentBlock, Ended
  <2>2. CASE PulseStep
    <3>1. /\ UNCHANGED <<head, tail, current, exit, delay>> /\ isr = "out" /\ isr' = "block"
          /\ current # NoSlot => ~abort /\ ~wait
      BY <2>2 DEF PulseStep, MayFire, idxVars
    <3>2. current # NoSlot => head # tail
      BY <3>1 DEF IInv, HandOver, BusyIsTail, has_blocks_queued, StopHolds
    <3> QED
      BY <1>1, <3>1, <3>2 DEF Ended
  <2>3. CASE BlockDone
    <3>1. Ended'
      BY <1>1, <2>3, DoneEnded
    <3> QED
      BY <3>1
  <2>4. CASE BlockContinues
    BY <1>1, <2>4 DEF BlockContinues, Ended, idxVars, gateVars
  <2>5. CASE FetchNothing
    <3>1. /\ isr = "fetch" /\ ~Delivered /\ isr' = "out" /\ current = NoSlot
          /\ UNCHANGED <<head, tail, current, exit>>
      BY <2>5 DEF FetchNothing, idxVars, IInv, HandOver, FetchFree
    <3>2. exit \in {0, Unknown}
      <4>1. CASE ~has_blocks_queued
        BY <3>1, <4>1 DEF Ended, has_blocks_queued
      <4>2. CASE HeldBack
        BY <3>1, <4>2 DEF Ended, HeldBack
      <4>3. CASE has_blocks_queued
        <5>1. Waits(tail)
          BY <4>3, Places, Distances, MovePlaces DEF has_blocks_queued
        <5>2. ~recalc[tail]
          BY <1>3, <5>1, Places
        <5> QED
          BY <3>1, <4>2, <4>3, <5>2 DEF Delivered
      <4> QED
        BY <4>1, <4>3
    <3> QED
      BY <1>1, <3>1, <3>2 DEF Ended
  <2>6. ~FetchSync
    BY Places DEF FetchSync, OnlyMoves
  <2>7. CASE FetchMove
    <3>1. current' = tail /\ tail # NoSlot /\ ~(delay' > 0) /\ isr' = "out"
      BY <2>7, Places DEF FetchMove, Deliver
    <3> QED
      BY <3>1 DEF Ended
  <2> QED
    BY <2>1, <2>2, <2>3, <2>4, <2>5, <2>6, <2>7 DEF Interrupt
<1>6. \A i \in Slots : Waits(i)' => ~recalc'[i]
  BY <1>1, <1>3
<1> QED
  BY <1>4, <1>5, <1>6, OutFlow

LEMMA FlowKept ==
  ASSUME ~Preemptible, ~SyncBlocks, IInv, Look, Plan, Flow, [Next]_vars
  PROVE  Flow'
<1>1. StopHolds /\ Alone /\ OnlyMoves /\ Met /\ Steady /\ Swept /\ Ended
  BY DEF Flow
<1>2. StopHolds' /\ Alone' /\ OnlyMoves'
  BY <1>1, StopHoldsStep, AloneStep, OnlyMovesStep DEF IInv, Types
<1>3. Met' /\ Steady' /\ Swept' /\ Ended'
  <2>1. CASE Call \/ Continue
    BY <1>2, <2>1, CallerFlow
  <2>2. CASE Display \/ OtherInterrupt \/ UNCHANGED vars
    <3>1. /\ UNCHANGED <<idxVars, planVars, current, exit, isr, delay, pc, locVars>>
      BY <2>2 DEF Display, StopPrinting, StopHome, OtherInterrupt, EndstopTriggered, Tick, stepVars,
         vars, gateVars
    <3> QED
      BY <1>1, <1>2, <3>1, QuietFlow
  <2>3. CASE Interrupt
    <3>1. pc \notin PlanningSteps /\ pc' = pc
      BY <1>1, <2>3, AloneStep
    <3> QED
      BY <1>1, <1>2, <2>3, <3>1, InterruptFlow
  <2> QED
    BY <2>1, <2>2, <2>3 DEF Next
<1> QED
  BY <1>2, <1>3 DEF Flow

(* Where the passes run as a whole and no position is set through the      *)
(* queue, every block begins at the speed the one before it ended at: the  *)
(* interrupt inside a pass and the sync blocks are the only causes of the  *)
(* jumps that the other runs show.                                         *)
THEOREM SpeedsMeet ==
  ASSUME ~Preemptible, ~SyncBlocks, ~Overlap
  PROVE  Spec => JunctionContinuous
<1>1. Init => Flow
  <2> SUFFICES ASSUME Init PROVE Flow
    OBVIOUS
  <2>1. /\ head = 0 /\ tail = 0 /\ current = NoSlot /\ pc = "idle" /\ isr = "out" /\ exit = 0
        /\ cmd = NoBlock /\ delay = 0
        /\ blk = [i \in Slots |-> NoBlock]
    BY DEF Init
  <2>2. ToHead(tail) = 0 /\ \A i \in Slots : ToHead(i) \in Nat
    BY <2>1, SizeAssumption DEF ToHead, Ahead, Slots
  <2>3. \A i \in Slots : ~Waits(i)
    BY <2>2 DEF Waits, Move
  <2>4. StopHolds /\ Alone /\ OnlyMoves /\ Ended
    BY <2>1 DEF StopHolds, Alone, PlanningSteps, OnlyMoves, NoBlock, Ended
  <2>5. Met /\ Steady /\ Swept
    BY <2>1, <2>3 DEF Met, Steady, Swept, Forward, Sweeping
  <2> QED
    BY <2>4, <2>5 DEF Flow
<1>2. IInv /\ Look /\ Plan /\ Flow /\ [Next]_vars => Flow'
  BY FlowKept
<1>3. IInv /\ Look /\ Plan /\ Flow /\ [Next]_vars =>
        (current = NoSlot /\ current' # NoSlot /\ exit # Unknown =>
           LET v == trap[current'].initial
           IN  v = exit \/ (v <= SafeSpeed /\ exit <= SafeSpeed))
  <2> SUFFICES ASSUME IInv, Look, Plan, Flow, [Next]_vars,
                      current = NoSlot, current' # NoSlot, exit # Unknown
               PROVE  trap[current'].initial = exit
    OBVIOUS
  <2>1. FetchMove /\ Interrupt
    <3>1. ~(Call \/ Display \/ OtherInterrupt \/ UNCHANGED vars)
      BY DEF Call, BufferSteps, SetMachinePosition, Synchronize, QuickStop, CutIn, CallerFrame,
         StopFrame, Display,
         OtherInterrupt, EndstopTriggered, Tick, vars, stepVars
    <3>2. ~Continue
      BY RecalcFrame DEF Continue, GetNextFreeBlock, PopulateBlock, FillSyncBlock, ReloadDelay, Publish,
         PlacePosition, SetStepperPosition, Synchronized, DropBlocks, AbortBlock, StopSynchronized,
         Resync, CallerFrame, StopFrame
    <3>3. ~(PulseDiscard \/ PulseStep \/ BlockDone \/ BlockContinues \/ FetchNothing \/ FetchSync)
      BY DEF PulseDiscard, PulseStep, BlockDone, BlockContinues, FetchNothing, FetchSync, Deliver,
         DiscardCurrentBlock
    <3> QED
      BY <3>1, <3>2, <3>3 DEF Next, Interrupt
  <2>2. pc \notin PlanningSteps
    BY <2>1, AloneStep DEF Flow
  <2>3. current' = tail /\ head # tail
    BY <2>1 DEF FetchMove, Deliver, Delivered, has_blocks_queued
  <2>4. exit = entry[tail]
    BY <2>3 DEF Flow, Ended
  <2>5. Waits(tail) /\ tail \in Slots
    BY <2>3, Places, Distances, MovePlaces DEF Flow
  <2>6. trap[tail].initial = entry[tail]
    BY <2>2, <2>5, Strict DEF Flow
  <2> QED
    BY <2>3, <2>4, <2>6
<1> QED
  BY <1>1, <1>2, <1>3, PlanAlways, PTL DEF Spec, JunctionContinuous
=============================================================================
