---------------------------- MODULE PlannerRecalc ----------------------------
(***************************************************************************)
(* Planner::recalculate (module/planner.cpp): the reverse pass, the        *)
(* forward pass and the trapezoids, as steps of the main program between   *)
(* which the stepper interrupt may run.  A step ends wherever the code     *)
(* reads or writes something the interrupt reads or writes: an index, a    *)
(* RECALCULATE flag, stepper.current_block.  Sync blocks are skipped.      *)
(*                                                                         *)
(* Locals: bi is block_index; pl planned_block_index; ref the "next" of    *)
(* the reverse pass, the "previous" of the forward pass, the "block" of    *)
(* recalculate_trapezoids; hd its head_block_index; newv                   *)
(* new_entry_speed_sqr.                                                    *)
(***************************************************************************)
EXTENDS PlannerRing

minSpeed(a, b) == IF a < b THEN a ELSE b

is_block_busy(i) == current = i

(* One step of the main program: it runs only outside interrupts. *)
At(label)   == pc = label /\ isr = "out"
Goto(label) == pc' = label

(* Back in the caller: the locals are gone. *)
Return == Goto("idle") /\ bi' = 0 /\ pl' = 0 /\ ref' = NoSlot /\ hd' = 0 /\ newv' = 0

MarkRecalculate(i)  == recalc' = [recalc EXCEPT ![i] = TRUE]
ClearRecalculate(i) == recalc' = [recalc EXCEPT ![i] = FALSE]

Recalculate ==
  /\ At("recalc")
  /\ Goto(IF PrevIndex(head) # planned THEN "revStart" ELSE "trapStart")
  /\ UNCHANGED <<idxVars, planVars, locVars>>

-----------------------------------------------------------------------------
(* reverse_pass, reverse_pass_kernel *)

RevStart ==
  /\ At("revStart")
  /\ bi' = PrevIndex(head) /\ pl' = planned /\ ref' = NoSlot
  /\ Goto(IF planned = head THEN "fwdStart" ELSE "revLoop")
  /\ UNCHANGED <<idxVars, planVars, hd, newv>>

(* The entry speed from which the block can still reach its exit speed. *)
ReverseEntryUnlimited == blk[bi].max   \* variant: the block's length ignored
ReverseEntry ==
  IF blk[bi].nlen THEN blk[bi].max
  ELSE minSpeed(blk[bi].max, (IF ref = NoSlot THEN 0 ELSE entry[ref]) + blk[bi].dist)

ReverseChanges ==
  /\ entry[bi] # blk[bi].max \/ (ref # NoSlot /\ recalc[ref])
  /\ entry[bi] # ReverseEntry

RevDone ==
  /\ At("revLoop") /\ bi = pl
  /\ Goto("fwdStart")
  /\ UNCHANGED <<idxVars, planVars, locVars>>

RevKernel ==
  /\ At("revLoop") /\ bi # pl
  /\ IF ~blk[bi].sync /\ ReverseChanges
     THEN MarkRecalculate(bi) /\ newv' = ReverseEntry /\ Goto("revCheck")
     ELSE UNCHANGED <<recalc, newv>> /\ Goto("revStep")
  /\ UNCHANGED <<idxVars, entry, trap, bi, pl, ref, hd>>

(* The block may have become busy before it was marked. *)
RevUnchecked ==   \* variant: the race with the interrupt forgotten
  /\ At("revCheck")
  /\ Goto("revWrite")
  /\ UNCHANGED <<idxVars, planVars, locVars>>
RevCheck ==
  /\ At("revCheck")
  /\ IF is_block_busy(bi) THEN ClearRecalculate(bi) /\ Goto("revStep")
     ELSE UNCHANGED recalc /\ Goto("revWrite")
  /\ UNCHANGED <<idxVars, entry, trap, locVars>>

RevWrite ==
  /\ At("revWrite")
  /\ entry' = [entry EXCEPT ![bi] = newv]
  /\ Goto("revStep")
  /\ UNCHANGED <<idxVars, recalc, trap, locVars>>

RevStep ==
  /\ At("revStep")
  /\ ref' = IF blk[bi].sync THEN ref ELSE bi
  /\ bi' = PrevIndex(bi)
  /\ Goto("revFollow")
  /\ UNCHANGED <<idxVars, planVars, pl, hd, newv>>

(* The interrupt may have pushed the planned index: follow it. *)
RevFollow ==
  /\ At("revFollow")
  /\ IF pl = planned THEN Goto("revLoop") /\ pl' = pl
     ELSE IF bi = pl THEN Goto("fwdStart") /\ pl' = pl
     ELSE Goto("revFollow") /\ pl' = NextIndex(pl)
  /\ UNCHANGED <<idxVars, planVars, bi, ref, hd, newv>>

-----------------------------------------------------------------------------
(* forward_pass, forward_pass_kernel *)

FwdStart ==
  /\ At("fwdStart")
  /\ bi' = planned /\ ref' = NoSlot
  /\ pl' = 0 /\ newv' = 0
  /\ Goto("fwdLoop")
  /\ UNCHANGED <<idxVars, planVars, hd>>

FwdDone ==
  /\ At("fwdLoop") /\ bi = head
  /\ Goto("trapStart")
  /\ UNCHANGED <<idxVars, planVars, locVars>>

(* The kernel runs on a move with a previous one that is not busy. *)
FwdLoop ==
  /\ At("fwdLoop") /\ bi # head
  /\ Goto(IF blk[bi].sync \/ ref = NoSlot \/ is_block_busy(ref)
          THEN "fwdStep" ELSE "fwdKernel")
  /\ UNCHANGED <<idxVars, planVars, locVars>>

(* Does the previous block fail to accelerate to this one's entry speed? *)
ForwardEntry   == entry[ref] + blk[ref].dist
ForwardChanges == ~blk[ref].nlen /\ entry[ref] < entry[bi] /\ ForwardEntry < entry[bi]

FwdKernel ==
  /\ At("fwdKernel")
  /\ IF ForwardChanges
     THEN MarkRecalculate(bi) /\ newv' = ForwardEntry /\ Goto("fwdCheck")
     ELSE UNCHANGED <<recalc, newv>> /\ Goto("fwdMax")
  /\ UNCHANGED <<idxVars, entry, trap, bi, pl, ref, hd>>

FwdCheck ==
  /\ At("fwdCheck")
  /\ IF is_block_busy(bi) THEN ClearRecalculate(bi) /\ Goto("fwdMax")
     ELSE UNCHANGED recalc /\ Goto("fwdWrite")
  /\ UNCHANGED <<idxVars, entry, trap, locVars>>

(* Still marked, so the interrupt does not take the block: the write of    *)
(* the entry speed and of the planned index are one step.                  *)
FwdWrite ==
  /\ At("fwdWrite")
  /\ entry' = [entry EXCEPT ![bi] = newv]
  /\ planned' = bi
  /\ Goto("fwdMax")
  /\ UNCHANGED <<head, tail, nonbusy, recalc, trap, locVars>>

(* A block at its maximum entry speed ends the optimal plan; nobody looks  *)
(* here whether it has become busy.                                        *)
FwdMax ==
  /\ At("fwdMax")
  /\ planned' = IF entry[bi] = blk[bi].max THEN bi ELSE planned
  /\ Goto("fwdStep")
  /\ UNCHANGED <<head, tail, nonbusy, planVars, locVars>>

FwdStep ==
  /\ At("fwdStep")
  /\ ref' = IF blk[bi].sync THEN ref ELSE bi
  /\ bi' = NextIndex(bi)
  /\ Goto("fwdLoop")
  /\ UNCHANGED <<idxVars, planVars, pl, hd, newv>>

-----------------------------------------------------------------------------
(* recalculate_trapezoids, calculate_trapezoid_for_block *)

TrapStart ==
  /\ At("trapStart")
  /\ bi' = tail /\ hd' = head /\ ref' = NoSlot
  /\ newv' = 0
  /\ Goto("trapTrim")
  /\ UNCHANGED <<idxVars, planVars, pl>>

(* Sync blocks at the end of the queue are left out. *)
TrapTrim ==
  /\ At("trapTrim")
  /\ IF hd # bi /\ blk[PrevIndex(hd)].sync
     THEN hd' = PrevIndex(hd) /\ Goto("trapTrim")
     ELSE hd' = hd /\ Goto("trapLoop")
  /\ UNCHANGED <<idxVars, planVars, bi, pl, ref, newv>>

(* The last move is always recalculated, with an exit speed of zero; the   *)
(* ones before it when their entry or exit speed has changed.              *)
AtLast == bi = hd
TrapDueOwn == ref # NoSlot /\ (AtLast \/ (~blk[bi].sync /\ recalc[ref]))   \* variant: a changed exit speed overlooked
TrapDue == ref # NoSlot /\ (AtLast \/ (~blk[bi].sync /\ (recalc[ref] \/ recalc[bi])))

TrapLoop ==
  /\ At("trapLoop")
  /\ IF TrapDue THEN MarkRecalculate(ref) /\ Goto("trapCheck") /\ UNCHANGED locVars
     ELSE IF AtLast THEN UNCHANGED recalc /\ Return
     ELSE UNCHANGED <<recalc, locVars>> /\ Goto("trapStep")
  /\ UNCHANGED <<idxVars, entry, trap>>

TrapCheck ==
  /\ At("trapCheck")
  /\ Goto(IF is_block_busy(ref) THEN "trapClear" ELSE "trapWrite")
  /\ UNCHANGED <<idxVars, planVars, locVars>>

TrapWrite ==
  /\ At("trapWrite")
  /\ trap' = [trap EXCEPT ![ref] = [initial |-> entry[ref],
                                    final   |-> IF AtLast THEN 0 ELSE entry[bi]]]
  /\ Goto("trapClear")
  /\ UNCHANGED <<idxVars, recalc, entry, locVars>>

TrapNotCleared ==   \* variant: the flag left set
  /\ At("trapClear")
  /\ IF AtLast THEN Return ELSE Goto("trapStep") /\ UNCHANGED locVars
  /\ UNCHANGED <<idxVars, planVars>>
TrapClear ==
  /\ At("trapClear")
  /\ ClearRecalculate(ref)
  /\ IF AtLast THEN Return ELSE Goto("trapStep") /\ UNCHANGED locVars
  /\ UNCHANGED <<idxVars, entry, trap>>

TrapStep ==
  /\ At("trapStep")
  /\ ref' = IF blk[bi].sync THEN ref ELSE bi
  /\ bi' = NextIndex(bi)
  /\ Goto("trapLoop")
  /\ UNCHANGED <<idxVars, planVars, pl, hd, newv>>

RecalcNext ==
  /\ \/ Recalculate
     \/ RevStart \/ RevDone \/ RevKernel \/ RevCheck \/ RevWrite \/ RevStep \/ RevFollow
     \/ FwdStart \/ FwdDone \/ FwdLoop \/ FwdKernel \/ FwdCheck \/ FwdWrite \/ FwdMax \/ FwdStep
     \/ TrapStart \/ TrapTrim \/ TrapLoop \/ TrapCheck \/ TrapWrite \/ TrapClear \/ TrapStep
  /\ UNCHANGED <<blk, gateVars, stepVars, outer, userVars>>
=============================================================================
