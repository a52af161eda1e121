----------------------------- MODULE StepperISR -----------------------------
(***************************************************************************)
(* The stepper interrupt (module/stepper.cpp, module/stepper.h) as the     *)
(* reader of the planner's ring, and the 1 kHz temperature interrupt's     *)
(* tick.  The processor has one core: while an interrupt runs (isr #       *)
(* "out") the main program does not, so an interrupt is a few steps of its *)
(* own between two steps of the main program.                              *)
(***************************************************************************)
EXTENDS PlannerRing

inISR == isr # "out"

(* discard_current_block: release_current_block moves the tail only while  *)
(* the queue is not empty, which it is when quick_stop has just cleared it.*)
DiscardAlwaysAdvancing ==   \* variant: without the test for an empty queue
  /\ current' = NoSlot
  /\ tail' = NextIndex(tail)
DiscardCurrentBlock ==
  /\ current' = NoSlot
  /\ tail' = IF has_blocks_queued THEN NextIndex(tail) ELSE tail

(* pulse_phase_isr.  A call with nothing to abort, nothing being executed  *)
(* and an empty queue does nothing at all and is left out.                 *)
MayFire == /\ isr = "out"
           /\ Preemptible \/ pc \notin PlanningSteps
           /\ abort \/ current # NoSlot \/ has_blocks_queued

PulseDiscard ==
  /\ MayFire
  /\ (abort \/ wait) /\ current # NoSlot
  /\ DiscardCurrentBlock
  /\ abort' = FALSE
  /\ exit' = Unknown /\ lost' = TRUE /\ isr' = "block"
  /\ UNCHANGED <<head, nonbusy, planned, delay, cleaning, wait, stopHome, done, count>>

PulseStep ==
  /\ MayFire
  /\ ~((abort \/ wait) /\ current # NoSlot)
  /\ abort' = FALSE
  /\ isr' = "block"
  /\ LET steps == current # NoSlot /\ done < StepEvents
     IN  /\ done'  = IF steps THEN done + 1 ELSE done
         /\ count' = IF steps THEN count + 1 ELSE count
  /\ UNCHANGED <<idxVars, delay, cleaning, wait, stopHome, current, exit, lost>>

(* block_phase_isr: a finished block is released; a block under way only   *)
(* gets its next interval.                                                 *)
BlockDone ==
  /\ isr = "block" /\ current # NoSlot /\ done >= StepEvents
  /\ DiscardCurrentBlock
  /\ exit' = trap[current].final
  /\ isr' = "fetch"
  /\ UNCHANGED <<head, nonbusy, planned, gateVars, done, count, lost>>

BlockContinues ==
  /\ isr = "block" /\ (current # NoSlot => done < StepEvents)
  /\ isr' = IF current = NoSlot THEN "fetch" ELSE "out"
  /\ UNCHANGED <<idxVars, gateVars, current, done, count, exit, lost>>

(* get_current_block: when it delivers a block at all. *)
DeliveredUnplanned == has_blocks_queued /\ delay = 0   \* variant: the flag not looked at
HeldBack  == delay > 0 /\ movesplanned < 3 /\ delay - 1 > 0
Delivered == has_blocks_queued /\ ~HeldBack /\ ~recalc[tail]

FetchNothing ==
  /\ isr = "fetch" /\ ~Delivered
  /\ delay' = IF ~has_blocks_queued \/ delay = 0 THEN delay
              ELSE IF HeldBack THEN delay - 1 ELSE 0
  /\ isr' = "out"
  /\ UNCHANGED <<idxVars, cleaning, abort, wait, stopHome, current, done, count, exit, lost>>

(* The busy block's successor becomes the first non-busy one, and pushes   *)
(* the planned index ahead of it.                                          *)
DeliverUnpushed ==   \* variant: the planned index left behind
  /\ isr = "fetch" /\ Delivered
  /\ delay' = 0
  /\ nonbusy' = NextIndex(tail)
  /\ planned' = planned
Deliver ==
  /\ isr = "fetch" /\ Delivered
  /\ delay' = 0
  /\ nonbusy' = NextIndex(tail)
  /\ planned' = IF planned = tail THEN NextIndex(tail) ELSE planned

(* A sync block only sets the position; the interrupt goes on to the next. *)
FetchSync ==
  /\ Deliver
  /\ blk[tail].sync
  /\ count' = blk[tail].pos /\ lost' = FALSE
  /\ tail' = NextIndex(tail)
  /\ UNCHANGED <<head, cleaning, abort, wait, stopHome, isr, current, done, exit>>

FetchMove ==
  /\ Deliver
  /\ ~blk[tail].sync
  /\ current' = tail /\ done' = 0
  /\ isr' = "out"
  /\ UNCHANGED <<head, tail, cleaning, abort, wait, stopHome, count, exit, lost>>

(* Stepper::endstop_triggered, reached from Endstops::update while an axis *)
(* moves towards a switch: the block is to be aborted.                     *)
EndstopTriggered ==
  /\ Homing /\ isr = "out" /\ current # NoSlot
  /\ abort' = TRUE
  /\ UNCHANGED <<idxVars, delay, cleaning, wait, stopHome, stepVars>>

(* Planner::tick.  The stepper interrupt fires at least every 65536 timer  *)
(* ticks at 2 MHz (33 ms), a stop holds the planner for a second: the      *)
(* count does not end before the interrupt has seen a pending abort.       *)
Tick ==
  /\ cleaning > 0
  /\ cleaning = 1 => ~abort /\ ~inISR /\ pc # "abort"
  /\ cleaning' = cleaning - 1
  /\ UNCHANGED <<idxVars, delay, abort, wait, stopHome, stepVars>>

Interrupt ==
  /\ \/ PulseDiscard \/ PulseStep
     \/ BlockDone \/ BlockContinues
     \/ FetchNothing \/ FetchSync \/ FetchMove
  /\ UNCHANGED <<blk, planVars, pc, outer, locVars, userVars>>

OtherInterrupt ==
  /\ EndstopTriggered \/ Tick
  /\ UNCHANGED <<blk, planVars, pc, outer, locVars, userVars>>
=============================================================================
