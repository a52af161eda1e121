------------------------------- MODULE Planner -------------------------------
(***************************************************************************)
(* The motion planner's queue as a whole: the callers of the planner       *)
(* (moves, G92, synchronize, quickstop_stepper), which all run in the one  *)
(* main program, recalculate() (PlannerRecalc), and the interrupts         *)
(* (StepperISR).                                                           *)
(***************************************************************************)
EXTENDS StepperISR, PlannerRecalc

(* Main-program steps outside recalculate() leave its locals alone. *)
StopFrame   == UNCHANGED <<locVars, nonbusy, tail, current, done, isr, exit, stopHome>>
CallerFrame == StopFrame /\ outer' = outer

Init ==
  /\ head = 0 /\ tail = 0 /\ nonbusy = 0 /\ planned = 0
  /\ blk = [i \in Slots |-> NoBlock]
  /\ recalc = [i \in Slots |-> FALSE]
  /\ entry = [i \in Slots |-> 0]
  /\ trap = [i \in Slots |-> NoTrap]
  /\ delay = 0 /\ cleaning = 0
  /\ abort = FALSE /\ wait = FALSE /\ stopHome = FALSE
  /\ isr = "out" /\ current = NoSlot /\ done = 0 /\ count = 0 /\ exit = 0 /\ lost = FALSE
  /\ pc = "idle" /\ outer = <<>> /\ bi = 0 /\ pl = 0 /\ ref = NoSlot /\ hd = 0 /\ newv = 0
  /\ cmd = NoBlock /\ position = 0 /\ made = 0 /\ nominal = 0

-----------------------------------------------------------------------------
(* _buffer_steps, buffer_sync_block *)

(* A move is refused while the planner is cleaning up after a stop. *)
BufferSteps(p) ==
  /\ At("idle") /\ made < MaxBlocks
  /\ cleaning = 0
  /\ cmd' = [NoBlock EXCEPT !.id = made + 1, !.max = p.max, !.nominal = p.nominal,
                         !.dist = p.dist, !.nlen = p.nominal <= p.dist]
  /\ Goto("room")
  /\ CallerFrame
  /\ UNCHANGED <<head, planned, blk, planVars, delay, cleaning, abort, wait, count, lost, position, made, nominal>>

(* get_next_free_block: idle while the ring is full. *)
GetNextFreeBlock ==
  /\ At("room") /\ moves_free >= 1
  /\ Goto("fill")
  /\ CallerFrame
  /\ UNCHANGED <<head, planned, blk, planVars, delay, cleaning, abort, wait, count, lost, userVars>>

(* The speed at which the new move may be entered, a profile's max where   *)
(* only the jerk limits it: no more than either move's nominal speed, but  *)
(* the safe speed if that serves better at both sides, or if no other move *)
(* is waiting.                                                             *)
SafeOf(v) == minSpeed(SafeSpeed, v)
Joint     == minSpeed(cmd.max, minSpeed(cmd.nominal, nominal))
JunctionSpeed ==
  IF \/ nonbusy_movesplanned = 0 \/ nominal = 0
     \/ SafeOf(nominal) >= Joint /\ SafeOf(cmd.nominal) >= Joint
  THEN SafeOf(cmd.nominal) ELSE Joint

(* _populate_block.  The slot's last trapezoid is void for the new block.  *)

PopulateBlock ==
  /\ At("fill") /\ ~cmd.sync
  /\ blk' = [blk EXCEPT ![head] = [cmd EXCEPT !.max = JunctionSpeed]]
  /\ entry' = [entry EXCEPT ![head] = 0]
  /\ trap' = [trap EXCEPT ![head] = NoTrap]
  /\ MarkRecalculate(head)
  /\ position' = position + StepEvents
  /\ made' = made + 1 /\ nominal' = cmd.nominal
  /\ Goto("delay")
  /\ CallerFrame
  /\ UNCHANGED <<head, planned, delay, cleaning, abort, wait, count, lost, cmd>>

(* buffer_sync_block: memset, the flag, and the position to force. *)
FillSyncBlock ==
  /\ At("fill") /\ cmd.sync
  /\ blk' = [blk EXCEPT ![head] = [cmd EXCEPT !.pos = position]]
  /\ entry' = [entry EXCEPT ![head] = 0]
  /\ trap' = [trap EXCEPT ![head] = NoTrap]
  /\ ClearRecalculate(head)
  /\ made' = made + 1
  /\ Goto("delay")
  /\ CallerFrame
  /\ UNCHANGED <<head, planned, delay, cleaning, abort, wait, count, lost, cmd, position, nominal>>

ReloadDelay ==
  /\ At("delay")
  /\ delay' = IF head = tail THEN FirstDelay ELSE delay
  /\ Goto("publish")
  /\ CallerFrame
  /\ UNCHANGED <<head, planned, blk, planVars, cleaning, abort, wait, count, lost, userVars>>

Publish ==
  /\ At("publish")
  /\ head' = NextIndex(head)
  /\ Goto(IF cmd.sync THEN "idle" ELSE "recalc")
  /\ cmd' = NoBlock
  /\ CallerFrame
  /\ UNCHANGED <<planned, blk, planVars, delay, cleaning, abort, wait, count, lost, position, made, nominal>>

-----------------------------------------------------------------------------
(* set_machine_position_mm: through the queue if anything is in it,        *)
(* straight to the stepper if not.                                         *)

SetMachinePosition(v) ==
  /\ At("idle") /\ SyncBlocks /\ made < MaxBlocks
  /\ position' = v
  /\ Goto("place")
  /\ CallerFrame
  /\ UNCHANGED <<head, planned, blk, planVars, delay, cleaning, abort, wait, count, lost, cmd, made, nominal>>

PlacePositionDirect ==   \* variant: set at once, whatever is queued
  /\ At("place")
  /\ Goto("setpos")
  /\ CallerFrame
  /\ UNCHANGED <<head, planned, blk, planVars, delay, cleaning, abort, wait, count, lost, userVars>>
PlacePosition ==
  /\ At("place")
  /\ IF has_blocks_queued
     THEN cmd' = [NoBlock EXCEPT !.id = made + 1, !.sync = TRUE] /\ Goto("room")
     ELSE cmd' = cmd /\ Goto("setpos")
  /\ CallerFrame
  /\ UNCHANGED <<head, planned, blk, planVars, delay, cleaning, abort, wait, count, lost, position, made, nominal>>

(* When synchronize() returns. *)
Drained == (~has_blocks_queued /\ cleaning = 0) \/ stopHome

(* Stepper::set_position synchronizes first: it waits out a stop's second.  *)
(* It ends a G92 or a stop, and the stop returns to the wait it cut into.  *)
SetStepperPosition ==
  /\ At("setpos") /\ Drained
  /\ count' = position /\ lost' = FALSE
  /\ IF outer = <<>> THEN Goto("idle") /\ outer' = outer
                     ELSE Goto(Head(outer)) /\ outer' = Tail(outer)
  /\ StopFrame
  /\ UNCHANGED <<head, planned, blk, planVars, delay, cleaning, abort, wait, userVars>>

-----------------------------------------------------------------------------
(* synchronize *)

Synchronize ==
  /\ At("idle")
  /\ Goto("sync")
  /\ CallerFrame
  /\ UNCHANGED <<head, planned, blk, planVars, delay, cleaning, abort, wait, count, lost, userVars>>

Synchronized ==
  /\ At("sync") /\ Drained
  /\ Goto("idle")
  /\ CallerFrame
  /\ UNCHANGED <<head, planned, blk, planVars, delay, cleaning, abort, wait, count, lost, userVars>>

-----------------------------------------------------------------------------
(* quickstop_stepper, with Planner::quick_stop inlined.  loop() and M410   *)
(* call it, and an M410 that a host sends takes effect as soon as it is    *)
(* read, in the idle() of whatever wait is under way, a stop's own too; a  *)
(* wait that has got what it waits for may still be in its last idle().    *)

InIdle == isr = "out" /\ pc \in {"idle"} \cup WaitSteps

CutIn ==
  /\ InIdle /\ Stops
  /\ IF pc = "idle" THEN outer' = outer
                    ELSE Len(outer) < MaxNested /\ outer' = <<pc>> \o outer
  /\ pc = "room" => ~stopHome \/ Overlap
  /\ Goto("drop")
  /\ StopFrame

QuickStopUnheld ==   \* variant: the stepper not held while the queue is dropped
  /\ CutIn
  /\ UNCHANGED <<head, planned, blk, planVars, delay, cleaning, abort, wait, count, lost, userVars>>
QuickStop ==
  /\ CutIn
  /\ wait' = TRUE
  /\ UNCHANGED <<head, planned, blk, planVars, delay, cleaning, abort, count, lost, userVars>>

(* The critical section: the stepper interrupt is suspended. *)
DropUncleaned ==   \* variant: moves accepted again at once
  /\ At("drop")
  /\ head' = tail /\ planned' = tail /\ nonbusy' = tail
  /\ delay' = FirstDelay
  /\ lost' = (lost \/ has_blocks_queued)
  /\ Goto("abort")
  /\ UNCHANGED <<tail, blk, planVars, cleaning, abort, wait, stopHome, isr, current, done, count,
                 exit, outer, locVars, userVars>>
DropBlocks ==
  /\ At("drop")
  /\ head' = tail /\ planned' = tail /\ nonbusy' = tail
  /\ delay' = FirstDelay
  /\ cleaning' = CleanTicks
  /\ lost' = (lost \/ has_blocks_queued)
  /\ Goto("abort")
  /\ UNCHANGED <<tail, blk, planVars, abort, wait, stopHome, isr, current, done, count, exit,
                 outer, locVars, userVars>>

AbortBlock ==
  /\ At("abort")
  /\ abort' = TRUE
  /\ Goto("drain")
  /\ CallerFrame
  /\ UNCHANGED <<head, planned, blk, planVars, delay, cleaning, wait, count, lost, userVars>>

StopSynchronized ==
  /\ At("drain") /\ Drained
  /\ wait' = FALSE
  /\ Goto("resync")
  /\ CallerFrame
  /\ UNCHANGED <<head, planned, blk, planVars, delay, cleaning, abort, count, lost, userVars>>

(* set_current_from_steppers_for_axis, sync_plan_position *)
Resync ==
  /\ At("resync")
  /\ position' = count
  /\ Goto("place")
  /\ CallerFrame
  /\ UNCHANGED <<head, planned, blk, planVars, delay, cleaning, abort, wait, count, lost, cmd, made, nominal>>

-----------------------------------------------------------------------------
(* The touch display, which runs inside idle(): wherever the main program  *)
(* waits.  It sets flags only.                                             *)

(* menuCallBackStopPrinting: the stop is confirmed, quickstop_stepper comes*)
(* when the main loop sees the abort.                                      *)
StopPrinting ==
  /\ InIdle /\ Stops
  /\ wait' = TRUE
  /\ UNCHANGED <<idxVars, delay, cleaning, abort, stopHome>>

(* The home menu's stop button, and the keys that take it back. *)
StopHome ==
  /\ InIdle /\ Stops
  /\ stopHome \/ Overlap \/ "room" \notin Suspended
  /\ stopHome' = ~stopHome
  /\ UNCHANGED <<idxVars, delay, cleaning, abort, wait>>

Display ==
  /\ StopPrinting \/ StopHome
  /\ UNCHANGED <<blk, planVars, stepVars, pc, outer, locVars, userVars>>

-----------------------------------------------------------------------------
Call ==
  \/ \E p \in Profiles : BufferSteps(p)
  \/ SetMachinePosition(0)
  \/ Synchronize \/ QuickStop

Continue ==
  \/ GetNextFreeBlock \/ PopulateBlock \/ FillSyncBlock \/ ReloadDelay \/ Publish
  \/ PlacePosition \/ SetStepperPosition
  \/ Synchronized
  \/ DropBlocks \/ AbortBlock \/ StopSynchronized \/ Resync
  \/ RecalcNext

Next == Call \/ Continue \/ Display \/ Interrupt \/ OtherInterrupt

(* The stepper timer fires at least every 33 ms, the temperature timer     *)
(* every millisecond, and the main program goes on with what it has begun. *)
(* Callers call when they like.                                            *)
Fairness == WF_vars(Continue) /\ WF_vars(Interrupt) /\ WF_vars(Tick /\ UNCHANGED <<blk, planVars, pc, outer, locVars, userVars>>)

Spec == Init /\ [][Next]_vars
FairSpec == Spec /\ Fairness

-----------------------------------------------------------------------------
CallerSteps == {"idle", "room", "fill", "delay", "publish", "place", "setpos", "sync",
                "drop", "abort", "drain", "resync"}
Blocks == [id : Nat, sync : BOOLEAN, max : Nat, nominal : Nat, dist : Nat, nlen : BOOLEAN, pos : Int]
Traps  == [initial : Nat, final : Nat] \cup {NoTrap}

(* The types of the variables. *)
TypeOK ==
  /\ {head, tail, nonbusy, planned} \subseteq Slots
  /\ blk \in [Slots -> Blocks] /\ recalc \in [Slots -> BOOLEAN]
  /\ entry \in [Slots -> Nat] /\ trap \in [Slots -> Traps]
  /\ delay \in Nat /\ cleaning \in Nat
  /\ {abort, wait, stopHome, lost} \subseteq BOOLEAN
  /\ isr \in {"out", "block", "fetch"}
  /\ current \in Slots \cup {NoSlot} /\ done \in Nat /\ count \in Int
  /\ exit \in Nat \cup {Unknown}
  /\ pc \in CallerSteps \cup PlanningSteps /\ outer \in Seq(WaitSteps)
  /\ bi \in Slots /\ pl \in Slots /\ hd \in Slots /\ ref \in Slots \cup {NoSlot}
  /\ newv \in Nat
  /\ cmd \in Blocks /\ position \in Int /\ made \in Nat /\ nominal \in Nat

(* "Always consider tail busy / read-only" (planner.h:303): the block the  *)
(* stepper executes is the one at the tail, and it is still queued, unless *)
(* a quick stop has emptied the queue under it and is about to abort it.   *)
BusyIsTail ==
  current # NoSlot =>
    /\ current = tail
    /\ has_blocks_queued \/ (cleaning > 0 /\ (abort \/ pc = "abort"))

(* "that WARRANTIES the Stepper ISR is not and will not use the block      *)
(* while we modify it" (planner.cpp:777): nothing the stepper reads of a   *)
(* block changes from the moment it takes the block until it lets it go,   *)
(* wherever the interrupt falls inside recalculate() and the callers.      *)
BusyUntouched ==
  [][ current # NoSlot /\ current' = current =>
        /\ blk'[current] = blk[current]
        /\ entry'[current] = entry[current]
        /\ trap'[current] = trap[current] ]_vars

(* "No trapezoid calculated? Don't execute yet." (planner.cpp:748): the    *)
(* stepper never runs a move on the trapezoid of its slot's last block.    *)
DeliveredPlanned == current # NoSlot => trap[current] # NoTrap

(* The trapezoid a block is executed with can be driven: its length is     *)
(* enough to get from the entry speed to the exit speed, in both           *)
(* directions, unless the next block is entered at a speed the machine may *)
(* start from at once, and the entry respects the junction's limit.        *)
Feasible ==
  current # NoSlot =>
    LET t == trap[current]
        b == blk[current]
    IN  /\ t.initial <= t.final + b.dist
        /\ t.final <= t.initial + b.dist \/ t.final <= SafeSpeed
        /\ t.initial <= b.max

(* A block begins at the speed the one before it ended at ("Max entry      *)
(* speed of this block equals the max exit speed of the previous block",   *)
(* planner.cpp:2622); a difference below the safe speed, "from which the   *)
(* machine may halt to stop immediately" (:2532), does not count.          *)
JunctionContinuous ==
  [][ current = NoSlot /\ current' # NoSlot /\ exit # Unknown =>
        LET v == trap[current'].initial
        IN  v = exit \/ (v <= SafeSpeed /\ exit <= SafeSpeed) ]_vars

(* "this block can never be less than block_buffer_tail" (planner.cpp:932):*)
(* the planned index stays between the tail and the head, and so does the  *)
(* first non-busy one.                                                     *)
IndicesInOrder == Ahead(tail, planned) <= movesplanned /\ Ahead(tail, nonbusy) <= movesplanned

(* Once the queue has been dropped the motors make no step of a block that *)
(* was in it, although the stepper still holds the block.                  *)
StepsOnlyQueued == [][ done' = done + 1 => has_blocks_queued ]_done

(* With the queue drained the planner and the motors agree on where they   *)
(* are, whatever was dropped, aborted, or set through the queue, once the  *)
(* position has been set again.                                            *)
PositionsAgree ==
  pc = "idle" /\ ~has_blocks_queued /\ current = NoSlot /\ ~lost => count = position

(* Every wait ends, those that stops have cut into as well, unless stops   *)
(* never cease: what was queued is executed or thrown away.                *)
Waiting == pc \in WaitSteps \/ outer # <<>>
SynchronizeReturns == <>[][~QuickStop]_vars => (Waiting ~> ~Waiting)

(* The ring with its two readers and writers is the queue of BlockQueue:   *)
(* blocks leave in the order they came, once each, none is taken that was  *)
(* thrown away, and no slot the stepper holds is given out again.          *)
BlockAt(k)  == blk[(tail + k - 1) % Size].id
Unpublished == pc \in {"delay", "publish"}
Queue == INSTANCE BlockQueue WITH
  Capacity <- Size - 1,
  pend     <- [k \in 1 .. movesplanned |-> BlockAt(k)],
  busy     <- IF current = NoSlot THEN 0 ELSE blk[current].id,
  added    <- IF Unpublished THEN made - 1 ELSE made
ImplementsBlockQueue == Queue!QSpec

=============================================================================
