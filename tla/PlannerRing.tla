---------------------------- MODULE PlannerRing ----------------------------
(***************************************************************************)
(* The planner's block buffer (module/planner.h, module/planner.cpp): a    *)
(* ring written by the main program and read by the stepper interrupt.     *)
(* This module declares the state both sides share, and the helpers on     *)
(* ring indices; StepperISR and PlannerRecalc add the steps of each side,  *)
(* Planner composes them.                                                  *)
(*                                                                         *)
(* Speeds are kept squared, as the code keeps them, where the law          *)
(* v^2 = u^2 + 2*a*d is an addition: a block carries the "dist" = 2*a*d it *)
(* can add to or take from the squared speed over its length.  The two     *)
(* minimum speeds (MINIMUM_PLANNER_SPEED, MINIMAL_STEP_RATE) are 0.        *)
(***************************************************************************)
EXTENDS Integers, Sequences

CONSTANTS
  Size,        \* BLOCK_BUFFER_SIZE, a power of two in the code
  FirstDelay,  \* BLOCK_DELAY_FOR_1ST_MOVE: interrupts the first block waits
  CleanTicks,  \* ticks during which a stopped planner refuses moves
  StepEvents,  \* step_event_count of every move
  Profiles,    \* the moves a caller may ask for: [max, nominal, dist]
  SafeSpeed,   \* squared speed the machine may start from or halt to at once
  MaxBlocks,   \* bound: blocks made before the callers fall silent
  Preemptible, \* whether the interrupt may fire inside recalculate()
  SyncBlocks,  \* whether callers use G92 (position changes in the queue)
  Stops,       \* whether quick stops, and the display's stop flags, occur
  MaxNested,   \* bound: quick stops inside one another's waits
  Overlap,     \* whether stop_home may be up while a stop has cut into a wait for room
  Homing       \* whether endstops may hit during a move

ASSUME SizeAssumption    == Size \in Nat /\ Size > 2
ASSUME BoundAssumption   == /\ FirstDelay \in Nat /\ CleanTicks \in Nat \ {0}
                            /\ StepEvents \in Nat \ {0}
                            /\ SafeSpeed \in Nat /\ MaxBlocks \in Nat /\ MaxNested \in Nat
ASSUME ProfileAssumption ==
  /\ Profiles # {}
  /\ \A p \in Profiles : p.max \in Nat /\ p.nominal \in Nat /\ p.dist \in Nat
ASSUME SwitchAssumption  == {Preemptible, SyncBlocks, Stops, Overlap, Homing} \subseteq BOOLEAN

VARIABLES
  head, tail, nonbusy, planned,   \* the ring's indices
  blk,        \* what a slot's block asks for; fixed once it is published
  recalc,     \* BLOCK_BIT_RECALCULATE of each slot
  entry,      \* entry_speed_sqr of each slot
  trap,       \* initial and final rate of each slot's trapezoid
  delay,      \* delay_before_delivering
  cleaning,   \* cleaning_buffer_counter
  abort,      \* abort_current_block
  wait,       \* wait_quick_stop_step
  stopHome,   \* stop_home
  current,    \* current_block: the slot being executed
  done,       \* step_events_completed
  count,      \* count_position: where the motors are
  exit,       \* squared speed the last block ended at, Unknown after a discard
  lost,       \* history: steps of published moves were thrown away
  isr,        \* where the stepper interrupt is
  pc, bi, pl, ref, hd, newv,  \* where the main program is, and its locals
  outer,      \* the waits whose idle() quick stops run in, the innermost first
  cmd,        \* the block the main program is adding
  position,   \* planner.position: where the queue will leave the motors
  made,       \* blocks made so far
  nominal     \* previous_nominal_speed_sqr

idxVars  == <<head, tail, nonbusy, planned>>
planVars == <<recalc, entry, trap>>
gateVars == <<delay, cleaning, abort, wait, stopHome>>
stepVars == <<isr, current, done, count, exit, lost>>
locVars  == <<bi, pl, ref, hd, newv>>
userVars == <<cmd, position, made, nominal>>
vars == <<idxVars, blk, planVars, gateVars, stepVars, pc, outer, locVars, userVars>>

Slots   == 0 .. Size - 1
NoSlot  == -1
Unknown == -1

(* next_block_index, prev_block_index: BLOCK_MOD(n) is n & (Size - 1), which *)
(* on the neighbours of an index is a wrap at the ends.                      *)
NextIndexUnwrapped(i) == i + 1   \* variant: the mask forgotten
NextIndex(i) == IF i = Size - 1 THEN 0 ELSE i + 1
PrevIndex(i) == IF i = 0 THEN Size - 1 ELSE i - 1

(* BLOCK_MOD(j - i): how many slots j is ahead of i. *)
Ahead(i, j) == IF i <= j THEN j - i ELSE j - i + Size

movesplanned         == Ahead(tail, head)
nonbusy_movesplanned == Ahead(nonbusy, head)
moves_free           == Size - 1 - movesplanned
has_blocks_queued    == head # tail

(* Slots that hold a block: from the tail up to, not including, the head. *)
Queued == {i \in Slots : Ahead(tail, i) < movesplanned}

(* Where the main program waits, in a loop around idle(), and which waits  *)
(* are suspended because idle() has not returned.                          *)
WaitSteps == {"room", "setpos", "sync", "drain"}
Suspended == {outer[k] : k \in DOMAIN outer}

(* Where the main program is inside recalculate(). *)
PlanningSteps ==
  {"recalc", "revStart", "revLoop", "revCheck", "revWrite", "revStep", "revFollow",
   "fwdStart", "fwdLoop", "fwdKernel", "fwdCheck", "fwdWrite", "fwdMax", "fwdStep",
   "trapStart", "trapTrim", "trapLoop", "trapCheck", "trapWrite", "trapClear", "trapStep"}

NoTrap  == [initial |-> Unknown, final |-> Unknown]
NoBlock == [id |-> 0, sync |-> FALSE, max |-> 0, nominal |-> 0, dist |-> 0, nlen |-> FALSE, pos |-> 0]
=============================================================================
