---------------------------- MODULE CommandQueue ----------------------------
(***************************************************************************)
(* What the G-code queue promises its sources and the handlers: a bounded  *)
(* first-in first-out queue of commands.  The first one stays in place     *)
(* while its handler runs, whatever is added meanwhile, and the queue is   *)
(* emptied only between two handlers.                                      *)
(***************************************************************************)
EXTENDS Naturals, Sequences

CONSTANTS Capacity, Commands

VARIABLES
  queue,   \* the commands not yet executed to the end, oldest first
  busy     \* whether the first one is being executed

qvars == <<queue, busy>>

QInit == queue = <<>> /\ busy = FALSE

Accept ==
  /\ Len(queue) < Capacity
  /\ \E c \in Commands : queue' = Append(queue, c)
  /\ busy' = busy

Start ==
  /\ ~busy /\ queue # <<>>
  /\ busy' = TRUE /\ queue' = queue

Finish ==
  /\ busy
  /\ busy' = FALSE /\ queue' = Tail(queue)

Clear ==
  /\ ~busy
  /\ queue' = <<>> /\ busy' = busy

QNext == Accept \/ Start \/ Finish \/ Clear

QSpec == QInit /\ [][QNext]_qvars
=============================================================================
