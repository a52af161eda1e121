----------------------------- MODULE BlockQueue -----------------------------
(***************************************************************************)
(* What the planner promises the callers that buffer moves: a bounded      *)
(* first-in first-out queue of blocks.  The stepper holds the first one    *)
(* while it executes it; a stop throws all of them away at once, and       *)
(* nothing is added until the stepper has let go of the block it held.     *)
(***************************************************************************)
EXTENDS Naturals, Sequences

CONSTANT Capacity

VARIABLES
  pend,   \* the blocks queued, the one being executed among them
  busy,   \* the block the stepper holds, 0 if it holds none
  added   \* how many blocks were ever added: the number of the last one

qvars == <<pend, busy, added>>

QInit == pend = <<>> /\ busy = 0 /\ added = 0

(* Blocks are numbered in the order the callers add them. *)
Add ==
  /\ Len(pend) < Capacity
  /\ busy = 0 \/ pend # <<>>
  /\ added' = added + 1
  /\ pend' = Append(pend, added + 1)
  /\ busy' = busy

Take ==
  /\ busy = 0 /\ pend # <<>>
  /\ busy' = Head(pend)
  /\ UNCHANGED <<pend, added>>

(* The first block is done: a move that was held, or a sync block. *)
Leave ==
  /\ pend # <<>> /\ busy \in {0, Head(pend)}
  /\ pend' = Tail(pend)
  /\ busy' = 0
  /\ added' = added

Stop ==
  /\ pend' = <<>>
  /\ UNCHANGED <<busy, added>>

LetGo ==
  /\ pend = <<>> /\ busy # 0
  /\ busy' = 0
  /\ UNCHANGED <<pend, added>>

QNext == Add \/ Take \/ Leave \/ Stop \/ LetGo

QSpec == QInit /\ [][QNext]_qvars
=============================================================================
