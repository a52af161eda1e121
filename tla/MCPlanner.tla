------------------------------ MODULE MCPlanner ------------------------------
(* Values for the constants of Planner. *)
EXTENDS Planner

(* One kind of move, which cannot reach its junction speed alone. *)
Plain == {[max |-> 1, nominal |-> 2, dist |-> 1]}

(* A move that needs others to reach its junction speed, and a slow one,   *)
(* which reaches its own alone and whose nominal speed limits both its     *)
(* junctions.                                                              *)
Mixed == {[max |-> 3, nominal |-> 3, dist |-> 2],
          [max |-> 3, nominal |-> 1, dist |-> 1]}

(* Also a fast one that reaches it alone, and one round a corner, entered  *)
(* from rest.                                                              *)
Cornered == Mixed \cup {[max |-> 3, nominal |-> 3, dist |-> 3],
                        [max |-> 0, nominal |-> 3, dist |-> 3]}
=============================================================================
