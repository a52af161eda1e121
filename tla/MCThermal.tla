----------------------------- MODULE MCThermal -----------------------------
(* Values for the constants of Thermal. *)
EXTENDS Thermal

(* It takes longer when it is hotter: 30.19 * exp(0.0057 * t) seconds. *)
Intervals == [t \in Temps |-> IF t < 2 THEN 3 ELSE 4]

SomeTargets == {0, 2, 8}
=============================================================================
