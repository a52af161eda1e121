----------------------------- MODULE MCPowerLoss -----------------------------
(* Values for the constants of PowerLoss. *)
EXTENDS PowerLoss

(* The first line only heats; all others move. *)
HeatFirst == 1 .. FileLines - 1
=============================================================================
