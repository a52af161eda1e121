---------------------------- MODULE MCGCodeQueue ----------------------------
(* Values for the constants of GCodeQueue. *)
EXTENDS GCodeQueue

FiveLines  == <<"plain", "plain", "plain", "plain", "plain">>
ThreeLines == <<"plain", "plain", "plain">>
AllKinds   == <<"M410", "M290", "plain">>
=============================================================================
