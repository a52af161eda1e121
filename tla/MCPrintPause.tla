---------------------------- MODULE MCPrintPause ----------------------------
(* Values for the constants of PrintPause: when the user presses keys. *)
EXTENDS PrintPause

(* No key while the head is being parked or homed, and none for a print    *)
(* that has read its last line.                                            *)
Careful ==
  ({"start"} \X {"idle", "stopping"}) \cup ({"pause"} \X {"printing"})
    \cup ({"resume"} \X {"waiting", "resuming"})
    \cup ({"stop"} \X {"printing", "waiting", "resuming"})

(* Also stop while the head is being parked. *)
StopsParking == Careful \cup {<<"stop", "parking">>}
=============================================================================
