------------------------------- MODULE MotorGate -------------------------------
(***************************************************************************)
(* What the firmware promises about its motor: the order in which a car    *)
(* may come to drive.  A session must be synchronised, then the remote     *)
(* mode accepted, and only then does an input drive; a lost session goes   *)
(* back to the start; a lock stands until a reset.                         *)
(***************************************************************************)
VARIABLE phase

Phases == {"locked", "unsynced", "idle", "armed", "driving"}

Init == phase = "unsynced"

Move(from, to) == phase \in from /\ phase' = to

Synchronise == Move({"unsynced"}, "idle")
Arm         == Move({"idle"}, "armed")
Disarm      == Move({"armed"}, "idle")
Drive       == Move({"armed"}, "driving")
Rest        == Move({"driving"}, "armed")
LoseSession == Move({"idle", "armed", "driving"}, "unsynced")
Lock        == Move(Phases, "locked")
Reset       == Move({"locked"}, "idle") \/ Move({"locked"}, "unsynced")

Next == \/ Synchronise \/ Arm \/ Disarm \/ Drive \/ Rest
        \/ LoseSession \/ Lock \/ Reset

Spec == Init /\ [][Next]_phase
=============================================================================
