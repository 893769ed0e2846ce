----------------------------- MODULE MCVehicleUse -----------------------------
(* The instance of VehicleControl in which a behaviour is one of two uses  *)
(* of the car: driving, or synchronising with verdicts, STOP and RESET.    *)
(* The messages of both at once would only multiply the states.            *)
EXTENDS MCVehicleControl

VARIABLE use

Uses == [driving |-> DriveInputs, synchronising |-> SyncInputs]

AllInputs == DriveInputs \cup SyncInputs

UseInit == Init /\ use \in DOMAIN Uses

UseNext == /\ \/ Task \/ NotifyTcpConnected \/ NotifyTcpDisconnected
              \/ NotifyCommTimeout \/ (\E m \in Uses[use] : SubmitMessage(m))
           /\ UNCHANGED use

UseSpec == UseInit /\ [][UseNext]_<<vars, use>>
===============================================================================
