--------------------------- MODULE MCVehicleControl ---------------------------
(***************************************************************************)
(* Instances of VehicleControl for TLC: the messages a host sends in three *)
(* kinds of use.  S is the session of the connection, Old one it retired.  *)
(***************************************************************************)
EXTENDS VehicleControl

CONSTANTS S, Old

Ack(verdict, session) ==
  [Blank EXCEPT !.type = "HELLO_ACK", !.verdict = verdict,
                !.session = session, !.start = 1]
Command(type, n) == [Blank EXCEPT !.type = type, !.session = S, !.seq = n]
SetMode(n) == [Command("SET_MODE", n) EXCEPT !.mode = "REMOTE_DIRECT"]
Wait(n, reason, t) ==
  [Command("WAIT", n) EXCEPT !.reason = reason, !.target = t]
To(type, n, t) == [Command(type, n) EXCEPT !.target = t]
Drive(n, pwm, steer) ==
  [Blank EXCEPT !.type = "DIRECT_CONTROL", !.session = S, !.control_seq = n,
                !.output = [pwm |-> pwm, steer |-> steer]]
Stale(m) == [m EXCEPT !.session = Old]
At(route, waypoint) == [route |-> route, waypoint |-> waypoint]

(* Driving in both modes: waypoint commands and WAITs with their reasons,  *)
(* a mode change, a stream with a later input and one of another session.  *)
DriveInputs ==
  {Ack("READY_ALLOWED", S), SetMode(3), To("WAYPOINT", 1, At(1, 1)),
   To("WAYPOINT", 4, At(2, 1)), To("GO", 2, At(1, 1)),
   Wait(3, "REROUTING", At(1, 1)), Wait(3, "WAYPOINT_REACHED", At(1, 2)),
   Drive(1, 1, 0), Drive(2, 0, 1), Stale(Drive(3, 1, 0))}

(* What the liveness properties need: a car that drives, a STOP, and a     *)
(* WAIT that a STOP of the same pass drops.                                *)
LiveInputs ==
  {Ack("READY_ALLOWED", S), SetMode(1), Drive(1, 1, 0),
   Stale(Command("STOP", 1)), Wait(2, "OPERATOR_REQUEST", At(1, 1))}

(* Synchronisation: every verdict, locks, resets under HOLD.               *)
SyncInputs ==
  {Ack("READY_ALLOWED", S), Ack("HOLD", S), Ack("REJECTED", NoSession),
   Command("STOP", 1), Command("RESET", 2), SetMode(1), Drive(1, 1, 1)}
===============================================================================
