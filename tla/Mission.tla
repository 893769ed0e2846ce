-------------------------------- MODULE Mission --------------------------------
(***************************************************************************)
(* The mission of one car in waypoint driving: MissionOrchestrator         *)
(* (integrated/host/comm/orchestrator.py) as PipelineRunner                *)
(* (integrated/host/pipeline/runner.py) calls it, over the one command     *)
(* that ReliableSender lets a car have outstanding, with the car's side of *)
(* WAYPOINT, GO and WAIT.                                                  *)
(*                                                                         *)
(* Three host threads work on the mission without a lock.  The camera      *)
(* thread judges arrivals, holds and resumes; the receiving thread follows *)
(* the car's STATUS and replans; the tick thread reports a lost link.  A   *)
(* step of the orchestrator reads the mission, then sends, then writes the *)
(* mission, and the others may come in between.  A command that may not    *)
(* take the place of the outstanding one raises a RuntimeError, which      *)
(* nothing catches: the thread ends.                                       *)
(*                                                                         *)
(* Sequence numbers, resends and sessions are CommandLink's subject.  Here *)
(* a message on its way only knows whether it belongs to the outstanding   *)
(* command (open).  Another car is present through its effect on this one: *)
(* the verdict of the collision check.                                     *)
(***************************************************************************)
EXTENDS Integers, Sequences

CONSTANTS
  Last,         \* waypoints of a route; the last one is FINAL
  MaxRoute,     \* bound: routes ever planned
  MaxHolds,     \* bound: collision holds
  MaxFailures,  \* bound: failures of the link
  ReplyLength   \* bound: STATUS messages under way

ASSUME MissionAssumption ==
  /\ {Last, MaxRoute, ReplyLength} \subseteq Nat \ {0}
  /\ {MaxHolds, MaxFailures} \subseteq Nat

Threads == {"camera", "receiver"}
MissionStates == {"NONE", "IDLE", "DRIVING", "SWITCHING", "LOADING", "RESUMING",
                  "HELD", "PARKED_CHECK", "DONE"}
Target == [route : 0..MaxRoute, waypoint : 0..Last]
NoTarget == [route |-> 0, waypoint |-> 0]
Types == {"NONE", "WAYPOINT", "GO", "WAIT"}
Reasons == {"NONE", "AWAITING_START", "COLLISION_RISK", "WAYPOINT_REACHED",
            "FINAL_WAYPOINT_REACHED", "REMOTE_WAIT"}
Command == [type : Types, target : Target, reason : Reasons, open : BOOLEAN]
Results == {"NONE", "ACCEPTED", "ALREADY_STOPPED", "INVALID_STATE", "STALE_ROUTE",
            "NEW_ROUTE_REQUIRED", "TARGET_MISMATCH", "TARGET_NOT_LOADED"}
CarStates == {"READY", "WAITING", "MOVING"}
Report == [state : CarStates, target : Target, result : Results, open : BOOLEAN]

(* What a thread has under way: a command to send, a state to write, and   *)
(* where it goes on from there.                                            *)
Places == {"start", "judge", "collide", "resume", "receive", "recovered",
           "consume", "rejected", "status", "send", "write", "dead"}
Call == [type : Types, reason : Reasons, next : MissionStates, then : Places]
NoCall == [type |-> "NONE", reason |-> "NONE", next |-> "NONE", then |-> "dead"]
NoReport == [state |-> "READY", target |-> NoTarget, result |-> "NONE",
             open |-> FALSE]

VARIABLES
  mission,          \* Mission: state, route_id, index
  route_counter,
  pending,          \* the outstanding command of ReliableSender: its type
  collision_held,   \* car_id \in _collision_held
  comm_failed,      \* VehicleSession.comm_failed
  comm_lost,        \* car_id \in _comm_lost
  at, call,         \* where the camera and receiving threads are
  report,           \* the message the receiving thread works on
  at_risk,          \* this frame's verdict
  ticker,           \* the tick thread
  to_car, from_car,
  car,
  place,            \* where the car stands: which waypoint, and how exactly
  holds, failures   \* counters for the bounds

missionVars == <<mission, route_counter>>
linkVars == <<pending, to_car, from_car>>
threadVars == <<at, call>>
runnerVars == <<collision_held, at_risk>>
failVars == <<comm_failed, comm_lost, ticker, failures>>
carVars == <<car, place>>
vars == <<missionVars, linkVars, threadVars, report, runnerVars, failVars, carVars,
          holds>>

Init ==
  /\ mission = [state |-> "NONE", route |-> 0, index |-> 0]
  /\ route_counter = 0
  /\ pending = "NONE" /\ to_car = <<>> /\ from_car = <<>>
  /\ collision_held = FALSE /\ at_risk = FALSE /\ holds = 0
  /\ comm_failed = FALSE /\ comm_lost = FALSE /\ ticker = "idle"
  /\ failures = 0
  /\ at = [camera |-> "start", receiver |-> "receive"]
  /\ call = [t \in Threads |-> NoCall]
  /\ report = NoReport
  /\ car = [state |-> "READY", target |-> NoTarget, reason |-> "NONE",
            resumable |-> FALSE]
  /\ place = [target |-> NoTarget, exact |-> FALSE]
-----------------------------------------------------------------------------
(* The mission and the outstanding command.                                *)

Active == mission.state \notin {"NONE", "IDLE", "DONE"}
CurrentIndex == mission.index < Last

(* _make, build_waypoints: ids from 1, and only the slot itself is FINAL;  *)
(* phases and geometry are left out.                                       *)
Waypoint(n) == [id |-> n, final |-> n = Last]
Route == [n \in 1..Last |-> Waypoint(n)]

Current == [route |-> mission.route,
            waypoint |-> IF CurrentIndex THEN Route[mission.index + 1].id ELSE 0]

Priority(type) == IF type = "WAIT" THEN 1 ELSE 0

(* Mutant: the newest command takes the place of any other.                *)
MayReplaceAny(type) == type \in Types

MayReplace(type) == pending = "NONE" \/ Priority(type) > Priority(pending)

(* A message of a command that is outstanding no more is not open.         *)
Closed(messages) ==
  [i \in DOMAIN messages |-> [messages[i] EXCEPT !.open = FALSE]]

(* Thread t goes on to p.                                                  *)
GoTo(t, p) ==
  /\ at' = [at EXCEPT ![t] = p]
  /\ call' = [call EXCEPT ![t] = NoCall]

(* Thread t is to send a command, write the next state and go on at then.  *)
Begin(t, type, reason, next, then) ==
  /\ at' = [at EXCEPT ![t] = IF type = "NONE" THEN "write" ELSE "send"]
  /\ call' = [call EXCEPT ![t] = [type |-> type, reason |-> reason,
                                  next |-> next, then |-> then]]

(* make_waypoint, make_go, make_wait: the ids are those of the mission.    *)
Message(c) ==
  [type |-> c.type, target |-> Current, reason |-> c.reason, open |-> TRUE]

(* VehicleServer.send_*: the mission's ids are read when the message is    *)
(* built.  A refusal ends the thread, unless it is the start of a mission: *)
(* only _ensure_mission catches the error, and leaves the mission IDLE.    *)
SendCall(t) ==
  /\ at[t] = "send"
  /\ \/ /\ MayReplace(call[t].type)
        /\ pending' = call[t].type
        /\ to_car' = Append(Closed(to_car), Message(call[t]))
        /\ from_car' = Closed(from_car)
        /\ report' = [report EXCEPT !.open = FALSE]
        /\ at' = [at EXCEPT ![t] = "write"]
        /\ UNCHANGED call
     \/ /\ ~MayReplace(call[t].type)
        /\ GoTo(t, IF t = "camera" /\ call[t].type = "WAYPOINT"
                   THEN "judge" ELSE "dead")
        /\ UNCHANGED <<linkVars, report>>
  /\ UNCHANGED <<missionVars, runnerVars, failVars, carVars, holds>>

(* The state is written whatever became of the mission meanwhile.          *)
WriteState(t) ==
  /\ at[t] = "write"
  /\ mission' = [mission EXCEPT !.state = call[t].next]
  /\ GoTo(t, call[t].then)
  /\ UNCHANGED <<route_counter, linkVars, report, runnerVars, failVars, carVars,
                 holds>>

ClearOutstanding ==
  /\ pending' = "NONE"
  /\ to_car' = Closed(to_car)
  /\ from_car' = Closed(from_car)
  /\ report' = [report EXCEPT !.open = FALSE]
-----------------------------------------------------------------------------
(* The camera thread: on_frame.                                            *)

(* next_route_id, start_mission                                            *)
NextRoute == route_counter' = route_counter + 1
NewMission(state) ==
  /\ NextRoute
  /\ mission' = [state |-> state, route |-> route_counter', index |-> 0]

(* _ensure_mission binds the car, plans its route and starts the mission.  *)
StartMission ==
  /\ at["camera"] = "start"
  /\ NewMission("IDLE")
  /\ Begin("camera", "WAYPOINT", "NONE", "LOADING", "judge")
  /\ UNCHANGED <<linkVars, report, runnerVars, failVars, carVars, holds>>

(* _reached, with the tolerance widened by the camera's lead.              *)
Reached == CurrentIndex /\ place.target = Current

(* Mutant: a car that still drives may be parked.                          *)
ParkedDriving == Reached /\ place.exact

(* The check of a parked car: standing (_push_to_vehicle passes no pose of *)
(* a car in PARKED_CHECK that still moves), and without the lead.          *)
Stationary == car.state # "MOVING"
Parked == Reached /\ place.exact /\ Stationary

IsFinal == Route[mission.index + 1].final

(* update_pose                                                             *)
Judge ==
  /\ at["camera"] = "judge"
  /\ \/ /\ mission.state = "DRIVING" /\ Reached /\ IsFinal
        /\ Begin("camera", "WAIT", "FINAL_WAYPOINT_REACHED", "PARKED_CHECK",
                 "collide")
     \/ /\ mission.state = "DRIVING" /\ Reached /\ ~IsFinal
        /\ Begin("camera", "WAIT", "WAYPOINT_REACHED", "SWITCHING", "collide")
     \/ /\ mission.state = "PARKED_CHECK" /\ Parked
        /\ Begin("camera", "NONE", "NONE", "DONE", "collide")
     \/ /\ ~(mission.state = "DRIVING" /\ Reached)
        /\ ~(mission.state = "PARKED_CHECK" /\ Parked)
        /\ GoTo("camera", "collide")
  /\ UNCHANGED <<missionVars, linkVars, report, runnerVars, failVars, carVars,
                 holds>>

(* MissionOrchestrator.hold: nothing is sent for a mission that never      *)
(* started or is over.                                                     *)
Hold ==
  IF Active THEN Begin("camera", "WAIT", "COLLISION_RISK", "HELD", "resume")
  ELSE GoTo("camera", "resume")

(* _check_collisions.  A car that stands is never the one told to stop; a  *)
(* car at risk is spared when the link is lost or the other one stands.    *)
Collide ==
  /\ at["camera"] = "collide"
  /\ \/ /\ at_risk' = FALSE
        /\ GoTo("camera", "resume")
        /\ UNCHANGED <<collision_held, holds>>
     \/ /\ holds < MaxHolds
        /\ CurrentIndex /\ mission.state \notin {"HELD", "DONE"}
        /\ at_risk' = TRUE
        /\ \/ /\ GoTo("camera", "resume")
              /\ UNCHANGED <<collision_held, holds>>
           \/ /\ ~comm_lost
              /\ holds' = holds + 1
              /\ collision_held' = TRUE
              /\ Hold
  /\ UNCHANGED <<missionVars, linkVars, report, failVars, carVars>>

(* MissionOrchestrator.resume, for a mission that is still held.           *)
ResumeHeld ==
  \/ /\ mission.state = "HELD" /\ CurrentIndex
     /\ Begin("camera", "GO", "NONE", "RESUMING", "judge")
  \/ /\ ~(mission.state = "HELD" /\ CurrentIndex)
     /\ GoTo("camera", "judge")

(* _resume_cleared                                                         *)
Resume ==
  /\ at["camera"] = "resume"
  /\ \/ /\ collision_held /\ ~at_risk /\ ~comm_lost
        /\ collision_held' = FALSE
        /\ ResumeHeld
     \/ /\ ~(collision_held /\ ~at_risk /\ ~comm_lost)
        /\ GoTo("camera", "judge")
        /\ UNCHANGED collision_held
  /\ UNCHANGED <<missionVars, linkVars, report, at_risk, failVars, carVars, holds>>
-----------------------------------------------------------------------------
(* The receiving thread: _dispatch.                                        *)

Receive ==
  /\ at["receiver"] = "receive" /\ from_car # <<>>
  /\ report' = Head(from_car)
  /\ from_car' = Tail(from_car)
  /\ comm_failed' = FALSE
  /\ GoTo("receiver", IF comm_failed THEN "recovered" ELSE "consume")
  /\ UNCHANGED <<missionVars, pending, to_car, runnerVars, comm_lost, ticker,
                 failures, carVars, holds>>

(* MissionOrchestrator.regenerate: the outstanding command is forgotten    *)
(* and the first waypoint of the new route is loaded.                      *)
Regenerate(state, then) ==
  /\ NewMission(state)
  /\ ClearOutstanding
  /\ Begin("receiver", "WAYPOINT", "NONE", "LOADING", then)

(* _on_replan_required: a new route from where the car is.  At the bound   *)
(* there is none.                                                          *)
Replan(state, then) ==
  IF mission.state = "NONE" \/ route_counter = MaxRoute
  THEN /\ mission' = [mission EXCEPT !.state = state]
       /\ GoTo("receiver", then)
       /\ UNCHANGED <<route_counter, linkVars, report>>
  ELSE Regenerate(state, then)

(* _on_comm_recovered                                                      *)
Recovered ==
  /\ at["receiver"] = "recovered"
  /\ comm_lost' = FALSE
  /\ \/ comm_lost /\ Replan(mission.state, "consume")
     \/ /\ ~comm_lost
        /\ GoTo("receiver", "consume")
        /\ UNCHANGED <<missionVars, linkVars, report>>
  /\ UNCHANGED <<runnerVars, comm_failed, ticker, failures, carVars, holds>>

Negative == Results \ {"NONE", "ACCEPTED", "ALREADY_STOPPED"}

(* Mutant: an answer leaves the command outstanding.                       *)
AfterAnswerKept == pending

AfterAnswer == "NONE"

(* _consume_command_result: only an answer ends the outstanding command.   *)
Consume ==
  /\ at["receiver"] = "consume"
  /\ \/ /\ report.open /\ report.result # "NONE"
        /\ pending' = AfterAnswer
        /\ report' = [report EXCEPT !.open = FALSE]
        /\ GoTo("receiver",
                IF report.result \in Negative THEN "rejected" ELSE "status")
     \/ /\ ~(report.open /\ report.result # "NONE")
        /\ GoTo("receiver", "status")
        /\ UNCHANGED <<pending, report>>
  /\ UNCHANGED <<missionVars, to_car, from_car, runnerVars, failVars, carVars,
                 holds>>

(* on_command_rejected: the mission is held, and planned anew when the car *)
(* and the host disagree about the route.                                  *)
Rejected ==
  /\ at["receiver"] = "rejected"
  /\ \/ /\ report.result = "INVALID_STATE"
        /\ mission' = [mission EXCEPT !.state = "HELD"]
        /\ GoTo("receiver", "status")
        /\ UNCHANGED <<route_counter, linkVars, report>>
     \/ /\ report.result # "INVALID_STATE"
        /\ Replan("HELD", "status")
  /\ UNCHANGED <<runnerVars, failVars, carVars, holds>>

(* on_vehicle_status                                                       *)
(* Mutants: the car need not stand yet; a waypoint is left out.            *)
SwitchedAny == mission.state = "SWITCHING"
NextIndexSkips == mission.index + 2

Switched == mission.state = "SWITCHING" /\ report.state = "WAITING"

NextIndex == mission.index + 1

Loaded ==
  /\ mission.state = "LOADING" /\ report.state = "WAITING"
  /\ report.target = Current /\ report.target # NoTarget

Started == mission.state \in {"RESUMING", "LOADING"} /\ report.state = "MOVING"

VehicleStatus ==
  /\ at["receiver"] = "status"
  /\ \/ /\ Switched
        /\ mission' = [mission EXCEPT
                         !.index = NextIndex,
                         !.state = IF NextIndex < Last THEN @ ELSE "DONE"]
        /\ IF NextIndex < Last
           THEN Begin("receiver", "WAYPOINT", "NONE", "LOADING", "receive")
           ELSE GoTo("receiver", "receive")
     \/ /\ Loaded
        /\ Begin("receiver", "GO", "NONE", "RESUMING", "receive")
        /\ UNCHANGED mission
     \/ /\ Started
        /\ Begin("receiver", "NONE", "NONE", "DRIVING", "receive")
        /\ UNCHANGED mission
     \/ /\ ~Switched /\ ~Loaded /\ ~Started
        /\ GoTo("receiver", "receive")
        /\ UNCHANGED mission
  /\ UNCHANGED <<route_counter, linkVars, report, runnerVars, failVars, carVars,
                 holds>>
-----------------------------------------------------------------------------
(* The tick thread: silence, or a command without an answer.               *)

CommFail ==
  /\ ticker = "idle" /\ ~comm_failed /\ failures < MaxFailures
  /\ failures' = failures + 1
  /\ comm_failed' = TRUE
  /\ ClearOutstanding
  /\ ticker' = "tell"
  /\ UNCHANGED <<missionVars, threadVars, runnerVars, comm_lost, carVars, holds>>

(* _on_comm_fail, and mark_link_lost: a mission under way is held, nothing *)
(* is sent.                                                                *)
TellFailure ==
  /\ ticker = "tell"
  /\ ticker' = IF Active THEN "mark" ELSE "idle"
  /\ comm_lost' = TRUE
  /\ UNCHANGED <<missionVars, linkVars, threadVars, report, runnerVars,
                 comm_failed, failures, carVars, holds>>

MarkLinkLost ==
  /\ ticker = "mark"
  /\ ticker' = "idle"
  /\ mission' = [mission EXCEPT !.state = "HELD"]
  /\ UNCHANGED <<route_counter, linkVars, threadVars, report, runnerVars,
                 comm_failed, comm_lost, failures, carVars, holds>>
-----------------------------------------------------------------------------
(* The car: the waypoint, go and wait handlers of vehicle_control.c.       *)

RouteFailure(t) ==
  IF car.target = NoTarget THEN "NONE"
  ELSE IF t.route < car.target.route THEN "STALE_ROUTE"
  ELSE IF /\ car.reason = "FINAL_WAYPOINT_REACHED"
          /\ t.route = car.target.route
       THEN "NEW_ROUTE_REQUIRED"
  ELSE IF /\ car.reason = "WAYPOINT_REACHED"
          /\ t.route # car.target.route \/ t.waypoint <= car.target.waypoint
       THEN "TARGET_MISMATCH"
  ELSE "NONE"

WaypointResult(m) ==
  IF car.state \notin {"READY", "WAITING"} THEN "INVALID_STATE"
  ELSE IF RouteFailure(m.target) # "NONE" THEN RouteFailure(m.target)
  ELSE "ACCEPTED"

AfterWaypoint(m) ==
  IF WaypointResult(m) = "ACCEPTED"
  THEN [state |-> "WAITING", target |-> m.target, reason |-> "AWAITING_START",
        resumable |-> TRUE]
  ELSE car

GoResult(m) ==
  IF car.state # "WAITING" THEN "INVALID_STATE"
  ELSE IF car.target = NoTarget THEN "TARGET_NOT_LOADED"
  ELSE IF ~car.resumable THEN "INVALID_STATE"
  ELSE IF m.target # car.target THEN "TARGET_MISMATCH"
  ELSE "ACCEPTED"

AfterGo(m) ==
  IF GoResult(m) = "ACCEPTED"
  THEN [car EXCEPT !.state = "MOVING", !.reason = "NONE"] ELSE car

Completing == {"WAYPOINT_REACHED", "FINAL_WAYPOINT_REACHED"}
OtherTarget(m) ==
  m.reason \in Completing /\ car.target \notin {NoTarget, m.target}

WaitResult(m) ==
  IF car.state = "READY" THEN "ALREADY_STOPPED"
  ELSE IF OtherTarget(m) THEN "TARGET_MISMATCH"
  ELSE "ACCEPTED"

AfterWait(m) ==
  IF car.state = "READY" THEN car
  ELSE [car EXCEPT !.state = "WAITING",
          !.reason = IF OtherTarget(m) THEN "REMOTE_WAIT" ELSE m.reason,
          !.resumable = @ /\ m.reason \notin Completing]

(* One command, and the STATUS that answers it.                            *)
CarHandles ==
  LET m == Head(to_car)
      result == CASE m.type = "WAYPOINT" -> WaypointResult(m)
                  [] m.type = "GO" -> GoResult(m)
                  [] OTHER -> WaitResult(m)
  IN /\ to_car # <<>> /\ Len(from_car) < ReplyLength
     /\ to_car' = Tail(to_car)
     /\ car' = CASE m.type = "WAYPOINT" -> AfterWaypoint(m)
                 [] m.type = "GO" -> AfterGo(m)
                 [] OTHER -> AfterWait(m)
     /\ from_car' = Append(from_car, [state |-> car'.state, target |-> car'.target,
                                      result |-> result, open |-> m.open])
     /\ UNCHANGED <<missionVars, pending, threadVars, report, runnerVars, failVars,
                    place, holds>>

(* The periodic STATUS: only the newest waits to be sent.                  *)
CarReports ==
  /\ from_car = <<>>
  /\ from_car' = <<[state |-> car.state, target |-> car.target,
                    result |-> "NONE", open |-> FALSE]>>
  /\ UNCHANGED <<missionVars, pending, to_car, threadVars, report, runnerVars,
                 failVars, carVars, holds>>

(* A car that drives comes near its waypoint, and may come to it exactly.  *)
CarArrives ==
  /\ car.state = "MOVING" /\ place.target # car.target
  /\ \E exact \in BOOLEAN : place' = [target |-> car.target, exact |-> exact]
  /\ UNCHANGED <<missionVars, linkVars, threadVars, report, runnerVars, failVars,
                 car, holds>>

CarCloses ==
  /\ car.state = "MOVING" /\ place.target = car.target /\ ~place.exact
  /\ place' = [place EXCEPT !.exact = TRUE]
  /\ UNCHANGED <<missionVars, linkVars, threadVars, report, runnerVars, failVars,
                 car, holds>>
-----------------------------------------------------------------------------
CameraStep ==
  \/ StartMission \/ Judge \/ Collide \/ Resume
  \/ SendCall("camera") \/ WriteState("camera")
ReceiverStep ==
  \/ Receive \/ Recovered \/ Consume \/ Rejected \/ VehicleStatus
  \/ SendCall("receiver") \/ WriteState("receiver")

Next ==
  \/ CameraStep \/ ReceiverStep
  \/ CommFail \/ TellFailure \/ MarkLinkLost
  \/ CarHandles \/ CarReports \/ CarArrives \/ CarCloses

Spec == Init /\ [][Next]_vars

(* The three threads run, the car handles what arrives, reports every      *)
(* 200 ms and, driving, comes near its waypoint.                           *)
FairSpec ==
  /\ Spec
  /\ WF_vars(CameraStep) /\ WF_vars(ReceiverStep) /\ WF_vars(TellFailure) /\ WF_vars(MarkLinkLost)
  /\ WF_vars(CarHandles) /\ WF_vars(CarReports) /\ WF_vars(CarArrives)
-----------------------------------------------------------------------------
TypeOK ==
  /\ mission \in [state : MissionStates, route : 0..MaxRoute, index : 0..Last]
  /\ route_counter \in 0..MaxRoute
  /\ pending \in Types
  /\ {collision_held, at_risk, comm_failed, comm_lost} \subseteq BOOLEAN
  /\ at \in [Threads -> Places]
  /\ call \in [Threads -> Call]
  /\ report \in Report
  /\ ticker \in {"idle", "tell", "mark"}
  /\ to_car \in Seq(Command) /\ Len(to_car) <= 2 * (route_counter + failures)
  /\ from_car \in Seq(Report) /\ Len(from_car) <= ReplyLength
  /\ car \in [state : CarStates, target : Target, reason : Reasons,
              resumable : BOOLEAN]
  /\ place \in [target : Target, exact : BOOLEAN]
  /\ holds \in 0..MaxHolds /\ failures \in 0..MaxFailures

(* Without a failure of the link, a car that drives has the target the     *)
(* mission judges: update_pose compares its pose with that waypoint.       *)
MovingMatches == failures = 0 /\ car.state = "MOVING" => car.target = Current

(* Without a failure of the link, a mission is DONE only when its car      *)
(* stands, parked exactly, on the FINAL waypoint, and remains there: the   *)
(* slot is marked as occupied then (_on_parked).                           *)
ParkedStands ==
  failures = 0 /\ mission.state = "DONE" =>
    car.state = "WAITING" /\ place = [target |-> Current, exact |-> TRUE]

(* Where the host believes the car is going, and where it stands, is true. *)
MissionMatchesCar == MovingMatches /\ ParkedStands

(* Without a failure of the link, the car takes the waypoints of the       *)
(* mission's route one after the other, none skipped (on_vehicle_status).  *)
InOrder ==
  [][failures' = 0 /\ car'.target # car.target =>
       /\ car'.target.route = mission.route
       /\ car'.target.waypoint = car.target.waypoint + 1]_vars

(* A mission nothing disturbs is DONE in the end, or its car stands inside *)
(* the widened tolerance of the FINAL waypoint and not inside the exact    *)
(* one: then it stays in PARKED_CHECK.                                     *)
Undisturbed == holds = 0 /\ failures = 0
MissionEnds ==
  []Undisturbed =>
    <>(\/ mission.state = "DONE"
       \/ mission.state = "PARKED_CHECK" /\ ~place.exact)
================================================================================
