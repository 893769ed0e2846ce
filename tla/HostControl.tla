------------------------------ MODULE HostControl ------------------------------
(***************************************************************************)
(* Driving a car from the host (control_mode "auto-host"): one car's       *)
(* HostController (integrated/host/host_control) under HybridControlMux    *)
(* (integrated/host/control/hybrid_control.py), which hands the car over   *)
(* between the operator's keys and the automatic driver.                   *)
(*                                                                         *)
(* Nothing here is under one lock.  The operator's window and the camera   *)
(* thread both change the mode; a scheduler thread and a thread for manual *)
(* driving tick the controller every 100 ms; the server's tick thread      *)
(* reports a lost link.  A tick reads the authority, computes, may write   *)
(* the mission or the authority, and then pushes its command; the server   *)
(* sends the last command pushed again and again, and the car applies each *)
(* command once, under its deadman.                                        *)
(*                                                                         *)
(* The module begins when the READY shell of the car is up (see            *)
(* _start_manual_shell) and follows one session; nothing in the pipeline   *)
(* clears a fault before the next one.                                     *)
(***************************************************************************)
EXTENDS Integers, FiniteSets

CONSTANTS
  Last,         \* waypoints of the mission
  Schedulers,   \* bound: ControlScheduler objects at a time, each a thread
  ManualLoops,  \* bound: threads of _manual_loop at a time
  MaxFailures,  \* bound: failures of the link
  Orderly       \* the operator and the camera change the mode one at a
                \* time, and a thread that was started has begun to run
                \* before either changes it again

ASSUME HostAssumption ==
  /\ Last \in Nat \ {0} /\ MaxFailures \in Nat /\ Orderly \in BOOLEAN
  /\ IsFiniteSet(Schedulers) /\ IsFiniteSet(ManualLoops)
  /\ Cardinality(Schedulers) > 1 /\ ManualLoops # {}
  /\ Schedulers \cap ManualLoops = {}
  /\ {"gui", "camera", "none"} \cap (Schedulers \cup ManualLoops) = {}

Loops == Schedulers \cup ManualLoops
Threads == {"gui", "camera"} \cup Loops
NoLoop == "none"

Authorities == {"DISARMED", "MANUAL", "AUTO_HOST", "FAULTED"}
Modes == {"MANUAL_WASD", "AUTO_PENDING", "AUTO_HOST"}
Values == {"zero", "manual", "auto"}     \* a command, by who drives with it
Outcomes == {"none", "stale", "arrived", "align"}
Places == {"off", "born", "idle", "act", "push", "assign", "pose", "check",
           "start", "started", "auto", "join manual", "zeroed", "disarm auto",
           "arm auto", "auto armed", "zero", "join scheduler", "disarm manual",
           "arm manual", "loop", "manual armed", "release", "hold", "dead"}
Thread == [at : Places, cmd : Values, outcome : Outcomes, hold : BOOLEAN]
Off == [at |-> "off", cmd |-> "zero", outcome |-> "none", hold |-> FALSE]

VARIABLES
  authority,      \* ControlAuthority._state
  mission,        \* HostWaypointMission: _status, _index
  pose,           \* what a tick would make of the latest pose
  mode,           \* HybridControlMux.mode
  manual,         \* HybridControlMux._manual
  manual_stop, manual_thread,
  scheduler,      \* AutoHostRunner.scheduler
  sched_stop,     \* ControlScheduler._stop of each
  thread,
  assigned,       \* the car has a slot
  key,            \* what the operator's keys say
  failing,        \* the tick thread is to push the zero of a failure
  failures,       \* counter for the bound
  stream,         \* VehicleSession.latest_control, new to the car or not
  motor           \* what the car does

muxVars == <<mode, manual, manual_stop, manual_thread, scheduler, sched_stop>>
hostVars == <<authority, mission>>
outsideVars == <<pose, assigned, key>>
failVars == <<failing, failures>>
carVars == <<stream, motor>>
vars == <<hostVars, muxVars, outsideVars, thread, failVars, carVars>>

Init ==
  /\ authority = "MANUAL"
  /\ mission = [status |-> "EMPTY", index |-> 0]
  /\ pose = "none"
  /\ mode = "MANUAL_WASD" /\ manual = "zero" /\ manual_stop = FALSE
  /\ manual_thread = CHOOSE l \in ManualLoops : TRUE
  /\ scheduler = CHOOSE s \in Schedulers : TRUE
  /\ sched_stop = [s \in Schedulers |-> s = scheduler]
  /\ thread = [t \in Threads |->
                 IF t \in {"gui", "camera", manual_thread}
                 THEN [Off EXCEPT !.at = "idle"] ELSE Off]
  /\ assigned = FALSE /\ key = "zero"
  /\ failing = FALSE /\ failures = 0
  /\ stream = [value |-> "zero", new |-> FALSE] /\ motor = "zero"
-----------------------------------------------------------------------------
Alive(l) == thread[l].at # "off"
GoTo(t, place) == thread' = [thread EXCEPT ![t].at = place]

(* VehicleServer.push_control: every push takes a new control_seq.         *)
Push(value) == stream' = [value |-> value, new |-> TRUE]

(* An AuthorityError: the window shows it, the camera thread ends of it.   *)
Raise(t) == GoTo(t, IF t = "camera" THEN "dead" ELSE "idle")

Serial == Orderly => \A l \in Loops : thread[l].at # "born"
Resting(t) == Orderly => thread[t].at \in {"idle", "dead"}
-----------------------------------------------------------------------------
(* A tick of the controller: HostController.tick, by a loop or by the      *)
(* thread that is handing over.                                            *)

Decision(value, outcome) == [cmd |-> value, outcome |-> outcome]

(* Mutant: a fault does not stop the producers.                            *)
HaltedIfDisarmed == authority = "DISARMED"

Halted == authority \in {"DISARMED", "FAULTED"}

(* Mutant: an old pose is as good as a new one.                            *)
StaleIsFresh == {Decision("auto", "none")}

Stale == {Decision("zero", "stale")}

(* PoseWaypointController.compute: drive, brake, arrive, or stand at the   *)
(* right place with the wrong heading.                                     *)
Computed == {Decision("auto", "none"), Decision("zero", "none"),
             Decision("zero", "arrived"), Decision("zero", "align")}

(* ManualControlProducer.compute: what the operator's input says, clamped. *)
ManualProduced(input) == {Decision(input, "none")}

(* current_target, and the check before it: nothing to follow.             *)
NoTarget == mission.status # "RUNNING"

(* AutoControlProducer.compute                                             *)
AutoProduced ==
  IF NoTarget \/ pose = "none" THEN {Decision("zero", "none")}
  ELSE IF pose = "bad" THEN Stale ELSE Computed

Decisions(input) ==
  IF Halted THEN {Decision("zero", "none")}
  ELSE IF authority = "MANUAL" THEN ManualProduced(input) ELSE AutoProduced

TickRead(t, input) ==
  \E d \in Decisions(input) :
    thread' = [thread EXCEPT ![t].cmd = d.cmd, ![t].outcome = d.outcome,
                 ![t].at = IF d.outcome = "none" THEN "push" ELSE "act"]

(* Mutant: the last waypoint is taken for one too late.                    *)
AfterArrivalLate ==
  IF mission.index = Last THEN [mission EXCEPT !.status = "DONE"]
  ELSE [mission EXCEPT !.index = @ + 1]

AfterArrival ==
  IF mission.index = Last - 1 THEN [mission EXCEPT !.status = "DONE"]
  ELSE [mission EXCEPT !.index = @ + 1]

(* ControlAuthority.fault: latched, from any state.                        *)
Fault == authority' = "FAULTED"

(* A pose that is too old latches a fault; an arrival moves the mission on.*)
TickAct(t) ==
  /\ thread[t].at = "act"
  /\ IF thread[t].outcome = "stale" THEN Fault ELSE UNCHANGED authority
  /\ mission' = IF thread[t].outcome = "stale" \/ mission.status # "RUNNING"
                THEN mission
                ELSE IF thread[t].outcome = "align"
                THEN [mission EXCEPT !.status = "REPLAN_REQUIRED"]
                ELSE AfterArrival
  /\ GoTo(t, "push")
  /\ UNCHANGED <<muxVars, outsideVars, failVars, carVars>>

TickPush(t) ==
  /\ thread[t].at = "push"
  /\ Push(thread[t].cmd)
  /\ thread' = [thread EXCEPT ![t] =
                  [Off EXCEPT !.at = IF t \in Loops THEN "idle" ELSE "join manual",
                              !.hold = thread[t].hold]]
  /\ manual_stop' = (manual_stop \/ t \notin Loops)
  /\ UNCHANGED <<hostVars, mode, manual, manual_thread, scheduler, sched_stop,
                 outsideVars, failVars, motor>>
-----------------------------------------------------------------------------
(* The loops.                                                              *)

(* run_forever clears the stop event before it looks at it.                *)
Begin(s) ==
  /\ s \in Schedulers /\ thread[s].at = "born"
  /\ sched_stop' = [sched_stop EXCEPT ![s] = FALSE]
  /\ GoTo(s, "idle")
  /\ UNCHANGED <<hostVars, mode, manual, manual_stop, manual_thread, scheduler,
                 outsideVars, failVars, carVars>>

Stopped(l) == IF l \in Schedulers THEN sched_stop[l] ELSE manual_stop

Loop(l) ==
  /\ thread[l].at = "idle"
  /\ \/ Stopped(l) /\ thread' = [thread EXCEPT ![l] = Off]
     \/ ~Stopped(l) /\ TickRead(l, IF l \in Schedulers THEN "zero" ELSE manual)
  /\ UNCHANGED <<hostVars, muxVars, outsideVars, failVars, carVars>>

LoopStep(l) == Begin(l) \/ Loop(l) \/ TickAct(l) \/ TickPush(l)
-----------------------------------------------------------------------------
(* switch_to_auto, by the operator or by the camera thread.                *)

(* Zero while manual still owns the authority: a tick with neutral input.  *)
AutoNeutral(t) ==
  /\ thread[t].at = "auto"
  /\ \/ /\ mode # "MANUAL_WASD"
        /\ GoTo(t, IF t = "camera" THEN "pose" ELSE "idle")
        /\ UNCHANGED manual
     \/ /\ mode = "MANUAL_WASD"
        /\ manual' = "zero"
        /\ TickRead(t, "zero")
  /\ UNCHANGED <<hostVars, mode, manual_stop, manual_thread, scheduler, sched_stop,
                 outsideVars, failVars, carVars>>

(* join: the thread has ended, or was let loose again and never will.      *)
AutoJoin(t) ==
  /\ thread[t].at = "join manual"
  /\ manual_thread # NoLoop /\ manual_stop => ~Alive(manual_thread)
  /\ manual_thread' = NoLoop
  /\ GoTo(t, "zeroed")
  /\ UNCHANGED <<hostVars, mode, manual, manual_stop, scheduler, sched_stop,
                 outsideVars, failVars, carVars>>

AutoZero(t) ==
  /\ thread[t].at = "zeroed"
  /\ Push("zero")
  /\ GoTo(t, "disarm auto")
  /\ UNCHANGED <<hostVars, muxVars, outsideVars, failVars, motor>>

(* disarm refuses a fault, arm refuses everything but DISARMED.            *)
Disarm(t, next) ==
  \/ authority = "FAULTED" /\ Raise(t) /\ UNCHANGED authority
  \/ authority # "FAULTED" /\ GoTo(t, next) /\ authority' = "DISARMED"

Arm(t, armed, next) ==
  \/ authority # "DISARMED" /\ Raise(t) /\ UNCHANGED authority
  \/ authority = "DISARMED" /\ GoTo(t, next) /\ authority' = armed

AutoDisarm(t) ==
  /\ thread[t].at = "disarm auto" /\ Disarm(t, "arm auto")
  /\ UNCHANGED <<mission, muxVars, outsideVars, failVars, carVars>>

AutoArm(t) ==
  /\ thread[t].at = "arm auto" /\ Arm(t, "AUTO_HOST", "auto armed")
  /\ UNCHANGED <<mission, muxVars, outsideVars, failVars, carVars>>

(* The scheduler waits for the next pose.                                  *)
AutoPending(t) ==
  /\ thread[t].at = "auto armed"
  /\ mode' = "AUTO_PENDING"
  /\ GoTo(t, IF t = "camera" THEN "pose" ELSE "idle")
  /\ UNCHANGED <<hostVars, manual, manual_stop, manual_thread, scheduler, sched_stop,
                 outsideVars, failVars, carVars>>

ToAuto(t) == \/ AutoNeutral(t) \/ TickAct(t) \/ TickPush(t) \/ AutoJoin(t)
             \/ AutoZero(t) \/ AutoDisarm(t) \/ AutoArm(t) \/ AutoPending(t)
-----------------------------------------------------------------------------
(* The operator's window: keys, F1 (manual), F2 (auto), Space (hold).      *)

(* compute_throttle, compute_drive_intent: both directions at once are     *)
(* none, and only a throttle drives the car; steering is left out.         *)
Keys == {"w", "s"}
Throttle(pressed) ==
  CASE "w" \in pressed /\ "s" \notin pressed -> 1
    [] "s" \in pressed /\ "w" \notin pressed -> -1
    [] OTHER -> 0
Intent(pressed) == IF Throttle(pressed) = 0 THEN "zero" ELSE "manual"

(* set_manual_wire is deaf outside MANUAL_WASD.                            *)
SetManual(value) == manual' = IF mode = "MANUAL_WASD" THEN value ELSE manual

(* A key goes down or up: _key_press, _key_release and _apply_keys.        *)
Key(pressed) ==
  /\ thread["gui"].at = "idle"
  /\ key' = Intent(pressed)
  /\ SetManual(Intent(pressed))
  /\ UNCHANGED <<hostVars, mode, manual_stop, manual_thread, scheduler, sched_stop,
                 pose, assigned, thread, failVars, carVars>>

(* _clear_keys: every request, and a window that loses the focus, lets go  *)
(* of the keys first.                                                      *)
LetGo == key' = "zero" /\ SetManual("zero")

Request(place, hold) ==
  /\ thread["gui"].at = "idle" /\ Resting("camera") /\ Serial
  /\ LetGo
  /\ thread' = [thread EXCEPT !["gui"].at = place, !["gui"].hold = hold]
  /\ UNCHANGED <<hostVars, mode, manual_stop, manual_thread, scheduler, sched_stop,
                 pose, assigned, failVars, carVars>>

PressManual == mode # "MANUAL_WASD" /\ Request("zero", FALSE)
PressAuto == Request("auto", FALSE)
PressHold == Request(IF mode = "MANUAL_WASD" THEN "release" ELSE "zero", TRUE)

(* switch_to_manual: zero, and the scheduler is told to stop.              *)
ManualZero ==
  /\ thread["gui"].at = "zero"
  /\ Push("zero")
  /\ sched_stop' = [sched_stop EXCEPT ![scheduler] = TRUE]
  /\ GoTo("gui", "join scheduler")
  /\ UNCHANGED <<hostVars, mode, manual, manual_stop, manual_thread, scheduler,
                 outsideVars, failVars, motor>>

(* Mutant: the scheduler is not waited for.                                *)
NotJoined == TRUE

Joined == ~Alive(scheduler) \/ ~sched_stop[scheduler]

ManualJoin ==
  /\ thread["gui"].at = "join scheduler" /\ Joined
  /\ GoTo("gui", "disarm manual")
  /\ UNCHANGED <<hostVars, muxVars, outsideVars, failVars, carVars>>

ManualDisarm ==
  /\ thread["gui"].at = "disarm manual" /\ Disarm("gui", "arm manual")
  /\ UNCHANGED <<mission, muxVars, outsideVars, failVars, carVars>>

ManualArm ==
  /\ thread["gui"].at = "arm manual" /\ Arm("gui", "MANUAL", "loop")
  /\ UNCHANGED <<mission, muxVars, outsideVars, failVars, carVars>>

(* Mutant: the manual input is left as it was.                             *)
InputKept == manual

InputAtStart == "zero"

ManualLoop ==
  /\ thread["gui"].at = "loop"
  /\ \E l \in ManualLoops : ~Alive(l)
  /\ LET l == CHOOSE l \in ManualLoops : ~Alive(l)
     IN /\ manual_thread' = l
        /\ thread' = [thread EXCEPT ![l].at = "idle", !["gui"].at = "manual armed"]
  /\ manual' = InputAtStart /\ manual_stop' = FALSE
  /\ UNCHANGED <<hostVars, mode, scheduler, sched_stop, outsideVars, failVars,
                 carVars>>

ManualMode ==
  /\ thread["gui"].at = "manual armed"
  /\ mode' = "MANUAL_WASD"
  /\ GoTo("gui", IF thread["gui"].hold THEN "release" ELSE "idle")
  /\ UNCHANGED <<hostVars, manual, manual_stop, manual_thread, scheduler, sched_stop,
                 outsideVars, failVars, carVars>>

(* The rest of PipelineRunner.manual_stop.                                 *)
HoldRelease ==
  /\ thread["gui"].at = "release"
  /\ SetManual("zero")
  /\ GoTo("gui", "hold")
  /\ UNCHANGED <<hostVars, mode, manual_stop, manual_thread, scheduler, sched_stop,
                 outsideVars, failVars, carVars>>

HoldZero ==
  /\ thread["gui"].at = "hold"
  /\ Push("zero")
  /\ GoTo("gui", "idle")
  /\ UNCHANGED <<hostVars, muxVars, outsideVars, failVars, motor>>

ToManual == \/ ManualZero \/ ManualJoin \/ ManualDisarm \/ ManualArm \/ ManualLoop
            \/ ManualMode \/ HoldRelease \/ HoldZero
-----------------------------------------------------------------------------
(* The camera thread, frame by frame.                                      *)

Frame ==
  /\ thread["camera"].at = "idle"
  /\ GoTo("camera", "assign")
  /\ UNCHANGED <<hostVars, muxVars, outsideVars, failVars, carVars>>

(* HostWaypointMission.load                                                *)
LoadedMission == [status |-> "RUNNING", index |-> 0]

(* _ensure_mission: no slot yet, or one that is turned into a mission.     *)
NotAssigned ==
  /\ thread["camera"].at = "assign"
  /\ GoTo("camera", "pose")
  /\ UNCHANGED <<hostVars, muxVars, outsideVars, failVars, carVars>>

Assign ==
  /\ thread["camera"].at = "assign" /\ Resting("gui") /\ Serial
  /\ ~assigned /\ assigned' = TRUE
  /\ mission' = LoadedMission
  /\ GoTo("camera", "auto")
  /\ UNCHANGED <<authority, muxVars, pose, key, failVars, carVars>>

(* on_camera_pose keeps the pose current in every mode.                    *)
Observe ==
  /\ thread["camera"].at = "pose"
  /\ pose' \in {"fresh", "bad"}
  /\ GoTo("camera", "check")
  /\ UNCHANGED <<hostVars, muxVars, assigned, key, failVars, carVars>>

NewScheduler == {s \in Schedulers : ~Alive(s) /\ s # scheduler}

CheckPending ==
  /\ thread["camera"].at = "check"
  /\ \/ mode # "AUTO_PENDING" /\ GoTo("camera", "idle")
        /\ UNCHANGED <<scheduler, sched_stop>>
     \/ /\ mode = "AUTO_PENDING" /\ Resting("gui") /\ NewScheduler # {}
        /\ scheduler' = CHOOSE s \in NewScheduler : TRUE
        /\ sched_stop' = [sched_stop EXCEPT ![scheduler'] = FALSE]
        /\ GoTo("camera", "start")
  /\ UNCHANGED <<hostVars, mode, manual, manual_stop, manual_thread, outsideVars,
                 failVars, carVars>>

StartScheduler ==
  /\ thread["camera"].at = "start"
  /\ thread' = [thread EXCEPT ![scheduler].at = "born", !["camera"].at = "started"]
  /\ UNCHANGED <<hostVars, muxVars, outsideVars, failVars, carVars>>

(* Mutant: the mode goes on saying that a pose is waited for.              *)
StillPending == mode

ModeOnceStarted == "AUTO_HOST"

StartedMode ==
  /\ thread["camera"].at = "started"
  /\ mode' = ModeOnceStarted
  /\ GoTo("camera", "idle")
  /\ UNCHANGED <<hostVars, manual, manual_stop, manual_thread, scheduler, sched_stop,
                 outsideVars, failVars, carVars>>

CameraStep == \/ NotAssigned \/ Assign \/ Observe \/ CheckPending
              \/ StartScheduler \/ StartedMode \/ ToAuto("camera")

(* max_pose_age_s passes without a frame of the car.                       *)
PoseAges ==
  /\ pose = "fresh" /\ pose' = "bad"
  /\ UNCHANGED <<hostVars, muxVars, assigned, key, thread, failVars, carVars>>
-----------------------------------------------------------------------------
(* RemoteDirectSession._on_comm_fail, on the server's tick thread;         *)
(* _on_resync does the same to this state.                                 *)
CommFail ==
  /\ ~failing /\ failures < MaxFailures
  /\ failing' = TRUE /\ failures' = failures + 1
  /\ Fault
  /\ UNCHANGED <<mission, muxVars, outsideVars, thread, carVars>>

CommFailZero ==
  /\ failing /\ failing' = FALSE
  /\ Push("zero")
  /\ UNCHANGED <<hostVars, muxVars, outsideVars, thread, failures, motor>>

(* The tick thread sends the latest command, the car applies a control_seq *)
(* only once.                                                              *)
CarApplies ==
  /\ stream.new
  /\ stream' = [stream EXCEPT !.new = FALSE]
  /\ motor' = stream.value
  /\ UNCHANGED <<hostVars, muxVars, outsideVars, thread, failVars>>

(* DIRECT_CONTROL_TIMEOUT_MS without a new one.                            *)
CarDeadman ==
  /\ ~stream.new /\ motor # "zero"
  /\ motor' = "zero"
  /\ UNCHANGED <<hostVars, muxVars, outsideVars, thread, failVars, stream>>
-----------------------------------------------------------------------------
Next ==
  \/ \E l \in Loops : LoopStep(l)
  \/ \E pressed \in SUBSET Keys : Key(pressed)
  \/ PressManual \/ PressAuto \/ PressHold \/ ToAuto("gui") \/ ToManual
  \/ Frame \/ CameraStep \/ PoseAges
  \/ CommFail \/ CommFailZero \/ CarApplies \/ CarDeadman

Spec == Init /\ [][Next]_vars

(* The threads run, a request comes to its end, the server sends every     *)
(* 100 ms, and the car watches its deadman.  Nothing is assumed of the     *)
(* operator, and the camera may see the car no more.                       *)
FairSpec ==
  /\ Spec
  /\ \A l \in Loops : WF_vars(LoopStep(l))
  /\ WF_vars(ToAuto("gui")) /\ WF_vars(ToManual) /\ WF_vars(CameraStep)
  /\ WF_vars(CommFailZero) /\ WF_vars(CarApplies) /\ WF_vars(CarDeadman)
-----------------------------------------------------------------------------
TypeOK ==
  /\ authority \in Authorities
  /\ mission \in [status : {"EMPTY", "RUNNING", "REPLAN_REQUIRED", "DONE"},
                  index : 0..(Last - 1)]
  /\ pose \in {"none", "fresh", "bad"}
  /\ mode \in Modes /\ manual \in {"zero", "manual"} /\ manual_stop \in BOOLEAN
  /\ manual_thread \in ManualLoops \cup {NoLoop} /\ scheduler \in Schedulers
  /\ sched_stop \in [Schedulers -> BOOLEAN]
  /\ thread \in [Threads -> Thread]
  /\ {assigned, failing} \subseteq BOOLEAN /\ key \in {"zero", "manual"}
  /\ failures \in 0..MaxFailures
  /\ stream \in [value : Values, new : BOOLEAN] /\ motor \in Values

(* The two drivers never tick the controller at the same time, and there   *)
(* is never a second scheduler: the old loop has ended before the hand-over*)
(* arms the new owner.                                                     *)
OneProducer ==
  \A k, l \in Loops : Alive(k) /\ Alive(l) => k = l

(* While the hand-over to automatic waits for a new pose, nothing ticks    *)
(* the controller: automatic driving is never taken up on an old           *)
(* observation (hybrid_control.py, module docstring).                      *)
PendingIsStill ==
  mode = "AUTO_PENDING" /\ thread["camera"].at # "started" =>
    \A s \in Schedulers : ~Alive(s)

(* One loop drives at a time, and none on a pose from before its time.     *)
OneDriver == OneProducer /\ PendingIsStill

(* While the operator drives, the mission does not move on: no tick of the *)
(* automatic driver that began before the hand-over judges an arrival.     *)
ManualKeepsMission ==
  [][mode = "MANUAL_WASD" /\ mission' # mission => assigned' # assigned]_vars

(* Once the operator has let go of the keys, the car stands or drives by   *)
(* itself: no older key value stays behind in a loop, a hand-over or the   *)
(* stream.                                                                 *)
KeyReleased == <>[](key = "zero") => <>[](motor # "manual")

(* Once the camera gives no good pose any more, the car comes to rest and  *)
(* remains there, whoever hands over what meanwhile.                       *)
BlindCarStops == <>[](pose # "fresh") => <>[](motor # "auto")

(* A fault of the host stops the car for good: no tick, hand-over or       *)
(* repeated stream value drives it again before the fault is cleared.      *)
FaultStopsCar == authority = "FAULTED" ~> [](motor = "zero")

(* Blind or faulted, the host leaves a car that stands.                    *)
CarComesToRest == BlindCarStops /\ FaultStopsCar
================================================================================
