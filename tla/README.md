# Verification of the smart parking system

The repository drives small cars through a parking lot: a host computer sees
them with a camera, gives each a parking slot, and either sends it waypoints or
drives it directly over Wi-Fi; an ESP32 in each car owns the motor. This
directory holds TLA+ models of that system, translated from its source, TLC
configurations that check them, and proofs for TLAPS.

- [1. The system](#1-the-system) – components, state, operations, interactions
- [2. What is modelled, and where](#2-what-is-modelled-and-where)
- [3. The runs](#3-the-runs)
- [4. Where the code disagrees with its documents](#4-where-the-code-disagrees-with-its-documents)
- [5. The proofs](#5-the-proofs)
- [6. What is not modelled](#6-what-is-not-modelled)
- [7. Plan](#7-plan)

Paths below are relative to `src/`; `main/` stands for
`integrated/esp32_main/main/` and `host/` for `integrated/host/`.
`PROJECT.json` maps each definition to the lines it models, lists the hazards
with their lines, and gives each property a mutant of the code that breaks it.

## 1. The system

### Firmware (`main/`, C on FreeRTOS)

| Component | State | Operations | Hard behaviour |
|---|---|---|---|
| Vehicle control task, `vehicle_control.c` | vehicle state, control mode, session, `sync_hold`, last command number and result, target, wait reason, direct input and its deadman, motor and servo output | one pass: STOP, heartbeat timeout / TCP lost, TCP connected, WAIT, up to four queued commands, DIRECT_CONTROL, deadman | the other tasks run between the sections of a pass; notifications are coalesced bits, STOP, WAIT and DIRECT_CONTROL are latest-value slots |
| TCP client and watchdog, `network_client.c`, `socket_transport.c` | connection, generation of the socket, time of the last heartbeat | connect, HELLO, read lines, give up on silence, reconnect | HELLO is built from a snapshot another task writes; a line may be sent after its connection has gone; three tasks and two priorities |
| TX manager, `tx_manager.c` | queue of replies (12), latest STATUS, generation | enqueue, send, invalidate | replies are dropped when the queue is full, the STATUS is overwritten |
| Protocol parser, `protocol.c` | – | parse, format, fingerprint | – |
| Actuator driver, `actuator.c` | applied output | apply a direct input, safe stop | PWM thresholds |
| Wi-Fi, encoder, start-up | Wi-Fi bits, a counter | – | – |

The vehicle task is correct when the motor is driven only with authority (a
synchronised session, the remote mode, an input younger than the deadman), when
every fault state is safe, when a lock is left only by RESET, when a command is
executed once, and when a STOP that was received is handled.

### Host communication (`host/comm/`)

| Component | State | Operations | Hard behaviour |
|---|---|---|---|
| Vehicle server, `server.py` | one session per car: id, socket, `alive`, `comm_failed`, sender, last control value | accept and HELLO handshake, receive, 20 ms tick (resend, silence, heartbeat, control stream), failure and recovery callbacks | a thread per connection, one tick thread for all cars, callbacks outside the lock, an old connection's thread outliving its session |
| Reliable sender, `reliability.py` | one outstanding command per session, its number and attempts | send (STOP and WAIT replace what has lower priority), ack, tick with resend and exhaustion, clear | numbering under the lock, the raw send outside |
| Mission orchestrator, `orchestrator.py` | mission of each car: state, route, index | start, arrival, STATUS, hold, resume, regenerate, link lost | no lock, three threads, read – send – write |

Correct when numbers are never shared by two commands, a result is credited to
its own command, STOP is never lost to anything but the connection, no command
blocks the car for ever, losses and recoveries are told in their order, and a
mission takes its waypoints in order and ends only with the car parked.

### Host pipeline and driving (`host/pipeline/`, `host_control/`, `control/`, `integration/`, `controller/`)

| Component | State | Operations | Hard behaviour |
|---|---|---|---|
| Pipeline runner, `runner.py` | views of tracked cars, `_collision_held`, `_comm_lost`, shells and muxes | per frame: detect, bind, ensure a mission, push poses, check collisions, resume; callbacks of the server | camera thread, receiving threads, tick thread and GUI thread all call in |
| AUTO_HOST controller, `host_control/` | authority (DISARMED, MANUAL, AUTO_HOST, FAULTED), mission, last pose | `tick`, arm, disarm, fault | a tick reads the authority first and pushes last |
| Session, scheduler, mux, `integration/`, `control/hybrid_control.py`, `auto_host_runner.py` | SET_MODE handshake, scheduler thread, manual thread, mode | arm, switch to manual / automatic, failure and resync callbacks | hand-over between two loop threads without a lock |
| Pose and waypoint controllers | derivative, filters | compute a command | floating-point control laws |
| Collision monitor and waypoints, `parking/safety.py`, `parking/waypoints.py` | – | which car must wait; is a waypoint reached | – |

Correct when at any time one producer drives the car, automatic driving starts
only on a new observation, manual driving never resumes with an old key value,
a car nobody sees or controls comes to rest, and a fault stops it until it is
cleared.

### Parking backend, bridge, the rest

| Component | State | Operations | Hard behaviour |
|---|---|---|---|
| Parking service, `host/parking/` | vehicles, spots, visits, assignments, route plans in SQLite or PostgreSQL | entry, exit, route request; operators set a spot's status, register, change and delete vehicles and spots | HTTP workers run their statements side by side without row locks; what one database forbids the other allows |
| Slot allocation, `host/rl/` | cars on the lane, parked cars, reservations per waypoint, waits | assign or wait, advance the clock, depart, mask | the Safety Shield on both directions of one lane, a fast-forward that must find a free slot |
| Remote-direct bridge, `remote-direct-bridge/` | transport, session, outstanding command, pending SET_MODE, stream, drive value | attach, HELLO, commands with resends, SET_MODE, STOP, RESET, stream | one asyncio loop whose handlers interleave at each `await`; a lock held while the transport is not writable |
| Operator desks, `wasd_gui.py`, `cli.py` | keys held, focus, prompt | keys, focus, deadman, commands | the desk's deadman shares a thread with its prompt |
| Tracker and vision, `host/cv/` | tracks | find, lose | a car comes back under another number |
| Dashboard, configuration, tools | – | – | – |

A visit, its spot and its assignment must tell one story; no spot is given
twice; cars on the lane never come closer than the margin; the bridge streams
only with the car's consent and never past a STOP.

### How they interact

The server's receiving thread calls `on_status`, `on_command_result`,
`on_command_rejected`, `on_comm_recovered` and `on_resync` upwards; its tick
thread calls `on_comm_fail`; the camera thread calls the orchestrator, the mux
and the collision check, and through them `ReliableSender.send`; the GUI thread
calls the mux. Downwards everything ends in one of two ways: a reliable command
(numbered, resent after 100 to 300 ms, answered by a result) or the latest value of
the control stream (sent every 100 ms, never answered). In the car, the
communication task submits parsed messages to the vehicle task's slots, bits
and queue, and the vehicle task answers through the TX manager.

## 2. What is modelled, and where

Each module stands for one level of this chain and abstracts its neighbours to
what they can do to it.

| Module | Code | Neighbours become |
|---|---|---|
| `VehicleControl` | the vehicle control task | the host is a set of messages that may arrive at any time |
| `MotorGate` | abstract specification: the order in which a car may come to drive | – |
| `Handshake` | TCP client, watchdog, transmit task and transport of the car *composed with* the server's handshake and receiving threads | the vehicle task is the part of it that connections and sessions reach |
| `CommandLink` | server, reliable sender, callbacks, and what the firmware does with numbers | callers send any of a set of command types |
| `Mission` | orchestrator and runner in waypoint driving | the link is one outstanding command and two channels; the other car is a verdict |
| `Fleet` | runner, allocator bridge and collision check for several cars | a mission is whether its car may move; driving, tracking and nearness are choices |
| `HostControl` | AUTO_HOST controller, mux, scheduler, runner's part in it | the link is the last pushed value; the car is a motor with a deadman |
| `ParkingEnv` | slot allocation environment with its Safety Shield | the policy is any sequence of actions and queries |
| `ParkingService` | entry, exit, route and operators' requests on a database | the database is its locks and the visibility of its commits |
| `RemoteBridge` | the REMOTE_DIRECT bridge with both operator desks, composed with the mock car | the transport is a FIFO that may stop being writable |

The theorems about a component are in a module of their own that extends it:
`VehicleControlProofs`, `CommandLinkProofs`, `HandshakeProofs`, `MissionProofs`,
`HostControlProofs`, `FleetProofs`, `RemoteBridgeProofs`, and `ParkingProofs` for
both `ParkingService` and `ParkingEnv` (section 5). The `MC` modules hold inputs,
constants that a cfg cannot write, and symmetries; `MCVehicleUse` puts the two
uses of the vehicle task (driving, synchronising) into one run. `Handshake`,
`Mission`, `HostControl` and `RemoteBridge` need none.

### VehicleControl

*Correspondence.* The variables are the fields of `vehicle_context_t` and its
snapshot, the pending notification bits, the slots and the queue, the driver's
output and the reply of the last step. `pc` is the section of the pass; each
mutex section is an action (`StopSection`, `CommTimeoutSection`,
`TcpConnectedSection`, `WaitSection`, `GeneralSection`, `DirectSection`,
`DeadmanSection`) and runs a handler (`HandleStop`, `HandleWait`,
`HandleHelloAck`, ...) as a whole. Between two sections the other tasks may
submit messages or report the connection. `WakeAfter(waits)` lets time pass.

*Abstracted.* A PWM duty is 0 or 1, a steering input 0 or 1; a target is route
and waypoint number; the fingerprint of a command is its content. `status_seq`,
the encoder, `comm_timeout_active`, the stall boost (which changes how hard a
driven motor is driven, not whether), the direction sign, the wording of
reasons and the truncation of error codes are left out. Time is counted in
waits since the last input, so the wrap of the tick counter is not seen.

*Bounds.* `QueueLength = 1` instead of 12 and `BatchSize = 1` instead of 4: with
one place TLC sees the full, the empty and the refilled queue; with a batch of
one it sees work left for the next pass. `DirectTimeout = 2` waits instead of
ten gives an input that is fresh, old and too old. The inputs are one message
of each kind that the question needs (`DriveInputs`, `SyncInputs`,
`LiveInputs`), with a second route, a stale session, repeated and newer
numbers where they matter. The theorems hold for every value of the constants.

*Prompt.* The reconnect delay is 1000 ms, twenty waits of the task. With
`Prompt = TRUE` a connection lives until the task has seen it. Without it,
`TCP_DOWN` and `TCP_CONNECTED` can be set for the same pass, whose fixed order
loses which came first; `LockLeftOnlyByReset` then fails (a locked car is taken
for a SYNCING one). The runs and the theorem `LockHolds` state this assumption.

*NoForeignAck* (`AckBoots = {BootId}`): a HELLO_ACK names the boot it answers.
The boot check of `handle_hello_ack_locked` comes before the state check and
enters ERROR without stopping the motor; a host that answers the car's own HELLO
never triggers it.

### CommandLink

*Correspondence.* `NumberCommand` is the locked part of
`ReliableSender.send`, `SendFirst` the raw send after it; the tick thread goes
through `TickSession` / `TickExpired` / `Resend` / `CommandFailed` / `Silence`
/ `TellFailure`; the receiving thread of each connection through the recovery,
the acknowledgement and the callback, each a lock section of its own. The car
side has the slots, the queue, the number check with its cached result, and the
reply queue that drops.

*Abstracted.* A session and its TCP connection are one number. Timeouts and
silence may strike whenever the code would accept them. `from_car` is the TX
queue and the socket together. SESSION_MISMATCH replies are not modelled: a
message reaches a car in the session it was sent in. The car takes slots and
queue in any order, more than the fixed order of a pass.

*Bounds.* One car; one or two callers; two numbers per session (`MaxSeq`), two
attempts instead of five (a first send and one resend differ in
everything that matters, exhaustion is reached); one place in the queue; one or
two replies, so that a reply can be dropped. The runs have one session.

### Mission

*Correspondence.* `at` and `call` hold where the camera and the receiving
thread are: an operation of the orchestrator reads and decides in one step,
sends in the next (`SendCall`, with `ReliableSender`'s rule of replacement and
its RuntimeError), and writes the mission's state in the third. The tick thread
reports a failure and marks the link lost in two steps. `CarHandles`,
`CarReports` and `CarArrives` are the car: firmware rules for WAYPOINT, GO and
WAIT, a STATUS every 200 ms, and driving.

*Abstracted.* The car is seen in every frame; it does not overshoot; the pose
gate of GO is open; "stationary" is "not MOVING"; "near" and "exactly there"
are the tolerances with and without the camera's lead. Resync and reconnection
are in `Fleet`. `regenerate` writes its fields in one step. A route beyond
`MaxRoute` is treated as the code treats a car without pose or slot.

*Bounds.* Three waypoints (a first, a middle, a FINAL one), two routes (an
original and a replanned one), one collision hold, one failure. `to_car` is
bounded by two messages for each route planned and each failure (`TypeOK`).
`CHECK_DEADLOCK FALSE`, because a RuntimeError may have ended both threads.

### HostControl

*Correspondence.* `thread` says where each thread is: the operator's window
("gui"), the camera thread, the schedulers and the manual loops. A tick is
`TickRead` (authority, mission and pose read, the command computed), `TickAct`
(the fault for a pose that is too old, or the mission's progress) and
`TickPush`. `switch_to_auto` and `switch_to_manual` are one action per
statement that touches shared state; `on_camera_pose` is observation, the check
for AUTO_PENDING, the new scheduler, its start and the write of the mode.
`CommFail` / `CommFailZero` are `_on_comm_fail` on the server's tick thread.
The server's stream is its last value and whether the car has seen that
`control_seq`; the car applies each value once and its deadman ends a drive.

The module begins when the READY shell is up: authority MANUAL, mode
MANUAL_WASD, a manual loop running, a scheduler that was never started and an
empty mission (`_start_manual_shell`).

*Abstracted.* A command is who drives with it (zero, manual, auto). A `join`
ends when its thread has ended, or will never stop because the stop event was
cleared again (then the code's join times out): the timeouts of 0.5 s and 2 s
are taken as longer than a tick. `TickRead` takes the few reads of a tick
together. PARKED, `re_arm` and `confirm_parked` are never reached from the
pipeline; a shell is given one mission, because the runner allocates a slot
once. `stop` of the pipeline, its resync and its SET_MODE handshake are left out
(`Fleet` has the resync of the runner, `Handshake` that of the server).

*Orderly.* With `Orderly = TRUE` the operator and the camera thread change the
mode one at a time, and a thread that was started has reached its loop before
either changes it again. Nothing in the code enforces it: F1 or F2 at the very
moment of the first new frame breaks it, and with `Orderly = FALSE` TLC shows
`PendingIsStill`, `OneProducer`, `ManualKeepsMission` and `KeyReleased`
violated (two schedulers, or a scheduler that runs on in MANUAL). The hazard
is listed at `hybrid_control.py:71`; the run says what holds apart from it.

*Bounds.* Two scheduler objects and two manual threads: the current one and
the one it replaces; more could only exist together if a join were not waited
for. Two waypoints, one failure.

### Handshake

*Correspondence.* Each task and thread has its own actions: `Connect`,
`SendHello`, `Receive`, `Disconnected` and `WifiLost` are
`communication_task`; `TxTake` and `TxSend` the transmit task, which may hold a
line while connections go and come; `Heartbeat` and `WatchdogFires` the
heartbeats and the watchdog task; `Wake` to `HandleCommand` the vehicle task;
`Judge`, `Register`, `RxHello` and `ThreadEnds` the server's thread of one
connection. `SendStop` and `SendReset` are the operator.

*Abstracted.* A session has the name of its connection, and a name is taken
again when nothing remembers the connection that had it, so behaviours are as
long as they like. READY, MOVING and WAITING are one state. Heartbeats are not
messages: a session the host serves has them. HELLO_ACK and registration follow
each other well within `HEARTBEAT_TIMEOUT_MS`, and a round trip takes longer
than a pass of the vehicle task. The car is one the host knows, without an error
code; `hold_check` is not installed.

*Bounds.* Two connections at a time (a live one and one that the host still
remembers), one lost Wi-Fi besides any number of watchdog timeouts and
closings, one STOP, two HOLDs of a connection instead of twenty, one place in
the queue instead of twelve. `MaxHellos` counts what is on the way when another
HELLO is built: with the one in the transmit task's hand there are two.

### Fleet

*Correspondence.* The camera thread takes a frame in steps (`UpdateViews`,
`BindCar`, `Allocate`, `StartAllocation`, `StartMission`, `CheckCollisions`,
`HoldCar`, `ResumeCleared`, `ForgetStale`); between them the receiving threads
park, fail and recover (`Parks`, `CommFails`, `CommRecovers`) and a handshake
thread resynchronises a car (`Handshake`, `ResyncMission`, `ResyncBinding`,
`VehicleReady`).

A frame binds its tracks one by one: `BindCar` takes a track out of `todo`
(`Passed`), binds it to the first ready car (`Bind`) and goes on to the
allocation where the car has no mission yet (`ToStart`). `_on_resync` is two
steps, since it drops the mission before it takes the lock under which it clears
the binding (`runner.py:777`, 778).

*Abstracted.* Which cars are near each other, and whose ways cross, is a choice;
that the check names the one that moves, and a pair once, is the code's. A
mission's LOADING, SWITCHING, RESUMING and PARKED_CHECK are DRIVING. In
`ResumeCleared` the check of `_comm_lost` and the resume are one step. A car is
away, at the entrance or in the lot. `disturbed`, `owner` and `revived` are
history; `revived` has the cars whose mission the camera thread started after
the resync of the car had dropped it.

*Bounds.* Two cars and two slots, three tracks (one car is lost and found
again), three handshakes (each car's first and one more), one failure.
`CHECK_DEADLOCK FALSE`: tracks and handshakes are used up.

### ParkingEnv

*Correspondence.* `StepWait`, `StepRefused` and `StepAssign` are the ways through
`step`, each with the advance of the clock that ends it; `ActionMasks` is
`action_masks` where it moves the clock, `Reset` is `reset`. Pure parts of the
code (routes, time windows, the shield's check, a departure, the advance of the
clock) are operators of the same shape on a record `Lot` of the traffic;
`DepartedUpTo(lot)[n]` is the lot after the loop of `_process_departures` has
gone through the first `n` parked cars, in the code's order.

*Abstracted.* Times are relative to the clock, and an interval that no route can
meet any more is clipped. Cars are known by their slot and the least free
number. Rewards, observations and statistics are left out.

*Bounds.* Two columns of slots on both sides of the lane, stays of 2 and 14
ticks (one that ends amid the arrivals and one that fills the lot), arrivals
three ticks apart, three waits in a row, which together with an arrival outlast
the way in as the five of the code do (`WaitsOutlastWayIn`).

### ParkingService

*Correspondence.* One action per statement of `process_entry`, `process_exit`
and the route view, between `EntryAsked` and `EntryCommit`; the operators'
views are single statements. A transaction's writes are seen at its commit.

*Abstracted.* The database is chosen at the start: PostgreSQL locks the rows a
transaction writes, SQLite has one writer, refuses a second one, and a commit
waits for readers. `VisitsMatch` is stated of SQLite, the database of the
settings' default: on PostgreSQL two entries can take one spot, and two entries
of one plate can both pass the check for an active visit (the hazard at
`services.py:236`).

*Bounds.* Two workers, two plates, two spots of two types, three visits, one
deed by hand. `CHECK_DEADLOCK FALSE`: visits are used up.

### RemoteBridge

*Correspondence.* Every handler runs to its next `await`: `waiting` are the
coroutines that wait for `controller._lock`, `task` the one that holds it and
waits for the writer. The car is `tools/mock_esp32.py`; each connection is a car
that has just started.

*Abstracted.* Throttle and steering are one value. `LoopSettled`: asyncio runs
what is ready before it takes new lines. A connection accepted between the
failure of a transport and the end of its handler, heartbeat numbers and
`control_seq` are left out.

*Bounds.* Two connections and sessions, two commands of a session, one resend.
`CHECK_DEADLOCK FALSE`: connections and sessions are used up.

## 3. The runs

| Run | Question | States |
|---|---|---|
| `vehicle` | Driving and synchronising: is the motor driven only with authority and under the deadman, are faults safe, locks kept, numbers monotone, and does the task implement `MotorGate`? | 3.2 M |
| `vehicle_live` | Does a driven motor always stop again, and does every submitted STOP lock the car? | 1.0 M |
| `handshake` | Do car and host agree on the session through every loss, and does a car that was not stopped get one and keep it? | 0.35 M |
| `handshake_hold` | *violated*: is a car that is told HOLD judged again? | 0.35 M |
| `link_race` | Are numbers, results and STOPs safe against two callers, the tick thread and the receiving thread? | 2.3 M |
| `link_live` | Does every command settle and every STOP arrive? | 0.6 M |
| `mission` | Are waypoints taken in order, is DONE parked, does an undisturbed mission end? | 1.6 M |
| `fleet` | Do tracks and cars stay paired, and is no slot given to two missions? | 9.2 M |
| `host` | One driver, no old pose, key or mission progress across hand-overs; do faults and blindness stop the car? | 0.3 M |
| `allocation` | Does the shield keep cars apart, do the books match the lot, can the policy always act? | 0.37 M |
| `parking` | Do visits, spots, assignments and routes tell one story? | 4.8 M |
| `bridge` | Is the stream consented, the drive value held, and does a STOP get through? | 1.0 M |

The runs of one module ask what its bounds allow to be asked together; liveness
and safety of a module are apart only where one state space cannot carry both.

The properties, with what would break them:

*VehicleControl.* `MotorSafe`: the motor is driven only in MOVING, in
REMOTE_DIRECT, in an active session (`MotorAuthority`); the deadman looks at the
state and at `direct_active`, never at the motor, so whoever changes one must
stop the other (`MovingIsWatched`); every fault state stands still
(`FaultsAreSafe`), and STATUS reports what the driver emits
(`AppliedIsOutput`). `DeadmanBound`: between passes a driven motor is younger
than the timeout. `RouteSafe`: GO does not check the mode, so no target may
survive a change of mode, and only an open target may be resumed.
`LockLeftOnlyByReset`, `SequenceNeverRewinds`: locks, command numbers.
`DrivingEnds`, `StopLocks`: liveness. `ImplementsGate`: the refinement, with
`phase` computed from lock, session, mode and motor.

*Handshake.* `SessionsAgree`: the host judges a connection only by a HELLO
built on it, although the transmit task may send late, and a car in a session on
a standing connection is in the one the host serves, although threads of older
connections register late. `Synchronises`: liveness.

*CommandLink.* `CommandsKeptApart`: the car never sees one number with two
contents, and a command's result is the car's own answer to it, unless a reply
of the session was dropped (then `server.py:375` takes another's refusal for
it). `StopNotCancelled`: nothing takes the place of a pending STOP.
`CommandsSettle`, `StopArrives`: liveness.

*Mission.* `MissionMatchesCar`: while no failure happened, a car that drives is
driving to the waypoint by which the host judges its arrival, and a mission is
DONE only with its car parked. `InOrder`, and `MissionEnds`, which names both
ends the code has: DONE, or PARKED_CHECK for ever when the car stands inside the
widened tolerance only.

*Fleet.* `BindingsAgree`: tracks and cars are paired one to one from both sides,
whatever reconnects while a frame is under way; and where nobody came out of
turn, each car is paired with its own track. (After a reconnection of a bound
car the pairing of later cars shifts: the last part says nothing then.)
`SlotGivenOnce`: one slot, one mission, but for a mission that is started
between the two halves of its car's resync (section 4): without that exception
the property is violated. The price of the rest in the code is that the slot of
a forgotten track stays taken for ever.

*HostControl.* `OneDriver`: never two loops, and no tick of the scheduler while
a new pose is awaited. `ManualKeepsMission`: no arrival judged while the
operator drives. `KeyReleased`, `CarComesToRest`: released keys, a blind camera
and a fault all lead to a car that stands and stays so, whoever hands over what
meanwhile.

*ParkingEnv.* `ShieldHolds`: no two cars within the margin at a waypoint, in any
direction. `BooksMatchLot`: slots have one owner, and the table has no
reservation of a car that is gone. `MaskNeverEmpty`: some action is always
allowed, although the fast-forward goes to a single departure, which the shield
may put off. It holds because waiting outlasts the way in: with two waits in a
row TLC still finds it true, with one it finds a full lot whose next departure
is put off by the car that has just come in, and an empty mask.

*ParkingService.* `VisitsMatch`: one active visit per plate, a spot occupied by
exactly the car whose visit says so, an assignment that ends with its visit.
`RouteIsOwn`: the route a car is given leads to a spot of its own.

*RemoteBridge.* `DriveIsHeld`: a drive value does not outlive the stream, the
focus or the key that let it in. `StreamIsConsented`: the stream is on only
after the car's own ACCEPTED and by a request not older than the last STOP or
RESET (a SET_MODE that waits for the lock across a STOP counts as asked).
`StopReaches`: liveness.

### Fairness

Weak fairness is stated for what the code schedules, never for the environment.

- *VehicleControl*: the task has the highest priority (10) and time passes.
  `SF(WakeAfter(1))` says that a wait elapses, although messages may wake the
  task before it does; without it the deadman's clock could stand still.
- *CommandLink*: host threads run, TCP delivers while the connection stands,
  the car handles what it has. `SF(TickExpired)`: the tick thread, which runs
  every 20 ms, does at some time find an unanswered command expired.
- *Mission*: threads run, the car handles and reports, a driving car arrives.
  Nothing is assumed of collisions and failures.
- *Handshake*: the tasks of the firmware and the threads of the server run in
  the end; nothing is assumed of Wi-Fi and operator. A disconnection the car
  brings about itself needs no fairness of its own.
- *RemoteBridge*: the loop runs what is ready, a connection that stands takes
  and delivers lines, the desk's deadman fires at some time.
- *HostControl*: loops run, a mode request that has begun goes on, the tick
  thread sends, the deadman is watched. Nothing is assumed of the operator, and
  the camera need not see the car again (`Frame` has no fairness).

## 4. Where the code disagrees with its documents

`handshake_hold` is checked: the car takes a HELLO_ACK(HOLD) as an active
session (`main/vehicle_control.c:371`) and sends HELLO only while none is active
(`main/network_client.c:202`). The host keeps the connection open and waits for
the next HELLO, "차량은 HELLO_ACK 를 못 받거나 HOLD 를 받으면 HELLO 를
재전송하므로" (`host/comm/server.py:212`). It has no session for the car, so it
sends neither heartbeats nor a RESET: the car times out, reconnects and is held
again, for ever, and `max_hold_retries` is not reached.

The following were found in the same way, by stating what the document says as a
property of the module named and letting TLC refute it. They describe behaviour
that the models still contain; the properties are not part of the present runs.

| Module | What happens | What is said |
|---|---|---|
| `Fleet` | the collision check names the car that moves, never the one that already stands, so `_resume_cleared` resumes a held car one frame later, however near the other is | `host/pipeline/runner.py:692`: resumes the cars whose danger is over |
| `Fleet` | `_on_resync` pops the mission outside the lock; the camera thread, past `allocate`, registers it again before the binding is cleared. The mission outlives its binding, the track keeps its slot, and the next car bound to the track is sent to the same slot. `SlotGivenOnce` without its exception shows it in 24 steps | `docs/implementation_status.md:86`: double assignment is excluded by taking the slot first |
| `VehicleControl` | HELLO_ACK(HOLD), STOP, RESET: the RESET takes the EMERGENCY_STOP branch and the car is READY with `sync_hold` set, without a new HELLO | `main/vehicle_control.c:576`: "HOLD recovery requires a fresh HELLO/HELLO_ACK decision." |
| `CommandLink` | `_comm_fail` calls back after releasing its lock; a message in between makes "recovered" precede "failed", and the pipeline holds the car although the link works | `host/comm/server.py:76`: recovery is told once after a failure |
| `Mission` | a command sent while another thread's is outstanding raises a RuntimeError that ends the receiving or the camera thread | `host/comm/reliability.py:72`: the layer above controls the order |
| `Mission` | recovery replans in every state: a parked car is given a route and driven off | `docs/implementation_status.md:44`: no restart of a terminal PARKED |
| `HostControl` | the last tick of a scheduler pushes a driving value after both zeroes of a hand-over and a fault; disarm then raises, and the value stays in the stream | `docs/system_architecture.md:97`: in FAULTED always zero |
| `RemoteBridge` | while the console's command prompt is open nothing looks at the drive deadman, and the last drive value is streamed on | `remote-direct-bridge/cli.py:186`: the key repeat is a deadman signal |

The stream's leftover value does not keep a car driving: the server repeats it
under the same `control_seq`, the firmware drops repeats, and the deadman ends
the drive after 500 ms (`CarComesToRest` is checked over the same behaviours).
The comments in `control_scheduler.py` and `server.py:148` that expect the
repeats to feed the deadman are therefore wrong about the firmware.

Behaviour no document speaks of, seen while modelling: a STOP right behind a
HELLO_ACK is handled before it, the locked car then refuses the session, and
its HELLOs go to a receiving thread that ignores them; a refused start leaves an
IDLE mission that is never started; a car told WAYPOINT_REACHED refuses every
replanned route; `switch_to_auto` in a FAULTED host raises in the camera thread.

## 5. The proofs

Eight modules hold theorems, each about one component (`ParkingProofs` about
two) and for every value of its constants: any number of cars, connections, callers, workers, queue lengths
and limits, where the runs have two or three. The constants are only assumed to
be what the ASSUME of the component's module says (numbers are natural, names
of threads and messages differ), which TLC evaluates in every run.

| Module | Theorem | States | Assumes |
|---|---|---|---|
| `VehicleControlProofs` | `TypeCorrect` | `TypeOK` | – |
| | `MotorSafety` | `MotorSafe` | `NoForeignAck` |
| | `RouteSafety` | `RouteSafe` | `NoForeignAck` |
| | `DeadmanHolds` | `DeadmanBound` | `NoForeignAck` |
| | `LockHolds` | `LockLeftOnlyByReset` | `Prompt` |
| | `SequenceHolds` | `SequenceNeverRewinds` | – |
| | `GateImplemented` | `Spec => Gate!Spec` | both |
| `HostControlProofs` | `TypeCorrect` | `TypeOK` | – |
| | `OneDriverHolds` | `OneDriver` | `Orderly` |
| | `ManualKeepsMissionHolds` | `ManualKeepsMission` | `Orderly` |
| `CommandLinkProofs` | `TypeCorrect` | `TypeOK` | – |
| | `CommandsKeptApartHolds` | `CommandsKeptApart` | – |
| | `StopNotCancelledHolds` | `StopNotCancelled` | – |
| `HandshakeProofs` | `TypeCorrect` | `TypeOK` | – |
| | `SessionsAgreeHolds` | `SessionsAgree` | – |
| `RemoteBridgeProofs` | `TypeCorrect` | `TypeOK` | – |
| | `DriveHolds` | `DriveIsHeld` | – |
| | `ConsentHolds` | `StreamIsConsented` | – |
| `MissionProofs` | `TypeCorrect` | `TypeOK` | – |
| | `MissionMatches` | `MissionMatchesCar` | – |
| | `InOrderHolds` | `InOrder` | – |
| `FleetProofs` | `TypeCorrect` | `TypeOK` | – |
| | `BindingsHold` | `BindingsAgree` | – |
| | `SlotGivenOnceHolds` | `SlotGivenOnce` | – |
| `ParkingProofs` | `TypeCorrect` | `TypeOK` | – |
| | `VisitsMatchHolds` | `VisitsMatch` | – |
| | `RouteIsOwnHolds` | `RouteIsOwn` | – |
| | `EnvTypeCorrect` | `EnvTypeOK` | – |
| | `ShieldKeepsApart` | `ShieldHolds` | – |
| | `BooksAlwaysMatch` | `BooksMatchLot` | – |
| | `MaskAlwaysOpen` | `MaskNeverEmpty` | `WaitsOutlastWayIn` |
| | `EpisodeNeverStuck` | a full lot has a departure planned | – |
| | `NoCarIsLost` | `NoCarLost`, of a step | – |

Each module has one inductive invariant, a conjunction of named parts, a lemma
per action (or per class of actions that change the same things) saying that
the action keeps it, and theorems that read the property off it. TLC checked
every part of every invariant on the run of its component before it was proved.
None of the properties but the type invariants is inductive; what had to be
added says why the code is right.

### The vehicle task

*Type correctness* has a lemma for each handler and `TypeStep` over the
sections.

*Motor safety.* `MotorAuthority` is not inductive: a handler that leaves
MOVING keeps it only if the motor was watched, one that changes the mode only
if no target is left, a fault only if the output was made safe. `ContextSafe`
is the conjunction of these; a lemma per handler (`HandleStopSafe`, ...,
`CheckDirectTimeoutSafe`) and `ContextSafeStep` over the sections prove that it
is preserved. `LoopShape` says what the section of a pass implies for the bits
it still has to handle.

*The deadman.* `DeadmanBound` speaks of the task at rest; the step that ends a
pass is `DeadmanSection`, after which a driven motor has an age below the
timeout because `MovingIsWatched` makes the check's three conditions true.

*The lock.* `LinkInv` relates the connection, the notification bits and the
pass: a connection that the task has not seen is still up. Then a locked car
meets `TCP_CONNECTED` only after the `TCP_DOWN` before it, and every handler but
RESET keeps the lock (`AckStays`, `GeneralStays`, `SectionStays`, `LockStep`).

*The numbers.* `SequenceNeverRewinds` needs that a task in SYNCING which has a
session is one that was told HOLD (`SyncIsHeld`): only then does a HELLO_ACK
with a lower number meet an active session.

*The gate.* `phase` is a state function; `PhaseCases` turns it into facts about
the variables, `GateStep` maps each step to a step of `MotorGate` or a stutter,
from the invariants above in both states.

### Driving from the host

`HandOverInv` says for each place of each thread what its hand-over has
reached: past the join of the manual loop no manual loop lives
(`ManualAlive`), past the join of the scheduler no scheduler does
(`SchedulerAlive`), and the automatic driver has the authority only when the
mode says so or the hand-over that says it is at its last step (`AutoOwner`).
`OneHandOver` is where `Orderly` enters: while the operator's thread hands
over, the camera thread does not. Without it there can be two schedulers, or
one that runs on while the operator drives (section 2).

### The command link

`CommandsKeptApart` needs three things. `OneTypeEach`: there is one book of
what each number was given to, and every copy of a command, in the hand of a
caller or of the tick thread, outstanding, on the wire or in the car, stands in
it. `CarRemembers`: the car has answered nothing above the number it took last,
and knows how it answered that. `AnswerFirst`: in a session of which the car
dropped no reply, a command's own answer comes before any refusal that names it
as the last, or the command is not outstanding any more: this is why the
comparison of `acked_seq` alone does not take a STALE_SEQ for an answer.
`StopNotCancelled` is an action property; a lemma per action says what it can do
to an outstanding STOP.

### Connection and session

`SessionsAgree` needs what the car and the host each know of a connection that
is coming or going. `CleanStart`: a connection finds the car without a session
and without commands of the one before, for the task has seen the end of that,
and once it has, what is still queued has no effect. `OnlyHolds`: a connection
the host has neither closed nor registered, nor is about to, has been sent
nothing but HOLDs, which open no session. `HandshakeOpen`: a handshake under
way is of a connection neither closed nor registered, so a thread that was
overtaken cannot bring an older session back. A line the transmit task sends
late is of the connection it was built on (`CurrentLine`), because the
generation has changed otherwise.

### The remote-direct bridge

`LinkKept` says that the one open connection is the active one and that a
session belongs to it, `AckFirst` that a HELLO_ACK comes before every command
of its session, `Consented` that whoever says or believes REMOTE_DIRECT speaks
of a session whose car has accepted it, and `RequestStands` that a request
which may still be answered was made since the last STOP or RESET. The lemmas
are about the ways in which the session ends (`Neutral`, closing, replacing).

### The mission

`TypeOK` bounds the line to the car: nothing in the code limits it but that one
command is outstanding. `LineBound` says how: between two times that the
outstanding command is forgotten (a new route, a failure of the link) a WAIT can
take the place of another command once, so two messages for each. The bound
`TypeOK` had before the proof, two and one for each hold and failure, was right
for the constants of the run and wrong for larger ones. `LastOpen` says that
only the newest message can be open and is answered last, `CleanStart` that
nothing is on the way before the mission starts.

`MissionMatchesCar` and `InOrder` speak of the time before the link fails. They
follow from `LegInv`, which says how far the host and the car can be apart then.
`TargetKept`: the car has the current waypoint, or stands with the one before
and a WAYPOINT is on its way or about to be sent. `ReportsHeard`: a STATUS, on
its way or in hand, may be out of date only in one direction; a car that drives
was not reported to drive before it was reported to stand, and an answer that is
still open, like all behind it, is true of the car. `NotJudged`: from the
sending of a WAYPOINT or GO until the host has heard of the start, no arrival is
judged. With the two, the STATUS that ends SWITCHING was sent by a car that had
stopped for the WAIT, not by one that had not yet started. `JudgedAlone`: while
the camera thread judges, the receiving thread neither sends nor writes, a
refused command excepted, which makes the mission HELD. `AnswersHarmless`: no
answer makes the host plan a new route. The exception throughout is a receiving
thread that is about to send while another command is outstanding (`Doomed`): it
ends with a RuntimeError, and the car's target stays what it is, for nobody else
loads another. After a failure of the link this need not be so (section 4), so
the theorems have its absence as a condition, as the properties have.

### The fleet

`SlotGivenOnce` rests on `SlotOfTrack` (the slot of a track is taken and no
other track has it) and `SlotOfMission` (the slot of a mission is that of its
car's track), and the second holds of all cars but those in `revived`: the
missions the camera thread started after the resync of their car had dropped
them. The first attempt to prove it without that exception failed at the step
from the binding to the mission, and TLC then showed the two missions with one
slot (section 4). `InTurn` carries the pairing by the order of two queues.

### The parking service

`VisitsMatch` speaks of SQLite, where a transaction that has read holds what it
read: `ReadsHold` says for each statement of an entry what is still true,
`ExitsHold` that an exit has its record to itself on both databases. That
`recommend_spot` takes a vacant spot (`RecommendedVacant`) is proved from the
well-foundedness of the numbers, as it takes the least of them. `RouteIsOwn`
needs `RoutesLead`: the stored route of a car inside is that of its last visit,
and no request is about to store another.

### The slot allocation

`ShieldHolds` is not inductive: that the shield has looked at a route when it
began says nothing of the routes that begin later. `EnvInv` adds what the check
relies on. `WaysKept`: the table has an entry for every waypoint of every car
under way, so the shield sees the whole route, the part behind the car included
(its clipped entries are harmless, `Clipped`). `Movers`: a car on its way in
arrives before its stay is over, so the number of a car that departs is no
other car's (`DueIsAlone`), and the check that leaves out its own entries leaves
out nobody else's. `Owners` and `NoGhosts` are the two halves of
`BooksMatchLot`.

One step of the program changes the lot several times over: a car is assigned
(`AssignedListed`), the clock runs (`ElapsedBooks`), cars arrive (`MovedBooks`)
and depart one by one (`DepartedBooks`). The invariant is therefore stated of a
lot and of the set of the stays not yet over, `Books(L, P)`; in the middle of the
departures that is the new list and what is left of the old one. The loop itself
is a recursive function. `DepartedUpToIs` proves that it is what its equations
say, and `LoopStep` with `UpTo` that each car keeps `LoopInv`: an induction
carried out on a set of numbers, from the well-foundedness of the naturals, as
the induction theorems of the library take operators.

`NoCarLost` (a parked car stays listed or pulls out, in every step but a reset)
follows from the same loop: `LoopInv` says of each car gone through that it is in
the new list or on its way out (`Kept`). It is stated in the module of the
proofs; TLC checked it once on the constants of `allocation`, and no run repeats
that.

That the new car is a stranger (`FreshIdIs`) is the pigeonhole principle on the
numbers in use.

`MaskNeverEmpty` needs an argument about time. `FullLotAges` says that while the
lot is full, everything in the table but the stays of the parked cars on their
own slots is over the sooner the longer the policy has waited: `Within(T, P, b)`
bounds the end of an entry by the longest way to its waypoint, less `b`, and `b`
is the arrival time after the last assignment and the waits since. When no
action is left the waits are used up, and then by `WaitsOutlastWayIn` no entry
of another car reaches the exit route of the car the clock is run to
(`PastHorizon`, `WayIsFree`): it drives out, and its slot is free.

`WaitsOutlastWayIn` (`MaxConsecutiveWaits * WaitTime` and the shortest arrival
time add up to at least the way in and the margin) is a hypothesis of
the theorem, not an assumption of the module: with the defaults of
`parking_env.py` it is 5 + 0.8 against 5.5, but the training scripts may
override `wait_time` and `max_consecutive_waits`, and nothing in the code looks
at whether it still holds then. It is sufficient and close to necessary: TLC
finds the mask empty with one wait in the lot of the `allocation` run.

### Only model-checked

`KeyReleased`, `CarComesToRest`, `MissionEnds`, `DrivingEnds`, `StopLocks`,
`CommandsSettle`, `StopArrives`, `StopReaches` and `Synchronises`: liveness under
fairness, which is out of the prover's reach. Every invariant and every action
property of the runs is proved.

## 6. What is not modelled

- Parsing and formatting of protocol lines, socket I/O, PWM arithmetic, the
  encoder, start-up: sequential code without a decision of the models above.
- The control laws and the geometry of collisions and arrivals: floating point
  without a state of its own. What they decide is a choice in the models.
- The SET_MODE handshake of the AUTO_HOST session, the start of the READY shell
  against a resync, and the stop of the pipeline.
- One tick thread sending for all cars with blocking sends: a dead socket delays
  every car. `CommandLink` and `Handshake` have one car and sends never block.
- Camera heartbeats, creation of spots and cameras, the websocket push of the
  parking service.
- Two transports of the bridge at once (`remote-direct-bridge/server.py:65`).
- Vision, homography, dashboards, training, rewards, configuration, test
  doubles: image processing, display and floating-point learning.

## 7. Plan

Done: the ten component modules above, the motor gate, and the proofs of every
invariant and of the action properties of all of them. What is left, in this
order:

1. Proofs: what happens to a mission after the link has failed. A property that
   holds then has first to be stated (the car may still drive while the mission
   is HELD, and a parked car is planned anew).
2. `HostSession`: SET_MODE handshake, shells and resync of the AUTO_HOST
   session. Safety: never armed without the ACCEPTED of the present session.
3. Two cars under one tick thread with blocking sends.
4. Algorithms as operators over bounded inputs: actuator thresholds, segment
   distance, duty and dead zone.
