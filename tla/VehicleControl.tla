---------------------------- MODULE VehicleControl ----------------------------
(***************************************************************************)
(* The vehicle control task of the ESP32 firmware                          *)
(* (integrated/esp32_main/main/vehicle_control.c).                         *)
(*                                                                         *)
(* One task owns the vehicle state and the actuators.  The other tasks     *)
(* reach it in three ways only: notification bits that are coalesced until *)
(* the task wakes, latest-value slots (STOP, WAIT, DIRECT_CONTROL), and a  *)
(* bounded queue for every other command.  A pass of the task handles what *)
(* it finds in a fixed order, one mutex section at a time, and the other   *)
(* tasks keep running between the sections: one action per section.        *)
(*                                                                         *)
(* Data that no property tells apart is abstracted: a target is its route  *)
(* and waypoint number, a PWM duty is 0 or 1 (off, driving), a steering    *)
(* input is 0 or 1 (centred, turned), a command fingerprint is the content *)
(* it hashes, and time is counted in 50 ms waits of the task.              *)
(***************************************************************************)
EXTENDS Integers, Sequences

CONSTANTS
  Sessions,       \* session ids a host issues
  NoSession,      \* the empty session id
  BootId,         \* the boot_id of this boot
  AckBoots,       \* boot_ids that HELLO_ACKs may carry
  Inputs,         \* the protocol messages the host may send
  QueueLength,    \* COMMAND_QUEUE_LENGTH
  BatchSize,      \* general commands taken per pass (4 in the code)
  DirectTimeout,  \* DIRECT_CONTROL_TIMEOUT_MS in 50 ms waits
  GoWithoutPose,  \* DAY3_ALLOW_GO_WITHOUT_POSE
  Prompt          \* TRUE: a connection lives until the task has seen it

VehicleStates == {"BOOT", "WIFI_CONNECTING", "SYNCING", "READY", "MOVING",
                  "WAITING", "EMERGENCY_STOP", "COMM_TIMEOUT", "ERROR"}
Modes == {"MANUAL_SERIAL", "REMOTE_DIRECT", "WAYPOINT_AUTO"}
WaitReasons == {"NONE", "AWAITING_START", "REMOTE_WAIT", "COLLISION_RISK",
                "OBSTACLE", "REROUTING", "WAYPOINT_REACHED",
                "FINAL_WAYPOINT_REACHED", "OPERATOR_REQUEST", "POSE_TIMEOUT",
                "DIRECT_CONTROL_TIMEOUT"}
MessageTypes == {"INVALID", "HELLO_ACK", "WAYPOINT", "WAIT", "GO", "STOP",
                 "RESET", "SET_MODE", "DIRECT_CONTROL"}
HelloResults == {"INVALID", "READY_ALLOWED", "HOLD", "REJECTED"}
CommandResults == {"NONE", "ACCEPTED", "ALREADY_STOPPED", "INVALID_STATE",
                   "SESSION_MISMATCH", "SEQ_CONFLICT", "STALE_SEQ",
                   "TARGET_MISMATCH", "TARGET_NOT_LOADED",
                   "NEW_ROUTE_REQUIRED", "STALE_ROUTE", "POSE_REQUIRED",
                   "LOCKED_STATE", "PROTOCOL_ERROR", "HOLD", "REJECTED"}
ErrorCodes == {"", "BOOT_ID_MISMATCH", "HELLO_REJECTED"}
NotifyBits == {"STOP", "WAIT", "COMM_TIMEOUT", "TCP_CONNECTED", "TCP_DOWN",
               "DIRECT"}

SessionIds == Sessions \cup {NoSession}
Target == [route : Int, waypoint : Int]
NoTarget == [route |-> -1, waypoint |-> -1]
Output == [pwm : {0, 1}, steer : {0, 1}]
SafeOutput == [pwm |-> 0, steer |-> 0]

(* A parsed protocol line: protocol_message_t.                             *)
Message == [type : MessageTypes, session : SessionIds, seq : Nat,
            boot : AckBoots \cup {BootId}, verdict : HelloResults, start : Nat,
            target : Target, reason : WaitReasons, mode : Modes,
            control_seq : Nat, output : Output]

(* The struct after memset, and the marker of an empty slot.               *)
Blank == [type |-> "INVALID", session |-> NoSession, seq |-> 0,
          boot |-> BootId, verdict |-> "INVALID", start |-> 0,
          target |-> NoTarget, reason |-> "NONE", mode |-> "MANUAL_SERIAL",
          control_seq |-> 0, output |-> SafeOutput]

Fingerprint(m) == [type |-> m.type, target |-> m.target, reason |-> m.reason,
                   mode |-> m.mode]
Fingerprints == [type : MessageTypes, target : Target, reason : WaitReasons,
                 mode : Modes]
NoCommand == [fingerprint |-> Fingerprint(Blank), result |-> "NONE"]
NoReply == [result |-> "NONE", acked |-> 0, rejected |-> 0]

ASSUME SessionAssumption == NoSession \notin Sessions
ASSUME InputAssumption ==
  /\ Inputs \subseteq Message
  /\ \A m \in Inputs :
       /\ m.type # "INVALID"
       /\ m.type \notin {"HELLO_ACK", "DIRECT_CONTROL"} => m.seq > 0
       /\ m.type = "WAYPOINT" => m.target.route > 0 /\ m.target.waypoint > 0
       /\ m.type = "HELLO_ACK" => m.verdict # "INVALID"
ASSUME SizeAssumption ==
  /\ QueueLength \in Nat \ {0}
  /\ BatchSize \in Nat \ {0}
  /\ DirectTimeout \in Nat \ {0}
ASSUME SwitchAssumption == GoWithoutPose \in BOOLEAN /\ Prompt \in BOOLEAN
-----------------------------------------------------------------------------
VARIABLES
  (* the task's loop *)
  pc,                  \* section of the pass
  cur,                 \* notification bits this pass still has to handle
  left,                \* general commands this pass may still take
  (* the task's inputs, shared with the other tasks *)
  bits,                \* pending notification bits
  stop_slot, wait_slot, direct_slot,
  command_queue,
  link,                \* the communication task's TCP connection
  (* vehicle_context_t *)
  state, previous_state, pre_sync_state,
  mode,
  session_active, session_id, previous_session_id, sync_hold,
  last_processed_cmd_seq, last_command,
  target, resume_allowed, wait_reason,
  applied_control_seq, direct_active,
  age,                 \* waits since last_direct_apply_tick
  applied,             \* the applied outputs the snapshot reports
  error_code,
  (* outputs *)
  output,              \* what the motor and servo drivers emit
  reply                \* the STATUS queued by the last step

loopVars == <<pc, cur, left>>
inputVars == <<bits, stop_slot, wait_slot, command_queue, link>>
stateVars == <<state, previous_state>>
sessionVars == <<session_active, session_id, previous_session_id, sync_hold,
                 pre_sync_state>>
reliableVars == <<last_processed_cmd_seq, last_command>>
routeVars == <<target, resume_allowed, wait_reason>>
directVars == <<direct_slot, direct_active, age, applied>>

contextVars == <<stateVars, sessionVars, reliableVars, routeVars, directVars,
                 applied_control_seq, mode, error_code, output>>
vars == <<loopVars, inputVars, contextVars, reply>>

Init ==
  /\ pc = "boot" /\ cur = {} /\ left = 0
  /\ bits = {} /\ link = "down" /\ command_queue = <<>>
  /\ stop_slot = Blank /\ wait_slot = Blank /\ direct_slot = Blank
  /\ state = "BOOT" /\ previous_state = "BOOT" /\ pre_sync_state = "BOOT"
  /\ mode = "WAYPOINT_AUTO"
  /\ session_active = FALSE /\ sync_hold = FALSE
  /\ session_id = NoSession /\ previous_session_id = NoSession
  /\ last_processed_cmd_seq = 0 /\ last_command = NoCommand
  /\ target = NoTarget /\ resume_allowed = FALSE /\ wait_reason = "NONE"
  /\ applied_control_seq = 0 /\ direct_active = FALSE /\ age = 0
  /\ applied = SafeOutput /\ output = SafeOutput
  /\ error_code = "" /\ reply = NoReply
-----------------------------------------------------------------------------
(* Helpers that assign one group of the context each.                      *)

(* Mutants: a stop that leaves the servo; xTaskNotify that overwrites.     *)
MotorOnlyStop == output' = [output EXCEPT !.pwm = 0]
OverwriteBits(bit) == bits' = {bit}

SafeStop == output' = SafeOutput

Notify(bit) == bits' = bits \cup {bit}

SetState(next) ==
  /\ state' = next
  /\ previous_state' = IF next = state THEN previous_state ELSE state

(* Mutant: the target survives the clearing.                               *)
ClearReasonOnly ==
  UNCHANGED target /\ resume_allowed' = FALSE /\ wait_reason' = "NONE"

ClearTarget ==
  /\ target' = NoTarget
  /\ resume_allowed' = FALSE
  /\ wait_reason' = "NONE"

(* Mutant: the reported outputs are not reset.                             *)
InvalidateInputOnly ==
  direct_slot' = Blank /\ direct_active' = FALSE /\ age' = 0 /\ UNCHANGED applied

InvalidateDirect ==
  /\ direct_slot' = Blank
  /\ direct_active' = FALSE
  /\ age' = 0
  /\ applied' = SafeOutput

SessionMatches(s) == session_active /\ session_id = s

Status(result, rejected) ==
  reply' = [result |-> result, acked |-> last_processed_cmd_seq',
            rejected |-> rejected]
Silent == reply' = NoReply

(* Mutant: any other sequence number counts as a new command.              *)
BeginOtherSeq(m) == SessionMatches(m.session) /\ m.seq # last_processed_cmd_seq

(* begin_reliable_locked: TRUE when the command is new and may execute,    *)
(* otherwise Refuse answers it and nothing else changes.                   *)
BeginReliable(m) ==
  /\ SessionMatches(m.session)
  /\ m.seq > last_processed_cmd_seq

IsDuplicate(m) ==
  /\ m.seq = last_processed_cmd_seq
  /\ last_command # NoCommand
  /\ last_command.fingerprint = Fingerprint(m)

RefusalResult(m) ==
  IF ~SessionMatches(m.session) THEN "SESSION_MISMATCH"
  ELSE IF IsDuplicate(m) THEN last_command.result
  ELSE IF m.seq = last_processed_cmd_seq THEN "SEQ_CONFLICT"
  ELSE "STALE_SEQ"

Refuse(m) ==
  /\ UNCHANGED reliableVars
  /\ Status(RefusalResult(m),
            IF SessionMatches(m.session) /\ IsDuplicate(m) THEN 0 ELSE m.seq)

FinishReliable(m, result) ==
  /\ last_processed_cmd_seq' = m.seq
  /\ last_command' = [fingerprint |-> Fingerprint(m), result |-> result]
  /\ Status(result, 0)

LockStates == {"EMERGENCY_STOP", "ERROR"}
-----------------------------------------------------------------------------
(* Handlers: what one mutex section does to the context.                   *)

HandleTcpConnected ==
  /\ SafeStop
  /\ previous_session_id' = session_id
  /\ pre_sync_state' = state
  /\ session_active' = FALSE
  /\ sync_hold' = FALSE
  /\ session_id' = NoSession
  /\ mode' = "WAYPOINT_AUTO"
  /\ ClearTarget
  /\ InvalidateDirect
  /\ applied_control_seq' = 0
  /\ SetState("SYNCING")
  /\ Silent
  /\ UNCHANGED <<reliableVars, error_code>>

(* Mutant: a lock of the car that is synchronising is forgotten.           *)
AfterTimeoutNow == IF state \in LockStates THEN state ELSE "COMM_TIMEOUT"

AfterTimeout ==
  IF state \in LockStates THEN state
  ELSE IF state = "SYNCING" /\ pre_sync_state \in LockStates THEN pre_sync_state
  ELSE "COMM_TIMEOUT"

HandleCommTimeout ==
  /\ SafeStop
  /\ session_active' = FALSE
  /\ ClearTarget
  /\ InvalidateDirect
  /\ SetState(AfterTimeout)
  /\ UNCHANGED <<session_id, previous_session_id, sync_hold, pre_sync_state,
                 reliableVars, applied_control_seq, mode, error_code>>
  /\ Status("NONE", 0)

(* handle_hello_ack_locked, one operator per way out.                      *)
RefuseHelloAck(result) ==
  /\ UNCHANGED contextVars
  /\ Status(result, 0)

HelloBootMismatch ==
  /\ error_code' = "BOOT_ID_MISMATCH"
  /\ SetState("ERROR")
  /\ UNCHANGED <<sessionVars, reliableVars, routeVars, directVars,
                 applied_control_seq, mode, output>>
  /\ Status("PROTOCOL_ERROR", 0)

SeqBefore(start) == IF start > 0 THEN start - 1 ELSE 0

HelloReady(m) ==
  /\ session_id' = m.session
  /\ session_active' = TRUE
  /\ sync_hold' = FALSE
  /\ last_processed_cmd_seq' = SeqBefore(m.start)
  /\ last_command' = NoCommand
  /\ mode' = "WAYPOINT_AUTO"
  /\ ClearTarget
  /\ InvalidateDirect
  /\ applied_control_seq' = 0
  /\ error_code' = ""
  /\ SetState("READY")
  /\ UNCHANGED <<previous_session_id, pre_sync_state, output>>
  /\ Status("ACCEPTED", 0)

HelloHold(m) ==
  /\ session_id' = m.session
  /\ session_active' = TRUE
  /\ sync_hold' = TRUE
  /\ last_processed_cmd_seq' = SeqBefore(m.start)
  /\ UNCHANGED <<stateVars, previous_session_id, pre_sync_state, last_command,
                 routeVars, directVars, applied_control_seq, mode, error_code,
                 output>>
  /\ Status("HOLD", 0)

HelloRejected ==
  /\ error_code' = "HELLO_REJECTED"
  /\ session_active' = FALSE
  /\ SetState("ERROR")
  /\ UNCHANGED <<session_id, previous_session_id, sync_hold, pre_sync_state,
                 reliableVars, routeVars, directVars, applied_control_seq,
                 mode, output>>
  /\ Status("REJECTED", 0)

HandleHelloAck(m) ==
  IF m.boot # BootId THEN HelloBootMismatch
  ELSE IF state # "SYNCING" THEN RefuseHelloAck("INVALID_STATE")
  ELSE \/ /\ m.verdict = "READY_ALLOWED" /\ pre_sync_state \in LockStates
          /\ RefuseHelloAck("LOCKED_STATE")
       \/ /\ m.verdict = "READY_ALLOWED" /\ pre_sync_state \notin LockStates
          /\ HelloReady(m)
       \/ m.verdict = "HOLD" /\ HelloHold(m)
       \/ m.verdict = "REJECTED" /\ HelloRejected

RouteFailure(t) ==
  IF target = NoTarget THEN "NONE"
  ELSE IF t.route < target.route THEN "STALE_ROUTE"
  ELSE IF /\ wait_reason \in {"REROUTING", "FINAL_WAYPOINT_REACHED"}
          /\ t.route = target.route
       THEN "NEW_ROUTE_REQUIRED"
  ELSE IF /\ wait_reason = "WAYPOINT_REACHED"
          /\ t.route # target.route \/ t.waypoint <= target.waypoint
       THEN "TARGET_MISMATCH"
  ELSE "NONE"

WaypointResult(m) ==
  IF mode # "WAYPOINT_AUTO" \/ state \notin {"READY", "WAITING"}
  THEN "INVALID_STATE"
  ELSE IF RouteFailure(m.target) # "NONE" THEN RouteFailure(m.target)
  ELSE "ACCEPTED"

HandleWaypoint(m) ==
  /\ UNCHANGED <<sessionVars, directVars, applied_control_seq, mode,
                 error_code>>
  /\ \/ ~BeginReliable(m) /\ Refuse(m)
        /\ UNCHANGED <<stateVars, routeVars, output>>
     \/ /\ BeginReliable(m)
        /\ FinishReliable(m, WaypointResult(m))
        /\ IF WaypointResult(m) = "ACCEPTED"
           THEN /\ target' = m.target
                /\ resume_allowed' = TRUE
                /\ wait_reason' = "AWAITING_START"
                /\ SafeStop
                /\ SetState("WAITING")
           ELSE UNCHANGED <<stateVars, routeVars, output>>

GoResult(m) ==
  IF state # "WAITING" THEN "INVALID_STATE"
  ELSE IF target = NoTarget THEN "TARGET_NOT_LOADED"
  ELSE IF ~resume_allowed THEN "INVALID_STATE"
  ELSE IF m.target # target THEN "TARGET_MISMATCH"
  ELSE IF ~GoWithoutPose THEN "POSE_REQUIRED"
  ELSE "ACCEPTED"

(* GO writes no actuator: actuator_start_motion only logs.                 *)
HandleGo(m) ==
  /\ UNCHANGED <<sessionVars, directVars, target, resume_allowed,
                 applied_control_seq, mode, error_code, output>>
  /\ \/ ~BeginReliable(m) /\ Refuse(m) /\ UNCHANGED <<stateVars, wait_reason>>
     \/ /\ BeginReliable(m)
        /\ FinishReliable(m, GoResult(m))
        /\ IF GoResult(m) = "ACCEPTED"
           THEN wait_reason' = "NONE" /\ SetState("MOVING")
           ELSE UNCHANGED <<stateVars, wait_reason>>

(* Mutant: a reached waypoint may be resumed.                              *)
NeedsNewRoute(reason) == reason \in {"REROUTING", "FINAL_WAYPOINT_REACHED"}

NeedsNewWaypoint(reason) ==
  reason \in {"REROUTING", "WAYPOINT_REACHED", "FINAL_WAYPOINT_REACHED"}

NamesOtherTarget(m) ==
  /\ NeedsNewWaypoint(m.reason)
  /\ target # NoTarget
  /\ m.target # target

WaitResult(m) ==
  IF state \in {"MOVING", "WAITING"}
  THEN IF NamesOtherTarget(m) THEN "TARGET_MISMATCH" ELSE "ACCEPTED"
  ELSE IF state = "READY" THEN "ALREADY_STOPPED" ELSE "INVALID_STATE"

(* A new WAIT stops the car whatever it is going to answer.                *)
HandleWait(m) ==
  /\ UNCHANGED <<sessionVars, target, applied_control_seq, mode, error_code>>
  /\ \/ /\ ~BeginReliable(m)
        /\ Refuse(m)
        /\ UNCHANGED <<stateVars, resume_allowed, wait_reason, directVars,
                       output>>
     \/ /\ BeginReliable(m)
        /\ SafeStop
        /\ InvalidateDirect
        /\ FinishReliable(m, WaitResult(m))
        /\ IF state \in {"MOVING", "WAITING"}
           THEN /\ SetState("WAITING")
                /\ wait_reason' = IF NamesOtherTarget(m) THEN "REMOTE_WAIT"
                                  ELSE m.reason
                /\ resume_allowed' = (/\ resume_allowed
                                      /\ ~NeedsNewWaypoint(m.reason))
           ELSE UNCHANGED <<stateVars, wait_reason, resume_allowed>>

(* STOP acts before it looks at the session or at seq.                     *)
HandleStop(m) ==
  /\ SafeStop
  /\ ClearTarget
  /\ InvalidateDirect
  /\ SetState("EMERGENCY_STOP")
  /\ IF BeginReliable(m) THEN FinishReliable(m, "ACCEPTED") ELSE Refuse(m)
  /\ UNCHANGED <<sessionVars, applied_control_seq, mode, error_code>>

HoldReset == state = "SYNCING" /\ sync_hold /\ pre_sync_state \in LockStates

HandleReset(m) ==
  \/ /\ ~BeginReliable(m)
     /\ Refuse(m)
     /\ UNCHANGED <<sessionVars, stateVars, routeVars, directVars,
                    applied_control_seq, mode, error_code, output>>
  \/ /\ BeginReliable(m) /\ ~HoldReset /\ state \notin LockStates
     /\ FinishReliable(m, "INVALID_STATE")
     /\ UNCHANGED <<sessionVars, stateVars, routeVars, directVars,
                    applied_control_seq, mode, error_code, output>>
  \/ /\ BeginReliable(m) /\ (HoldReset \/ state \in LockStates)
     /\ FinishReliable(m, "ACCEPTED")
     /\ SafeStop
     /\ mode' = "WAYPOINT_AUTO"
     /\ ClearTarget
     /\ InvalidateDirect
     /\ applied_control_seq' = 0
     /\ error_code' = ""
     /\ IF HoldReset
        THEN /\ previous_session_id' = session_id
             /\ session_id' = NoSession
             /\ session_active' = FALSE
             /\ sync_hold' = FALSE
             /\ pre_sync_state' = "READY"
             /\ previous_state' = "READY"
             /\ state' = state
        ELSE SetState("READY") /\ UNCHANGED sessionVars

HandleSetMode(m) ==
  /\ UNCHANGED <<sessionVars, stateVars, routeVars, error_code, output>>
  /\ \/ ~BeginReliable(m) /\ Refuse(m)
        /\ UNCHANGED <<directVars, applied_control_seq, mode>>
     \/ /\ BeginReliable(m) /\ state # "READY"
        /\ FinishReliable(m, "INVALID_STATE")
        /\ UNCHANGED <<directVars, applied_control_seq, mode>>
     \/ /\ BeginReliable(m) /\ state = "READY"
        /\ FinishReliable(m, "ACCEPTED")
        /\ mode' = m.mode
        /\ InvalidateDirect
        /\ applied_control_seq' = IF m.mode = "REMOTE_DIRECT" THEN 0
                                  ELSE applied_control_seq

(* Mutant: the mode is not checked.                                        *)
DirectAppliesAnyMode(m) ==
  /\ SessionMatches(m.session)
  /\ state \in {"READY", "MOVING", "WAITING"}
  /\ m.control_seq > applied_control_seq

(* apply_direct_control_locked: the gate, and what passes it.              *)
DirectApplies(m) ==
  /\ SessionMatches(m.session)
  /\ mode = "REMOTE_DIRECT"
  /\ state \in {"READY", "MOVING", "WAITING"}
  /\ m.control_seq > applied_control_seq

(* Mutant: a zero throttle does not end MOVING.                            *)
DirectStateKept(pwm) == IF pwm > 0 THEN "MOVING" ELSE state

DirectState(pwm) ==
  IF pwm > 0 THEN "MOVING"
  ELSE IF state = "MOVING" THEN "READY" ELSE state

ApplyDirectControl(m) ==
  /\ direct_slot' = Blank
  /\ UNCHANGED <<sessionVars, reliableVars, target, resume_allowed, mode,
                 error_code>>
  /\ \/ /\ ~DirectApplies(m)
        /\ UNCHANGED <<stateVars, wait_reason, applied_control_seq,
                       direct_active, age, applied, output>>
        /\ Silent
     \/ /\ DirectApplies(m)
        /\ applied_control_seq' = m.control_seq
        /\ output' = m.output
        /\ applied' = m.output
        /\ age' = 0
        /\ direct_active' = TRUE
        /\ wait_reason' = "NONE"
        /\ SetState(DirectState(m.output.pwm))
        /\ IF state' # state THEN Status("NONE", 0) ELSE Silent

(* Mutant: one wait too late.                                              *)
DeadmanLate ==
  mode = "REMOTE_DIRECT" /\ state = "MOVING" /\ direct_active /\ age > DirectTimeout

DeadmanExpired ==
  /\ mode = "REMOTE_DIRECT"
  /\ state = "MOVING"
  /\ direct_active
  /\ age >= DirectTimeout

CheckDirectTimeout ==
  \/ ~DeadmanExpired /\ UNCHANGED contextVars /\ Silent
  \/ /\ DeadmanExpired
     /\ SafeStop
     /\ InvalidateDirect
     /\ wait_reason' = "DIRECT_CONTROL_TIMEOUT"
     /\ resume_allowed' = FALSE
     /\ SetState("WAITING")
     /\ UNCHANGED <<sessionVars, reliableVars, target, applied_control_seq,
                    mode, error_code>>
     /\ Status("NONE", 0)
-----------------------------------------------------------------------------
(* The pass of vehicle_control_task: STOP, COMM_TIMEOUT, TCP_DOWN,         *)
(* TCP_CONNECTED, WAIT, general commands, DIRECT_CONTROL, deadman.         *)

Boot ==
  /\ pc = "boot" /\ pc' = "idle"
  /\ SafeStop
  /\ SetState("WIFI_CONNECTING")
  /\ Silent
  /\ UNCHANGED <<cur, left, inputVars, sessionVars, reliableVars, routeVars,
                 directVars, applied_control_seq, mode, error_code>>

(* xTaskNotifyWait returns the pending bits, or none after 50 ms.          *)
WakeAfter(waited) ==
  /\ pc = "idle" /\ pc' = "bits"
  /\ bits = {} => waited = 1
  /\ cur' = bits /\ bits' = {}
  /\ age' = IF direct_active /\ age < DirectTimeout THEN age + waited ELSE age
  /\ UNCHANGED <<left, stop_slot, wait_slot, command_queue, link, stateVars,
                 sessionVars, reliableVars, routeVars, direct_slot,
                 direct_active, applied, applied_control_seq, mode,
                 error_code, output>>
  /\ Silent

Wake == \E waited \in {0, 1} : WakeAfter(waited)

(* STOP also drops the WAIT bit of the same pass.                          *)
StopSection ==
  /\ pc = "bits" /\ "STOP" \in cur
  /\ cur' = cur \ {"STOP", "WAIT"}
  /\ stop_slot' = Blank
  /\ IF stop_slot # Blank THEN HandleStop(stop_slot)
     ELSE UNCHANGED contextVars /\ Silent
  /\ UNCHANGED <<pc, left, bits, wait_slot, command_queue, link>>

(* TCP_DOWN runs the COMM_TIMEOUT handler in a section of its own.         *)
CommTimeoutSection ==
  /\ pc = "bits" /\ "STOP" \notin cur
  /\ \/ "COMM_TIMEOUT" \in cur /\ cur' = cur \ {"COMM_TIMEOUT"}
     \/ /\ "COMM_TIMEOUT" \notin cur /\ "TCP_DOWN" \in cur
        /\ cur' = cur \ {"TCP_DOWN"}
  /\ HandleCommTimeout
  /\ UNCHANGED <<pc, left, inputVars>>

TcpConnectedSection ==
  /\ pc = "bits" /\ cur \cap {"STOP", "COMM_TIMEOUT", "TCP_DOWN"} = {}
  /\ "TCP_CONNECTED" \in cur
  /\ cur' = cur \ {"TCP_CONNECTED"}
  /\ HandleTcpConnected
  /\ UNCHANGED <<pc, left, inputVars>>

WaitSection ==
  /\ pc = "bits" /\ "WAIT" \in cur /\ cur \subseteq {"WAIT", "DIRECT"}
  /\ cur' = cur \ {"WAIT"}
  /\ wait_slot' = Blank
  /\ IF wait_slot # Blank THEN HandleWait(wait_slot)
     ELSE UNCHANGED contextVars /\ Silent
  /\ UNCHANGED <<pc, left, bits, stop_slot, command_queue, link>>

BitsDone ==
  /\ pc = "bits" /\ cur \subseteq {"DIRECT"}
  /\ pc' = "general" /\ left' = BatchSize /\ cur' = {}
  /\ UNCHANGED <<inputVars, contextVars>>
  /\ Silent

ProcessGeneral(m) ==
  \/ m.type = "HELLO_ACK" /\ HandleHelloAck(m)
  \/ m.type = "WAYPOINT" /\ HandleWaypoint(m)
  \/ m.type = "GO" /\ HandleGo(m)
  \/ m.type = "RESET" /\ HandleReset(m)
  \/ m.type = "SET_MODE" /\ HandleSetMode(m)

GeneralSection ==
  /\ pc = "general" /\ left > 0 /\ command_queue # <<>>
  /\ left' = left - 1
  /\ command_queue' = Tail(command_queue)
  /\ ProcessGeneral(Head(command_queue))
  /\ UNCHANGED <<pc, cur, bits, stop_slot, wait_slot, link>>

(* The streamed input comes last, when the general loop has ended.         *)
DirectSection ==
  /\ pc = "general" /\ (left = 0 \/ command_queue = <<>>)
  /\ pc' = "deadman" /\ left' = 0
  /\ IF direct_slot # Blank THEN ApplyDirectControl(direct_slot)
     ELSE UNCHANGED contextVars /\ Silent
  /\ UNCHANGED <<cur, inputVars>>

DeadmanSection ==
  /\ pc = "deadman" /\ pc' = "idle"
  /\ CheckDirectTimeout
  /\ UNCHANGED <<cur, left, inputVars>>

Task == \/ Boot \/ Wake \/ StopSection \/ CommTimeoutSection
        \/ TcpConnectedSection \/ WaitSection \/ BitsDone \/ GeneralSection
        \/ DirectSection \/ DeadmanSection
-----------------------------------------------------------------------------
(* The communication task and the heartbeat watchdog, as far as they reach *)
(* the vehicle task: notifications and submitted messages.                 *)

(* A connection is retried after TCP_RECONNECT_DELAY_MS (1000 ms), twenty  *)
(* waits of the vehicle task, which has handled every earlier input by     *)
(* then.                                                                   *)
NotifyTcpConnected ==
  /\ link = "down" /\ link' = "up"
  /\ pc = "idle" /\ bits = {} /\ command_queue = <<>>
  /\ Notify("TCP_CONNECTED")
  /\ UNCHANGED <<loopVars, stop_slot, wait_slot, command_queue, contextVars>>
  /\ Silent

NotifyTcpDisconnected ==
  /\ link = "up" /\ link' = "down"
  /\ Prompt => "TCP_CONNECTED" \notin bits \cup cur
  /\ Notify("TCP_DOWN")
  /\ UNCHANGED <<loopVars, stop_slot, wait_slot, command_queue, contextVars>>
  /\ Silent

NotifyCommTimeout ==
  /\ session_active
  /\ "COMM_TIMEOUT" \notin bits
  /\ Notify("COMM_TIMEOUT")
  /\ UNCHANGED <<loopVars, stop_slot, wait_slot, command_queue, link,
                 contextVars>>
  /\ Silent

(* Mutant: room for one too many.                                          *)
EnqueueOneMore(m) ==
  command_queue' = IF Len(command_queue) <= QueueLength
                   THEN Append(command_queue, m) ELSE command_queue

(* A full queue drops the message.                                         *)
Enqueue(m) ==
  command_queue' = IF Len(command_queue) < QueueLength
                   THEN Append(command_queue, m) ELSE command_queue

(* vehicle_control_submit_message: a slot and its bit, or the queue.       *)
SubmitMessage(m) ==
  /\ link = "up"
  /\ UNCHANGED <<loopVars, link, stateVars, sessionVars, reliableVars,
                 routeVars, direct_active, age, applied, applied_control_seq,
                 mode, error_code, output>>
  /\ Silent
  /\ \/ /\ m.type = "STOP"
        /\ stop_slot' = m /\ Notify("STOP")
        /\ UNCHANGED <<wait_slot, direct_slot, command_queue>>
     \/ /\ m.type = "WAIT"
        /\ wait_slot' = m /\ Notify("WAIT")
        /\ UNCHANGED <<stop_slot, direct_slot, command_queue>>
     \/ /\ m.type = "DIRECT_CONTROL"
        /\ direct_slot' = m /\ Notify("DIRECT")
        /\ UNCHANGED <<stop_slot, wait_slot, command_queue>>
     \/ /\ m.type \notin {"STOP", "WAIT", "DIRECT_CONTROL"}
        /\ Enqueue(m)
        /\ UNCHANGED <<bits, stop_slot, wait_slot, direct_slot>>

Environment ==
  \/ NotifyTcpConnected \/ NotifyTcpDisconnected \/ NotifyCommTimeout
  \/ \E m \in Inputs : SubmitMessage(m)

Next == Task \/ Environment

Spec == Init /\ [][Next]_vars

(* The task has the highest priority of the firmware (10): it always runs  *)
(* on, and time passes however often it is notified.  Nothing is assumed   *)
(* of the host or of the network.                                          *)
FairSpec == Spec /\ WF_vars(Task) /\ SF_vars(WakeAfter(1))
-----------------------------------------------------------------------------
LoopType ==
  /\ pc \in {"boot", "idle", "bits", "general", "deadman"}
  /\ cur \subseteq NotifyBits
  /\ left \in 0..BatchSize

Slots == Inputs \cup {Blank}

InputType ==
  /\ bits \subseteq NotifyBits
  /\ link \in {"up", "down"}
  /\ stop_slot \in Slots /\ wait_slot \in Slots /\ direct_slot \in Slots
  /\ command_queue \in Seq(Inputs) /\ Len(command_queue) <= QueueLength

StateType ==
  /\ state \in VehicleStates /\ previous_state \in VehicleStates
  /\ mode \in Modes /\ error_code \in ErrorCodes

SessionType ==
  /\ session_id \in SessionIds /\ previous_session_id \in SessionIds
  /\ pre_sync_state \in VehicleStates

ReliableType ==
  /\ last_processed_cmd_seq \in Nat
  /\ last_command \in [fingerprint : Fingerprints, result : CommandResults]
  /\ reply \in [result : CommandResults, acked : Nat, rejected : Nat]

RouteType == target \in Target /\ wait_reason \in WaitReasons

DirectType ==
  /\ applied_control_seq \in Nat /\ age \in 0..DirectTimeout
  /\ applied \in Output /\ output \in Output

FlagType == {session_active, sync_hold, resume_allowed, direct_active} \subseteq
              BOOLEAN

TypeOK == /\ LoopType /\ InputType /\ StateType /\ SessionType
          /\ ReliableType /\ RouteType /\ DirectType /\ FlagType

(* The motor is driven only in state MOVING, in REMOTE_DIRECT, inside an   *)
(* active session, by an input the deadman is timing.  Eleven handlers     *)
(* write one of these five facts and only some of them write the motor.    *)
MotorAuthority ==
  output.pwm > 0 => /\ state = "MOVING"
                    /\ mode = "REMOTE_DIRECT"
                    /\ session_active
                    /\ direct_active

(* The converse the deadman relies on: check_direct_timeout_locked tests   *)
(* the state and direct_active, never the motor, so a MOVING car under     *)
(* REMOTE_DIRECT must always be one the deadman can see and stop.          *)
MovingIsWatched ==
  state = "MOVING" /\ mode = "REMOTE_DIRECT" => direct_active /\ output.pwm > 0

(* Every fault and every unsynchronised state has the motor at zero and    *)
(* the servo centred, and holds no target that a later GO could resume.    *)
FaultsAreSafe ==
  state \in {"EMERGENCY_STOP", "ERROR", "COMM_TIMEOUT", "SYNCING"} =>
    output = SafeOutput /\ target = NoTarget

(* The outputs the STATUS reports say driving exactly when the driver is.  *)
AppliedIsOutput == applied.pwm = output.pwm

(* The motor is driven with authority only, never out of the deadman's     *)
(* sight, never in a fault, and as reported; each of the four holds only   *)
(* because the others do.                                                  *)
MotorSafe == MotorAuthority /\ MovingIsWatched /\ FaultsAreSafe /\ AppliedIsOutput

(* Between two passes of the task the driven motor is younger than         *)
(* DIRECT_CONTROL_TIMEOUT_MS, whatever else the passes had to handle.      *)
DeadmanBound == pc = "idle" /\ output.pwm > 0 => age < DirectTimeout

(* GO does not look at the control mode.  It cannot start a car under      *)
(* REMOTE_DIRECT only because no handler leaves a target behind in READY,  *)
(* where SET_MODE is allowed.                                              *)
DirectHasNoRoute ==
  mode = "REMOTE_DIRECT" \/ state = "READY" => target = NoTarget

(* A car that may be resumed by a GO has a target, and is not one that a   *)
(* WAIT left waiting for a new waypoint.  Six handlers write one of the    *)
(* three facts.                                                            *)
ResumableHasTarget ==
  resume_allowed =>
    /\ target # NoTarget
    /\ wait_reason \notin {"REROUTING", "WAYPOINT_REACHED",
                           "FINAL_WAYPOINT_REACHED"}

(* A GO can start the car only towards a target that is still to be        *)
(* reached, and never under REMOTE_DIRECT.                                 *)
RouteSafe == DirectHasNoRoute /\ ResumableHasTarget

(* The firmware's own notion of a locked car: in a lock state, or          *)
(* synchronising after one.                                                *)
Locked == \/ state \in LockStates
          \/ state = "SYNCING" /\ pre_sync_state \in LockStates

ResetAccepted ==
  /\ reply'.result = "ACCEPTED"
  /\ last_command'.fingerprint.type = "RESET"

(* A locked car leaves the lock only in a step that accepts a RESET: no    *)
(* timeout, disconnection, reconnection, HELLO_ACK or stale command in any *)
(* order unlocks it.                                                       *)
LockLeftOnlyByReset == [][Locked /\ ~Locked' => ResetAccepted]_vars

(* Within a synchronised session the processed sequence number never goes  *)
(* back: no command of the session can be executed twice, whatever is      *)
(* repeated, delayed or answered late.                                     *)
SequenceNeverRewinds ==
  [][session_active /\ session_active' /\ ~sync_hold =>
       last_processed_cmd_seq' >= last_processed_cmd_seq]_vars

(* The phase of the abstract gate a state of the task stands for.          *)
GatePhase ==
  IF output.pwm > 0 THEN "driving"
  ELSE IF Locked THEN "locked"
  ELSE IF ~session_active \/ state = "SYNCING" THEN "unsynced"
  ELSE IF mode = "REMOTE_DIRECT" THEN "armed"
  ELSE "idle"

Gate == INSTANCE MotorGate WITH phase <- GatePhase

(* Every step of the task is a step of the gate or leaves it alone: the    *)
(* car drives only after a synchronised session and an accepted            *)
(* SET_MODE(REMOTE_DIRECT), and never straight after a fault, a RESET, a   *)
(* lost session or a new connection.                                       *)
ImplementsGate == Gate!Spec

(* A driven motor stops again: a stream that ends is cut by the deadman.   *)
(* Inputs is finite, so in the model every stream ends.                    *)
DrivingEnds == output.pwm > 0 ~> output.pwm = 0

(* A submitted STOP locks the car, whatever is queued or arrives with it.  *)
StopLocks == stop_slot # Blank ~> state = "EMERGENCY_STOP"
=============================================================================
