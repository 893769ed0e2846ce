------------------------- MODULE VehicleControlProofs -------------------------
(***************************************************************************)
(* Proofs about the vehicle control task, for every set of messages, every *)
(* queue length, batch size and timeout.                                   *)
(***************************************************************************)
EXTENDS VehicleControl, TLAPS

(* The constant records and the parts of a message have their types.       *)
LEMMA ConstantTypes ==
  /\ SafeOutput \in Output
  /\ NoTarget \in Target
  /\ NoCommand \in [fingerprint : Fingerprints, result : CommandResults]
  /\ NoReply \in [result : CommandResults, acked : Nat, rejected : Nat]
<1>1. SafeOutput \in Output
  BY DEF SafeOutput, Output
<1>2. NoTarget \in Target
  BY DEF NoTarget, Target
<1>3. Fingerprint(Blank) \in Fingerprints
  BY <1>2 DEF Blank, Fingerprint, Fingerprints, MessageTypes, WaitReasons, Modes
<1>4. NoCommand \in [fingerprint : Fingerprints, result : CommandResults]
  BY <1>3 DEF NoCommand, CommandResults
<1>5. NoReply \in [result : CommandResults, acked : Nat, rejected : Nat]
  BY DEF NoReply, CommandResults
<1>6. QED
  BY <1>1, <1>2, <1>4, <1>5

LEMMA InputTypes ==
  ASSUME NEW m \in Inputs
  PROVE  /\ m.session \in SessionIds /\ m.seq \in Nat /\ m.start \in Nat
         /\ m.target \in Target /\ m.reason \in WaitReasons /\ m.mode \in Modes
         /\ m.control_seq \in Nat /\ m.output \in Output
         /\ Fingerprint(m) \in Fingerprints
  BY InputAssumption DEF Message, Fingerprint, Fingerprints

LEMMA InitType == Init => TypeOK
<1> SUFFICES ASSUME Init PROVE TypeOK
  OBVIOUS
<1>1. LoopType
  <2>1. pc = "boot" /\ cur = {} /\ left = 0
    BY Zenon DEF Init
  <2>2. QED
    BY <2>1, SizeAssumption DEF LoopType
<1>2. InputType
  <2>1. /\ bits = {} /\ link = "down" /\ command_queue = <<>>
        /\ stop_slot = Blank /\ wait_slot = Blank /\ direct_slot = Blank
    BY Zenon DEF Init
  <2>2. QED
    BY <2>1, SizeAssumption DEF InputType, Slots
<1>3. StateType
  BY DEF Init, StateType, VehicleStates, Modes, ErrorCodes
<1>4. SessionType
  BY DEF Init, SessionType, SessionIds, VehicleStates
<1>5. ReliableType
  BY ConstantTypes DEF Init, ReliableType
<1>6. RouteType
  BY ConstantTypes DEF Init, RouteType, WaitReasons
<1>7. DirectType
  <2>1. applied_control_seq = 0 /\ age = 0
        /\ applied = SafeOutput /\ output = SafeOutput
    BY Zenon DEF Init
  <2>2. QED
    BY <2>1, ConstantTypes, SizeAssumption DEF DirectType
<1>8. FlagType
  BY Zenon DEF Init, FlagType
<1>9. QED
  BY <1>1, <1>2, <1>3, <1>4, <1>5, <1>6, <1>7, <1>8 DEF TypeOK
-----------------------------------------------------------------------------
(* The answers to a reliable command are well typed.                       *)
LEMMA RefuseType ==
  ASSUME TypeOK, NEW m \in Inputs, Refuse(m)
  PROVE  ReliableType'
<1>1. RefusalResult(m) \in CommandResults
  BY DEF TypeOK, ReliableType, RefusalResult, CommandResults
<1>2. last_processed_cmd_seq' \in Nat
  BY DEF TypeOK, ReliableType, Refuse, reliableVars
<1>3. last_command' \in [fingerprint : Fingerprints, result : CommandResults]
  BY DEF TypeOK, ReliableType, Refuse, reliableVars
<1>4. reply' \in [result : CommandResults, acked : Nat, rejected : Nat]
  BY <1>1, <1>2, InputTypes DEF Refuse, Status
<1>5. QED
  BY <1>2, <1>3, <1>4 DEF ReliableType

LEMMA FinishType ==
  ASSUME NEW m \in Inputs, NEW r \in CommandResults, FinishReliable(m, r)
  PROVE  ReliableType'
  BY InputTypes DEF FinishReliable, Status, ReliableType

LEMMA ResultTypes ==
  ASSUME NEW m
  PROVE  /\ WaypointResult(m) \in CommandResults
         /\ GoResult(m) \in CommandResults
         /\ WaitResult(m) \in CommandResults
<1>1. RouteFailure(m.target) \in CommandResults
  BY DEF RouteFailure, CommandResults
<1>2. WaypointResult(m) \in CommandResults
  BY <1>1 DEF WaypointResult, CommandResults
<1>3. GoResult(m) \in CommandResults
  BY DEF GoResult, CommandResults
<1>4. WaitResult(m) \in CommandResults
  BY DEF WaitResult, CommandResults
<1>5. QED
  BY <1>2, <1>3, <1>4

(* A step without a command leaves the reliable group well typed.          *)
LEMMA QuietType ==
  ASSUME TypeOK, UNCHANGED reliableVars,
         NEW r \in CommandResults, Status(r, 0) \/ Silent
  PROVE  ReliableType'
  BY ConstantTypes
  DEF TypeOK, ReliableType, Status, Silent, reliableVars

(* What the handlers write.                                                *)
ContextType == /\ StateType /\ SessionType /\ ReliableType
               /\ RouteType /\ DirectType /\ FlagType /\ direct_slot \in Slots

LEMMA SameContextType ==
  ASSUME TypeOK, UNCHANGED contextVars, ReliableType'
  PROVE  ContextType'
<1> USE DEF TypeOK, ContextType, contextVars, stateVars, sessionVars,
            reliableVars, routeVars, directVars
<1>1. StateType' /\ SessionType' BY DEF StateType, SessionType
<1>2. RouteType' BY DEF RouteType
<1>3. DirectType' BY DEF DirectType
<1>4. FlagType' BY Zenon DEF FlagType
<1>5. direct_slot' \in Slots BY DEF InputType
<1>6. QED BY <1>1, <1>2, <1>3, <1>4, <1>5

LEMMA CentredType ==
  ASSUME age' = 0, applied' = SafeOutput, output' \in Output,
         applied_control_seq' = 0
  PROVE  DirectType'
  BY ConstantTypes, SizeAssumption DEF DirectType

LEMMA HandleStopType ==
  ASSUME TypeOK, NEW m \in Inputs, HandleStop(m)
  PROVE  ContextType'
<1> USE DEF TypeOK, HandleStop, SafeStop, SetState, ClearTarget,
            InvalidateDirect, sessionVars
<1>1. StateType' BY DEF StateType, VehicleStates
<1>2. SessionType' BY DEF SessionType
<1>3. ReliableType'
  BY RefuseType, FinishType DEF CommandResults
<1>4. RouteType' BY ConstantTypes DEF RouteType, WaitReasons
<1>5. DirectType' BY ConstantTypes, SizeAssumption DEF DirectType
<1>6. FlagType' BY Zenon DEF FlagType
<1>7. direct_slot' \in Slots BY DEF Slots
<1>8. QED
  BY <1>1, <1>2, <1>3, <1>4, <1>5, <1>6, <1>7 DEF ContextType
LEMMA HandleTcpConnectedType ==
  ASSUME TypeOK, HandleTcpConnected
  PROVE  ContextType'
<1> USE DEF TypeOK, HandleTcpConnected,
            SafeStop, SetState, ClearTarget, InvalidateDirect
<1>1. StateType' BY DEF StateType, VehicleStates, Modes, ErrorCodes
<1>2. SessionType'
  <2>1. /\ session_id' = NoSession /\ previous_session_id' = session_id
        /\ pre_sync_state' = state
    BY Zenon
  <2>2. QED
    BY <2>1 DEF SessionType, SessionIds, StateType
<1>3. ReliableType'
  BY QuietType DEF CommandResults
<1>4. RouteType' BY ConstantTypes DEF RouteType, WaitReasons
<1>5. DirectType' BY ConstantTypes, SizeAssumption DEF DirectType
<1>6. FlagType' BY Zenon DEF FlagType
<1>7. direct_slot' \in Slots BY DEF InputType, Slots
<1>8. QED
  BY <1>1, <1>2, <1>3, <1>4, <1>5, <1>6, <1>7 DEF ContextType

LEMMA HandleCommTimeoutType ==
  ASSUME TypeOK, HandleCommTimeout
  PROVE  ContextType'
<1> USE DEF TypeOK, HandleCommTimeout, AfterTimeout,
            SafeStop, SetState, ClearTarget, InvalidateDirect
<1>1. StateType'
  <2>1. AfterTimeout \in VehicleStates
    BY DEF StateType, SessionType, VehicleStates
  <2>2. QED
    BY <2>1 DEF StateType, AfterTimeout
<1>2. SessionType' BY DEF SessionType, SessionIds, VehicleStates
<1>3. ReliableType'
  BY QuietType DEF CommandResults, reliableVars
<1>4. RouteType' BY ConstantTypes DEF RouteType, WaitReasons
<1>5. DirectType' BY ConstantTypes, SizeAssumption DEF DirectType
<1>6. FlagType' BY Zenon DEF FlagType
<1>7. direct_slot' \in Slots BY DEF InputType, Slots
<1>8. QED
  BY <1>1, <1>2, <1>3, <1>4, <1>5, <1>6, <1>7 DEF ContextType

LEMMA HandleWaypointType ==
  ASSUME TypeOK, NEW m \in Inputs, HandleWaypoint(m)
  PROVE  ContextType'
<1> USE DEF TypeOK, HandleWaypoint, SafeStop, SetState,
            sessionVars, stateVars, routeVars,
            directVars
<1>1. StateType' BY DEF StateType, VehicleStates, Modes, ErrorCodes
<1>2. SessionType' BY InputTypes DEF SessionType, SessionIds, VehicleStates
<1>3. ReliableType'
  BY RefuseType, FinishType, ResultTypes
<1>4. RouteType' BY ConstantTypes, InputTypes DEF RouteType, WaitReasons
<1>5. DirectType' BY ConstantTypes, InputTypes, SizeAssumption DEF DirectType
<1>6. FlagType' BY Zenon DEF FlagType
<1>7. direct_slot' \in Slots BY DEF InputType, Slots
<1>8. QED
  BY <1>1, <1>2, <1>3, <1>4, <1>5, <1>6, <1>7 DEF ContextType

LEMMA HandleGoType ==
  ASSUME TypeOK, NEW m \in Inputs, HandleGo(m)
  PROVE  ContextType'
<1> USE DEF TypeOK, HandleGo, SetState, sessionVars, stateVars, routeVars,
            directVars
<1>1. StateType' BY DEF StateType, VehicleStates, Modes, ErrorCodes
<1>2. SessionType' BY InputTypes DEF SessionType, SessionIds, VehicleStates
<1>3. ReliableType'
  BY RefuseType, FinishType, ResultTypes
<1>4. RouteType' BY ConstantTypes, InputTypes DEF RouteType, WaitReasons
<1>5. DirectType' BY ConstantTypes, InputTypes, SizeAssumption DEF DirectType
<1>6. FlagType' BY Zenon DEF FlagType
<1>7. direct_slot' \in Slots BY DEF InputType, Slots
<1>8. QED
  BY <1>1, <1>2, <1>3, <1>4, <1>5, <1>6, <1>7 DEF ContextType

LEMMA HandleWaitType ==
  ASSUME TypeOK, NEW m \in Inputs, HandleWait(m)
  PROVE  ContextType'
<1> USE DEF TypeOK, HandleWait,
            SafeStop, SetState, ClearTarget, InvalidateDirect,
            sessionVars, stateVars, routeVars,
            directVars
<1>1. StateType' BY DEF StateType, VehicleStates, Modes, ErrorCodes
<1>2. SessionType' BY InputTypes DEF SessionType, SessionIds, VehicleStates
<1>3. ReliableType'
  BY RefuseType, FinishType, ResultTypes
<1>4. RouteType' BY ConstantTypes, InputTypes DEF RouteType, WaitReasons
<1>5. DirectType'
  <2>1. CASE ~BeginReliable(m)
    BY <2>1 DEF DirectType
  <2>2. CASE BeginReliable(m)
    BY <2>2, ConstantTypes, SizeAssumption DEF DirectType
  <2>3. QED
    BY <2>1, <2>2
<1>6. FlagType' BY Zenon DEF FlagType
<1>7. direct_slot' \in Slots BY DEF InputType, Slots
<1>8. QED
  BY <1>1, <1>2, <1>3, <1>4, <1>5, <1>6, <1>7 DEF ContextType

LEMMA HandleResetType ==
  ASSUME TypeOK, NEW m \in Inputs, HandleReset(m)
  PROVE  ContextType'
<1> USE DEF TypeOK, HandleReset,
            SafeStop, SetState, ClearTarget, InvalidateDirect,
            sessionVars, stateVars, routeVars,
            directVars
<1>1. StateType' BY DEF StateType, VehicleStates, Modes, ErrorCodes
<1>2. SessionType' BY InputTypes DEF SessionType, SessionIds, VehicleStates
<1>3. ReliableType'
  BY RefuseType, FinishType DEF CommandResults
<1>4. RouteType' BY ConstantTypes, InputTypes DEF RouteType, WaitReasons
<1>5. DirectType'
  <2>1. CASE UNCHANGED <<directVars, applied_control_seq, output>>
    BY <2>1 DEF DirectType
  <2>2. CASE SafeStop /\ InvalidateDirect /\ applied_control_seq' = 0
    BY <2>2, ConstantTypes, CentredType, Zenon DEF SafeStop
  <2>3. QED
    BY <2>1, <2>2, Zenon
<1>6. FlagType' BY Zenon DEF FlagType
<1>7. direct_slot' \in Slots BY DEF InputType, Slots
<1>8. QED
  BY <1>1, <1>2, <1>3, <1>4, <1>5, <1>6, <1>7 DEF ContextType

LEMMA HandleSetModeType ==
  ASSUME TypeOK, NEW m \in Inputs, HandleSetMode(m)
  PROVE  ContextType'
<1> USE DEF TypeOK, HandleSetMode, InvalidateDirect,
            sessionVars, stateVars, routeVars,
            directVars
<1>1. StateType'
  <2>1. mode' = mode \/ mode' = m.mode
    BY Zenon
  <2>2. QED
    BY <2>1, InputTypes DEF StateType
<1>2. SessionType' BY InputTypes DEF SessionType, SessionIds, VehicleStates
<1>3. ReliableType'
  BY RefuseType, FinishType DEF CommandResults
<1>4. RouteType' BY ConstantTypes, InputTypes DEF RouteType, WaitReasons
<1>5. DirectType' BY ConstantTypes, InputTypes, SizeAssumption DEF DirectType
<1>6. FlagType' BY Zenon DEF FlagType
<1>7. direct_slot' \in Slots BY DEF InputType, Slots
<1>8. QED
  BY <1>1, <1>2, <1>3, <1>4, <1>5, <1>6, <1>7 DEF ContextType

LEMMA ApplyDirectControlType ==
  ASSUME TypeOK, NEW m \in Inputs, ApplyDirectControl(m)
  PROVE  ContextType'
<1> USE DEF TypeOK, ApplyDirectControl, DirectState,
            SetState, sessionVars, stateVars, routeVars,
            directVars
<1>1. StateType' BY DEF StateType, VehicleStates, Modes, ErrorCodes
<1>2. SessionType' BY InputTypes DEF SessionType, SessionIds, VehicleStates
<1>3. ReliableType'
  BY QuietType DEF CommandResults
<1>4. RouteType' BY ConstantTypes, InputTypes DEF RouteType, WaitReasons
<1>5. DirectType' BY ConstantTypes, InputTypes, SizeAssumption DEF DirectType
<1>6. FlagType' BY Zenon DEF FlagType
<1>7. direct_slot' \in Slots BY DEF InputType, Slots
<1>8. QED
  BY <1>1, <1>2, <1>3, <1>4, <1>5, <1>6, <1>7 DEF ContextType

LEMMA CheckDirectTimeoutType ==
  ASSUME TypeOK, CheckDirectTimeout
  PROVE  ContextType'
<1> USE DEF TypeOK, CheckDirectTimeout,
            SafeStop, SetState, ClearTarget, InvalidateDirect, contextVars,
            sessionVars, stateVars, routeVars,
            directVars
<1>1. StateType' BY DEF StateType, VehicleStates, Modes, ErrorCodes
<1>2. SessionType' BY DEF SessionType, SessionIds, VehicleStates
<1>3. ReliableType'
  BY QuietType DEF CommandResults
<1>4. RouteType' BY ConstantTypes DEF RouteType, WaitReasons
<1>5. DirectType' BY ConstantTypes, SizeAssumption DEF DirectType
<1>6. FlagType' BY Zenon DEF FlagType
<1>7. direct_slot' \in Slots BY DEF InputType, Slots
<1>8. QED
  BY <1>1, <1>2, <1>3, <1>4, <1>5, <1>6, <1>7 DEF ContextType
LEMMA SessionSeqType ==
  ASSUME NEW m \in Inputs, last_processed_cmd_seq' = SeqBefore(m.start),
         last_command' \in [fingerprint : Fingerprints, result : CommandResults],
         NEW r \in CommandResults, Status(r, 0)
  PROVE  ReliableType'
  BY InputTypes DEF ReliableType, SeqBefore, Status

LEMMA HandleHelloAckType ==
  ASSUME TypeOK, NEW m \in Inputs, HandleHelloAck(m)
  PROVE  ContextType'
<1> USE DEF TypeOK, SetState, stateVars, routeVars, directVars, sessionVars
<1>1. CASE HelloBootMismatch
  <2> USE <1>1 DEF HelloBootMismatch
  <2>1. StateType' BY DEF StateType, VehicleStates, ErrorCodes
  <2>2. SessionType' BY DEF SessionType
  <2>3. ReliableType' BY QuietType DEF CommandResults
  <2>4. RouteType' /\ DirectType' BY DEF RouteType, DirectType
  <2>5. FlagType' BY Zenon DEF FlagType
  <2>6. direct_slot' \in Slots BY DEF InputType
  <2>7. QED BY <2>1, <2>2, <2>3, <2>4, <2>5, <2>6 DEF ContextType
<1>2. ASSUME NEW r \in CommandResults, RefuseHelloAck(r)
      PROVE  ContextType'
  <2>1. ReliableType'
    BY <1>2, QuietType DEF RefuseHelloAck, contextVars, reliableVars
  <2>2. QED
    BY <1>2, <2>1, SameContextType DEF RefuseHelloAck
<1>3. CASE HelloReady(m)
  <2> USE <1>3 DEF HelloReady
  <2>1. StateType' BY DEF StateType, VehicleStates, Modes, ErrorCodes
  <2>2. SessionType' BY InputTypes DEF SessionType
  <2>3. ReliableType'
    <3>1. last_processed_cmd_seq' = SeqBefore(m.start)
          /\ last_command' = NoCommand /\ Status("ACCEPTED", 0)
      BY Zenon
    <3>2. "ACCEPTED" \in CommandResults
      BY DEF CommandResults
    <3>3. QED
      BY <3>1, <3>2, ConstantTypes, SessionSeqType, Zenon
  <2>4. RouteType' BY ConstantTypes DEF RouteType, ClearTarget, WaitReasons
  <2>5. DirectType'
    <3>1. output' = output /\ output \in Output
      BY Zenon DEF DirectType
    <3>2. age' = 0 /\ applied' = SafeOutput /\ applied_control_seq' = 0
      BY Zenon DEF InvalidateDirect
    <3>3. QED
      BY <3>1, <3>2, CentredType, Zenon
  <2>6. FlagType' BY Zenon DEF FlagType, ClearTarget, InvalidateDirect
  <2>7. direct_slot' \in Slots BY DEF InvalidateDirect, Slots
  <2>8. QED BY <2>1, <2>2, <2>3, <2>4, <2>5, <2>6, <2>7 DEF ContextType
<1>4. CASE HelloHold(m)
  <2> USE <1>4 DEF HelloHold
  <2>1. StateType' BY DEF StateType
  <2>2. SessionType' BY InputTypes DEF SessionType
  <2>3. ReliableType'
    <3>1. last_processed_cmd_seq' = SeqBefore(m.start)
          /\ last_command' = last_command /\ Status("HOLD", 0)
      BY Zenon
    <3>2. QED
      BY <3>1, InputTypes DEF ReliableType, SeqBefore, Status, CommandResults
  <2>4. RouteType' /\ DirectType' BY DEF RouteType, DirectType
  <2>5. FlagType' BY Zenon DEF FlagType
  <2>6. direct_slot' \in Slots BY DEF InputType
  <2>7. QED BY <2>1, <2>2, <2>3, <2>4, <2>5, <2>6 DEF ContextType
<1>5. CASE HelloRejected
  <2> USE <1>5 DEF HelloRejected
  <2>1. StateType' BY DEF StateType, VehicleStates, ErrorCodes
  <2>2. SessionType' BY DEF SessionType
  <2>3. ReliableType' BY QuietType DEF CommandResults
  <2>4. RouteType' /\ DirectType' BY DEF RouteType, DirectType
  <2>5. FlagType' BY Zenon DEF FlagType
  <2>6. direct_slot' \in Slots BY DEF InputType
  <2>7. QED BY <2>1, <2>2, <2>3, <2>4, <2>5, <2>6 DEF ContextType
<1>6. QED
  BY <1>1, <1>2, <1>3, <1>4, <1>5 DEF HandleHelloAck, CommandResults
-----------------------------------------------------------------------------
(* The sections of a pass and the environment.                             *)

LEMMA QuietContextType ==
  ASSUME TypeOK, UNCHANGED contextVars, Silent
  PROVE  ContextType'
  BY SameContextType, QuietType DEF contextVars, reliableVars, CommandResults

LEMMA TypeFromParts ==
  ASSUME LoopType', InputType', ContextType'
  PROVE  TypeOK'
  BY DEF TypeOK, ContextType

LEMMA SameInputType ==
  ASSUME TypeOK, UNCHANGED inputVars, ContextType'
  PROVE  InputType'
  BY DEF TypeOK, ContextType, InputType, inputVars

LEMMA TypeStep == TypeOK /\ [Next]_vars => TypeOK'
<1> SUFFICES ASSUME TypeOK, [Next]_vars PROVE TypeOK'
  OBVIOUS
<1> USE DEF TypeOK
<1>1. CASE Boot
  <2> USE <1>1 DEF Boot
  <2>1. LoopType' BY DEF LoopType
  <2>2. StateType' BY DEF StateType, SetState, VehicleStates
  <2>3. SessionType' BY DEF SessionType, sessionVars
  <2>4. ReliableType' BY QuietType DEF CommandResults
  <2>5. RouteType' /\ DirectType'
    BY ConstantTypes DEF RouteType, DirectType, routeVars, directVars, SafeStop
  <2>6. FlagType' BY Zenon DEF FlagType, sessionVars, routeVars, directVars
  <2>7. InputType' BY DEF InputType, inputVars, directVars
  <2>8. QED
    BY <2>1, <2>2, <2>3, <2>4, <2>5, <2>6, <2>7
<1>2. CASE Wake
  <2>1. PICK waited \in {0, 1} : WakeAfter(waited)
    BY <1>2 DEF Wake
  <2> USE <2>1 DEF WakeAfter
  <2>2. LoopType' BY DEF LoopType, InputType
  <2>3. StateType' /\ SessionType' /\ RouteType'
    BY DEF StateType, SessionType, RouteType, stateVars, sessionVars, routeVars
  <2>4. ReliableType' BY QuietType DEF CommandResults
  <2>5. DirectType'
    <3>1. /\ (age' = age + waited /\ age < DirectTimeout) \/ age' = age
          /\ applied' = applied /\ output' = output
          /\ applied_control_seq' = applied_control_seq
      BY Zenon
    <3>2. QED
      BY <3>1, SizeAssumption DEF DirectType
  <2>6. FlagType' BY Zenon DEF FlagType, sessionVars, routeVars
  <2>7. InputType' BY DEF InputType
  <2>8. QED
    BY <2>2, <2>3, <2>4, <2>5, <2>6, <2>7
<1>3. CASE StopSection
  <2> USE <1>3 DEF StopSection
  <2>1. LoopType' BY DEF LoopType
  <2>2. ContextType'
    <3>1. CASE stop_slot # Blank
      BY <3>1, HandleStopType DEF InputType, Slots
    <3>2. CASE stop_slot = Blank
      BY <3>2, QuietContextType
    <3>3. QED BY <3>1, <3>2
  <2>3. InputType' BY <2>2 DEF InputType, ContextType, Slots
  <2>4. QED BY <2>1, <2>2, <2>3, TypeFromParts
<1>4. CASE CommTimeoutSection
  <2>1. LoopType' BY <1>4 DEF CommTimeoutSection, LoopType
  <2>2. ContextType' BY <1>4, HandleCommTimeoutType DEF CommTimeoutSection
  <2>3. InputType' BY <1>4, <2>2, SameInputType DEF CommTimeoutSection
  <2>4. QED BY <2>1, <2>2, <2>3, TypeFromParts
<1>5. CASE TcpConnectedSection
  <2>1. LoopType' BY <1>5 DEF TcpConnectedSection, LoopType
  <2>2. ContextType' BY <1>5, HandleTcpConnectedType DEF TcpConnectedSection
  <2>3. InputType' BY <1>5, <2>2, SameInputType DEF TcpConnectedSection
  <2>4. QED BY <2>1, <2>2, <2>3, TypeFromParts
<1>6. CASE WaitSection
  <2> USE <1>6 DEF WaitSection
  <2>1. LoopType' BY DEF LoopType
  <2>2. ContextType'
    <3>1. CASE wait_slot # Blank
      BY <3>1, HandleWaitType DEF InputType, Slots
    <3>2. CASE wait_slot = Blank
      BY <3>2, QuietContextType
    <3>3. QED BY <3>1, <3>2
  <2>3. InputType' BY <2>2 DEF InputType, ContextType, Slots
  <2>4. QED BY <2>1, <2>2, <2>3, TypeFromParts
<1>7. CASE BitsDone
  <2>1. LoopType' BY <1>7, SizeAssumption DEF BitsDone, LoopType
  <2>2. ContextType' BY <1>7, QuietContextType DEF BitsDone
  <2>3. InputType' BY <1>7, <2>2, SameInputType DEF BitsDone
  <2>4. QED BY <2>1, <2>2, <2>3, TypeFromParts
<1>8. CASE GeneralSection
  <2> USE DEF GeneralSection
  <2>1. LoopType'
    <3>1. pc' = pc /\ cur' = cur /\ left > 0 /\ left' = left - 1
      BY <1>8, Zenon
    <3>2. QED
      BY <3>1, SizeAssumption DEF LoopType
  <2>2. /\ Head(command_queue) \in Inputs
        /\ command_queue' \in Seq(Inputs)
        /\ Len(command_queue') <= QueueLength
    BY <1>8, SizeAssumption DEF InputType
  <2>3. ContextType'
    <3> DEFINE m == Head(command_queue)
    <3>1. m \in Inputs /\ ProcessGeneral(m)
      BY <1>8, <2>2
    <3> HIDE DEF m
    <3>2. QED
      BY <3>1, HandleHelloAckType, HandleWaypointType, HandleGoType,
         HandleResetType, HandleSetModeType DEF ProcessGeneral
  <2>4. InputType' BY <1>8, <2>2, <2>3 DEF InputType, ContextType
  <2>5. QED BY <2>1, <2>3, <2>4, TypeFromParts
<1>9. CASE DirectSection
  <2>1. LoopType' BY <1>9, SizeAssumption DEF DirectSection, LoopType
  <2>2. ContextType'
    <3>1. CASE direct_slot # Blank
      BY <1>9, <3>1, ApplyDirectControlType DEF DirectSection, InputType, Slots
    <3>2. CASE direct_slot = Blank
      BY <1>9, <3>2, QuietContextType DEF DirectSection
    <3>3. QED BY <3>1, <3>2
  <2>3. InputType' BY <1>9, <2>2, SameInputType DEF DirectSection
  <2>4. QED BY <2>1, <2>2, <2>3, TypeFromParts
<1>10. CASE DeadmanSection
  <2>1. LoopType' BY <1>10 DEF DeadmanSection, LoopType
  <2>2. ContextType' BY <1>10, CheckDirectTimeoutType DEF DeadmanSection
  <2>3. InputType' BY <1>10, <2>2, SameInputType DEF DeadmanSection
  <2>4. QED BY <2>1, <2>2, <2>3, TypeFromParts
<1>11. CASE NotifyTcpConnected \/ NotifyTcpDisconnected \/ NotifyCommTimeout
  <2> USE <1>11 DEF NotifyTcpConnected, NotifyTcpDisconnected,
                    NotifyCommTimeout, Notify
  <2>1. LoopType' BY DEF LoopType, loopVars
  <2>2. ContextType' BY QuietContextType
  <2>3. InputType' BY <2>2 DEF InputType, NotifyBits, ContextType
  <2>4. QED BY <2>1, <2>2, <2>3, TypeFromParts
<1>12. ASSUME NEW m \in Inputs, SubmitMessage(m) PROVE TypeOK'
  <2> USE <1>12 DEF SubmitMessage, Notify
  <2>1. LoopType' BY DEF LoopType, loopVars
  <2>2. StateType' /\ SessionType' /\ RouteType'
    BY DEF StateType, SessionType, RouteType, stateVars, sessionVars, routeVars
  <2>3. ReliableType' BY QuietType DEF CommandResults
  <2>4. DirectType' BY DEF DirectType
  <2>5. FlagType' BY Zenon DEF FlagType, sessionVars, routeVars
  <2>6. InputType'
    <3>1. command_queue' \in Seq(Inputs) /\ Len(command_queue') <= QueueLength
      BY SizeAssumption DEF InputType, Enqueue
    <3>2. QED
      BY <3>1 DEF InputType, NotifyBits, Slots
  <2>7. QED
    BY <2>1, <2>2, <2>3, <2>4, <2>5, <2>6
<1>13. CASE UNCHANGED vars
  <2> USE <1>13 DEF vars, contextVars
  <2>1. LoopType' BY DEF LoopType, loopVars
  <2>2. ReliableType' BY DEF ReliableType, reliableVars
  <2>3. ContextType' BY <2>2, SameContextType
  <2>4. InputType' BY <2>3, SameInputType
  <2>5. QED BY <2>1, <2>3, <2>4, TypeFromParts
<1>14. QED
  BY <1>1, <1>2, <1>3, <1>4, <1>5, <1>6, <1>7, <1>8, <1>9, <1>10, <1>11,
     <1>12, <1>13 DEF Next, Task, Environment

(* Every variable keeps its type, and the command queue its bound.         *)
THEOREM TypeCorrect == Spec => []TypeOK
  BY InitType, TypeStep, PTL DEF Spec
-----------------------------------------------------------------------------
(* Safety of the motor.  The conjuncts hold each other up: MotorAuthority  *)
(* is what lets HELLO_ACK and SET_MODE reset the reported outputs without  *)
(* touching the motor, DirectHasNoRoute what keeps GO from starting a car  *)
(* under REMOTE_DIRECT that no deadman watches.                            *)
ContextSafe == /\ MotorAuthority /\ MovingIsWatched /\ FaultsAreSafe
               /\ DirectHasNoRoute /\ ResumableHasTarget /\ AppliedIsOutput

LEMMA SafeOutputIsStill == SafeOutput.pwm = 0 /\ ~(SafeOutput.pwm > 0)
  BY DEF SafeOutput

LEMMA StillUnlessMoving ==
  ASSUME TypeOK, MotorAuthority, state # "MOVING"
  PROVE  output.pwm = 0 /\ ~(output.pwm > 0)
<1>1. output.pwm \in {0, 1}
  BY DEF TypeOK, DirectType, Output
<1>2. QED
  BY <1>1 DEF MotorAuthority

LEMMA SameContextSafe ==
  ASSUME ContextSafe, UNCHANGED contextVars
  PROVE  ContextSafe'
  BY DEF ContextSafe, contextVars, stateVars, sessionVars, routeVars, directVars,
     MotorAuthority, MovingIsWatched, FaultsAreSafe, DirectHasNoRoute,
     ResumableHasTarget, AppliedIsOutput

LEMMA HandleStopSafe ==
  ASSUME TypeOK, ContextSafe, NEW m \in Inputs, HandleStop(m)
  PROVE  ContextSafe'
<1> USE SafeOutputIsStill DEF ContextSafe, HandleStop, SafeStop, SetState,
            ClearTarget, InvalidateDirect, sessionVars
<1>1. MotorAuthority'
  BY DEF MotorAuthority
<1>2. MovingIsWatched'
  BY DEF MovingIsWatched
<1>3. FaultsAreSafe'
  BY DEF FaultsAreSafe
<1>4. DirectHasNoRoute'
  BY DEF DirectHasNoRoute
<1>5. ResumableHasTarget'
  BY DEF ResumableHasTarget
<1>6. AppliedIsOutput'
  BY DEF AppliedIsOutput
<1>7. QED
  BY <1>1, <1>2, <1>3, <1>4, <1>5, <1>6

LEMMA HandleTcpConnectedSafe ==
  ASSUME TypeOK, ContextSafe, HandleTcpConnected
  PROVE  ContextSafe'
<1> USE SafeOutputIsStill DEF ContextSafe, HandleTcpConnected, SafeStop,
            SetState, ClearTarget, InvalidateDirect
<1>1. MotorAuthority'
  BY DEF MotorAuthority
<1>2. MovingIsWatched'
  BY DEF MovingIsWatched
<1>3. FaultsAreSafe'
  BY DEF FaultsAreSafe
<1>4. DirectHasNoRoute'
  BY DEF DirectHasNoRoute
<1>5. ResumableHasTarget'
  BY DEF ResumableHasTarget
<1>6. AppliedIsOutput'
  BY DEF AppliedIsOutput
<1>7. QED
  BY <1>1, <1>2, <1>3, <1>4, <1>5, <1>6

LEMMA HandleCommTimeoutSafe ==
  ASSUME TypeOK, ContextSafe, HandleCommTimeout
  PROVE  ContextSafe'
<1> USE SafeOutputIsStill DEF ContextSafe, HandleCommTimeout, SafeStop,
            SetState, ClearTarget, InvalidateDirect, AfterTimeout, LockStates
<1>1. MotorAuthority'
  BY DEF MotorAuthority
<1>2. MovingIsWatched'
  BY DEF MovingIsWatched
<1>3. FaultsAreSafe'
  BY DEF FaultsAreSafe
<1>4. DirectHasNoRoute'
  BY DEF DirectHasNoRoute
<1>5. ResumableHasTarget'
  BY DEF ResumableHasTarget
<1>6. AppliedIsOutput'
  BY DEF AppliedIsOutput
<1>7. QED
  BY <1>1, <1>2, <1>3, <1>4, <1>5, <1>6

LEMMA HelloReadySafe ==
  ASSUME TypeOK, ContextSafe, NEW m \in Inputs, state = "SYNCING", HelloReady(m)
  PROVE  ContextSafe'
<1> USE SafeOutputIsStill, StillUnlessMoving DEF ContextSafe, HelloReady,
            SetState, ClearTarget, InvalidateDirect
<1>1. MotorAuthority'
  BY DEF MotorAuthority
<1>2. MovingIsWatched'
  BY DEF MovingIsWatched
<1>3. FaultsAreSafe'
  BY DEF FaultsAreSafe
<1>4. DirectHasNoRoute'
  BY DEF DirectHasNoRoute
<1>5. ResumableHasTarget'
  BY DEF ResumableHasTarget
<1>6. AppliedIsOutput'
  BY DEF AppliedIsOutput
<1>7. QED
  BY <1>1, <1>2, <1>3, <1>4, <1>5, <1>6

LEMMA HelloRejectedSafe ==
  ASSUME TypeOK, ContextSafe, state = "SYNCING", HelloRejected
  PROVE  ContextSafe'
<1> USE SafeOutputIsStill, StillUnlessMoving DEF ContextSafe, HelloRejected,
            SetState, sessionVars, routeVars, directVars
<1>1. MotorAuthority'
  BY DEF MotorAuthority
<1>2. MovingIsWatched'
  BY DEF MovingIsWatched
<1>3. FaultsAreSafe'
  BY DEF FaultsAreSafe
<1>4. DirectHasNoRoute'
  BY DEF DirectHasNoRoute
<1>5. ResumableHasTarget'
  BY DEF ResumableHasTarget
<1>6. AppliedIsOutput'
  BY DEF AppliedIsOutput
<1>7. QED
  BY <1>1, <1>2, <1>3, <1>4, <1>5, <1>6

LEMMA HandleWaypointSafe ==
  ASSUME TypeOK, ContextSafe, NEW m \in Inputs, m.type = "WAYPOINT", HandleWaypoint(m)
  PROVE  ContextSafe'
<1> USE SafeOutputIsStill, StillUnlessMoving DEF ContextSafe, HandleWaypoint,
            SafeStop, SetState, WaypointResult, sessionVars, stateVars,
            routeVars, directVars
<1>0. m.target # NoTarget
  BY InputAssumption DEF NoTarget
<1>1. MotorAuthority'
  BY DEF MotorAuthority
<1>2. MovingIsWatched'
  BY DEF MovingIsWatched
<1>3. FaultsAreSafe'
  BY DEF FaultsAreSafe
<1>4. DirectHasNoRoute'
  BY DEF DirectHasNoRoute
<1>5. ResumableHasTarget'
  <2>1. CASE UNCHANGED routeVars
    BY <2>1 DEF ResumableHasTarget
  <2>2. CASE target' = m.target /\ wait_reason' = "AWAITING_START"
    BY <1>0, <2>2, Zenon DEF ResumableHasTarget
  <2>3. QED
    BY <2>1, <2>2, Zenon
<1>6. AppliedIsOutput'
  BY DEF AppliedIsOutput
<1>7. QED
  BY <1>1, <1>2, <1>3, <1>4, <1>5, <1>6

LEMMA HandleGoSafe ==
  ASSUME TypeOK, ContextSafe, NEW m \in Inputs, HandleGo(m)
  PROVE  ContextSafe'
<1> USE SafeOutputIsStill DEF ContextSafe, HandleGo, SetState, GoResult,
            sessionVars, stateVars, directVars
<1>1. MotorAuthority'
  BY DEF MotorAuthority
<1>2. MovingIsWatched'
  BY DEF MovingIsWatched, DirectHasNoRoute
<1>3. FaultsAreSafe'
  BY DEF FaultsAreSafe
<1>4. DirectHasNoRoute'
  BY DEF DirectHasNoRoute
<1>5. ResumableHasTarget'
  BY DEF ResumableHasTarget
<1>6. AppliedIsOutput'
  BY DEF AppliedIsOutput
<1>7. QED
  BY <1>1, <1>2, <1>3, <1>4, <1>5, <1>6

LEMMA HandleWaitSafe ==
  ASSUME TypeOK, ContextSafe, NEW m \in Inputs, HandleWait(m)
  PROVE  ContextSafe'
<1> USE SafeOutputIsStill DEF ContextSafe, HandleWait, SafeStop, SetState,
            InvalidateDirect, NeedsNewWaypoint, NamesOtherTarget, sessionVars,
            stateVars, directVars
<1>1. MotorAuthority'
  BY DEF MotorAuthority
<1>2. MovingIsWatched'
  BY DEF MovingIsWatched
<1>3. FaultsAreSafe'
  BY DEF FaultsAreSafe
<1>4. DirectHasNoRoute'
  BY DEF DirectHasNoRoute
<1>5. ResumableHasTarget'
  BY DEF ResumableHasTarget
<1>6. AppliedIsOutput'
  BY DEF AppliedIsOutput
<1>7. QED
  BY <1>1, <1>2, <1>3, <1>4, <1>5, <1>6

LEMMA HandleResetSafe ==
  ASSUME TypeOK, ContextSafe, NEW m \in Inputs, HandleReset(m)
  PROVE  ContextSafe'
<1> USE SafeOutputIsStill DEF ContextSafe, HandleReset, SafeStop, SetState,
            ClearTarget, InvalidateDirect, HoldReset, LockStates, sessionVars,
            stateVars, routeVars, directVars
<1>1. MotorAuthority'
  BY DEF MotorAuthority
<1>2. MovingIsWatched'
  BY DEF MovingIsWatched
<1>3. FaultsAreSafe'
  BY DEF FaultsAreSafe
<1>4. DirectHasNoRoute'
  BY DEF DirectHasNoRoute
<1>5. ResumableHasTarget'
  BY DEF ResumableHasTarget
<1>6. AppliedIsOutput'
  BY DEF AppliedIsOutput
<1>7. QED
  BY <1>1, <1>2, <1>3, <1>4, <1>5, <1>6

LEMMA HandleSetModeSafe ==
  ASSUME TypeOK, ContextSafe, NEW m \in Inputs, HandleSetMode(m)
  PROVE  ContextSafe'
<1> USE SafeOutputIsStill, StillUnlessMoving DEF ContextSafe, HandleSetMode,
            InvalidateDirect, sessionVars, stateVars, routeVars, directVars
<1>1. MotorAuthority'
  BY DEF MotorAuthority
<1>2. MovingIsWatched'
  BY DEF MovingIsWatched
<1>3. FaultsAreSafe'
  BY DEF FaultsAreSafe
<1>4. DirectHasNoRoute'
  BY DEF DirectHasNoRoute
<1>5. ResumableHasTarget'
  BY DEF ResumableHasTarget
<1>6. AppliedIsOutput'
  BY DEF AppliedIsOutput
<1>7. QED
  BY <1>1, <1>2, <1>3, <1>4, <1>5, <1>6

LEMMA ApplyDirectControlSafe ==
  ASSUME TypeOK, ContextSafe, NEW m \in Inputs, ApplyDirectControl(m)
  PROVE  ContextSafe'
<1> USE SafeOutputIsStill DEF ContextSafe, ApplyDirectControl, SetState,
            DirectState, DirectApplies, SessionMatches, sessionVars,
            stateVars, directVars
<1>1. MotorAuthority'
  BY DEF MotorAuthority
<1>2. MovingIsWatched'
  BY DEF MovingIsWatched
<1>3. FaultsAreSafe'
  BY DEF FaultsAreSafe
<1>4. DirectHasNoRoute'
  BY DEF DirectHasNoRoute
<1>5. ResumableHasTarget'
  BY DEF ResumableHasTarget
<1>6. AppliedIsOutput'
  BY DEF AppliedIsOutput
<1>7. QED
  BY <1>1, <1>2, <1>3, <1>4, <1>5, <1>6

LEMMA CheckDirectTimeoutSafe ==
  ASSUME TypeOK, ContextSafe, CheckDirectTimeout
  PROVE  ContextSafe'
<1> USE SafeOutputIsStill DEF ContextSafe, CheckDirectTimeout, SafeStop,
            SetState, InvalidateDirect, DeadmanExpired, contextVars,
            sessionVars, stateVars, routeVars, directVars
<1>1. MotorAuthority'
  BY DEF MotorAuthority
<1>2. MovingIsWatched'
  BY DEF MovingIsWatched
<1>3. FaultsAreSafe'
  BY DEF FaultsAreSafe
<1>4. DirectHasNoRoute'
  BY DEF DirectHasNoRoute
<1>5. ResumableHasTarget'
  BY DEF ResumableHasTarget
<1>6. AppliedIsOutput'
  BY DEF AppliedIsOutput
<1>7. QED
  BY <1>1, <1>2, <1>3, <1>4, <1>5, <1>6
(* Every HELLO_ACK names the boot it answers.                              *)
NoForeignAck == AckBoots = {BootId}

LEMMA HandleHelloAckSafe ==
  ASSUME NoForeignAck, TypeOK, ContextSafe, NEW m \in Inputs, HandleHelloAck(m)
  PROVE  ContextSafe'
<1>1. m.boot = BootId
  BY InputAssumption DEF NoForeignAck, Message
<1>2. ASSUME NEW r, RefuseHelloAck(r) PROVE ContextSafe'
  BY <1>2, SameContextSafe DEF RefuseHelloAck
<1>3. CASE state = "SYNCING" /\ HelloReady(m)
  BY <1>3, HelloReadySafe
<1>4. CASE HelloHold(m)
  BY <1>4
  DEF HelloHold, stateVars, routeVars, directVars, ContextSafe, MotorAuthority,
      MovingIsWatched, FaultsAreSafe, DirectHasNoRoute, ResumableHasTarget,
      AppliedIsOutput
<1>5. CASE state = "SYNCING" /\ HelloRejected
  BY <1>5, HelloRejectedSafe
<1>6. QED
  BY <1>1, <1>2, <1>3, <1>4, <1>5 DEF HandleHelloAck

(* The task boots once, and holds notification bits only while it handles  *)
(* them.                                                                   *)
LoopShape == /\ pc = "boot" => state = "BOOT"
             /\ pc # "bits" => cur = {}

LEMMA LoopShapeStep == LoopShape /\ [Next]_vars => LoopShape'
<1> SUFFICES ASSUME LoopShape, [Next]_vars PROVE LoopShape'
  OBVIOUS
<1>1. CASE Boot
  BY <1>1 DEF LoopShape, Boot
<1>2. CASE /\ pc' \notin {"boot", "bits"}
           /\ cur' = {} \/ (cur' = cur /\ pc # "bits")
  BY <1>2 DEF LoopShape
<1>3. CASE pc' = "bits"
  BY <1>3 DEF LoopShape
<1>4. CASE UNCHANGED <<pc, cur, state>>
  BY <1>4 DEF LoopShape
<1>5. CASE Task /\ ~Boot
  <2>1. CASE Wake
    BY <1>3, <2>1 DEF Wake, WakeAfter
  <2>2. CASE StopSection \/ CommTimeoutSection \/ TcpConnectedSection \/ WaitSection
    BY <1>3, <2>2
    DEF StopSection, CommTimeoutSection, TcpConnectedSection, WaitSection
  <2>3. CASE BitsDone
    <3>1. pc' = "general" /\ cur' = {}
      BY <2>3, Zenon DEF BitsDone
    <3>2. QED
      BY <1>2, <3>1
  <2>4. CASE GeneralSection
    <3>1. pc = "general" /\ pc' = pc /\ cur' = cur
      BY <2>4, Zenon DEF GeneralSection
    <3>2. QED
      BY <1>2, <3>1
  <2>5. CASE DirectSection
    BY <1>2, <2>5 DEF DirectSection
  <2>6. CASE DeadmanSection
    BY <1>2, <2>6 DEF DeadmanSection
  <2>7. QED
    BY <1>5, <2>1, <2>2, <2>3, <2>4, <2>5, <2>6 DEF Task
<1>6. CASE Environment
  BY <1>4, <1>6
  DEF Environment, NotifyTcpConnected, NotifyTcpDisconnected, NotifyCommTimeout,
      SubmitMessage, loopVars, contextVars, stateVars
<1>7. CASE UNCHANGED vars
  BY <1>4, <1>7 DEF vars, loopVars, contextVars, stateVars
<1>8. QED
  BY <1>1, <1>5, <1>6, <1>7 DEF Next

LEMMA ContextSafeStep ==
  ASSUME NoForeignAck, TypeOK, LoopShape, ContextSafe, [Next]_vars
  PROVE  ContextSafe'
<1>1. CASE Boot
  <2>1. output.pwm = 0
    BY <1>1, StillUnlessMoving DEF Boot, LoopShape, ContextSafe
  <2>2. QED
    BY <1>1, <2>1, SafeOutputIsStill
    DEF Boot, SafeStop, SetState, sessionVars, routeVars, directVars,
        ContextSafe, MotorAuthority, MovingIsWatched, FaultsAreSafe,
        DirectHasNoRoute, ResumableHasTarget, AppliedIsOutput
<1>2. CASE Wake
  BY <1>2
  DEF Wake, WakeAfter, stateVars, sessionVars, routeVars, ContextSafe,
      MotorAuthority, MovingIsWatched, FaultsAreSafe, DirectHasNoRoute,
      ResumableHasTarget, AppliedIsOutput
<1>3. CASE StopSection
  <2>1. CASE stop_slot # Blank
    BY <1>3, <2>1, HandleStopSafe DEF StopSection, TypeOK, InputType, Slots
  <2>2. CASE stop_slot = Blank
    BY <1>3, <2>2, SameContextSafe DEF StopSection
  <2>3. QED
    BY <2>1, <2>2
<1>4. CASE CommTimeoutSection
  BY <1>4, HandleCommTimeoutSafe DEF CommTimeoutSection
<1>5. CASE TcpConnectedSection
  BY <1>5, HandleTcpConnectedSafe DEF TcpConnectedSection
<1>6. CASE WaitSection
  <2>1. CASE wait_slot # Blank
    BY <1>6, <2>1, HandleWaitSafe DEF WaitSection, TypeOK, InputType, Slots
  <2>2. CASE wait_slot = Blank
    BY <1>6, <2>2, SameContextSafe DEF WaitSection
  <2>3. QED
    BY <2>1, <2>2
<1>7. CASE BitsDone
  BY <1>7, SameContextSafe DEF BitsDone
<1>8. CASE GeneralSection
  <2> DEFINE m == Head(command_queue)
  <2>1. m \in Inputs /\ ProcessGeneral(m)
    BY <1>8 DEF GeneralSection, TypeOK, InputType
  <2> HIDE DEF m
  <2>2. QED
    BY <2>1, HandleHelloAckSafe, HandleWaypointSafe, HandleGoSafe,
       HandleResetSafe, HandleSetModeSafe DEF ProcessGeneral
<1>9. CASE DirectSection
  <2>1. CASE direct_slot # Blank
    BY <1>9, <2>1, ApplyDirectControlSafe
    DEF DirectSection, TypeOK, InputType, Slots
  <2>2. CASE direct_slot = Blank
    BY <1>9, <2>2, SameContextSafe DEF DirectSection
  <2>3. QED
    BY <2>1, <2>2
<1>10. CASE DeadmanSection
  BY <1>10, CheckDirectTimeoutSafe DEF DeadmanSection
<1>11. CASE NotifyTcpConnected \/ NotifyTcpDisconnected \/ NotifyCommTimeout
  BY <1>11, SameContextSafe
  DEF NotifyTcpConnected, NotifyTcpDisconnected, NotifyCommTimeout
<1>12. ASSUME NEW m \in Inputs, SubmitMessage(m) PROVE ContextSafe'
  BY <1>12
  DEF SubmitMessage, stateVars, sessionVars, routeVars, ContextSafe,
      MotorAuthority, MovingIsWatched, FaultsAreSafe, DirectHasNoRoute,
      ResumableHasTarget, AppliedIsOutput
<1>13. CASE UNCHANGED vars
  BY <1>13, SameContextSafe DEF vars
<1>14. QED
  BY <1>1, <1>2, <1>3, <1>4, <1>5, <1>6, <1>7, <1>8, <1>9, <1>10, <1>11,
     <1>12, <1>13 DEF Next, Task, Environment

(* Only two sections end a pass, and the outputs rest between two passes.  *)
LEMMA DeadmanBoundStep ==
  ASSUME TypeOK, ContextSafe, DeadmanBound, [Next]_vars
  PROVE  DeadmanBound'
<1>1. CASE Boot
  BY <1>1, SafeOutputIsStill DEF Boot, SafeStop, DeadmanBound
<1>2. CASE DeadmanSection
  <2>1. CASE DeadmanExpired
    BY <1>2, <2>1, SafeOutputIsStill
    DEF DeadmanSection, CheckDirectTimeout, SafeStop, DeadmanBound
  <2>2. CASE ~DeadmanExpired
    <3>1. output' = output /\ age' = age
      BY <1>2, <2>2 DEF DeadmanSection, CheckDirectTimeout, contextVars, directVars
    <3>2. ASSUME output.pwm > 0 PROVE ~(age >= DirectTimeout)
      BY <2>2, <3>2, Zenon DEF DeadmanExpired, ContextSafe, MotorAuthority
    <3>3. age \in Nat /\ DirectTimeout \in Nat
      BY SizeAssumption DEF TypeOK, DirectType
    <3>4. ASSUME output.pwm > 0 PROVE age < DirectTimeout
      BY <3>2, <3>3, <3>4
    <3>5. QED
      BY <3>1, <3>4, Zenon DEF DeadmanBound
  <2>3. QED
    BY <2>1, <2>2
<1>3. CASE pc' # "idle"
  BY <1>3 DEF DeadmanBound
<1>4. CASE pc' = pc /\ output' = output /\ age' = age
  BY <1>4 DEF DeadmanBound
<1>5. CASE Environment
  BY <1>4, <1>5
  DEF Environment, NotifyTcpConnected, NotifyTcpDisconnected, NotifyCommTimeout,
      SubmitMessage, loopVars, contextVars, directVars
<1>6. CASE Task
  BY <1>1, <1>2, <1>3, <1>6
  DEF Task, Wake, WakeAfter, StopSection, CommTimeoutSection,
      TcpConnectedSection, WaitSection, BitsDone, GeneralSection, DirectSection
<1>7. CASE UNCHANGED vars
  BY <1>4, <1>7 DEF vars, loopVars, contextVars, directVars
<1>8. QED
  BY <1>5, <1>6, <1>7 DEF Next

LEMMA InitSafe == Init => LoopShape /\ ContextSafe /\ DeadmanBound
  BY SafeOutputIsStill
  DEF Init, LoopShape, ContextSafe, MotorAuthority, MovingIsWatched, FaultsAreSafe,
      DirectHasNoRoute, ResumableHasTarget, AppliedIsOutput, DeadmanBound

(* A car whose HELLO_ACKs name its own boot drives only under the remote   *)
(* mode of an active session with the deadman running, is safe in every    *)
(* fault state, and reports the motor it drives.                           *)
THEOREM MotorSafety ==
  ASSUME NoForeignAck
  PROVE  Spec => []MotorSafe
<1>1. TypeOK /\ LoopShape /\ ContextSafe /\ [Next]_vars => ContextSafe'
  BY ContextSafeStep
<1>2. ContextSafe => MotorSafe
  BY DEF ContextSafe, MotorSafe
<1>3. QED
  BY <1>1, <1>2, InitSafe, TypeCorrect, LoopShapeStep, PTL DEF Spec

(* No target reaches REMOTE_DIRECT, and only an open one can be resumed.   *)
THEOREM RouteSafety ==
  ASSUME NoForeignAck
  PROVE  Spec => []RouteSafe
<1>1. TypeOK /\ LoopShape /\ ContextSafe /\ [Next]_vars => ContextSafe'
  BY ContextSafeStep
<1>2. ContextSafe => RouteSafe
  BY DEF ContextSafe, RouteSafe
<1>3. QED
  BY <1>1, <1>2, InitSafe, TypeCorrect, LoopShapeStep, PTL DEF Spec

(* Between two passes a driven motor is younger than the timeout.          *)
THEOREM DeadmanHolds ==
  ASSUME NoForeignAck
  PROVE  Spec => []DeadmanBound
<1>1. TypeOK /\ LoopShape /\ ContextSafe /\ [Next]_vars => ContextSafe'
  BY ContextSafeStep
<1>2. TypeOK /\ ContextSafe /\ DeadmanBound /\ [Next]_vars => DeadmanBound'
  BY DeadmanBoundStep
<1>3. QED
  BY <1>1, <1>2, InitSafe, TypeCorrect, LoopShapeStep, PTL DEF Spec
-----------------------------------------------------------------------------
(* The lock.  A TCP_CONNECTED that found a locked car still synchronising  *)
(* would overwrite pre_sync_state, the only memory of the lock; so the     *)
(* proof is about the order of the connection's notifications.             *)

(* A pass looks at TCP_DOWN before TCP_CONNECTED, whichever came first.    *)
(* That order is right only because a synchronising car always has its     *)
(* connection or a TCP_DOWN to come, and a TCP_CONNECTED to come never     *)
(* finds a car that still synchronises on the connection before.           *)
ConnectionOrder ==
  /\ state = "SYNCING" => link = "up" \/ "TCP_DOWN" \in bits \cup cur
  /\ "TCP_CONNECTED" \in bits \cup cur => link = "up" /\ state # "SYNCING"

LinkInv == /\ ConnectionOrder
           /\ "TCP_CONNECTED" \in bits => "TCP_CONNECTED" \notin cur

(* No section but the one for TCP_CONNECTED starts a synchronisation.      *)
Stays == state' = state \/ state' # "SYNCING"

LEMMA AckStays == ASSUME NEW m, HandleHelloAck(m) PROVE Stays
<1>1. ASSUME NEW r, RefuseHelloAck(r) PROVE Stays
  BY <1>1 DEF RefuseHelloAck, contextVars, stateVars, Stays
<1>2. CASE HelloBootMismatch \/ HelloReady(m) \/ HelloHold(m) \/ HelloRejected
  BY <1>2
  DEF HelloBootMismatch, HelloReady, HelloHold, HelloRejected, SetState,
      stateVars, Stays
<1>3. QED
  BY <1>1, <1>2 DEF HandleHelloAck

LEMMA GeneralStays == ASSUME NEW m, ProcessGeneral(m) PROVE Stays
<1> USE DEF SetState, stateVars, Stays
<1>1. CASE HandleWaypoint(m)
  BY <1>1 DEF HandleWaypoint
<1>2. CASE HandleGo(m)
  BY <1>2 DEF HandleGo
<1>3. CASE HandleReset(m)
  BY <1>3 DEF HandleReset
<1>4. CASE HandleSetMode(m)
  BY <1>4 DEF HandleSetMode
<1>5. QED
  BY <1>1, <1>2, <1>3, <1>4, AckStays DEF ProcessGeneral

LEMMA SectionStays ==
  ASSUME Task, ~TcpConnectedSection
  PROVE  Stays
<1> USE DEF SetState, stateVars, contextVars, Stays
<1>1. CASE Boot
  BY <1>1 DEF Boot
<1>2. CASE Wake
  BY <1>2 DEF Wake, WakeAfter
<1>3. CASE StopSection
  BY <1>3 DEF StopSection, HandleStop
<1>4. CASE CommTimeoutSection
  BY <1>4 DEF CommTimeoutSection, HandleCommTimeout, AfterTimeout, LockStates
<1>5. CASE WaitSection
  BY <1>5 DEF WaitSection, HandleWait
<1>6. CASE BitsDone
  BY <1>6 DEF BitsDone
<1>7. CASE GeneralSection
  BY <1>7, GeneralStays DEF GeneralSection
<1>8. CASE DirectSection
  BY <1>8 DEF DirectSection, ApplyDirectControl, DirectState, DirectApplies
<1>9. CASE DeadmanSection
  BY <1>9 DEF DeadmanSection, CheckDirectTimeout
<1>10. QED
  BY <1>1, <1>2, <1>3, <1>4, <1>5, <1>6, <1>7, <1>8, <1>9 DEF Task

LEMMA LinkInvStep ==
  ASSUME Prompt, LoopShape, LinkInv, [Next]_vars
  PROVE  LinkInv'
<1> USE DEF LinkInv, ConnectionOrder
<1>1. CASE Task /\ ~TcpConnectedSection
  <2>1. Stays
    BY <1>1, SectionStays
  <2>2. CASE Boot \/ GeneralSection \/ DirectSection \/ DeadmanSection
    <3>1. UNCHANGED <<cur, bits, link>>
      BY <2>2, Zenon
      DEF Boot, GeneralSection, DirectSection, DeadmanSection, inputVars
    <3>2. QED
      BY <2>1, <3>1, Zenon DEF Stays
  <2>3. CASE Wake
    BY <2>1, <2>3 DEF Wake, WakeAfter, LoopShape, Stays
  <2>4. CASE StopSection \/ WaitSection
    BY <2>1, <2>4 DEF StopSection, WaitSection, Stays
  <2>5. CASE CommTimeoutSection
    BY <2>5
    DEF CommTimeoutSection, HandleCommTimeout, AfterTimeout, LockStates,
        SetState, inputVars
  <2>6. CASE BitsDone
    BY <2>1, <2>6 DEF BitsDone, inputVars, Stays
  <2>7. QED
    BY <1>1, <2>2, <2>3, <2>4, <2>5, <2>6 DEF Task
<1>2. CASE TcpConnectedSection
  BY <1>2 DEF TcpConnectedSection, HandleTcpConnected, inputVars
<1>3. CASE NotifyTcpConnected
  BY <1>3
  DEF NotifyTcpConnected, Notify, LoopShape, loopVars, contextVars, stateVars
<1>4. CASE NotifyTcpDisconnected
  BY <1>4
  DEF NotifyTcpDisconnected, Notify, loopVars, contextVars, stateVars
<1>5. CASE NotifyCommTimeout
  BY <1>5 DEF NotifyCommTimeout, Notify, loopVars, contextVars, stateVars
<1>6. ASSUME NEW m \in Inputs, SubmitMessage(m) PROVE LinkInv'
  BY <1>6 DEF SubmitMessage, Notify, loopVars, stateVars
<1>7. CASE UNCHANGED vars
  BY <1>7 DEF vars, loopVars, inputVars, contextVars, stateVars
<1>8. QED
  BY <1>1, <1>2, <1>3, <1>4, <1>5, <1>6, <1>7 DEF Next, Environment

LEMMA LockStep ==
  ASSUME LoopShape, LinkInv, Locked, [Next]_vars
  PROVE  Locked' \/ (ResetAccepted /\ mode' = "WAYPOINT_AUTO")
<1> USE DEF Locked, LockStates, SetState
<1>1. CASE Boot
  BY <1>1 DEF Boot, LoopShape
<1>2. CASE UNCHANGED <<state, pre_sync_state>>
  BY <1>2
<1>3. CASE StopSection
  BY <1>2, <1>3
  DEF StopSection, HandleStop, contextVars, stateVars, sessionVars
<1>4. CASE CommTimeoutSection
  BY <1>4 DEF CommTimeoutSection, HandleCommTimeout, AfterTimeout
<1>5. CASE TcpConnectedSection
  BY <1>5
  DEF TcpConnectedSection, HandleTcpConnected, LinkInv, ConnectionOrder
<1>6. CASE WaitSection
  BY <1>2, <1>6
  DEF WaitSection, HandleWait, contextVars, stateVars, sessionVars
<1>7. CASE GeneralSection
  <2> DEFINE m == Head(command_queue)
  <2>1. ProcessGeneral(m)
    BY <1>7 DEF GeneralSection
  <2> HIDE DEF m
  <2>2. CASE HandleHelloAck(m)
    BY <2>2
    DEF HandleHelloAck, HelloBootMismatch, RefuseHelloAck, HelloReady, HelloHold,
        HelloRejected, contextVars, stateVars, sessionVars
  <2>3. CASE HandleReset(m) /\ m.type = "RESET"
    <3>1. CASE UNCHANGED <<sessionVars, stateVars>>
      BY <3>1 DEF sessionVars, stateVars
    <3>2. CASE FinishReliable(m, "ACCEPTED") /\ mode' = "WAYPOINT_AUTO"
      BY <2>3, <3>2 DEF FinishReliable, Status, Fingerprint, ResetAccepted
    <3>3. QED
      BY <2>3, <3>1, <3>2, Zenon DEF HandleReset
  <2>4. CASE HandleWaypoint(m) \/ HandleGo(m) \/ HandleSetMode(m)
    BY <2>4
    DEF HandleWaypoint, WaypointResult, HandleGo, GoResult, HandleSetMode,
        stateVars, sessionVars
  <2>5. QED
    BY <2>1, <2>2, <2>3, <2>4 DEF ProcessGeneral
<1>8. CASE DirectSection \/ DeadmanSection
  BY <1>8
  DEF DirectSection, ApplyDirectControl, DirectApplies, DeadmanSection,
      CheckDirectTimeout, DeadmanExpired, contextVars, stateVars, sessionVars
<1>9. CASE Wake \/ BitsDone \/ Environment \/ UNCHANGED vars
  BY <1>2, <1>9
  DEF Wake, WakeAfter, BitsDone, Environment, NotifyTcpConnected,
      NotifyTcpDisconnected, NotifyCommTimeout, SubmitMessage, vars, contextVars,
      stateVars, sessionVars
<1>10. QED
  BY <1>1, <1>3, <1>4, <1>5, <1>6, <1>7, <1>8, <1>9 DEF Next, Task

(* On a network whose connections last until the task has seen them, only  *)
(* an accepted RESET unlocks the car.                                      *)
THEOREM LockHolds ==
  ASSUME Prompt
  PROVE  Spec => LockLeftOnlyByReset
<1>1. Init => LinkInv /\ LoopShape
  BY DEF Init, LinkInv, ConnectionOrder, LoopShape
<1>2. LoopShape /\ LinkInv /\ [Next]_vars => LinkInv'
  BY LinkInvStep
<1>3. LoopShape /\ LinkInv /\ [Next]_vars =>
        [Locked /\ ~Locked' => ResetAccepted]_vars
  BY LockStep
<1>4. QED
  BY <1>1, <1>2, <1>3, LoopShapeStep, PTL DEF Spec, LockLeftOnlyByReset
-----------------------------------------------------------------------------
(* Refinement.  What a step that ends in an unlocked, synchronised session *)
(* can have done: nothing to session or mode, a mode change in READY, or a *)
(* HELLO_ACK.                                                              *)
Synced == session_active /\ state # "SYNCING"

Keeps == /\ Synced
         /\ mode' = mode \/ (state = "READY" /\ state' = "READY")
Starts == ~Synced /\ mode' = "WAYPOINT_AUTO"

LEMMA GeneralSessionStep ==
  ASSUME NEW m, ProcessGeneral(m), ~Locked, ~Locked', Synced'
  PROVE  Keeps \/ Starts
<1> USE DEF Keeps, Starts, Synced, Locked, LockStates, BeginReliable,
            SessionMatches, SetState
<1>1. CASE UNCHANGED <<session_active, state, mode>>
  BY <1>1
<1>2. CASE HandleHelloAck(m)
  BY <1>2
  DEF HandleHelloAck, HelloBootMismatch, RefuseHelloAck, HelloReady, HelloHold,
      HelloRejected, contextVars, stateVars, sessionVars
<1>3. CASE HandleReset(m)
  BY <1>3 DEF HandleReset, HoldReset, stateVars, sessionVars
<1>4. CASE HandleWaypoint(m)
  BY <1>4 DEF HandleWaypoint, stateVars, sessionVars, WaypointResult
<1>5. CASE HandleGo(m)
  BY <1>5 DEF HandleGo, stateVars, sessionVars, GoResult
<1>6. CASE HandleSetMode(m)
  BY <1>6 DEF HandleSetMode, stateVars, sessionVars
<1>7. QED
  BY <1>2, <1>3, <1>4, <1>5, <1>6 DEF ProcessGeneral

LEMMA SessionStep ==
  ASSUME LoopShape, [Next]_vars, ~Locked, ~Locked', Synced'
  PROVE  Keeps \/ Starts
<1> USE DEF Keeps, Starts, Synced, Locked, LockStates, SetState
<1>1. CASE UNCHANGED <<session_active, state, mode>>
  BY <1>1
<1>2. CASE StopSection
  BY <1>2 DEF StopSection, HandleStop, contextVars, stateVars, sessionVars
<1>3. CASE CommTimeoutSection
  BY <1>3 DEF CommTimeoutSection, HandleCommTimeout, AfterTimeout
<1>4. CASE TcpConnectedSection
  BY <1>4 DEF TcpConnectedSection, HandleTcpConnected
<1>5. CASE WaitSection
  BY <1>5 DEF WaitSection, HandleWait, contextVars, stateVars, sessionVars
<1>6. CASE GeneralSection
  BY <1>6, GeneralSessionStep DEF GeneralSection
<1>7. CASE DirectSection \/ DeadmanSection
  BY <1>7
  DEF DirectSection, ApplyDirectControl, DirectApplies, DeadmanSection,
      CheckDirectTimeout, DeadmanExpired, contextVars, stateVars, sessionVars
<1>8. CASE Wake \/ BitsDone \/ Environment \/ UNCHANGED vars
  BY <1>1, <1>8
  DEF Wake, WakeAfter, BitsDone, Environment, NotifyTcpConnected,
      NotifyTcpDisconnected, NotifyCommTimeout, SubmitMessage, vars, contextVars,
      stateVars, sessionVars
<1>9. CASE Boot
  BY <1>9 DEF Boot, LoopShape, sessionVars
<1>10. QED
  BY <1>2, <1>3, <1>4, <1>5, <1>6, <1>7, <1>8, <1>9 DEF Next, Task

(* The phase, case by case.                                                *)
PhaseFacts ==
  /\ Locked => GatePhase = "locked"
  /\ ~Locked /\ ~Synced => GatePhase = "unsynced"
  /\ ~Locked /\ Synced => GatePhase \in {"idle", "armed", "driving"}
  /\ ~Locked /\ Synced /\ mode # "REMOTE_DIRECT" => GatePhase = "idle"
  /\ ~Locked /\ Synced /\ mode = "REMOTE_DIRECT" => GatePhase # "idle"
  /\ state # "MOVING" => GatePhase # "driving"

LEMMA PhaseCases == TypeOK /\ ContextSafe => PhaseFacts
  BY SafeOutputIsStill, StillUnlessMoving
  DEF PhaseFacts, GatePhase, Locked, LockStates, Synced, ContextSafe,
      MotorAuthority, FaultsAreSafe

LEMMA NextPhaseCases == TypeOK' /\ ContextSafe' => PhaseFacts'
  BY PhaseCases, PTL

LEMMA GateStep ==
  ASSUME TypeOK, TypeOK', LoopShape, LinkInv, ContextSafe, ContextSafe',
         [Next]_vars
  PROVE  [Gate!Next]_GatePhase
<1> USE DEF Gate!Next, Gate!Move, Gate!Phases, PhaseFacts
<1>1. PhaseFacts
  BY PhaseCases
<1>2. PhaseFacts'
  BY NextPhaseCases
<1>3. CASE Locked'
  BY <1>1, <1>2, <1>3, Zenon DEF Gate!Lock
<1>4. CASE Locked /\ ~Locked'
  BY <1>1, <1>2, <1>4, LockStep DEF Gate!Reset
<1>5. CASE ~Locked /\ ~Locked' /\ ~Synced'
  BY <1>1, <1>2, <1>5 DEF Gate!LoseSession
<1>6. CASE ~Locked /\ ~Locked' /\ Synced'
  <2>1. CASE Starts
    BY <1>1, <1>2, <1>6, <2>1 DEF Starts, Gate!Synchronise
  <2>2. CASE Keeps
    BY <1>1, <1>2, <1>6, <2>2
    DEF Keeps, Gate!Arm, Gate!Disarm, Gate!Drive, Gate!Rest
  <2>3. QED
    BY <1>6, <2>1, <2>2, SessionStep
<1>7. QED
  BY <1>3, <1>4, <1>5, <1>6

(* Under both assumptions the task implements the abstract motor gate.     *)
THEOREM GateImplemented ==
  ASSUME NoForeignAck, Prompt
  PROVE  Spec => ImplementsGate
<1>1. Init => LinkInv /\ LoopShape /\ Gate!Init
  BY SafeOutputIsStill
  DEF Init, LinkInv, ConnectionOrder, LoopShape, Gate!Init, GatePhase, Locked,
      LockStates
<1>2. LoopShape /\ LinkInv /\ [Next]_vars => LinkInv'
  BY LinkInvStep
<1>3. TypeOK /\ LoopShape /\ ContextSafe /\ [Next]_vars => ContextSafe'
  BY ContextSafeStep
<1>4. TypeOK /\ TypeOK' /\ LoopShape /\ LinkInv /\ ContextSafe /\ ContextSafe'
        /\ [Next]_vars => [Gate!Next]_GatePhase
  BY GateStep
<1>5. QED
  BY <1>1, <1>2, <1>3, <1>4, InitSafe, TypeCorrect, LoopShapeStep, PTL
  DEF Spec, ImplementsGate, Gate!Spec
-----------------------------------------------------------------------------
(* The sequence number.  A HELLO_ACK sets it to whatever the host says, so *)
(* it can go back; what keeps that out of a synchronised session is that   *)
(* HELLO_ACK is for SYNCING only, where a session is active only on HOLD.  *)
SyncIsHeld == state = "SYNCING" /\ session_active => sync_hold

LEMMA GeneralSyncIsHeld ==
  ASSUME NEW m, ProcessGeneral(m), SyncIsHeld
  PROVE  SyncIsHeld'
<1> USE DEF SyncIsHeld, SetState
<1>1. CASE UNCHANGED <<stateVars, sessionVars>>
  BY <1>1 DEF stateVars, sessionVars
<1>2. CASE HandleHelloAck(m)
  BY <1>1, <1>2
  DEF HandleHelloAck, HelloBootMismatch, RefuseHelloAck, HelloReady, HelloHold,
      HelloRejected, contextVars
<1>3. CASE HandleReset(m)
  BY <1>3 DEF HandleReset, stateVars, sessionVars
<1>4. CASE HandleWaypoint(m)
  BY <1>4 DEF HandleWaypoint, stateVars, sessionVars
<1>5. CASE HandleGo(m)
  BY <1>5 DEF HandleGo, stateVars, sessionVars
<1>6. CASE HandleSetMode(m)
  BY <1>1, <1>6 DEF HandleSetMode
<1>7. QED
  BY <1>2, <1>3, <1>4, <1>5, <1>6 DEF ProcessGeneral

LEMMA SyncIsHeldStep == SyncIsHeld /\ [Next]_vars => SyncIsHeld'
<1> SUFFICES ASSUME SyncIsHeld, [Next]_vars PROVE SyncIsHeld'
  OBVIOUS
<1> USE DEF SyncIsHeld, SetState
<1>1. CASE UNCHANGED <<stateVars, sessionVars>>
  BY <1>1 DEF stateVars, sessionVars
<1>2. CASE Boot
  BY <1>2 DEF Boot
<1>3. CASE StopSection
  BY <1>1, <1>3 DEF StopSection, HandleStop, contextVars
<1>4. CASE CommTimeoutSection
  BY <1>4 DEF CommTimeoutSection, HandleCommTimeout
<1>5. CASE TcpConnectedSection
  BY <1>5 DEF TcpConnectedSection, HandleTcpConnected
<1>6. CASE WaitSection
  BY <1>1, <1>6 DEF WaitSection, HandleWait, contextVars, stateVars, sessionVars
<1>7. CASE GeneralSection
  BY <1>7, GeneralSyncIsHeld DEF GeneralSection
<1>8. CASE DirectSection \/ DeadmanSection
  BY <1>1, <1>8
  DEF DirectSection, ApplyDirectControl, DirectApplies, DirectState,
      DeadmanSection, CheckDirectTimeout, contextVars, stateVars, sessionVars
<1>9. CASE Wake \/ BitsDone \/ Environment \/ UNCHANGED vars
  BY <1>1, <1>9
  DEF Wake, WakeAfter, BitsDone, Environment, NotifyTcpConnected,
      NotifyTcpDisconnected, NotifyCommTimeout, SubmitMessage, vars, contextVars
<1>10. QED
  BY <1>2, <1>3, <1>4, <1>5, <1>6, <1>7, <1>8, <1>9 DEF Next, Task

(* What a step may do to the sequence number of a synchronised session.    *)
NoRewind == last_processed_cmd_seq' >= last_processed_cmd_seq

LEMMA ReliableNoRewind ==
  ASSUME NEW m \in Inputs, last_processed_cmd_seq \in Nat,
         \/ UNCHANGED reliableVars
         \/ BeginReliable(m) /\ last_processed_cmd_seq' = m.seq
  PROVE  NoRewind
  BY InputAssumption DEF NoRewind, reliableVars, BeginReliable, Message

LEMMA GeneralNoRewind ==
  ASSUME NEW m \in Inputs, ProcessGeneral(m), last_processed_cmd_seq \in Nat,
         state # "SYNCING"
  PROVE  NoRewind
<1>1. CASE HandleHelloAck(m)
  BY <1>1, ReliableNoRewind
  DEF HandleHelloAck, HelloBootMismatch, RefuseHelloAck, contextVars
<1>2. CASE HandleWaypoint(m) \/ HandleGo(m)
  BY <1>2, ReliableNoRewind
  DEF HandleWaypoint, HandleGo, Refuse, FinishReliable
<1>3. CASE HandleReset(m)
  BY <1>3, ReliableNoRewind DEF HandleReset, Refuse, FinishReliable
<1>4. CASE HandleSetMode(m)
  BY <1>4, ReliableNoRewind DEF HandleSetMode, Refuse, FinishReliable
<1>5. QED
  BY <1>1, <1>2, <1>3, <1>4 DEF ProcessGeneral

LEMMA NoRewindStep ==
  ASSUME TypeOK, SyncIsHeld, [Next]_vars, session_active, ~sync_hold
  PROVE  NoRewind
<1>1. last_processed_cmd_seq \in Nat /\ state # "SYNCING"
  BY DEF TypeOK, ReliableType, SyncIsHeld
<1>2. CASE UNCHANGED reliableVars
  BY <1>1, <1>2 DEF reliableVars, NoRewind
<1>3. CASE StopSection /\ stop_slot # Blank /\ HandleStop(stop_slot)
  <2>1. stop_slot \in Inputs
    BY <1>3 DEF TypeOK, InputType, Slots
  <2>2. QED
    BY <1>1, <1>3, <2>1, ReliableNoRewind DEF HandleStop, Refuse, FinishReliable
<1>4. CASE WaitSection /\ wait_slot # Blank /\ HandleWait(wait_slot)
  <2>1. wait_slot \in Inputs
    BY <1>4 DEF TypeOK, InputType, Slots
  <2>2. QED
    BY <1>1, <1>4, <2>1, ReliableNoRewind DEF HandleWait, Refuse, FinishReliable
<1>5. CASE GeneralSection
  <2>1. Head(command_queue) \in Inputs
    BY <1>5 DEF GeneralSection, TypeOK, InputType
  <2>2. QED
    BY <1>1, <1>5, <2>1, GeneralNoRewind DEF GeneralSection
<1>6. CASE StopSection \/ WaitSection
  BY <1>2, <1>3, <1>4, <1>6 DEF StopSection, WaitSection, contextVars
<1>7. CASE CommTimeoutSection \/ TcpConnectedSection \/ Boot
  BY <1>2, <1>7
  DEF CommTimeoutSection, HandleCommTimeout, TcpConnectedSection,
      HandleTcpConnected, Boot
<1>8. CASE DirectSection \/ DeadmanSection
  BY <1>2, <1>8
  DEF DirectSection, ApplyDirectControl, DeadmanSection, CheckDirectTimeout,
      contextVars
<1>9. CASE Wake \/ BitsDone \/ Environment \/ UNCHANGED vars
  BY <1>2, <1>9
  DEF Wake, WakeAfter, BitsDone, Environment, NotifyTcpConnected,
      NotifyTcpDisconnected, NotifyCommTimeout, SubmitMessage, vars, contextVars
<1>10. QED
  BY <1>5, <1>6, <1>7, <1>8, <1>9 DEF Next, Task

(* Whatever is repeated, delayed or answered late, the processed sequence  *)
(* number of a synchronised session never goes back.                       *)
THEOREM SequenceHolds == Spec => SequenceNeverRewinds
<1>1. Init => SyncIsHeld
  BY DEF Init, SyncIsHeld
<1>2. TypeOK /\ SyncIsHeld /\ [Next]_vars =>
        [session_active /\ session_active' /\ ~sync_hold =>
           last_processed_cmd_seq' >= last_processed_cmd_seq]_vars
  BY NoRewindStep DEF NoRewind
<1>3. QED
  BY <1>1, <1>2, SyncIsHeldStep, TypeCorrect, PTL DEF Spec, SequenceNeverRewinds
===============================================================================
