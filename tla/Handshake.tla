----------------------------- MODULE Handshake -----------------------------
(* One car and the host from connection to session: the firmware's TCP     *)
(* client, transmit task, transport and heartbeat watchdog                 *)
(* (network_client.c, tx_manager.c, socket_transport.c) with the part of   *)
(* its vehicle task that they reach, and the server's handshake and        *)
(* receiving threads, one per connection (comm/server.py).                 *)
(*                                                                         *)
(* A session has the name of its connection.  Connections are used again,  *)
(* so behaviours are as long as they like.  The states READY, MOVING and   *)
(* WAITING are READY here, and heartbeats are not messages: a session the  *)
(* host serves has them.                                                   *)
EXTENDS Naturals, Sequences

CONSTANTS
  MaxConnections,  \* bound: connections at a time, the host's memory included
  HoldRetries,     \* max_hold_retries (20 in the code)
  QueueLength,     \* TX_HIGH_QUEUE_LENGTH (12 in the code)
  MaxHellos,       \* bound: HELLOs on the way when another is built
  MaxDrops,        \* bound: Wi-Fi losses
  MaxStops         \* bound: STOP commands

Connections == 1..MaxConnections

ASSUME HandshakeAssumption ==
  /\ {MaxConnections, HoldRetries, QueueLength, MaxHellos} \subseteq Nat \ {0}
  /\ {MaxDrops, MaxStops} \subseteq Nat

VARIABLES
  (* firmware *)
  comm, conn,      \* communication_task and its connection
  fd,              \* s_socket_fd: a connection, or 0
  tx, hand,        \* the high queue; the line transmit_task has taken from it
  watch,           \* the heartbeat watchdog
  bits, cur,       \* pending notifications; those of the task's pass
  commands,        \* the command queue
  car,             \* the snapshot, as far as it decides here
  (* network: what is under way, and which end has closed *)
  to_host, to_car, car_closed, host_closed, cut,
  (* host *)
  thread,          \* the thread of each connection
  holds,           \* hold_count
  current, alive,  \* sessions[car_id], 0 for none; VehicleSession.alive
  drops, stops

firmware == <<comm, conn, fd, tx, hand, watch, bits, cur, commands, car>>
network == <<to_host, to_car, car_closed, host_closed, cut>>
host == <<thread, holds, current, alive>>
vars == <<firmware, network, host, drops, stops>>

Nothing == [type |-> "none"]
Generation == <<conn, fd # 0>>
Hello == [type |-> "HELLO", previous |-> car.previous, on |-> conn,
          generation |-> Generation]

Init ==
  /\ comm = "wifi" /\ conn = 0 /\ fd = 0 /\ tx = <<>> /\ hand = Nothing
  /\ watch = "off" /\ bits = {} /\ cur = {} /\ commands = <<>>
  /\ car = [state |-> "WIFI_CONNECTING", previous |-> "BOOT",
            pre_sync |-> "BOOT", active |-> FALSE, hold |-> FALSE,
            session |-> 0]
  /\ to_host = [c \in Connections |-> <<>>]
  /\ to_car = [c \in Connections |-> <<>>]
  /\ car_closed = [c \in Connections |-> TRUE]
  /\ host_closed = [c \in Connections |-> TRUE]
  /\ cut = [c \in Connections |-> FALSE]
  /\ thread = [c \in Connections |-> "over"]
  /\ holds = [c \in Connections |-> 0]
  /\ current = 0 /\ alive = [c \in Connections |-> FALSE]
  /\ drops = 0 /\ stops = 0

-----------------------------------------------------------------------------
(* The communication task.                                                 *)

(* The reconnection delay is twenty passes of the vehicle task.  A name is *)
(* taken again when nothing remembers the connection that had it.          *)
Connect(c) ==
  /\ comm = "wifi" /\ thread[c] = "over" /\ c # current
  /\ hand # Nothing => hand.on # c
  /\ bits = {} /\ cur = {} /\ commands = <<>>
  /\ comm' = "open" /\ conn' = c /\ fd' = c
  /\ tx' = <<>> /\ bits' = {"CONNECTED"}
  /\ to_host' = [to_host EXCEPT ![c] = <<>>]
  /\ to_car' = [to_car EXCEPT ![c] = <<>>]
  /\ car_closed' = [car_closed EXCEPT ![c] = FALSE]
  /\ host_closed' = [host_closed EXCEPT ![c] = FALSE]
  /\ cut' = [cut EXCEPT ![c] = FALSE]
  /\ thread' = [thread EXCEPT ![c] = "hello"]
  /\ holds' = [holds EXCEPT ![c] = 0]
  /\ UNCHANGED <<hand, watch, cur, commands, car, current, alive, drops, stops>>

(* A HELLO every HELLO_RETRY_MS until the session is active; it may be     *)
(* built before the vehicle task has seen the connection.  A full queue    *)
(* drops it: no step.                                                      *)
SendHello ==
  /\ comm = "open" /\ fd # 0 /\ ~car.active
  /\ Len(tx) < QueueLength /\ Len(tx) + Len(to_host[conn]) < MaxHellos
  /\ tx' = Append(tx, Hello)
  /\ UNCHANGED <<comm, conn, fd, hand, watch, bits, cur, commands, car,
                 network, host, drops, stops>>

(* process_line.  A round trip takes longer than a pass of the vehicle     *)
(* task: what arrives finds TCP_CONNECTED handled.                         *)
Receive ==
  /\ comm = "open" /\ fd # 0 /\ to_car[conn] # <<>>
  /\ "CONNECTED" \notin bits \cup cur
  /\ LET m == Head(to_car[conn]) IN
     /\ watch' = IF m.type = "HELLO_ACK" THEN "armed" ELSE watch
     /\ bits' = IF m.type = "STOP" THEN bits \cup {"STOP"} ELSE bits
     /\ commands' = IF m.type = "STOP" THEN commands ELSE Append(commands, m)
  /\ to_car' = [to_car EXCEPT ![conn] = Tail(@)]
  /\ UNCHANGED <<comm, conn, fd, tx, hand, cur, car, to_host, car_closed,
                 host_closed, cut, host, drops, stops>>

(* The loop ends: the host has closed, or the descriptor is gone.          *)
Disconnected ==
  /\ comm = "open" /\ (fd = 0 \/ (host_closed[conn] /\ to_car[conn] = <<>>))
  /\ comm' = "wifi" /\ fd' = 0 /\ tx' = <<>>
  /\ bits' = bits \cup {"DOWN"}
  /\ car_closed' = [car_closed EXCEPT ![conn] = TRUE]
  /\ UNCHANGED <<conn, hand, watch, cur, commands, car, to_host, to_car,
                 host_closed, cut, host, drops, stops>>

(* Wi-Fi is lost: neither end tells the other.                             *)
WifiLost ==
  /\ comm = "open" /\ drops < MaxDrops
  /\ drops' = drops + 1
  /\ comm' = "wifi" /\ fd' = 0 /\ tx' = <<>>
  /\ bits' = bits \cup {"DOWN"}
  /\ cut' = [cut EXCEPT ![conn] = TRUE]
  /\ UNCHANGED <<conn, hand, watch, cur, commands, car, to_host, to_car,
                 car_closed, host_closed, host, stops>>

-----------------------------------------------------------------------------
(* transmit_task: a line taken from the queue may be sent much later.      *)

TxTake ==
  /\ hand = Nothing /\ tx # <<>>
  /\ hand' = Head(tx) /\ tx' = Tail(tx)
  /\ UNCHANGED <<comm, conn, fd, watch, bits, cur, commands, car, network,
                 host, drops, stops>>

(* Mutant: a line goes out on whatever socket is open.                     *)
SendsOnAny(m) == fd # 0

(* socket_transport_send_line_if_current.                                  *)
SendsIfCurrent(m) == fd # 0 /\ m.generation = Generation

TxSend ==
  /\ hand # Nothing
  /\ hand' = Nothing
  /\ to_host' = IF SendsIfCurrent(hand)
                THEN [to_host EXCEPT ![fd] = Append(@, hand)] ELSE to_host
  /\ UNCHANGED <<comm, conn, fd, tx, watch, bits, cur, commands, car, to_car,
                 car_closed, host_closed, cut, host, drops, stops>>

-----------------------------------------------------------------------------
(* heartbeat_watchdog_task.                                                *)

Served == current = car.session /\ alive[current]

Heartbeat ==
  /\ car.active /\ car.session # 0 /\ fd = car.session /\ Served
  /\ watch' = "armed"
  /\ UNCHANGED <<comm, conn, fd, tx, hand, bits, cur, commands, car, network,
                 host, drops, stops>>

(* The host sends a HELLO_ACK and registers the session in the same breath,*)
(* well within HEARTBEAT_TIMEOUT_MS.                                       *)
WatchdogFires ==
  /\ car.active /\ watch = "armed"
  /\ car.session # 0 => (~Served /\ thread[car.session] # "register")
  /\ watch' = "fired" /\ bits' = bits \cup {"TIMEOUT"} /\ fd' = 0
  /\ UNCHANGED <<comm, conn, tx, hand, cur, commands, car, network, host,
                 drops, stops>>

-----------------------------------------------------------------------------
(* The vehicle task (VehicleControl has it in full).                       *)

In(state) == IF car.state = state THEN car
             ELSE [car EXCEPT !.state = state, !.previous = car.state]

Rest == UNCHANGED <<comm, conn, fd, tx, hand, watch, network, host, drops,
                    stops>>

Wake == /\ cur = {} /\ bits # {}
        /\ cur' = bits /\ bits' = {}
        /\ UNCHANGED <<commands, car>> /\ Rest

HandleStop ==
  /\ "STOP" \in cur /\ cur' = cur \ {"STOP"}
  /\ car' = In("EMERGENCY_STOP")
  /\ UNCHANGED <<bits, commands>> /\ Rest

(* TCP_DOWN and COMM_TIMEOUT.                                              *)
HandleCommTimeout ==
  /\ "STOP" \notin cur
  /\ \E b \in {"TIMEOUT", "DOWN"} \cap cur : cur' = cur \ {b}
  /\ LET lost == CASE car.state = "EMERGENCY_STOP" -> car
                   [] car.state = "SYNCING"
                      /\ car.pre_sync = "EMERGENCY_STOP" -> In(car.pre_sync)
                   [] OTHER -> In("COMM_TIMEOUT")
     IN car' = [lost EXCEPT !.active = FALSE]
  /\ UNCHANGED <<bits, commands>> /\ Rest

HandleConnected ==
  /\ cur = {"CONNECTED"} /\ cur' = {}
  /\ car' = [In("SYNCING") EXCEPT !.pre_sync = car.state, !.active = FALSE,
                                  !.hold = FALSE, !.session = 0]
  /\ UNCHANGED <<bits, commands>> /\ Rest

(* A READY_ALLOWED for a locked car is refused; a HOLD has no session id,  *)
(* yet makes the session active.                                           *)
AfterAck(m) ==
  IF car.state # "SYNCING" THEN car
  ELSE IF m.verdict = "HOLD"
  THEN [car EXCEPT !.active = TRUE, !.hold = TRUE, !.session = 0]
  ELSE IF car.pre_sync = "EMERGENCY_STOP" THEN car
  ELSE [In("READY") EXCEPT !.active = TRUE, !.hold = FALSE,
                           !.session = m.session]

(* The branch of RESET for a held car needs a session of the HOLD, which   *)
(* this host never opens.                                                  *)
AfterReset(m) ==
  IF car.active /\ car.session = m.session /\ car.state = "EMERGENCY_STOP"
  THEN In("READY") ELSE car

HandleCommand ==
  /\ cur = {} /\ commands # <<>>
  /\ LET m == Head(commands) IN
     car' = IF m.type = "HELLO_ACK" THEN AfterAck(m) ELSE AfterReset(m)
  /\ commands' = Tail(commands)
  /\ UNCHANGED <<bits, cur>> /\ Rest

-----------------------------------------------------------------------------
(* The server.                                                             *)

Wire == UNCHANGED <<firmware, car_closed, cut, drops>>

(* Mutant: a car that lost its link is held like one that was stopped.     *)
HeldStatesMore == {"EMERGENCY_STOP", "COMM_TIMEOUT"}

HeldStates == {"EMERGENCY_STOP"}

(* _judge_hello for a car that is known, reports no error and stands.      *)
Verdict(hello) ==
  IF hello.previous \in HeldStates THEN "HOLD" ELSE "READY_ALLOWED"

Ack(c, verdict) == [type |-> "HELLO_ACK", verdict |-> verdict,
                    session |-> IF verdict = "HOLD" THEN 0 ELSE c]

(* Mutant: one HOLD too many.                                              *)
OneHoldMore(c) == holds[c] >= HoldRetries

Exhausted(c) == holds[c] + 1 >= HoldRetries

(* _handshake up to the HELLO_ACK; after a HOLD it waits for another HELLO.*)
Judge(c) ==
  /\ thread[c] = "hello" /\ to_host[c] # <<>>
  /\ LET verdict == Verdict(Head(to_host[c]))
         last == verdict = "HOLD" /\ Exhausted(c)
     IN /\ to_car' = [to_car EXCEPT ![c] = Append(@, Ack(c, verdict))]
        /\ holds' = [holds EXCEPT ![c] = IF verdict = "HOLD" THEN @ + 1 ELSE @]
        /\ host_closed' = [host_closed EXCEPT ![c] = last]
        /\ thread' = [thread EXCEPT ![c] =
                        IF last THEN "over"
                        ELSE IF verdict = "HOLD" THEN "hello" ELSE "register"]
  /\ to_host' = [to_host EXCEPT ![c] = Tail(@)]
  /\ UNCHANGED <<current, alive, stops>> /\ Wire

(* The session before is invalidated and its connection closed.            *)
Closes(old) == [c \in Connections |-> c = old \/ host_closed[c]]

Register(c) ==
  /\ thread[c] = "register"
  /\ host_closed' = Closes(current)
  /\ alive' = [d \in Connections |-> d = c \/ (d # current /\ alive[d])]
  /\ current' = c
  /\ thread' = [thread EXCEPT ![c] = "rx"]
  /\ UNCHANGED <<to_host, to_car, holds, stops>> /\ Wire

(* A HELLO in a session is ignored (_dispatch).                            *)
RxHello(c) ==
  /\ thread[c] = "rx" /\ to_host[c] # <<>>
  /\ to_host' = [to_host EXCEPT ![c] = Tail(@)]
  /\ UNCHANGED <<to_car, host_closed, host, stops>> /\ Wire

(* The connection is over: closed by the car, by a newer session, or, of   *)
(* a car that went without a word, by the timeout of the handshake.        *)
ThreadEnds(c) ==
  /\ \/ thread[c] \in {"hello", "rx"} /\ to_host[c] = <<>> /\ car_closed[c]
     \/ thread[c] = "rx" /\ ~alive[c]
     \/ thread[c] = "hello" /\ to_host[c] = <<>> /\ cut[c]
  /\ thread' = [thread EXCEPT ![c] = "over"]
  /\ host_closed' = IF thread[c] = "hello"
                    THEN [host_closed EXCEPT ![c] = TRUE] ELSE host_closed
  /\ alive' = [alive EXCEPT ![c] = FALSE]
  /\ UNCHANGED <<to_host, to_car, holds, current, stops>> /\ Wire

Told(type) ==
  /\ current # 0 /\ alive[current] /\ ~host_closed[current]
  /\ to_car' = [to_car EXCEPT ![current] =
                  Append(@, [type |-> type, session |-> current])]
  /\ UNCHANGED <<to_host, host_closed, host>> /\ Wire

SendStop == stops < MaxStops /\ stops' = stops + 1 /\ Told("STOP")

SendReset ==
  /\ car.state = "EMERGENCY_STOP" /\ commands = <<>>
  /\ current # 0 /\ to_car[current] = <<>>
  /\ UNCHANGED stops /\ Told("RESET")

-----------------------------------------------------------------------------
Client == Disconnected \/ (\E c \in Connections : Connect(c))
Transmit == TxTake \/ TxSend
Vehicle == Wake \/ HandleStop \/ HandleCommTimeout \/ HandleConnected
           \/ HandleCommand
Serve(c) == Judge(c) \/ Register(c) \/ RxHello(c) \/ ThreadEnds(c)

Next == \/ Client \/ SendHello \/ Receive \/ WifiLost \/ Transmit
        \/ Heartbeat \/ WatchdogFires \/ Vehicle
        \/ (\E c \in Connections : Serve(c))
        \/ SendStop \/ SendReset

Spec == Init /\ [][Next]_vars

(* The tasks of the firmware and the threads of the server are scheduled   *)
(* in the end; nothing is assumed of the Wi-Fi and of the operator.        *)
FairSpec ==
  /\ Spec
  /\ WF_vars(Client) /\ WF_vars(SendHello) /\ WF_vars(Receive)
  /\ WF_vars(Transmit) /\ WF_vars(Vehicle) /\ WF_vars(WatchdogFires)
  /\ \A c \in Connections : WF_vars(Serve(c))

-----------------------------------------------------------------------------
TypeOK ==
  /\ comm \in {"wifi", "open"} /\ conn \in 0..MaxConnections
  /\ fd \in {0, conn}
  /\ Len(tx) <= QueueLength /\ watch \in {"off", "armed", "fired"}
  /\ bits \cup cur \subseteq {"STOP", "TIMEOUT", "DOWN", "CONNECTED"}
  /\ car.session \in 0..MaxConnections /\ (car.hold => car.session = 0)
  /\ current \in 0..MaxConnections
  /\ thread \in [Connections -> {"hello", "register", "rx", "over"}]
  /\ holds \in [Connections -> 0..HoldRetries]
  /\ drops \in 0..MaxDrops /\ stops \in 0..MaxStops

(* The host judges a connection by a HELLO built on it, so by the state    *)
(* the car was in then, whatever transmit_task still had in its hand.  And *)
(* a car that is in a session, on a connection no end has given up, is in  *)
(* the one the host serves, or its thread is about to make it so: a late   *)
(* handshake of an earlier connection cannot leave the car in a session    *)
(* that nobody sends heartbeats or commands for.                           *)
SessionsAgree ==
  /\ \A c \in Connections : \A i \in 1..Len(to_host[c]) :
       to_host[c][i].on = c
  /\ car.active /\ car.session # 0 /\ fd # 0 /\ ~host_closed[fd] =>
       /\ car.session = fd
       /\ (current = fd \/ thread[fd] = "register")

Agreed == car.active /\ ~car.hold /\ fd # 0 /\ car.session = fd /\ Served

(* A car that has not been stopped gets its session in the end and keeps   *)
(* it, however its connections were lost, delayed and overtaken before.    *)
Synchronises == [](car.state # "EMERGENCY_STOP") => <>[]Agreed

(* _handshake: a HOLD does not end the connection; the car sends its HELLO *)
(* again, and the host judges it again.                                    *)
HeldIsJudgedAgain ==
  \A c \in Connections :
    thread[c] = "hello" /\ holds[c] = 1
      ~> holds[c] > 1 \/ thread[c] = "register" \/ cut[c]

=============================================================================
