--------------------------- MODULE HandshakeProofs ---------------------------
(***************************************************************************)
(* Proofs about connection and session, for any number of connections,     *)
(* HELLOs on the way, queued lines, holds, Wi-Fi losses and STOP commands. *)
(***************************************************************************)
EXTENDS Handshake, SequenceTheorems, TLAPS

(* The types of the car, of the lines on the way and of the notifications. *)
CarStates == {"BOOT", "WIFI_CONNECTING", "SYNCING", "READY", "EMERGENCY_STOP",
              "COMM_TIMEOUT"}
Bits == {"STOP", "TIMEOUT", "DOWN", "CONNECTED"}
Ids == 0..MaxConnections

CarRecord == [state : CarStates, previous : CarStates, pre_sync : CarStates,
              active : BOOLEAN, hold : BOOLEAN, session : Ids]

(* A HELLO carries the generation of the connection it was built on.       *)
HelloOn(c) == [type : {"HELLO"}, previous : CarStates, on : {c},
               generation : {<<c, TRUE>>}]
HelloLine == UNION {HelloOn(c) : c \in Connections}

(* What the host sends a connection is about that connection.              *)
AckLine(c) == [type : {"HELLO_ACK"}, verdict : {"HOLD", "READY_ALLOWED"},
               session : {0, c}]
OrderLine(c) == [type : {"STOP", "RESET"}, session : {c}]
DownLine(c) == AckLine(c) \cup OrderLine(c)

HoldLine == [type : {"HELLO_ACK"}, verdict : {"HOLD"}, session : {0}]

TransportTyped ==
  /\ comm \in {"wifi", "open"} /\ conn \in Ids /\ fd \in {0, conn}
  /\ tx \in Seq(HelloLine) /\ Len(tx) <= QueueLength
  /\ hand \in HelloLine \cup {Nothing}
  /\ watch \in {"off", "armed", "fired"}

TaskTyped ==
  /\ bits \subseteq Bits /\ cur \subseteq Bits
  /\ commands \in Seq(DownLine(conn))
  /\ car \in CarRecord /\ (car.hold => car.session = 0)

LinesTyped ==
  /\ DOMAIN to_host = Connections /\ DOMAIN to_car = Connections
  /\ \A c \in Connections : /\ to_host[c] \in Seq(HelloOn(c))
                            /\ to_car[c] \in Seq(DownLine(c))

HostTyped ==
  /\ thread \in [Connections -> {"hello", "register", "rx", "over"}]
  /\ holds \in [Connections -> 0..HoldRetries]
  /\ host_closed \in [Connections -> BOOLEAN]
  /\ current \in Ids /\ drops \in 0..MaxDrops /\ stops \in 0..MaxStops

(* The transport has a socket only on a connection.                        *)
SocketKept == /\ comm = "wifi" => fd = 0
              /\ comm = "open" => conn \in Connections

(* A connection finds the car without a session and without commands of    *)
(* the one before: the task has seen its end, and once it has, a command   *)
(* still queued has no effect.                                             *)
CleanStart ==
  /\ "CONNECTED" \in bits \cup cur => commands = <<>> /\ ~car.active
  /\ comm = "wifi" /\ "DOWN" \notin bits \cup cur =>
       ~car.active /\ (commands # <<>> => car.state # "SYNCING")

OwnSession == car.active /\ car.session # 0 => car.session = conn

(* A handshake under way is of a connection the host has neither closed    *)
(* nor registered.                                                         *)
HandshakeOpen ==
  \A c \in Connections :
    /\ thread[c] = "hello" => holds[c] < HoldRetries
    /\ thread[c] \in {"hello", "register"} => ~host_closed[c] /\ current # c

(* A connection the host has neither closed nor registered, nor is about   *)
(* to, has been sent nothing but HOLDs; so the car has no session of it.   *)
Waiting(c) == thread[c] # "register" /\ current # c /\ ~host_closed[c]

OnlyHolds ==
  \A c \in Connections :
    Waiting(c) =>
      /\ to_car[c] \in Seq(HoldLine)
      /\ c = conn => /\ commands \in Seq(HoldLine)
                     /\ ~(car.active /\ car.session = c)

FirmwareInv == TransportTyped /\ TaskTyped /\ SocketKept /\ CleanStart
               /\ OwnSession
HostInv == LinesTyped /\ HostTyped /\ HandshakeOpen
HandshakeInv == FirmwareInv /\ HostInv /\ OnlyHolds

-----------------------------------------------------------------------------
(* Cars and lines.                                                         *)

LEMMA Numbers ==
  /\ MaxConnections \in Nat /\ MaxConnections # 0 /\ HoldRetries \in Nat
  /\ HoldRetries # 0 /\ QueueLength \in Nat /\ QueueLength # 0
  /\ MaxDrops \in Nat /\ MaxStops \in Nat
  /\ Connections = 1..MaxConnections /\ Connections \subseteq Ids
  BY HandshakeAssumption DEF Connections, Ids

LEMMA InTyped ==
  ASSUME car \in CarRecord, NEW s \in CarStates
  PROVE  /\ In(s) \in CarRecord /\ In(s).state = s
         /\ In(s).active = car.active /\ In(s).hold = car.hold
         /\ In(s).session = car.session /\ In(s).pre_sync = car.pre_sync
  BY DEF In, CarRecord

(* A car that hears an answer is in the session of it, or as before.       *)
LEMMA AckTyped ==
  ASSUME car \in CarRecord, car.hold => car.session = 0, conn \in Ids,
         NEW m \in AckLine(conn)
  PROVE  /\ AfterAck(m) \in CarRecord
         /\ AfterAck(m).hold => AfterAck(m).session = 0
         /\ \/ AfterAck(m) = car
            \/ /\ car.state = "SYNCING"
               /\ AfterAck(m).session \in {0, m.session}
<1>1. m.session \in {0, conn} /\ m.verdict \in {"HOLD", "READY_ALLOWED"}
      /\ m.session \in Ids /\ 0 \in Ids
  BY Numbers DEF AckLine, Ids
<1>2. CASE car.state # "SYNCING"
  BY <1>2 DEF AfterAck
<1>3. CASE car.state = "SYNCING" /\ m.verdict = "HOLD"
  <2>1. AfterAck(m) = [car EXCEPT !.active = TRUE, !.hold = TRUE, !.session = 0]
    BY <1>3 DEF AfterAck
  <2> QED BY <2>1, <1>1, <1>3 DEF CarRecord
<1>4. CASE car.state = "SYNCING" /\ m.verdict # "HOLD"
           /\ car.pre_sync = "EMERGENCY_STOP"
  BY <1>4 DEF AfterAck
<1>5. CASE car.state = "SYNCING" /\ m.verdict # "HOLD"
           /\ car.pre_sync # "EMERGENCY_STOP"
  <2>1. AfterAck(m) = [In("READY") EXCEPT !.active = TRUE, !.hold = FALSE,
                                          !.session = m.session]
    BY <1>5 DEF AfterAck
  <2>2. In("READY") \in CarRecord
    BY InTyped DEF CarStates
  <2> QED BY <2>1, <2>2, <1>1, <1>5 DEF CarRecord
<1> QED BY <1>2, <1>3, <1>4, <1>5

LEMMA ResetTyped ==
  ASSUME car \in CarRecord, NEW m
  PROVE  /\ AfterReset(m) \in CarRecord
         /\ AfterReset(m).active = car.active
         /\ AfterReset(m).session = car.session
         /\ AfterReset(m).hold = car.hold
         /\ car.state # "SYNCING" => AfterReset(m).state # "SYNCING"
  BY InTyped DEF AfterReset, CarStates

LEMMA HelloTyped ==
  ASSUME car \in CarRecord, conn \in Connections, fd \in {0, conn}, fd # 0
  PROVE  Hello \in HelloOn(conn)
  BY DEF Hello, Generation, HelloOn, CarRecord

(* A line that goes out was built on the connection that is open.          *)
LEMMA CurrentLine ==
  ASSUME TransportTyped, hand # Nothing, SendsIfCurrent(hand)
  PROVE  fd \in Connections /\ hand \in HelloOn(fd)
<1>1. PICK c \in Connections : hand \in HelloOn(c)
  BY DEF TransportTyped, HelloLine
<1>2. hand.generation = <<c, TRUE>> /\ fd # 0 /\ fd = conn
  BY <1>1 DEF HelloOn, SendsIfCurrent, TransportTyped
<1>3. <<c, TRUE>> = <<conn, fd # 0>>
  BY <1>2 DEF SendsIfCurrent, Generation
<1>4. c = conn
  BY <1>3
<1> QED BY <1>1, <1>2, <1>4

LEMMA HoldsAreDown == ASSUME NEW c PROVE HoldLine \subseteq DownLine(c)
  BY DEF HoldLine, DownLine, AckLine

LEMMA HelloIsLine == \A c \in Connections : HelloOn(c) \subseteq HelloLine
  BY DEF HelloLine

LEMMA HeadTail ==
  ASSUME NEW S, NEW q \in Seq(S), q # <<>>
  PROVE  Head(q) \in S /\ Tail(q) \in Seq(S) /\ Len(Tail(q)) < Len(q)
  BY HeadTailProperties, LenProperties

LEMMA Added ==
  ASSUME NEW S, NEW q \in Seq(S), NEW e \in S
  PROVE  Append(q, e) \in Seq(S) /\ Len(Append(q, e)) = Len(q) + 1
  BY AppendProperties

-----------------------------------------------------------------------------
LEMMA InitInv == Init => HandshakeInv
<1> SUFFICES ASSUME Init PROVE HandshakeInv
  OBVIOUS
<1> USE Numbers
<1>1. \A S : <<>> \in Seq(S)
  BY EmptySeq
<1>2. TransportTyped /\ SocketKept
  BY <1>1 DEF Init, TransportTyped, SocketKept, Ids
<1>3. TaskTyped /\ CleanStart /\ OwnSession
  BY <1>1 DEF Init, TaskTyped, CleanStart, OwnSession, Ids, Bits, CarRecord,
              CarStates
<1>4. LinesTyped /\ HostTyped /\ HandshakeOpen
  BY <1>1 DEF Init, LinesTyped, HostTyped, HandshakeOpen, Ids
<1>5. OnlyHolds
  BY <1>1 DEF Init, OnlyHolds, Waiting
<1> QED BY <1>2, <1>3, <1>4, <1>5 DEF HandshakeInv, FirmwareInv, HostInv

(* The firmware's own steps leave what the host knows as it is.            *)
LEMMA HostKept ==
  ASSUME HostInv, UNCHANGED <<host_closed, thread, holds, current>>,
         drops' \in 0..MaxDrops, stops' = stops, LinesTyped'
  PROVE  HostInv'
  BY DEF HostInv, LinesTyped, HostTyped, HandshakeOpen

LEMMA ConnectInv ==
  ASSUME HandshakeInv, NEW c \in Connections, Connect(c)
  PROVE  HandshakeInv'
<1> USE Numbers
<1> USE DEF HandshakeInv, FirmwareInv, HostInv
<1>1. \A S : <<>> \in Seq(S)
  BY EmptySeq
<1>2. ~car.active /\ commands = <<>> /\ c # 0
  BY DEF Connect, CleanStart
<1>3. TransportTyped'
  BY <1>1, <1>2 DEF Connect, TransportTyped, Ids
<1>4. TaskTyped'
  BY <1>1, <1>2 DEF Connect, TaskTyped, Bits
<1>5. LinesTyped'
  BY <1>1 DEF Connect, LinesTyped
<1>6. HostTyped' /\ HandshakeOpen'
  BY DEF Connect, HostTyped, HandshakeOpen
<1>7. SocketKept' /\ CleanStart' /\ OwnSession'
  BY <1>2 DEF Connect, SocketKept, CleanStart, OwnSession
<1>8. OnlyHolds'
  <2> SUFFICES ASSUME NEW d \in Connections, Waiting(d)'
               PROVE  /\ to_car'[d] \in Seq(HoldLine)
                      /\ d = conn' => /\ commands' \in Seq(HoldLine)
                                      /\ ~(car'.active /\ car'.session = d)
    BY DEF OnlyHolds
  <2>1. CASE d = c
    BY <2>1, <1>1, <1>2 DEF Connect, LinesTyped
  <2>2. CASE d # c
    <3>1. Waiting(d)
      BY <2>2 DEF Connect, Waiting, HostTyped
    <3> QED BY <3>1, <2>2 DEF Connect, OnlyHolds, LinesTyped
  <2> QED BY <2>1, <2>2
<1> QED BY <1>3, <1>4, <1>5, <1>6, <1>7, <1>8

LEMMA SendHelloInv == ASSUME HandshakeInv, SendHello PROVE HandshakeInv'
<1> USE DEF HandshakeInv, FirmwareInv
<1>1. Hello \in HelloLine
  BY HelloTyped, HelloIsLine DEF SendHello, TaskTyped, TransportTyped, SocketKept
<1>2. TransportTyped'
  <2>1. tx' \in Seq(HelloLine) /\ Len(tx') = Len(tx) + 1
    BY <1>1, Added DEF SendHello, TransportTyped
  <2>2. Len(tx) \in Nat
    BY LenProperties DEF TransportTyped
  <2> QED BY <2>1, <2>2, Numbers DEF SendHello, TransportTyped
<1>3. UNCHANGED <<comm, conn, fd, bits, cur, commands, car, network, host, drops,
                  stops>>
  BY DEF SendHello
<1>4. LinesTyped'
  BY <1>3 DEF network, LinesTyped, HostInv
<1>5. HostInv'
  BY <1>3, <1>4, HostKept DEF network, host, HostInv, HostTyped
<1>6. TaskTyped' /\ SocketKept' /\ CleanStart' /\ OwnSession' /\ OnlyHolds'
  BY <1>3 DEF TaskTyped, SocketKept, CleanStart, OwnSession, OnlyHolds, Waiting,
              network, host
<1> QED BY <1>2, <1>5, <1>6

LEMMA ReceiveInv == ASSUME HandshakeInv, Receive PROVE HandshakeInv'
<1> USE DEF HandshakeInv, FirmwareInv, HostInv
<1>1. conn \in Connections /\ to_car[conn] # <<>>
      /\ "CONNECTED" \notin bits \cup cur /\ comm = "open"
  BY DEF Receive, SocketKept
<1>2. PICK m : m = Head(to_car[conn])
  OBVIOUS
<1>3. /\ m \in DownLine(conn) /\ Tail(to_car[conn]) \in Seq(DownLine(conn))
  BY <1>1, <1>2, HeadTail DEF LinesTyped
<1>4. /\ watch' = IF m.type = "HELLO_ACK" THEN "armed" ELSE watch
      /\ bits' = IF m.type = "STOP" THEN bits \cup {"STOP"} ELSE bits
      /\ commands' = IF m.type = "STOP" THEN commands ELSE Append(commands, m)
      /\ to_car' = [to_car EXCEPT ![conn] = Tail(@)]
      /\ UNCHANGED <<comm, conn, fd, tx, hand, cur, car, to_host, car_closed,
                     host_closed, cut, host, drops, stops>>
  BY <1>2 DEF Receive
<1>5. TransportTyped' /\ SocketKept' /\ OwnSession'
  BY <1>4 DEF TransportTyped, SocketKept, OwnSession
<1>6. TaskTyped'
  <2>1. commands' \in Seq(DownLine(conn))
    BY <1>3, <1>4, Added DEF TaskTyped
  <2> QED BY <2>1, <1>4 DEF TaskTyped, Bits
<1>7. CleanStart'
  BY <1>1, <1>4 DEF CleanStart
<1>8. LinesTyped'
  BY <1>1, <1>3, <1>4 DEF LinesTyped
<1>9. HostInv'
  BY <1>4, <1>8, HostKept DEF host, HostTyped
<1>10. OnlyHolds'
  <2> SUFFICES ASSUME NEW d \in Connections, Waiting(d)'
               PROVE  /\ to_car'[d] \in Seq(HoldLine)
                      /\ d = conn' => /\ commands' \in Seq(HoldLine)
                                      /\ ~(car'.active /\ car'.session = d)
    BY DEF OnlyHolds
  <2>1. Waiting(d)
    BY <1>4 DEF Waiting, host
  <2>2. CASE d = conn
    <3>1. /\ to_car[conn] \in Seq(HoldLine) /\ commands \in Seq(HoldLine)
          /\ ~(car.active /\ car.session = conn)
      BY <2>1, <2>2 DEF OnlyHolds
    <3>2. m \in HoldLine /\ Tail(to_car[conn]) \in Seq(HoldLine)
      BY <3>1, <1>1, <1>2, HeadTail
    <3>3. commands' \in Seq(HoldLine)
      BY <3>1, <3>2, <1>4, Added
    <3> QED BY <3>1, <3>2, <3>3, <1>1, <1>4, <2>2 DEF LinesTyped
  <2>3. CASE d # conn
    BY <2>1, <2>3, <1>4 DEF OnlyHolds, LinesTyped
  <2> QED BY <2>2, <2>3
<1> QED BY <1>5, <1>6, <1>7, <1>9, <1>10

LEMMA DisconnectedInv == ASSUME HandshakeInv, Disconnected PROVE HandshakeInv'
<1> USE DEF HandshakeInv, FirmwareInv, HostInv
<1>1. \A S : <<>> \in Seq(S)
  BY EmptySeq
<1>2. TransportTyped' /\ SocketKept'
  BY <1>1, Numbers DEF Disconnected, TransportTyped, SocketKept
<1>3. TaskTyped' /\ CleanStart' /\ OwnSession'
  BY DEF Disconnected, TaskTyped, CleanStart, OwnSession, Bits
<1>4. HostInv'
  BY DEF Disconnected, host, HostTyped, LinesTyped, HandshakeOpen
<1>5. OnlyHolds'
  BY DEF Disconnected, host, OnlyHolds, Waiting
<1> QED BY <1>2, <1>3, <1>4, <1>5

LEMMA WifiLostInv == ASSUME HandshakeInv, WifiLost PROVE HandshakeInv'
<1> USE DEF HandshakeInv, FirmwareInv, HostInv
<1>1. \A S : <<>> \in Seq(S)
  BY EmptySeq
<1>2. TransportTyped' /\ SocketKept'
  BY <1>1, Numbers DEF WifiLost, TransportTyped, SocketKept
<1>3. TaskTyped' /\ CleanStart' /\ OwnSession'
  BY DEF WifiLost, TaskTyped, CleanStart, OwnSession, Bits
<1>4. HostInv'
  BY Numbers DEF WifiLost, host, HostTyped, LinesTyped, HandshakeOpen
<1>5. OnlyHolds'
  BY DEF WifiLost, host, OnlyHolds, Waiting
<1> QED BY <1>2, <1>3, <1>4, <1>5

LEMMA TxTakeInv == ASSUME HandshakeInv, TxTake PROVE HandshakeInv'
<1> USE DEF HandshakeInv, FirmwareInv, HostInv
<1>1. Head(tx) \in HelloLine /\ Tail(tx) \in Seq(HelloLine)
      /\ Len(Tail(tx)) < Len(tx) /\ Len(tx) \in Nat /\ Len(Tail(tx)) \in Nat
  BY HeadTail, LenProperties DEF TxTake, TransportTyped
<1>2. TransportTyped' /\ SocketKept'
  BY <1>1, Numbers DEF TxTake, TransportTyped, SocketKept
<1>3. TaskTyped' /\ CleanStart' /\ OwnSession'
  BY DEF TxTake, TaskTyped, CleanStart, OwnSession
<1>4. HostInv'
  BY DEF TxTake, host, network, HostTyped, LinesTyped, HandshakeOpen
<1>5. OnlyHolds'
  BY DEF TxTake, host, network, OnlyHolds, Waiting
<1> QED BY <1>2, <1>3, <1>4, <1>5

LEMMA TxSendInv == ASSUME HandshakeInv, TxSend PROVE HandshakeInv'
<1> USE DEF HandshakeInv, FirmwareInv, HostInv
<1>1. TransportTyped' /\ SocketKept'
  BY DEF TxSend, TransportTyped, SocketKept
<1>2. TaskTyped' /\ CleanStart' /\ OwnSession'
  BY DEF TxSend, TaskTyped, CleanStart, OwnSession
<1>3. LinesTyped'
  <2>1. CASE SendsIfCurrent(hand)
    <3>1. fd \in Connections /\ hand \in HelloOn(fd)
      BY <2>1, CurrentLine DEF TxSend
    <3>2. Append(to_host[fd], hand) \in Seq(HelloOn(fd))
      BY <3>1, Added DEF LinesTyped
    <3>3. to_host' = [to_host EXCEPT ![fd] = Append(@, hand)]
      BY <2>1 DEF TxSend
    <3> QED BY <3>1, <3>2, <3>3 DEF TxSend, LinesTyped
  <2>2. CASE ~SendsIfCurrent(hand)
    BY <2>2 DEF TxSend, LinesTyped
  <2> QED BY <2>1, <2>2
<1>4. HostInv'
  BY <1>3 DEF TxSend, host, HostTyped, HandshakeOpen
<1>5. OnlyHolds'
  BY DEF TxSend, host, OnlyHolds, Waiting
<1> QED BY <1>1, <1>2, <1>4, <1>5

LEMMA HeartbeatInv == ASSUME HandshakeInv, Heartbeat PROVE HandshakeInv'
<1> USE DEF HandshakeInv, FirmwareInv, HostInv
<1>1. TransportTyped' /\ SocketKept'
  BY DEF Heartbeat, TransportTyped, SocketKept
<1>2. TaskTyped' /\ CleanStart' /\ OwnSession'
  BY DEF Heartbeat, TaskTyped, CleanStart, OwnSession
<1>3. HostInv'
  BY DEF Heartbeat, host, network, HostTyped, LinesTyped, HandshakeOpen
<1>4. OnlyHolds'
  BY DEF Heartbeat, host, network, OnlyHolds, Waiting
<1> QED BY <1>1, <1>2, <1>3, <1>4

LEMMA WatchdogInv == ASSUME HandshakeInv, WatchdogFires PROVE HandshakeInv'
<1> USE DEF HandshakeInv, FirmwareInv, HostInv
<1>1. TransportTyped' /\ SocketKept'
  BY DEF WatchdogFires, TransportTyped, SocketKept
<1>2. TaskTyped' /\ CleanStart' /\ OwnSession'
  BY DEF WatchdogFires, TaskTyped, CleanStart, OwnSession, Bits
<1>3. HostInv'
  BY DEF WatchdogFires, host, network, HostTyped, LinesTyped, HandshakeOpen
<1>4. OnlyHolds'
  BY DEF WatchdogFires, host, network, OnlyHolds, Waiting
<1> QED BY <1>1, <1>2, <1>3, <1>4

-----------------------------------------------------------------------------
(* The vehicle task.                                                       *)

(* What a step of the vehicle task has to keep.                            *)
LEMMA VehicleStep ==
  ASSUME HandshakeInv, Rest, TaskTyped', CleanStart', OwnSession',
         \A S : commands \in Seq(S) => commands' \in Seq(S),
         car'.active /\ car'.session # 0 /\ conn \in Connections /\ Waiting(conn)
           => car.active /\ car.session = car'.session
  PROVE  HandshakeInv'
<1> USE DEF HandshakeInv, FirmwareInv, HostInv
<1>1. TransportTyped' /\ SocketKept'
  BY DEF Rest, TransportTyped, SocketKept
<1>2. HostInv'
  BY DEF Rest, host, network, HostTyped, LinesTyped, HandshakeOpen
<1>3. OnlyHolds'
  <2> SUFFICES ASSUME NEW d \in Connections, Waiting(d)'
               PROVE  /\ to_car'[d] \in Seq(HoldLine)
                      /\ d = conn' => /\ commands' \in Seq(HoldLine)
                                      /\ ~(car'.active /\ car'.session = d)
    BY DEF OnlyHolds
  <2>1. Waiting(d) /\ to_car' = to_car /\ conn' = conn /\ d # 0
    BY Numbers DEF Rest, Waiting, host, network
  <2> QED BY <2>1 DEF OnlyHolds
<1> QED BY <1>1, <1>2, <1>3

LEMMA WakeInv == ASSUME HandshakeInv, Wake PROVE HandshakeInv'
<1> USE DEF HandshakeInv, FirmwareInv
<1>1. TaskTyped' /\ CleanStart' /\ OwnSession'
  BY DEF Wake, Rest, TaskTyped, CleanStart, OwnSession
<1> QED BY <1>1, VehicleStep DEF Wake

LEMMA HandleStopInv == ASSUME HandshakeInv, HandleStop PROVE HandshakeInv'
<1> USE DEF HandshakeInv, FirmwareInv
<1>1. /\ car' \in CarRecord /\ car'.active = car.active
      /\ car'.session = car.session /\ car'.hold = car.hold
      /\ car'.state = "EMERGENCY_STOP"
  BY InTyped DEF HandleStop, TaskTyped, CarStates
<1>2. TaskTyped'
  BY <1>1 DEF HandleStop, Rest, TaskTyped
<1>3. CleanStart' /\ OwnSession'
  BY <1>1 DEF HandleStop, Rest, CleanStart, OwnSession
<1> QED BY <1>1, <1>2, <1>3, VehicleStep DEF HandleStop

LEMMA HandleCommTimeoutInv ==
  ASSUME HandshakeInv, HandleCommTimeout PROVE HandshakeInv'
<1> USE DEF HandshakeInv, FirmwareInv
<1>1. PICK b \in {"TIMEOUT", "DOWN"} \cap cur : cur' = cur \ {b}
  BY DEF HandleCommTimeout
<1>2. PICK lost \in CarRecord :
        /\ car' = [lost EXCEPT !.active = FALSE] /\ lost.hold = car.hold
        /\ lost.session = car.session /\ lost.state # "SYNCING"
  <2>1. CASE car.state = "EMERGENCY_STOP"
    BY <2>1 DEF HandleCommTimeout, TaskTyped
  <2>2. CASE car.state = "SYNCING" /\ car.pre_sync = "EMERGENCY_STOP"
    <3>1. car' = [In("EMERGENCY_STOP") EXCEPT !.active = FALSE]
      BY <2>2 DEF HandleCommTimeout
    <3> QED BY <3>1, InTyped DEF TaskTyped, CarStates
  <2>3. CASE car.state # "EMERGENCY_STOP"
             /\ ~(car.state = "SYNCING" /\ car.pre_sync = "EMERGENCY_STOP")
    <3>1. car' = [In("COMM_TIMEOUT") EXCEPT !.active = FALSE]
      BY <2>3 DEF HandleCommTimeout
    <3> QED BY <3>1, InTyped DEF TaskTyped, CarStates
  <2> QED BY <2>1, <2>2, <2>3
<1>3. /\ car' \in CarRecord /\ car'.active = FALSE /\ car'.hold = car.hold
      /\ car'.session = car.session /\ car'.state # "SYNCING"
  BY <1>2 DEF CarRecord
<1>4. TaskTyped'
  BY <1>1, <1>3 DEF HandleCommTimeout, Rest, TaskTyped
<1>5. CleanStart' /\ OwnSession'
  BY <1>1, <1>3 DEF HandleCommTimeout, Rest, CleanStart, OwnSession
<1> QED BY <1>3, <1>4, <1>5, VehicleStep DEF HandleCommTimeout

LEMMA HandleConnectedInv ==
  ASSUME HandshakeInv, HandleConnected PROVE HandshakeInv'
<1> USE DEF HandshakeInv, FirmwareInv
<1>1. PICK c : c = In("SYNCING")
  OBVIOUS
<1>2. c \in CarRecord /\ car.state \in CarStates /\ 0 \in Ids
  BY <1>1, InTyped, Numbers DEF TaskTyped, CarStates, CarRecord, Ids
<1>3. car' = [c EXCEPT !.pre_sync = car.state, !.active = FALSE, !.hold = FALSE,
                       !.session = 0]
  BY <1>1 DEF HandleConnected
<1>4. /\ car' \in CarRecord /\ car'.active = FALSE /\ car'.hold = FALSE
      /\ car'.session = 0
  BY <1>2, <1>3 DEF CarRecord
<1>5. TaskTyped'
  BY <1>4 DEF HandleConnected, Rest, TaskTyped
<1>6. CleanStart' /\ OwnSession'
  BY <1>4 DEF HandleConnected, Rest, CleanStart, OwnSession
<1> QED BY <1>4, <1>5, <1>6, VehicleStep DEF HandleConnected

LEMMA HandleCommandInv ==
  ASSUME HandshakeInv, HandleCommand PROVE HandshakeInv'
<1> USE DEF HandshakeInv, FirmwareInv
<1>1. PICK m : m = Head(commands)
  OBVIOUS
<1>2. /\ cur = {} /\ commands # <<>> /\ commands' = Tail(commands)
      /\ car' = IF m.type = "HELLO_ACK" THEN AfterAck(m) ELSE AfterReset(m)
      /\ UNCHANGED <<bits, cur>> /\ Rest
  BY <1>1 DEF HandleCommand
<1>3. m \in DownLine(conn) /\ car \in CarRecord /\ conn \in Ids
  BY <1>1, <1>2, HeadTail DEF TaskTyped, TransportTyped
<1>4. \A S : commands \in Seq(S) => m \in S /\ commands' \in Seq(S)
  BY <1>1, <1>2, HeadTail
<1>5. /\ car' \in CarRecord /\ (car'.hold => car'.session = 0)
      /\ \/ car' = car
         \/ /\ car'.active => car.active
            /\ car'.session = car.session
            /\ car.state # "SYNCING" => car'.state # "SYNCING"
         \/ /\ m.type = "HELLO_ACK" /\ car.state = "SYNCING"
            /\ car'.session \in {0, m.session}
  <2>1. CASE m.type = "HELLO_ACK"
    <3>1. m \in AckLine(conn)
      BY <1>3, <2>1 DEF DownLine, OrderLine
    <3> QED BY <3>1, <2>1, <1>2, <1>3, AckTyped DEF TaskTyped
  <2>2. CASE m.type # "HELLO_ACK"
    <3>1. car' = AfterReset(m)
      BY <2>2, <1>2
    <3> QED BY <3>1, <1>3, ResetTyped DEF TaskTyped
  <2> QED BY <2>1, <2>2
<1>6. m.type = "HELLO_ACK" => m.session \in {0, conn}
  BY <1>3 DEF DownLine, AckLine, OrderLine
<1>7. TaskTyped'
  BY <1>2, <1>3, <1>4, <1>5 DEF Rest, TaskTyped
<1>8. CleanStart'
  BY <1>2, <1>5 DEF Rest, CleanStart
<1>9. OwnSession'
  BY <1>2, <1>5, <1>6 DEF Rest, OwnSession
<1>10. ASSUME car'.active, car'.session # 0, conn \in Connections, Waiting(conn)
       PROVE  car.active /\ car.session = car'.session
  <2>1. m \in HoldLine
    BY <1>4, <1>10 DEF OnlyHolds
  <2> QED BY <2>1, <1>5, <1>10 DEF HoldLine
<1> QED BY <1>2, <1>4, <1>7, <1>8, <1>9, <1>10, VehicleStep

-----------------------------------------------------------------------------
(* The server.                                                             *)

(* The firmware knows of the server only what is on its way.               *)
LEMMA FirmwareKept ==
  ASSUME FirmwareInv, UNCHANGED firmware PROVE FirmwareInv'
  BY DEF FirmwareInv, firmware, TransportTyped, TaskTyped, SocketKept, CleanStart,
         OwnSession

LEMMA JudgeInv ==
  ASSUME HandshakeInv, NEW c \in Connections, Judge(c) PROVE HandshakeInv'
<1> USE DEF HandshakeInv, HostInv
<1>1. PICK verdict \in {"HOLD", "READY_ALLOWED"} : \E last \in BOOLEAN :
        /\ last => verdict = "HOLD"
        /\ ~last /\ verdict = "HOLD" => ~Exhausted(c)
        /\ to_car' = [to_car EXCEPT ![c] = Append(@, Ack(c, verdict))]
        /\ holds' = [holds EXCEPT ![c] = IF verdict = "HOLD" THEN @ + 1 ELSE @]
        /\ host_closed' = [host_closed EXCEPT ![c] = last]
        /\ thread' = [thread EXCEPT ![c] =
                        IF last THEN "over"
                        ELSE IF verdict = "HOLD" THEN "hello" ELSE "register"]
  <2>1. Verdict(Head(to_host[c])) \in {"HOLD", "READY_ALLOWED"}
    BY DEF Verdict
  <2> QED BY <2>1, Zenon DEF Judge
<1>2. PICK last \in BOOLEAN :
        /\ last => verdict = "HOLD"
        /\ ~last /\ verdict = "HOLD" => ~Exhausted(c)
        /\ to_car' = [to_car EXCEPT ![c] = Append(@, Ack(c, verdict))]
        /\ holds' = [holds EXCEPT ![c] = IF verdict = "HOLD" THEN @ + 1 ELSE @]
        /\ host_closed' = [host_closed EXCEPT ![c] = last]
        /\ thread' = [thread EXCEPT ![c] =
                        IF last THEN "over"
                        ELSE IF verdict = "HOLD" THEN "hello" ELSE "register"]
  BY <1>1
<1>3. /\ thread[c] = "hello" /\ to_host[c] # <<>>
      /\ to_host' = [to_host EXCEPT ![c] = Tail(@)]
      /\ UNCHANGED <<firmware, current, alive, drops, stops>>
  BY DEF Judge, Wire
<1>4. /\ holds[c] < HoldRetries /\ ~host_closed[c] /\ current # c
      /\ holds[c] \in 0..HoldRetries
  BY <1>3 DEF HandshakeOpen, HostTyped
<1>5. Ack(c, verdict) \in DownLine(c)
      /\ (verdict = "HOLD" => Ack(c, verdict) \in HoldLine)
  BY DEF Ack, DownLine, AckLine, HoldLine
<1>6. FirmwareInv'
  BY <1>3, FirmwareKept
<1>7. LinesTyped'
  <2>1. Append(to_car[c], Ack(c, verdict)) \in Seq(DownLine(c))
        /\ Tail(to_host[c]) \in Seq(HelloOn(c))
    BY <1>3, <1>5, Added, HeadTail DEF LinesTyped
  <2> QED BY <2>1, <1>2, <1>3 DEF LinesTyped
<1>8. HostTyped'
  BY <1>2, <1>3, <1>4, Numbers DEF HostTyped
<1>9. HandshakeOpen'
  BY <1>2, <1>3, <1>4, Numbers DEF HandshakeOpen, Exhausted, HostTyped
<1>10. OnlyHolds'
  <2> SUFFICES ASSUME NEW d \in Connections, Waiting(d)'
               PROVE  /\ to_car'[d] \in Seq(HoldLine)
                      /\ d = conn' => /\ commands' \in Seq(HoldLine)
                                      /\ ~(car'.active /\ car'.session = d)
    BY DEF OnlyHolds
  <2>1. Waiting(d)
    BY <1>2, <1>3, <1>4 DEF Waiting, HostTyped
  <2>2. UNCHANGED <<conn, commands, car>>
    BY <1>3 DEF firmware
  <2>3. CASE d = c
    <3>1. verdict = "HOLD"
      BY <2>3, <1>2 DEF Waiting, HostTyped
    <3>2. Append(to_car[c], Ack(c, verdict)) \in Seq(HoldLine)
      BY <3>1, <1>5, <2>1, <2>3, Added DEF OnlyHolds
    <3> QED BY <3>2, <2>1, <2>2, <2>3, <1>2 DEF OnlyHolds, LinesTyped
  <2>4. CASE d # c
    BY <2>1, <2>2, <2>4, <1>2 DEF OnlyHolds, LinesTyped
  <2> QED BY <2>3, <2>4
<1> QED BY <1>6, <1>7, <1>8, <1>9, <1>10

(* A step of the server that sends nothing and leaves no new connection    *)
(* waiting.                                                                *)
LEMMA SilentStep ==
  ASSUME HandshakeInv, Wire, to_car' = to_car, HostInv',
         \A d \in Connections : Waiting(d)' => Waiting(d)
  PROVE  HandshakeInv'
<1>1. FirmwareInv'
  BY FirmwareKept DEF HandshakeInv, Wire
<1>2. OnlyHolds'
  BY DEF HandshakeInv, OnlyHolds, Wire, firmware
<1> QED BY <1>1, <1>2 DEF HandshakeInv

LEMMA RegisterInv ==
  ASSUME HandshakeInv, NEW c \in Connections, Register(c) PROVE HandshakeInv'
<1> USE DEF HandshakeInv, HostInv
<1>1. \A d \in Connections : host_closed'[d] <=> d = current \/ host_closed[d]
  BY DEF Register, Closes
<1>2. LinesTyped'
  BY DEF Register, LinesTyped
<1>3. HostTyped'
  <2>1. host_closed' \in [Connections -> BOOLEAN]
    BY DEF Register, Closes, HostTyped
  <2> QED BY <2>1, Numbers DEF Register, Wire, HostTyped
<1>4. HandshakeOpen'
  BY <1>1 DEF Register, HandshakeOpen, HostTyped
<1>5. \A d \in Connections : Waiting(d)' => Waiting(d)
  BY <1>1 DEF Register, Waiting, HostTyped
<1> QED BY <1>2, <1>3, <1>4, <1>5, SilentStep DEF Register

LEMMA RxHelloInv ==
  ASSUME HandshakeInv, NEW c \in Connections, RxHello(c) PROVE HandshakeInv'
<1> USE DEF HandshakeInv, HostInv
<1>1. Tail(to_host[c]) \in Seq(HelloOn(c))
  BY HeadTail DEF RxHello, LinesTyped
<1>2. LinesTyped'
  BY <1>1 DEF RxHello, LinesTyped
<1>3. HostTyped' /\ HandshakeOpen'
  BY DEF RxHello, Wire, host, HostTyped, HandshakeOpen
<1>4. \A d \in Connections : Waiting(d)' => Waiting(d)
  BY DEF RxHello, host, Waiting
<1> QED BY <1>2, <1>3, <1>4, SilentStep DEF RxHello

LEMMA ThreadEndsInv ==
  ASSUME HandshakeInv, NEW c \in Connections, ThreadEnds(c) PROVE HandshakeInv'
<1> USE DEF HandshakeInv, HostInv
<1>1. /\ thread[c] \in {"hello", "rx"} /\ thread' = [thread EXCEPT ![c] = "over"]
      /\ host_closed' = IF thread[c] = "hello"
                        THEN [host_closed EXCEPT ![c] = TRUE] ELSE host_closed
      /\ UNCHANGED <<to_host, to_car, holds, current, drops, stops>> /\ Wire
  BY DEF ThreadEnds, Wire
<1>2. LinesTyped'
  BY <1>1 DEF LinesTyped
<1>3. HostTyped'
  BY <1>1 DEF HostTyped
<1>4. HandshakeOpen'
  BY <1>1 DEF HandshakeOpen, HostTyped
<1>5. \A d \in Connections : Waiting(d)' => Waiting(d)
  BY <1>1 DEF Waiting, HostTyped
<1> QED BY <1>1, <1>2, <1>3, <1>4, <1>5, SilentStep

LEMMA ToldInv ==
  ASSUME HandshakeInv, NEW type \in {"STOP", "RESET"}, Told(type),
         stops' \in 0..MaxStops
  PROVE  HandshakeInv'
<1> USE DEF HandshakeInv, HostInv
<1>1. /\ current \in Connections /\ UNCHANGED <<to_host, host_closed, host>>
      /\ Wire
      /\ to_car' = [to_car EXCEPT ![current] =
                      Append(@, [type |-> type, session |-> current])]
  BY Numbers DEF Told, HostTyped, Ids
<1>2. FirmwareInv'
  BY <1>1, FirmwareKept DEF Wire
<1>3. LinesTyped'
  <2>1. [type |-> type, session |-> current] \in DownLine(current)
    BY DEF DownLine, OrderLine
  <2>2. Append(to_car[current], [type |-> type, session |-> current])
          \in Seq(DownLine(current))
    BY <2>1, <1>1, Added DEF LinesTyped
  <2> QED BY <2>2, <1>1 DEF LinesTyped
<1>4. HostTyped' /\ HandshakeOpen'
  BY <1>1 DEF host, Wire, HostTyped, HandshakeOpen
<1>5. OnlyHolds'
  BY <1>1 DEF host, Wire, firmware, OnlyHolds, Waiting, LinesTyped
<1> QED BY <1>2, <1>3, <1>4, <1>5

-----------------------------------------------------------------------------
LEMMA StepInv == HandshakeInv /\ [Next]_vars => HandshakeInv'
<1> SUFFICES ASSUME HandshakeInv, [Next]_vars PROVE HandshakeInv'
  OBVIOUS
<1>1. CASE Client
  BY <1>1, ConnectInv, DisconnectedInv DEF Client
<1>2. CASE SendHello
  BY <1>2, SendHelloInv
<1>3. CASE Receive
  BY <1>3, ReceiveInv
<1>4. CASE WifiLost
  BY <1>4, WifiLostInv
<1>5. CASE Transmit
  BY <1>5, TxTakeInv, TxSendInv DEF Transmit
<1>6. CASE Heartbeat
  BY <1>6, HeartbeatInv
<1>7. CASE WatchdogFires
  BY <1>7, WatchdogInv
<1>8. CASE Vehicle
  BY <1>8, WakeInv, HandleStopInv, HandleCommTimeoutInv, HandleConnectedInv,
     HandleCommandInv DEF Vehicle
<1>9. CASE \E c \in Connections : Serve(c)
  BY <1>9, JudgeInv, RegisterInv, RxHelloInv, ThreadEndsInv DEF Serve
<1>10. CASE SendStop
  <2>1. stops' \in 0..MaxStops
    BY <1>10, Numbers DEF SendStop, HandshakeInv, HostInv, HostTyped
  <2> QED BY <2>1, <1>10, ToldInv DEF SendStop
<1>11. CASE SendReset
  <2>1. stops' \in 0..MaxStops
    BY <1>11 DEF SendReset, HandshakeInv, HostInv, HostTyped
  <2> QED BY <2>1, <1>11, ToldInv DEF SendReset
<1>12. CASE UNCHANGED vars
  BY <1>12 DEF vars, firmware, network, host, HandshakeInv, FirmwareInv, HostInv,
     TransportTyped, TaskTyped, LinesTyped, HostTyped, SocketKept, CleanStart,
     OwnSession, HandshakeOpen, OnlyHolds, Waiting
<1> QED BY <1>1, <1>2, <1>3, <1>4, <1>5, <1>6, <1>7, <1>8, <1>9, <1>10, <1>11,
           <1>12 DEF Next

THEOREM Invariance == Spec => []HandshakeInv
  BY InitInv, StepInv, PTL DEF Spec

(* The state of both ends is of its type, the queue of the transmit task   *)
(* within TX_HIGH_QUEUE_LENGTH and the HOLDs of a handshake within         *)
(* max_hold_retries: network_client.c, tx_manager.c, server.py.            *)
THEOREM TypeCorrect == Spec => []TypeOK
<1>1. HandshakeInv => TypeOK
  BY Numbers DEF HandshakeInv, FirmwareInv, HostInv, TransportTyped, TaskTyped,
     HostTyped, TypeOK, Bits, Ids, CarRecord
<1> QED BY <1>1, Invariance, PTL

(* The host judges a connection by a HELLO built on it, and a car in a     *)
(* session on a connection no end has given up is in the one the host      *)
(* serves or is about to: socket_transport_send_line_if_current,           *)
(* handle_tcp_connected_locked and _handshake together.                    *)
THEOREM SessionsAgreeHolds == Spec => []SessionsAgree
<1>1. ASSUME HandshakeInv PROVE SessionsAgree
  <2> USE DEF HandshakeInv, FirmwareInv, HostInv
  <2>1. ASSUME NEW c \in Connections, NEW i \in 1..Len(to_host[c])
        PROVE  to_host[c][i].on = c
    <3>1. to_host[c][i] \in HelloOn(c)
      BY <1>1, <2>1, ElementOfSeq DEF LinesTyped
    <3> QED BY <3>1 DEF HelloOn
  <2>2. ASSUME car.active, car.session # 0, fd # 0, ~host_closed[fd]
        PROVE  car.session = fd /\ (current = fd \/ thread[fd] = "register")
    <3>1. fd = conn /\ car.session = conn /\ conn \in Connections
      BY <1>1, <2>2, Numbers DEF TransportTyped, OwnSession, Ids
    <3> QED BY <1>1, <3>1, <2>2 DEF OnlyHolds, Waiting
  <2> QED BY <2>1, <2>2 DEF SessionsAgree
<1> QED BY <1>1, Invariance, PTL

=============================================================================
