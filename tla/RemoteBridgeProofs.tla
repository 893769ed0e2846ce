-------------------------- MODULE RemoteBridgeProofs --------------------------
(***************************************************************************)
(* Proofs about the REMOTE_DIRECT bridge, for any number of connections,   *)
(* sessions, commands, queued lines and resends, at both operator's desks. *)
(***************************************************************************)
EXTENDS RemoteBridge, SequenceTheorems, TLAPS

(* The types of what the loop, the lines and the car carry.                *)
CarModes == {"WAYPOINT_AUTO", "REMOTE_DIRECT"}
CarStates == {"SYNCING", "READY", "MOVING", "WAITING", "EMERGENCY_STOP", "ERROR",
              "COMM_TIMEOUT"}
Results == {"NONE", "HOLD", "ACCEPTED", "INVALID_STATE", "SEQ_CONFLICT",
            "STALE_SEQ"}
Previous == {"BOOT", "EMERGENCY_STOP"}
Verdicts == {"", "READY_ALLOWED", "HOLD"}
Seqs == 0..MaxSeq
Ids == 0..MaxSessions

LiveSession ==
  [id : Ids \ {0}, boot : Connections, next : 1..(MaxSeq + 1),
   out : [type : CommandTypes \cup {"NONE"}, seq : Seqs],
   resends : 0..MaxResends, drive : {0, 1},
   last : [state : CarStates \cup {"NONE"}, mode : CarModes \cup {"NONE"}]]

CarRecord ==
  [conn : 0..MaxConnections, active : BOOLEAN, session : Ids, state : CarStates,
   mode : CarModes, seq : Seqs, type : CommandTypes \cup {"NONE"},
   result : Results, previous : Previous]

(* A HELLO names the boot of its connection; a STATUS that reports         *)
(* REMOTE_DIRECT is of a session whose car has accepted the mode.          *)
HelloLine(c) == [type : {"HELLO"}, boot : {c}, previous : Previous]
StatusLine ==
  [type : {"STATUS"}, session : Ids, seq : Seqs, rejected : Seqs,
   result : Results, state : CarStates, mode : CarModes, overtaken : BOOLEAN]
Honest == {m \in StatusLine : m.mode = "REMOTE_DIRECT" => m.session \in granted}
UpLine(c) == HelloLine(c) \cup Honest

(* A HELLO_ACK on its way is of the session the bridge has.                *)
AckLine == [type : {"HELLO_ACK"}, session : {session.id}, result : Verdicts]
DriveLine == [type : {"DIRECT_CONTROL"}, session : Ids, drive : {0, 1}]
CommandLine == [type : CommandTypes, seq : Seqs \ {0}]
DownLine == AckLine \cup DriveLine \cup CommandLine

ControlTyped == ctl \in [streaming : BOOLEAN, pending : Seqs, hello : Verdicts]

GoodSession(s) ==
  s # NoSession =>
    /\ s \in LiveSession /\ s.id <= sessions
    /\ s.out # NoCommand =>
         s.out.type \in CommandTypes /\ s.out.seq \in 1..(s.next - 1)

SessionTyped ==
  /\ sessions \in Ids /\ GoodSession(session)
  /\ session # NoSession /\ waiting # <<>> => session.next <= MaxSeq

LockTyped ==
  /\ waiting \in Seq(CommandTypes) /\ Len(waiting) <= 1
  /\ task # NoCommand =>
       task \in [type : CommandTypes, seq : Seqs \ {0}, to : Connections]

LinesTyped ==
  /\ DOMAIN up = Connections
  /\ \A c \in Connections : up[c] \in Seq(UpLine(c))
  /\ down \in Seq(DownLine)

DeskTyped ==
  /\ front \in {"gui", "cli"}
  /\ {held, prompt, asked, stopping} \subseteq BOOLEAN /\ granted \subseteq Ids

BridgeTyped ==
  /\ conn \in [Connections -> {"none", "arriving", "open", "closed", "over"}]
  /\ active \in 0..MaxConnections
  /\ ControlTyped /\ SessionTyped /\ LockTyped /\ LinesTyped /\ DeskTyped
  /\ car \in CarRecord

(* One connection is open, the active one, and the car's is that or has    *)
(* yet to be served; a session is of the active connection's boot.         *)
LinkKept ==
  /\ sender = active
  /\ \A c \in Connections :
       /\ conn[c] = "open" <=> active = c
       /\ conn[c] = "arriving" => car.conn = c
       /\ conn[c] \in {"none", "arriving"} => task = NoCommand \/ task.to # c
  /\ car.conn # 0 => conn[car.conn] = "arriving" \/ active = car.conn
  /\ session # NoSession => active # 0 /\ session.boot = active

(* What is on its way to the car is of the session its connection has; the *)
(* HELLO_ACK comes first.                                                  *)
AckFirst ==
  /\ down # <<>> => car.conn # 0 /\ car.conn = active /\ session # NoSession
  /\ task # NoCommand /\ task.to = active => session # NoSession
  /\ car.conn = 0 \/ car.conn # active => car.session = 0
  /\ car.session # 0 => session # NoSession /\ car.session = session.id
  /\ session # NoSession /\ car.conn = active /\ car.session = 0 =>
       down # <<>> /\ Head(down).type = "HELLO_ACK"

(* Whoever says or believes REMOTE_DIRECT, the car of that session has     *)
(* accepted it.                                                            *)
Consented ==
  /\ car.session = 0 => car.mode = "WAYPOINT_AUTO"
  /\ car.mode = "REMOTE_DIRECT" => car.session \in granted
  /\ session # NoSession /\ session.last.mode = "REMOTE_DIRECT" =>
       session.id \in granted
  /\ StreamIsGranted

(* A request that may still be answered was sent since the last STOP.      *)
RequestStands ==
  /\ ctl.pending # 0 => asked
  /\ Unsent => asked
  /\ StreamIsAsked

BridgeInv ==
  /\ BridgeTyped /\ LinkKept /\ AckFirst /\ Consented /\ RequestStands
  /\ DriveIsHeld
-----------------------------------------------------------------------------
(* Sessions.                                                               *)

LEMMA Numbers ==
  /\ MaxSeq \in Nat /\ MaxSeq # 0 /\ MaxSessions \in Nat /\ MaxSessions # 0
  /\ MaxConnections \in Nat /\ MaxConnections # 0 /\ MaxResends \in Nat
  /\ Connections = 1..MaxConnections
  /\ PreviousStates \subseteq Previous /\ Fronts \subseteq {"gui", "cli"}
  BY BridgeAssumption DEF Connections, Previous

LEMMA LiveIsSome == \A s \in LiveSession : s # NoSession
  BY DEF LiveSession, NoSession, Ids

(* s is the session with nothing changed that a STATUS or a connection     *)
(* could tell.                                                             *)
SameSession(s) ==
  /\ s = NoSession <=> session = NoSession
  /\ session # NoSession =>
       s.id = session.id /\ s.boot = session.boot /\ s.last = session.last

Alike(s) == /\ SameSession(s)
            /\ session # NoSession =>
                 s.next = session.next /\ s.out = session.out

LEMMA NeutralAlike ==
  ASSUME NEW s, GoodSession(s), Alike(s)
  PROVE  /\ GoodSession(Neutral(s)) /\ Alike(Neutral(s))
         /\ Neutral(s) # NoSession => Neutral(s).drive = 0
<1>1. CASE s = NoSession
  BY <1>1 DEF Neutral
<1>2. CASE s # NoSession
  <2>1. s \in LiveSession
    BY <1>2 DEF GoodSession
  <2>2. /\ Neutral(s) = [s EXCEPT !.drive = 0] /\ Neutral(s) \in LiveSession
        /\ Neutral(s).id = s.id /\ Neutral(s).boot = s.boot
        /\ Neutral(s).last = s.last /\ Neutral(s).next = s.next
        /\ Neutral(s).out = s.out /\ Neutral(s).drive = 0
    BY <1>2, <2>1 DEF Neutral, LiveSession
  <2>3. QED
    BY <1>2, <2>2, LiveIsSome DEF GoodSession, Alike, SameSession
<1>3. QED
  BY <1>1, <1>2

(* A command that has the lock takes the next number of the session.       *)
LEMMA BeginKeeps ==
  ASSUME NEW s, GoodSession(s), SameSession(s), NEW type \in CommandTypes,
         s # NoSession => s.next <= MaxSeq,
         sender = active, session # NoSession => active \in Connections,
         UNCHANGED sessions, Begin(type, s)
  PROVE  /\ GoodSession(session)' /\ SameSession(session')
         /\ session # NoSession => session'.drive = s.drive
         /\ task' # NoCommand =>
              /\ task' \in [type : CommandTypes, seq : Seqs \ {0}, to : Connections]
              /\ task'.type = type /\ task'.to = active /\ session # NoSession
<1>1. CASE task' = NoCommand /\ session' = s
  BY <1>1 DEF GoodSession, SameSession
<1>2. CASE /\ s # NoSession
           /\ task' = [type |-> type, seq |-> s.next, to |-> sender]
           /\ session' = [s EXCEPT !.next = @ + 1, !.resends = 0,
                                   !.out = [type |-> type, seq |-> s.next]]
  <2>1. s \in LiveSession /\ s.id <= sessions
    BY <1>2 DEF GoodSession
  <2>2. s.next \in 1..MaxSeq
    BY <1>2, <2>1, Numbers DEF LiveSession
  <2>3. /\ [type |-> type, seq |-> s.next] \in
              [type : CommandTypes \cup {"NONE"}, seq : Seqs]
        /\ s.next + 1 \in 1..(MaxSeq + 1) /\ 0 \in 0..MaxResends
    BY <2>2, Numbers DEF Seqs
  <2>4. /\ session' \in LiveSession
        /\ session'.id = s.id /\ session'.boot = s.boot /\ session'.last = s.last
        /\ session'.drive = s.drive /\ session'.next = s.next + 1
        /\ session'.out = [type |-> type, seq |-> s.next]
    BY <1>2, <2>1, <2>3 DEF LiveSession
  <2>5. GoodSession(session)' /\ SameSession(session')
    BY <1>2, <2>1, <2>2, <2>4, LiveIsSome DEF GoodSession, SameSession
  <2>6. QED
    BY <1>2, <2>2, <2>4, <2>5 DEF Seqs, SameSession
<1>3. QED
  BY <1>1, <1>2 DEF Begin

(* A request either has the lock at once or waits for it.                  *)
LEMMA RequestKeeps ==
  ASSUME BridgeTyped, LinkKept, NEW s, GoodSession(s), Alike(s),
         NEW type \in CommandTypes, Room, UNCHANGED sessions, Request(type, s)
  PROVE  /\ SessionTyped' /\ LockTyped' /\ SameSession(session')
         /\ session # NoSession => session'.drive = s.drive
         /\ task' = task \/ task' = NoCommand
              \/ (task'.to = active /\ session # NoSession)
         /\ Unsent' => Unsent \/ type = "SET_MODE"
<1>1. SameSession(s) /\ (s # NoSession => s.next = session.next)
  BY DEF Alike, SameSession
<1>2. waiting \in Seq(CommandTypes) /\ sessions \in Ids
  BY DEF BridgeTyped, LockTyped, SessionTyped
<1>3. session # NoSession => session.next \in Nat
  BY Numbers DEF BridgeTyped, SessionTyped, GoodSession, LiveSession
<1>4. CASE task = NoCommand /\ waiting = <<>> /\ Begin(type, s) /\ UNCHANGED waiting
  <2>1. s # NoSession => s.next <= MaxSeq
    BY <1>1, <1>3, <1>4, Numbers DEF Room, Live, SameSession
  <2>2. sender = active /\ (session # NoSession => active \in Connections)
    BY Numbers DEF LinkKept, BridgeTyped
  <2>3. /\ GoodSession(session)' /\ SameSession(session')
        /\ session # NoSession => session'.drive = s.drive
        /\ task' # NoCommand =>
              /\ task' \in [type : CommandTypes, seq : Seqs \ {0}, to : Connections]
              /\ task'.type = type /\ task'.to = active /\ session # NoSession
    BY <1>1, <1>4, <2>1, <2>2, BeginKeeps
  <2>4. LockTyped'
    BY <1>2, <1>4, <2>3 DEF LockTyped
  <2>5. Unsent' => type = "SET_MODE"
    BY <1>4, <2>3 DEF Unsent
  <2>6. SessionTyped'
    BY <1>2, <1>4, <2>3 DEF SessionTyped
  <2>7. QED
    BY <2>3, <2>4, <2>5, <2>6
<1>5. CASE waiting = <<>> /\ waiting' = Append(waiting, type) /\ session' = s /\ UNCHANGED task
  <2>1. waiting' \in Seq(CommandTypes) /\ Len(waiting') = 1 /\ waiting'[1] = type
    BY <1>2, <1>5
  <2>2. LockTyped'
    BY <1>5, <2>1 DEF BridgeTyped, LockTyped
  <2>3. SessionTyped'
    BY <1>1, <1>2, <1>3, <1>5, Numbers
    DEF Room, Live, SessionTyped, GoodSession, SameSession
  <2>4. Unsent' => Unsent \/ type = "SET_MODE"
    <3>1. DOMAIN waiting' = {1}
      BY <2>1
    <3>2. QED
      BY <1>5, <2>1, <3>1 DEF Unsent
  <2>5. QED
    BY <1>1, <1>5, <2>2, <2>3, <2>4
<1>6. QED
  BY <1>4, <1>5 DEF Request

(* What the operator and the console's thread do on their own leaves the   *)
(* link, the lines and the car as they are.                                *)
DeskStep ==
  /\ UNCHANGED <<linkVars, sessions, up, down, car, granted, front>>
  /\ SameSession(session')
  /\ SessionTyped' /\ LockTyped' /\ ControlTyped' /\ DeskTyped'
  /\ task' = task \/ task' = NoCommand
       \/ (task'.to = active /\ session # NoSession)
  /\ ctl'.streaming => ctl.streaming \/ Snapshot.mode = "REMOTE_DIRECT"

LEMMA DeskKeeps ==
  ASSUME BridgeInv, DeskStep
  PROVE  (BridgeTyped /\ LinkKept /\ AckFirst /\ Consented)'
<1> USE DEF BridgeInv, DeskStep, linkVars
<1>1. session' = NoSession <=> session = NoSession
  BY DEF SameSession
<1>2. session # NoSession =>
        /\ session'.id = session.id /\ session'.boot = session.boot
        /\ session'.last = session.last
  BY DEF SameSession
<1>3. LinesTyped'
  <2>1. DownLine' = DownLine \/ down = <<>>
    BY <1>2 DEF AckFirst, DownLine, AckLine, DriveLine, CommandLine
  <2>2. \A c \in Connections : UpLine(c)' = UpLine(c)
    BY DEF UpLine, HelloLine, Honest
  <2>3. QED
    BY <2>1, <2>2, EmptySeq DEF BridgeTyped, LinesTyped
<1>4. BridgeTyped'
  BY <1>3 DEF BridgeTyped
<1>5. active = 0 \/ active \in Connections
  BY Numbers DEF BridgeTyped
<1>6. LinkKept'
  BY <1>1, <1>2, <1>5 DEF LinkKept
<1>7. AckFirst'
  BY <1>1, <1>2, <1>6 DEF AckFirst, LinkKept
<1>8. Consented'
  <2>1. session # NoSession /\ Snapshot.mode = "REMOTE_DIRECT" => session.id \in granted
    BY DEF Snapshot, Live, Consented
  <2>2. Snapshot.mode = "REMOTE_DIRECT" => session # NoSession
    BY DEF Snapshot, Live, NoStatus
  <2>3. StreamIsGranted'
    BY <1>1, <1>2, <2>1, <2>2 DEF StreamIsGranted, Consented, Live
  <2>4. QED
    BY <1>1, <1>2, <2>3 DEF Consented
<1>9. QED
  BY <1>4, <1>6, <1>7, <1>8
-----------------------------------------------------------------------------
(* The operator.                                                           *)

LEMMA DrivenAlike ==
  ASSUME GoodSession(session), NEW value \in {0, 1}
  PROVE  /\ GoodSession(Driven(value)) /\ Alike(Driven(value))
         /\ session # NoSession => Driven(value).drive = IF ctl.streaming THEN value ELSE 0
<1>1. CASE session = NoSession
  BY <1>1 DEF Driven, Live, GoodSession, Alike, SameSession
<1>2. CASE session # NoSession
  <2> DEFINE d == IF ctl.streaming THEN value ELSE 0
  <2>1. session \in LiveSession /\ d \in {0, 1}
    BY <1>2 DEF GoodSession
  <2>2. Driven(value) = [session EXCEPT !.drive = d]
    BY <1>2 DEF Driven, Live
  <2> HIDE DEF d
  <2>3. /\ Driven(value) \in LiveSession /\ Driven(value).drive = d
        /\ Driven(value).id = session.id /\ Driven(value).boot = session.boot
        /\ Driven(value).last = session.last /\ Driven(value).next = session.next
        /\ Driven(value).out = session.out
    BY <2>1, <2>2 DEF LiveSession
  <2>4. Driven(value).drive = IF ctl.streaming THEN value ELSE 0
    BY <2>3 DEF d
  <2>5. QED
    BY <1>2, <2>3, <2>4, LiveIsSome DEF GoodSession, Alike, SameSession
<1>3. QED
  BY <1>1, <1>2

LEMMA SessionNow ==
  ASSUME BridgeTyped
  PROVE  /\ GoodSession(session) /\ Alike(session)
         /\ GoodSession(Neutral(session)) /\ Alike(Neutral(session))
         /\ session # NoSession => Neutral(session).drive = 0
<1>1. GoodSession(session) /\ Alike(session)
  BY DEF BridgeTyped, SessionTyped, Alike, SameSession
<1>2. Neutral(session) # NoSession <=> session # NoSession
  BY <1>1, NeutralAlike DEF Alike, SameSession
<1>3. QED
  BY <1>1, <1>2, NeutralAlike

(* A session that only changed its drive, with no request sent.            *)
LEMMA AlikeTyped ==
  ASSUME BridgeTyped, NEW s, GoodSession(s), Alike(s), session' = s,
         UNCHANGED <<sessions, waiting, task>>
  PROVE  SessionTyped' /\ LockTyped' /\ SameSession(session') /\ Unsent' = Unsent
<1>1. GoodSession(session)' /\ SameSession(session')
  BY DEF GoodSession, Alike
<1>2. SessionTyped'
  BY <1>1 DEF BridgeTyped, SessionTyped, Alike, SameSession
<1>3. LockTyped' /\ Unsent' = Unsent
  BY DEF BridgeTyped, LockTyped, Unsent
<1>4. QED
  BY <1>1, <1>2, <1>3

LEMMA KeysKeep ==
  ASSUME BridgeInv, GuiKeys \/ GuiFocusOut \/ CliKey \/ CliDeadman \/ CliPrompt
  PROVE  BridgeInv'
<1> USE DEF BridgeInv, DeskOnly, historyVars, linkVars
<1>1. UNCHANGED <<linkVars, sessions, ctl, waiting, task, up, down, car, front,
                  historyVars>>
  BY DEF GuiKeys, GuiFocusOut, CliKey, CliDeadman, CliPrompt
<1>2. /\ \/ session' = Neutral(session)
         \/ session' = session /\ held' = held
         \/ session' = Driven(0)
         \/ session' = Driven(1) /\ (front = "gui" => held' = TRUE)
      /\ held' \in BOOLEAN /\ prompt' \in BOOLEAN
  <2>0. held \in BOOLEAN /\ prompt \in BOOLEAN
    BY DEF BridgeTyped, DeskTyped
  <2>1. CASE GuiKeys
    <3>1. PICK pressed \in SUBSET Keys : /\ held' = (Intent(pressed) = 1)
                                         /\ session' = Driven(Intent(pressed))
      BY <2>1 DEF GuiKeys
    <3>2. Intent(pressed) = 0 \/ Intent(pressed) = 1
      BY DEF Intent
    <3>3. held' \in BOOLEAN /\ (Intent(pressed) = 1 => held' = TRUE)
      BY <3>1, Zenon
    <3>4. prompt' = prompt
      BY <2>1 DEF GuiKeys
    <3>5. QED
      BY <2>0, <3>1, <3>2, <3>3, <3>4
  <2>2. CASE GuiFocusOut
    BY <2>0, <2>2 DEF GuiFocusOut, FocusLost
  <2>3. CASE CliKey \/ CliDeadman \/ CliPrompt
    BY <2>0, <2>3 DEF CliKey, CliDeadman, CliPrompt
  <2>4. QED
    BY <2>1, <2>2, <2>3
<1>3. PICK s : /\ session' = s /\ GoodSession(s) /\ Alike(s)
               /\ session # NoSession =>
                    \/ s.drive = 0
                    \/ s = session /\ held' = held
                    \/ s.drive = 1 /\ ctl.streaming /\ (front = "gui" => held')
  <2>1. CASE session' = Neutral(session) \/ (session' = session /\ held' = held)
    BY <2>1, SessionNow
  <2>2. CASE session' = Driven(0)
    BY <2>2, SessionNow, DrivenAlike
  <2>3. CASE session' = Driven(1) /\ (front = "gui" => held' = TRUE)
    BY <2>3, SessionNow, DrivenAlike
  <2>4. QED
    BY <1>2, <2>1, <2>2, <2>3
<1>4. SessionTyped' /\ LockTyped' /\ SameSession(session') /\ Unsent' = Unsent
  BY <1>1, <1>3, AlikeTyped
<1>5. DeskStep
  BY <1>1, <1>2, <1>4 DEF DeskStep, BridgeTyped, ControlTyped, DeskTyped
<1>6. RequestStands'
  BY <1>1, <1>4 DEF RequestStands, StreamIsAsked
<1>7. DriveIsHeld'
  BY <1>1, <1>3 DEF DriveIsHeld, Live, Alike, SameSession
<1>8. QED
  BY <1>5, <1>6, <1>7, DeskKeeps

(* A command clears the keys of the window and their drive.                *)
LEMMA Cleared ==
  ASSUME BridgeTyped, DriveIsHeld, KeysCleared
  PROVE  /\ held' \in BOOLEAN
         /\ GoodSession(DriveCleared(session)) /\ Alike(DriveCleared(session))
         /\ session # NoSession /\ DriveCleared(session).drive = 1 =>
              ctl.streaming /\ front # "gui"
<1>1. held' \in BOOLEAN
  BY Zenon DEF KeysCleared
<1>2. front = "gui" => DriveCleared(session) = Neutral(session)
  BY DEF DriveCleared
<1>3. front # "gui" => DriveCleared(session) = session
  BY DEF DriveCleared
<1>4. session # NoSession /\ session.drive = 1 => ctl.streaming
  BY DEF DriveIsHeld, Live
<1>5. CASE front = "gui"
  BY <1>1, <1>2, <1>5, SessionNow
<1>6. CASE front # "gui"
  BY <1>1, <1>3, <1>4, <1>6, SessionNow
<1>7. QED
  BY <1>5, <1>6

LEMMA Disarming ==
  ASSUME ControlTyped
  PROVE  /\ Disarmed \in [streaming : BOOLEAN, pending : Seqs, hello : Verdicts]
         /\ Disarmed.streaming = FALSE /\ Disarmed.pending = 0
         /\ \A b \in BOOLEAN :
              /\ [ctl EXCEPT !.streaming = b] \in
                    [streaming : BOOLEAN, pending : Seqs, hello : Verdicts]
              /\ [ctl EXCEPT !.streaming = b].streaming = b
              /\ [ctl EXCEPT !.streaming = b].pending = ctl.pending
<1>1. 0 \in Seqs
  BY Numbers DEF Seqs
<1>2. ASSUME NEW b \in BOOLEAN
      PROVE  /\ [ctl EXCEPT !.streaming = b] \in
                    [streaming : BOOLEAN, pending : Seqs, hello : Verdicts]
             /\ [ctl EXCEPT !.streaming = b].streaming = b
             /\ [ctl EXCEPT !.streaming = b].pending = ctl.pending
  BY DEF ControlTyped
<1>3. /\ Disarmed \in [streaming : BOOLEAN, pending : Seqs, hello : Verdicts]
      /\ Disarmed.streaming = FALSE /\ Disarmed.pending = 0
  BY <1>1 DEF ControlTyped, Disarmed
<1>4. QED
  BY <1>2, <1>3

LEMMA ModeRemoteKeeps ==
  ASSUME BridgeInv, CmdModeRemote
  PROVE  BridgeInv'
<1> USE DEF BridgeInv, linkVars
<1> DEFINE s == DriveCleared(session)
<1>1. /\ held' \in BOOLEAN /\ GoodSession(s) /\ Alike(s)
      /\ session # NoSession /\ s.drive = 1 => ctl.streaming /\ front # "gui"
  BY Cleared DEF CmdModeRemote
<1> HIDE DEF s
<1>2. /\ UNCHANGED <<linkVars, sessions, up, down, car, granted, front, prompt,
                      stopping>>
      /\ Room
  BY DEF CmdModeRemote, CanCommand
<1>3. CASE Live /\ asked' = TRUE /\ ReArms /\ ctl' = [ctl EXCEPT !.streaming = TRUE]
           /\ session' = Neutral(s) /\ UNCHANGED <<waiting, task>>
  <2>1. /\ GoodSession(Neutral(s)) /\ Alike(Neutral(s))
        /\ session # NoSession => Neutral(s).drive = 0
    BY <1>1, NeutralAlike DEF Alike, SameSession
  <2>2. SessionTyped' /\ LockTyped' /\ SameSession(session')
    BY <1>2, <1>3, <2>1, AlikeTyped
  <2>3. ControlTyped' /\ DeskTyped'
    BY <1>1, <1>2, <1>3, Disarming DEF BridgeTyped, ControlTyped, DeskTyped
  <2>4. DeskStep
    BY <1>2, <1>3, <2>2, <2>3 DEF DeskStep, ReArms
  <2>5. RequestStands'
    BY <1>3 DEF RequestStands, StreamIsAsked
  <2>6. DriveIsHeld'
    BY <1>3, <2>1, <2>2 DEF DriveIsHeld, Live, SameSession
  <2>7. QED
    BY <2>4, <2>5, <2>6, DeskKeeps
<1>4. CASE asked' = TRUE /\ Request("SET_MODE", s) /\ UNCHANGED ctl
  <2>1. /\ SessionTyped' /\ LockTyped' /\ SameSession(session')
        /\ session # NoSession => session'.drive = s.drive
        /\ task' = task \/ task' = NoCommand
             \/ (task'.to = active /\ session # NoSession)
    <3>1. "SET_MODE" \in CommandTypes /\ UNCHANGED sessions
      BY <1>2 DEF CommandTypes
    <3>2. QED
      BY <1>1, <1>2, <1>4, <3>1, RequestKeeps
  <2>2. DeskStep
    BY <1>1, <1>2, <1>4, <2>1 DEF DeskStep, BridgeTyped, ControlTyped, DeskTyped
  <2>3. RequestStands'
    BY <1>4 DEF RequestStands, StreamIsAsked
  <2>4. DriveIsHeld'
    BY <1>1, <1>2, <1>4, <2>1 DEF DriveIsHeld, Live, SameSession
  <2>5. QED
    BY <2>2, <2>3, <2>4, DeskKeeps
<1>5. CASE session' = s /\ UNCHANGED <<ctl, asked, waiting, task>>
  <2>1. SessionTyped' /\ LockTyped' /\ SameSession(session') /\ Unsent' = Unsent
    BY <1>1, <1>2, <1>5, AlikeTyped
  <2>2. DeskStep
    BY <1>1, <1>2, <1>5, <2>1 DEF DeskStep, BridgeTyped, ControlTyped, DeskTyped
  <2>3. RequestStands'
    BY <1>5, <2>1 DEF RequestStands, StreamIsAsked
  <2>4. DriveIsHeld'
    BY <1>1, <1>2, <1>5, <2>1 DEF DriveIsHeld, Live, SameSession
  <2>5. QED
    BY <2>2, <2>3, <2>4, DeskKeeps
<1>6. QED
  BY <1>3, <1>4, <1>5 DEF CmdModeRemote, s

(* STOP and RESET disarm; what was asked before is no request any more,    *)
(* unless it has yet to go out.                                            *)
LEMMA DisarmKeeps ==
  ASSUME BridgeInv, CanCommand, KeysCleared, NEW type \in {"STOP", "RESET"},
         ctl' = Disarmed, asked' = Unsent,
         \/ session' = Neutral(session) /\ UNCHANGED <<waiting, task>>
         \/ Request(type, Neutral(session)),
         UNCHANGED <<linkVars, sessions, up, down, car, front, prompt, granted>>,
         stopping' \in BOOLEAN
  PROVE  BridgeInv'
<1> USE DEF BridgeInv, linkVars
<1>1. /\ GoodSession(Neutral(session)) /\ Alike(Neutral(session))
      /\ session # NoSession => Neutral(session).drive = 0
  BY SessionNow
<1>2. /\ SessionTyped' /\ LockTyped' /\ SameSession(session')
      /\ session # NoSession => session'.drive = 0
      /\ task' = task \/ task' = NoCommand
           \/ (task'.to = active /\ session # NoSession)
      /\ Unsent' => Unsent
  <2>1. CASE session' = Neutral(session) /\ UNCHANGED <<waiting, task>>
    BY <1>1, <2>1, AlikeTyped
  <2>2. CASE Request(type, Neutral(session))
    <3>1. type \in CommandTypes /\ type # "SET_MODE" /\ Room /\ UNCHANGED sessions
      BY DEF CommandTypes, CanCommand
    <3>2. QED
      BY <1>1, <2>2, <3>1, RequestKeeps
  <2>3. QED
    BY <2>1, <2>2
<1>3. ctl'.streaming = FALSE /\ ctl'.pending = 0 /\ ControlTyped'
  BY Disarming DEF BridgeTyped, ControlTyped
<1>4. DeskTyped'
  <2>1. asked' \in BOOLEAN /\ held' \in BOOLEAN
    BY Zenon DEF Unsent, KeysCleared
  <2>2. QED
    BY <2>1 DEF BridgeTyped, DeskTyped
<1>5. DeskStep
  BY <1>2, <1>3, <1>4 DEF DeskStep
<1>6. RequestStands'
  BY <1>2, <1>3 DEF RequestStands, StreamIsAsked
<1>7. DriveIsHeld'
  BY <1>2 DEF DriveIsHeld, Live, SameSession
<1>8. QED
  BY <1>5, <1>6, <1>7, DeskKeeps

LEMMA OperatorKeeps ==
  ASSUME BridgeInv, Operator \/ CliDeadman
  PROVE  BridgeInv'
<1> USE DEF BridgeInv
<1>1. CASE CmdStop
  <2>1. /\ \/ session' = Neutral(session) /\ UNCHANGED <<waiting, task>>
           \/ Request("STOP", Neutral(session))
        /\ stopping' \in BOOLEAN
    <3>1. stopping \in BOOLEAN /\ (stopping \/ Live) \in BOOLEAN
      BY Zenon DEF BridgeTyped, DeskTyped
    <3>2. QED
      BY <1>1, <3>1 DEF CmdStop
  <2>2. QED
    BY <1>1, <2>1, DisarmKeeps DEF CmdStop, StopDisarms
<1>2. CASE CmdReset
  <2>1. CASE /\ ctl' = Disarmed /\ asked' = Unsent
             /\ Request("RESET", Neutral(session))
    <3>1. stopping' \in BOOLEAN
      BY <1>2 DEF CmdReset, BridgeTyped, DeskTyped
    <3>2. QED
      BY <1>2, <2>1, <3>1, DisarmKeeps DEF CmdReset
  <2>2. CASE /\ session' = DriveCleared(session)
             /\ UNCHANGED <<ctl, asked, waiting, task>>
    <3> DEFINE s == DriveCleared(session)
    <3>1. /\ held' \in BOOLEAN /\ GoodSession(s) /\ Alike(s)
          /\ session # NoSession /\ s.drive = 1 => ctl.streaming /\ front # "gui"
      BY <1>2, Cleared DEF CmdReset
    <3>2. UNCHANGED <<linkVars, sessions, up, down, car, granted, front, prompt,
                      stopping>>
      BY <1>2 DEF CmdReset
    <3>3. session' = s
      BY <2>2
    <3> HIDE DEF s
    <3>4. SessionTyped' /\ LockTyped' /\ SameSession(session') /\ Unsent' = Unsent
      BY <2>2, <3>1, <3>2, <3>3, AlikeTyped
    <3>5. DeskStep
      BY <2>2, <3>1, <3>2, <3>4 DEF DeskStep, BridgeTyped, ControlTyped, DeskTyped
    <3>6. RequestStands'
      BY <2>2, <3>4 DEF RequestStands, StreamIsAsked
    <3>7. DriveIsHeld'
      BY <2>2, <3>1, <3>2, <3>3, <3>4 DEF DriveIsHeld, Live, SameSession
    <3>8. QED
      BY <3>5, <3>6, <3>7, DeskKeeps
  <2>3. QED
    BY <1>2, <2>1, <2>2 DEF CmdReset
<1>3. CASE CliLine
  <2>1. UNCHANGED <<linkVars, sessions, waiting, task, up, down, car, front, held,
                    stopping, granted>> /\ prompt' = FALSE /\ front = "cli"
    BY <1>3 DEF CliLine
  <2>2. PICK s : /\ session' = s /\ GoodSession(s) /\ Alike(s)
                 /\ \/ /\ session # NoSession /\ s.drive = 1 => ctl.streaming
                       /\ UNCHANGED <<ctl, asked>>
                    \/ /\ session # NoSession => s.drive = 0
                       /\ \/ ctl' = [ctl EXCEPT !.streaming = FALSE] /\ UNCHANGED asked
                          \/ /\ ctl' = [ctl EXCEPT !.streaming = TRUE]
                             /\ asked' = TRUE /\ Snapshot.mode = "REMOTE_DIRECT"
    <3>1. ASSUME NEW value \in {0, 1}, session' = Driven(value), UNCHANGED <<ctl, asked>>
          PROVE  /\ GoodSession(session') /\ Alike(session')
                 /\ session # NoSession /\ session'.drive = 1 => ctl.streaming
      BY <3>1, SessionNow, DrivenAlike
    <3>2. CASE PauseStream \/ ResumeStream
      BY <3>2, SessionNow DEF PauseStream, ResumeStream
    <3>3. QED
      BY <1>3, <3>1, <3>2 DEF CliLine
  <2>3. SessionTyped' /\ LockTyped' /\ SameSession(session') /\ Unsent' = Unsent
    BY <2>1, <2>2, AlikeTyped
  <2>4. /\ ControlTyped' /\ asked' \in BOOLEAN /\ ctl'.pending = ctl.pending
        /\ ctl'.streaming => \/ ctl.streaming
                             \/ Snapshot.mode = "REMOTE_DIRECT"
    BY <2>2, Disarming DEF BridgeTyped, ControlTyped, DeskTyped
  <2>5. DeskTyped'
    BY <2>1, <2>4 DEF BridgeTyped, DeskTyped
  <2>6. DeskStep
    BY <2>1, <2>3, <2>4, <2>5, Zenon DEF DeskStep
  <2>7. RequestStands'
    BY <2>2, <2>3, <2>4, Disarming DEF RequestStands, StreamIsAsked, BridgeTyped
  <2>8. DriveIsHeld'
    BY <2>1, <2>2, <2>3 DEF DriveIsHeld, Live, SameSession
  <2>9. QED
    BY <2>6, <2>7, <2>8, DeskKeeps
<1>4. QED
  BY <1>1, <1>2, <1>3, KeysKeep, ModeRemoteKeeps DEF Operator
-----------------------------------------------------------------------------
(* Connections.                                                            *)

LEMMA IdleTyped ==
  /\ Idle \in [streaming : BOOLEAN, pending : Seqs, hello : Verdicts]
  /\ Idle.streaming = FALSE /\ Idle.pending = 0
<1>1. 0 \in Seqs
  BY Numbers DEF Seqs
<1>2. QED
  BY <1>1 DEF Idle, Verdicts

(* With no session nothing streams, and nothing is on its way to the car.  *)
LEMMA NoSessionKeeps ==
  ASSUME BridgeTyped, RequestStands, LinkKept', session' = NoSession,
         UNCHANGED <<sessions, waiting, task, car, front, held, prompt, asked,
                     granted>>,
         ctl' = Idle \/ UNCHANGED ctl, ctl'.streaming = FALSE,
         stopping' \in BOOLEAN, down' = <<>>, car.session = 0,
         task # NoCommand => task.to # active',
         car.mode = "REMOTE_DIRECT" => car.session \in granted,
         car.session = 0 => car.mode = "WAYPOINT_AUTO",
         conn' \in [Connections -> {"none", "arriving", "open", "closed", "over"}],
         active' \in 0..MaxConnections, DOMAIN up' = Connections,
         \A c \in Connections : up'[c] = up[c] \/ up'[c] = <<>>
  PROVE  BridgeInv'
<1>1. ControlTyped'
  BY IdleTyped DEF BridgeTyped, ControlTyped
<1>2. LinesTyped'
  <2>1. \A c \in Connections : UpLine(c)' = UpLine(c)
    BY DEF UpLine, HelloLine, Honest
  <2>2. \A c \in Connections : up'[c] \in Seq(UpLine(c))
    BY EmptySeq DEF BridgeTyped, LinesTyped
  <2>3. down' \in Seq(DownLine')
    BY EmptySeq
  <2>4. QED
    BY <2>1, <2>2, <2>3 DEF LinesTyped
<1>3. SessionTyped' /\ LockTyped' /\ DeskTyped'
  BY DEF BridgeTyped, SessionTyped, GoodSession, LockTyped, DeskTyped
<1>4. BridgeTyped'
  BY <1>1, <1>2, <1>3 DEF BridgeTyped
<1>5. AckFirst'
  BY DEF AckFirst
<1>6. Consented'
  BY DEF Consented, StreamIsGranted, Live
<1>7. RequestStands'
  BY IdleTyped DEF RequestStands, StreamIsAsked, Unsent
<1>8. DriveIsHeld'
  BY DEF DriveIsHeld, Live
<1>9. QED
  BY <1>4, <1>5, <1>6, <1>7, <1>8 DEF BridgeInv

LEMMA ConnectionKeeps ==
  ASSUME BridgeInv, NEW c \in Connections, HandleClient(c) \/ HandlerEnds(c)
  PROVE  BridgeInv'
<1> USE Numbers DEF BridgeInv, deskVars
<1>1. CASE HandleClient(c)
  <2>1. conn[c] = "arriving" /\ car.conn = c /\ active # c /\ c # 0
    BY <1>1 DEF HandleClient, LinkKept
  <2>2. down = <<>> /\ car.session = 0
    BY <2>1 DEF AckFirst
  <2>3. active # 0 => active \in Connections /\ conn[active] = "open"
    BY DEF BridgeTyped, LinkKept
  <2>4. CASE active # 0
    <3>1. /\ active' = c /\ sender' = c /\ session' = NoSession /\ ctl' = Idle
          /\ stopping' = FALSE
          /\ conn' = [conn EXCEPT ![c] = "open", ![active] = "closed"]
          /\ UNCHANGED <<sessions, waiting, task, up, down, car, front, held, prompt,
                         asked, granted>>
      BY <1>1, <2>3, <2>4 DEF HandleClient
    <3>2. LinkKept'
      BY <2>1, <2>3, <2>4, <3>1 DEF LinkKept, BridgeTyped
    <3>3. task # NoCommand => task.to # c
      BY <2>1 DEF LinkKept
    <3>4. /\ conn' \in [Connections -> {"none", "arriving", "open", "closed", "over"}]
          /\ active' \in 0..MaxConnections /\ DOMAIN up' = Connections
      BY <2>3, <2>4, <3>1 DEF BridgeTyped, LinesTyped
    <3>5. /\ ctl'.streaming = FALSE /\ stopping' \in BOOLEAN /\ down' = <<>>
          /\ \A d \in Connections : up'[d] = up[d] \/ up'[d] = <<>>
          /\ task # NoCommand => task.to # active'
      BY <2>2, <3>1, <3>3, IdleTyped
    <3>6. /\ car.mode = "REMOTE_DIRECT" => car.session \in granted
          /\ car.session = 0 => car.mode = "WAYPOINT_AUTO"
      BY DEF Consented
    <3>7. QED
      BY <2>2, <3>1, <3>2, <3>4, <3>5, <3>6, NoSessionKeeps
  <2>5. CASE active = 0
    <3>1. /\ active' = c /\ sender' = c
          /\ conn' = [conn EXCEPT ![c] = "open"]
          /\ UNCHANGED <<session, ctl, stopping, sessions, waiting, task, up, down,
                         car, front, held, prompt, asked, granted>>
      BY <1>1, <2>5 DEF HandleClient
    <3>2. session = NoSession /\ ctl.streaming = FALSE
      BY <2>5 DEF LinkKept, Consented, StreamIsGranted, Live, BridgeTyped,
                  ControlTyped
    <3>3. LinkKept'
      BY <2>1, <2>5, <3>1, <3>2 DEF LinkKept, BridgeTyped
    <3>4. task # NoCommand => task.to # c
      BY <2>1 DEF LinkKept
    <3>5. /\ conn' \in [Connections -> {"none", "arriving", "open", "closed", "over"}]
          /\ active' \in 0..MaxConnections /\ DOMAIN up' = Connections
          /\ stopping' \in BOOLEAN
      BY <3>1 DEF BridgeTyped, LinesTyped, DeskTyped
    <3>6. QED
      BY <2>2, <3>1, <3>2, <3>3, <3>4, <3>5, NoSessionKeeps DEF Consented
  <2>6. QED
    BY <2>4, <2>5
<1>2. CASE HandlerEnds(c)
  <2>1. /\ conn' = [conn EXCEPT ![c] = "over"] /\ up' = [up EXCEPT ![c] = <<>>]
        /\ UNCHANGED <<sessions, waiting, task, down, car, front, held, prompt,
                       asked, granted>>
        /\ conn[c] = "closed" \/ (conn[c] = "open" /\ car.conn # c)
    BY <1>2 DEF HandlerEnds
  <2>2. \A d \in Connections : UpLine(d)' = UpLine(d)
    BY <2>1 DEF UpLine, HelloLine, Honest
  <2>3. CASE active = c
    <3>1. /\ active' = 0 /\ sender' = 0 /\ session' = NoSession /\ ctl' = Idle
          /\ stopping' = FALSE
      BY <1>2, <2>3 DEF HandlerEnds, Detach
    <3>2. car.conn # active /\ down = <<>> /\ car.session = 0
      BY <2>1, <2>3 DEF LinkKept, AckFirst
    <3>3. LinkKept'
      BY <2>1, <2>3, <3>1, <3>2 DEF LinkKept, BridgeTyped
    <3>4. task # NoCommand => task.to # active'
      BY <2>1, <3>1 DEF BridgeTyped, LockTyped
    <3>5. /\ conn' \in [Connections -> {"none", "arriving", "open", "closed", "over"}]
          /\ active' \in 0..MaxConnections /\ DOMAIN up' = Connections
          /\ \A d \in Connections : up'[d] = up[d] \/ up'[d] = <<>>
      BY <2>1, <3>1 DEF BridgeTyped, LinesTyped
    <3>6. QED
      BY <2>1, <3>1, <3>2, <3>3, <3>4, <3>5, IdleTyped, NoSessionKeeps DEF Consented
  <2>4. CASE active # c
    <3>1. UNCHANGED <<active, sender, session, ctl, stopping>>
      BY <1>2, <2>4 DEF HandlerEnds
    <3>2. conn[c] = "closed" /\ car.conn # c
      BY <2>1, <2>4 DEF LinkKept, BridgeTyped
    <3>3. LinkKept'
      BY <2>1, <2>4, <3>1, <3>2 DEF LinkKept, BridgeTyped
    <3>4. LinesTyped'
      BY <2>1, <2>2, <3>1, EmptySeq
      DEF BridgeTyped, LinesTyped, DownLine, AckLine, DriveLine, CommandLine
    <3>5. /\ ControlTyped' /\ SessionTyped' /\ LockTyped' /\ DeskTyped'
          /\ conn' \in [Connections -> {"none", "arriving", "open", "closed", "over"}]
      BY <2>1, <3>1
      DEF BridgeTyped, ControlTyped, SessionTyped, GoodSession, LockTyped, DeskTyped
    <3>6. BridgeTyped'
      BY <2>1, <3>1, <3>4, <3>5 DEF BridgeTyped
    <3>7. AckFirst' /\ Consented' /\ RequestStands' /\ DriveIsHeld'
      BY <2>1, <3>1
      DEF AckFirst, Consented, StreamIsGranted, Live, RequestStands, StreamIsAsked,
          Unsent, DriveIsHeld
    <3>8. QED
      BY <3>3, <3>6, <3>7
  <2>5. QED
    BY <2>3, <2>4
<1>3. QED
  BY <1>1, <1>2
-----------------------------------------------------------------------------
(* Lines from the car.                                                     *)

LEMMA AnswerTyped ==
  ASSUME ControlTyped, NEW m \in StatusLine
  PROVE  /\ AfterAnswer(m) \in [streaming : BOOLEAN, pending : Seqs, hello : Verdicts]
         /\ AfterAnswer(m).pending # 0 => AfterAnswer(m).pending = ctl.pending
         /\ AfterAnswer(m).streaming =>
              \/ ctl.streaming
              \/ ctl.pending # 0 /\ m.mode = "REMOTE_DIRECT"
         /\ ctl.streaming /\ ~AfterAnswer(m).streaming => ModeRefused(m)
<1> DEFINE armed == [ctl EXCEPT !.streaming = TRUE, !.pending = 0]
<1>1. /\ armed \in [streaming : BOOLEAN, pending : Seqs, hello : Verdicts]
      /\ armed.streaming = TRUE /\ armed.pending = 0
  <2>1. 0 \in Seqs
    BY Numbers DEF Seqs
  <2>2. QED
    BY <2>1 DEF ControlTyped
<1> HIDE DEF armed
<1>2. CASE ModeAnswered(m) /\ Arms(m)
  <2>1. AfterAnswer(m) = armed
    BY <1>2 DEF AfterAnswer, armed
  <2>2. ctl.pending # 0 /\ m.mode = "REMOTE_DIRECT"
    BY <1>2 DEF ModeAnswered, ResultMatches, Arms
  <2>3. QED
    BY <1>1, <2>1, <2>2
<1>3. CASE ~(ModeAnswered(m) /\ Arms(m)) /\ ModeRefused(m)
  <2>1. AfterAnswer(m) = Disarmed
    BY <1>3 DEF AfterAnswer
  <2>2. QED
    BY <1>3, <2>1, Disarming
<1>4. CASE ~(ModeAnswered(m) /\ Arms(m)) /\ ~ModeRefused(m)
  <2>1. AfterAnswer(m) = ctl
    BY <1>4 DEF AfterAnswer
  <2>2. QED
    BY <2>1 DEF ControlTyped
<1>5. QED
  BY <1>2, <1>3, <1>4

(* s is the session with its command completed, its drive released or its  *)
(* snapshot taken from m.                                                  *)
Derived(s, m) ==
  /\ s \in LiveSession /\ GoodSession(s)
  /\ s.id = session.id /\ s.boot = session.boot /\ s.next = session.next
  /\ s.last.mode \in {session.last.mode, m.mode}
  /\ s.drive = 1 => session.drive = 1

LEMMA DerivedNeutral ==
  ASSUME NEW m, NEW s, Derived(s, m)
  PROVE  Derived(Neutral(s), m) /\ Neutral(s).drive = 0
<1>1. s \in LiveSession /\ s # NoSession
  BY LiveIsSome DEF Derived
<1>2. /\ Neutral(s) = [s EXCEPT !.drive = 0] /\ Neutral(s) \in LiveSession
      /\ Neutral(s).id = s.id /\ Neutral(s).boot = s.boot
      /\ Neutral(s).last = s.last /\ Neutral(s).next = s.next
      /\ Neutral(s).out = s.out /\ Neutral(s).drive = 0
  BY <1>1 DEF Neutral, LiveSession
<1>3. QED
  BY <1>1, <1>2 DEF Derived, GoodSession

LEMMA DerivedCompleted ==
  ASSUME NEW m, GoodSession(session), session # NoSession
  PROVE  Derived(Completed(m), m)
<1>1. session \in LiveSession
  BY DEF GoodSession
<1>2. NoCommand \in [type : CommandTypes \cup {"NONE"}, seq : Seqs]
  BY Numbers DEF NoCommand, Seqs
<1>3. CASE Completed(m) = [session EXCEPT !.out = NoCommand]
  <2>1. /\ Completed(m) \in LiveSession
        /\ Completed(m).id = session.id /\ Completed(m).boot = session.boot
        /\ Completed(m).last = session.last /\ Completed(m).next = session.next
        /\ Completed(m).out = NoCommand /\ Completed(m).drive = session.drive
    BY <1>1, <1>2, <1>3 DEF LiveSession
  <2>2. QED
    BY <2>1 DEF Derived, GoodSession
<1>4. CASE Completed(m) = session
  BY <1>1, <1>4 DEF Derived, GoodSession
<1>5. QED
  BY <1>3, <1>4 DEF Completed

LEMMA DerivedRecorded ==
  ASSUME NEW m \in StatusLine, NEW s, Derived(s, m)
  PROVE  Derived(Recorded(s, m), m) /\ Recorded(s, m).drive = s.drive
<1>1. s \in LiveSession
  BY DEF Derived
<1>2. [state |-> m.state, mode |-> m.mode] \in
        [state : CarStates \cup {"NONE"}, mode : CarModes \cup {"NONE"}]
  BY DEF StatusLine
<1>3. /\ Recorded(s, m) \in LiveSession
      /\ Recorded(s, m).id = s.id /\ Recorded(s, m).boot = s.boot
      /\ Recorded(s, m).next = s.next /\ Recorded(s, m).out = s.out
      /\ Recorded(s, m).last.mode = m.mode /\ Recorded(s, m).drive = s.drive
  BY <1>1, <1>2 DEF Recorded, LiveSession
<1>4. QED
  BY <1>3, LiveIsSome DEF Derived, GoodSession

(* What a STATUS makes of the session and the stream.                      *)
LEMMA StatusKeeps ==
  ASSUME BridgeInv, NEW m \in StatusLine, Live, m.session = session.id, OnStatus(m)
  PROVE  /\ Derived(session', m)
         /\ ctl' \in [streaming : BOOLEAN, pending : Seqs, hello : Verdicts]
         /\ ctl'.pending # 0 => ctl'.pending = ctl.pending
         /\ ctl'.streaming =>
              \/ ctl.streaming
              \/ ctl.pending # 0 /\ m.mode = "REMOTE_DIRECT"
         /\ session'.drive = 1 => ctl'.streaming
<1> DEFINE answered == IF ModeRefused(m) THEN Neutral(Completed(m)) ELSE Completed(m)
           recorded == Recorded(answered, m)
           disarming == m.state \in DisarmingStates
           after == AfterAnswer(m)
           paused == [after EXCEPT !.streaming = @ /\ ~ModeLost(m)]
<1>1. GoodSession(session) /\ session # NoSession /\ ControlTyped
  BY DEF BridgeInv, BridgeTyped, SessionTyped, Live
<1>2. Derived(answered, m) /\ (ModeRefused(m) => answered.drive = 0)
  BY <1>1, DerivedCompleted, DerivedNeutral
<1>3. /\ after \in [streaming : BOOLEAN, pending : Seqs, hello : Verdicts]
      /\ after.pending # 0 => after.pending = ctl.pending
      /\ after.streaming =>
           \/ ctl.streaming
           \/ ctl.pending # 0 /\ m.mode = "REMOTE_DIRECT"
      /\ ctl.streaming /\ ~after.streaming => ModeRefused(m)
  BY <1>1, AnswerTyped
<1>4. session.drive = 1 => ctl.streaming
  BY DEF BridgeInv, DriveIsHeld, Live
<1>5. answered.drive = 1 => after.streaming
  BY <1>2, <1>3, <1>4 DEF Derived
<1>6. IF m.overtaken
      THEN session' = answered /\ ctl' = after
      ELSE /\ session' = IF disarming \/ ModeLost(m) THEN Neutral(recorded)
                         ELSE recorded
           /\ ctl' = IF disarming THEN Disarmed ELSE paused
  BY DEF OnStatus, Live
<1>7. Derived(recorded, m) /\ recorded.drive = answered.drive
  <2> HIDE DEF answered
  <2>1. QED
    BY <1>2, DerivedRecorded
<1>8. /\ paused \in [streaming : BOOLEAN, pending : Seqs, hello : Verdicts]
      /\ paused.pending = after.pending
      /\ paused.streaming => after.streaming
      /\ after.streaming /\ ~ModeLost(m) => paused.streaming
  <2> DEFINE b == after.streaming /\ ~ModeLost(m)
  <2>1. b \in BOOLEAN
    BY Zenon
  <2> HIDE DEF after
  <2>2. paused = [after EXCEPT !.streaming = b]
    OBVIOUS
  <2> HIDE DEF paused, b
  <2>3. /\ paused \in [streaming : BOOLEAN, pending : Seqs, hello : Verdicts]
        /\ paused.pending = after.pending /\ paused.streaming = b
    BY <1>3, <2>1, <2>2
  <2>4. (b => after.streaming) /\ (after.streaming /\ ~ModeLost(m) => b)
    BY DEF b
  <2>5. QED
    BY <2>3, <2>4
<1> HIDE DEF answered, recorded, after, paused, disarming
<1>9. CASE m.overtaken
  BY <1>2, <1>3, <1>5, <1>6, <1>9
<1>10. CASE ~m.overtaken /\ disarming
  <2>1. session' = Neutral(recorded) /\ ctl' = Disarmed
    BY <1>6, <1>10
  <2>2. Derived(session', m) /\ session'.drive = 0
    BY <1>7, <2>1, DerivedNeutral
  <2>3. /\ ctl' \in [streaming : BOOLEAN, pending : Seqs, hello : Verdicts]
        /\ ctl'.streaming = FALSE /\ ctl'.pending = 0
    BY <1>1, <2>1, Disarming
  <2>4. QED
    BY <2>2, <2>3
<1>11. CASE ~m.overtaken /\ ~disarming
  <2>1. ctl' = paused
    BY <1>6, <1>11
  <2>2. CASE ModeLost(m)
    <3>1. session' = Neutral(recorded)
      BY <1>6, <1>11, <2>2
    <3>2. QED
      BY <1>3, <1>7, <1>8, <2>1, <3>1, DerivedNeutral
  <2>3. CASE ~ModeLost(m)
    <3>1. session' = recorded
      BY <1>6, <1>11, <2>3
    <3>2. QED
      BY <1>3, <1>5, <1>7, <1>8, <2>1, <2>3, <3>1
  <2>4. QED
    BY <2>2, <2>3
<1>12. QED
  BY <1>9, <1>10, <1>11

(* What is written reaches the car of the active connection only, behind   *)
(* what is already on its way.                                             *)
LEMMA WrittenKeeps ==
  ASSUME LinkKept, car.conn \in 0..MaxConnections, NEW c, NEW m, NEW S,
         down \in Seq(S), m \in S
  PROVE  /\ Written(c, m) \in Seq(S)
         /\ down # <<>> =>
              Written(c, m) # <<>> /\ Head(Written(c, m)) = Head(down)
         /\ c = car.conn /\ c = active /\ c # 0 =>
              /\ Written(c, m) # <<>>
              /\ down = <<>> => Head(Written(c, m)) = m
         /\ down = <<>> /\ Written(c, m) # <<>> =>
              c # 0 /\ c = car.conn /\ c = active
<1>1. /\ Append(down, m) \in Seq(S) /\ Append(down, m) # <<>>
      /\ Head(Append(down, m)) = IF down = <<>> THEN m ELSE Head(down)
  BY AppendProperties, HeadTailAppend
<1>2. c # 0 /\ c = car.conn => (conn[c] = "open" <=> active = c)
  BY DEF LinkKept, Connections
<1>3. QED
  BY <1>1, <1>2 DEF Written

(* A step that says nothing new to the session and the link.               *)
LEMMA LoopKeeps ==
  ASSUME BridgeInv, UNCHANGED <<linkVars, sessions, waiting, car, deskVars,
                                historyVars>>,
         up' = up \/ (/\ DOMAIN up' = Connections
                      /\ \A c \in Connections : up'[c] \in Seq(UpLine(c))),
         GoodSession(session'), SameSession(session'),
         waiting # <<>> /\ session # NoSession => session'.next = session.next,
         task' = task \/ task' = NoCommand, ControlTyped',
         down' = down \/ (\E m \in DriveLine \cup CommandLine : \E c :
                           down' = Written(c, m)
                           /\ (c # 0 /\ c = active => session # NoSession)),
         ctl'.streaming => ctl.streaming,
         ctl'.pending # 0 => asked,
         session # NoSession /\ session'.drive = 1 =>
           session.drive = 1 /\ ctl'.streaming
  PROVE  BridgeInv'
<1> USE DEF BridgeInv, linkVars, deskVars, historyVars
<1>1. session' = NoSession <=> session = NoSession
  BY DEF SameSession
<1>2. session # NoSession =>
        /\ session'.id = session.id /\ session'.boot = session.boot
        /\ session'.last = session.last
  BY DEF SameSession
<1>3. down \in Seq(DownLine) /\ car.conn \in 0..MaxConnections
  BY DEF BridgeTyped, LinesTyped, CarRecord
<1>4. /\ down' \in Seq(DownLine)
      /\ down # <<>> => down' # <<>> /\ Head(down') = Head(down)
      /\ down = <<>> /\ down' # <<>> =>
           active # 0 /\ active = car.conn /\ session # NoSession
  <2>1. CASE down' = down
    BY <1>3, <2>1
  <2>2. ASSUME NEW m \in DriveLine \cup CommandLine, NEW c, down' = Written(c, m),
               c # 0 /\ c = active => session # NoSession
        PROVE  /\ down' \in Seq(DownLine)
               /\ down # <<>> => down' # <<>> /\ Head(down') = Head(down)
               /\ down = <<>> /\ down' # <<>> =>
                    active # 0 /\ active = car.conn /\ session # NoSession
    <3>1. m \in DownLine
      BY DEF DownLine
    <3>2. QED
      BY <1>3, <2>2, <3>1, WrittenKeeps
  <2>3. QED
    BY <2>1, <2>2
<1>5. LinesTyped'
  <2>1. DownLine' = DownLine \/ down' = <<>>
    BY <1>2, <1>4 DEF AckFirst, DownLine, AckLine, DriveLine, CommandLine
  <2>2. \A c \in Connections : UpLine(c)' = UpLine(c)
    BY DEF UpLine, HelloLine, Honest
  <2>3. QED
    BY <1>4, <2>1, <2>2, EmptySeq DEF BridgeTyped, LinesTyped
<1>6. SessionTyped' /\ LockTyped' /\ DeskTyped'
  BY <1>1 DEF BridgeTyped, SessionTyped, GoodSession, LockTyped, DeskTyped
<1>7. BridgeTyped'
  BY <1>5, <1>6 DEF BridgeTyped
<1>8. LinkKept'
  BY <1>1, <1>2 DEF LinkKept
<1>9. AckFirst'
  BY <1>1, <1>2, <1>4 DEF AckFirst
<1>10. Consented'
  BY <1>1, <1>2 DEF Consented, StreamIsGranted, Live
<1>11. RequestStands'
  BY DEF RequestStands, Unsent, StreamIsAsked, NoCommand
<1>12. DriveIsHeld'
  BY <1>1 DEF DriveIsHeld, Live
<1>13. QED
  BY <1>7, <1>8, <1>9, <1>10, <1>11, <1>12

LEMMA AcquireKeeps ==
  ASSUME BridgeInv, Acquire
  PROVE  BridgeInv'
<1> USE DEF BridgeInv, linkVars, deskVars, historyVars
<1>1. waiting \in Seq(CommandTypes) /\ Len(waiting) <= 1 /\ waiting # <<>>
  BY DEF Acquire, BridgeTyped, LockTyped
<1>2. /\ Head(waiting) \in CommandTypes /\ Head(waiting) = waiting[1]
      /\ 1 \in DOMAIN waiting /\ waiting' = <<>>
  BY <1>1 DEF Acquire
<1>3. GoodSession(session) /\ SameSession(session)
  BY SessionNow DEF Alike
<1>4. session # NoSession => session.next <= MaxSeq
  BY <1>1 DEF BridgeTyped, SessionTyped
<1>5. sender = active /\ (session # NoSession => active \in Connections)
  BY Numbers DEF LinkKept, BridgeTyped
<1>6. UNCHANGED <<linkVars, sessions, ctl, up, down, car, deskVars, historyVars>>
      /\ Begin(Head(waiting), session)
  BY DEF Acquire
<1>7. /\ GoodSession(session)' /\ SameSession(session')
      /\ session # NoSession => session'.drive = session.drive
      /\ task' # NoCommand =>
           /\ task' \in [type : CommandTypes, seq : Seqs \ {0}, to : Connections]
           /\ task'.type = Head(waiting) /\ task'.to = active /\ session # NoSession
  BY <1>2, <1>3, <1>4, <1>5, <1>6, BeginKeeps
<1>8. SessionTyped' /\ LockTyped' /\ ControlTyped' /\ DeskTyped'
  <2>1. waiting' \in Seq(CommandTypes) /\ Len(waiting') <= 1
    BY <1>2
  <2>2. QED
    BY <1>2, <1>6, <1>7, <2>1
    DEF BridgeTyped, SessionTyped, LockTyped, ControlTyped, DeskTyped
<1>9. DeskStep
  BY <1>6, <1>7, <1>8 DEF DeskStep
<1>10. Unsent' => Unsent
  BY <1>2, <1>7 DEF Unsent, NoCommand
<1>11. RequestStands'
  BY <1>6, <1>10 DEF RequestStands, StreamIsAsked
<1>12. DriveIsHeld'
  BY <1>6, <1>7 DEF DriveIsHeld, Live, SameSession
<1>13. QED
  BY <1>9, <1>11, <1>12, DeskKeeps

LEMMA WriteKeeps ==
  ASSUME BridgeInv, Write
  PROVE  BridgeInv'
<1> USE DEF BridgeInv
<1>1. task \in [type : CommandTypes, seq : Seqs \ {0}, to : Connections]
  BY DEF Write, BridgeTyped, LockTyped
<1>2. /\ UNCHANGED <<linkVars, sessions, waiting, up, car, deskVars, historyVars>>
      /\ task' = NoCommand /\ down' = Written(task.to, ReliableLine(task))
  BY DEF Write
<1>3. /\ ReliableLine(task) \in DriveLine \cup CommandLine
      /\ task.to = active => session # NoSession
  BY <1>1 DEF ReliableLine, CommandLine, AckFirst, Write
<1>4. CASE task.type = "SET_MODE"
  <2>1. /\ ctl' = [ctl EXCEPT !.streaming = FALSE, !.pending = task.seq]
        /\ session' = Neutral(session)
    BY <1>4 DEF Write
  <2>2. ControlTyped' /\ ctl'.streaming = FALSE
    BY <1>1, <2>1 DEF BridgeTyped, ControlTyped
  <2>3. asked
    BY <1>4 DEF RequestStands, Unsent, Write
  <2>4. /\ GoodSession(session') /\ SameSession(session')
        /\ session # NoSession => session'.drive = 0 /\ session'.next = session.next
    BY <2>1, SessionNow DEF Alike
  <2>5. QED
    BY <1>2, <1>3, <2>2, <2>3, <2>4, LoopKeeps
<1>5. CASE task.type # "SET_MODE"
  <2>1. UNCHANGED <<ctl, session>>
    BY <1>5 DEF Write
  <2>2. GoodSession(session') /\ SameSession(session')
    BY <2>1, SessionNow DEF Alike, GoodSession, SameSession
  <2>3. ControlTyped' /\ (ctl'.pending # 0 => asked)
    BY <2>1 DEF BridgeTyped, ControlTyped, RequestStands
  <2>4. session # NoSession /\ session'.drive = 1 => session.drive = 1 /\ ctl'.streaming
    BY <2>1 DEF DriveIsHeld, Live
  <2>5. QED
    BY <1>2, <1>3, <2>1, <2>2, <2>3, <2>4, LoopKeeps
<1>6. QED
  BY <1>4, <1>5

LEMMA ResendKeeps ==
  ASSUME BridgeInv, Resend
  PROVE  BridgeInv'
<1> USE DEF BridgeInv
<1>1. /\ session \in LiveSession /\ session # NoSession /\ session.out # NoCommand
      /\ session.out.type \in CommandTypes
      /\ session.out.seq \in 1..(session.next - 1) /\ session.id <= sessions
  BY DEF Resend, Outstanding, Live, BridgeTyped, SessionTyped, GoodSession
<1>2. UNCHANGED <<linkVars, sessions, waiting, task, up, car, deskVars, historyVars>>
  BY DEF Resend
<1>3. ctl.pending # 0 => asked
  BY DEF RequestStands
<1>4. session.drive = 1 => ctl.streaming
  BY <1>1 DEF DriveIsHeld, Live
<1>5. CASE /\ ResendsLeft /\ UNCHANGED ctl
           /\ session' = [session EXCEPT !.resends = @ + 1]
           /\ down' = Written(sender, ReliableLine(session.out))
  <2>1. session.resends + 1 \in 0..MaxResends
    BY <1>1, <1>5, Numbers DEF ResendsLeft, LiveSession
  <2>2. /\ session' \in LiveSession
        /\ session'.id = session.id /\ session'.boot = session.boot
        /\ session'.last = session.last /\ session'.next = session.next
        /\ session'.out = session.out /\ session'.drive = session.drive
    BY <1>1, <1>5, <2>1 DEF LiveSession
  <2>3. GoodSession(session') /\ SameSession(session')
    BY <1>1, <2>2, LiveIsSome DEF GoodSession, SameSession
  <2>4. ReliableLine(session.out) \in DriveLine \cup CommandLine
    BY <1>1, Numbers DEF ReliableLine, CommandLine, LiveSession, Seqs
  <2>5. ControlTyped'
    BY <1>5 DEF BridgeTyped, ControlTyped
  <2>6. QED
    BY <1>1, <1>2, <1>3, <1>4, <1>5, <2>2, <2>3, <2>4, <2>5, LoopKeeps
<1>6. CASE /\ UNCHANGED down
           /\ \/ /\ ctl' = Disarmed
                 /\ session' = Neutral([session EXCEPT !.out = NoCommand])
              \/ session' = [session EXCEPT !.out = NoCommand] /\ UNCHANGED ctl
  <2> DEFINE given_up == [session EXCEPT !.out = NoCommand]
  <2>1. NoCommand \in [type : CommandTypes \cup {"NONE"}, seq : Seqs]
    BY Numbers DEF NoCommand, Seqs
  <2>2. /\ given_up \in LiveSession
        /\ given_up.id = session.id /\ given_up.boot = session.boot
        /\ given_up.last = session.last /\ given_up.next = session.next
        /\ given_up.out = NoCommand /\ given_up.drive = session.drive
    BY <1>1, <2>1 DEF LiveSession
  <2> HIDE DEF given_up
  <2>3. Derived(given_up, session.last) /\ given_up.last = session.last
    BY <1>1, <2>2 DEF Derived, GoodSession
  <2>4. /\ Neutral(given_up) = [given_up EXCEPT !.drive = 0]
        /\ Neutral(given_up).last = given_up.last
        /\ Derived(Neutral(given_up), session.last) /\ Neutral(given_up).drive = 0
    BY <2>2, <2>3, DerivedNeutral, LiveIsSome DEF Neutral, LiveSession
  <2>5. CASE session' = Neutral(given_up) /\ ctl' = Disarmed
    <3>1. /\ GoodSession(session') /\ SameSession(session')
          /\ session'.next = session.next /\ session'.drive = 0
      BY <1>1, <2>3, <2>4, <2>5, LiveIsSome DEF Derived, SameSession
    <3>2. ControlTyped' /\ ctl'.streaming = FALSE /\ ctl'.pending = 0
      BY <2>5, Disarming DEF BridgeTyped, ControlTyped
    <3>3. QED
      BY <1>2, <1>6, <3>1, <3>2, LoopKeeps
  <2>6. CASE session' = given_up /\ UNCHANGED ctl
    <3>1. /\ GoodSession(session') /\ SameSession(session')
          /\ session'.next = session.next /\ session'.drive = session.drive
      BY <1>1, <2>2, <2>3, <2>6, LiveIsSome DEF Derived, SameSession
    <3>2. ControlTyped'
      BY <2>6 DEF BridgeTyped, ControlTyped
    <3>3. QED
      BY <1>2, <1>3, <1>4, <1>6, <2>6, <3>1, <3>2, LoopKeeps
  <2>7. QED
    BY <1>6, <2>5, <2>6 DEF given_up
<1>7. QED
  BY <1>5, <1>6 DEF Resend

LEMMA StreamKeeps ==
  ASSUME BridgeInv, Stream
  PROVE  BridgeInv'
<1> USE DEF BridgeInv
<1>1. /\ UNCHANGED <<linkVars, sessions, waiting, task, up, car, deskVars, historyVars>>
      /\ session # NoSession /\ ctl.streaming
  BY DEF Stream, Live
<1>2. ctl.pending # 0 => asked
  BY DEF RequestStands
<1>3. CASE down' = Written(sender, DirectLine) /\ UNCHANGED <<session, ctl>>
  <2>1. DirectLine \in DriveLine \cup CommandLine
    BY <1>1 DEF DirectLine, DriveLine, BridgeTyped, SessionTyped, GoodSession,
                LiveSession
  <2>2. GoodSession(session') /\ SameSession(session') /\ ControlTyped'
    BY <1>3, SessionNow DEF Alike, GoodSession, SameSession, BridgeTyped, ControlTyped
  <2>3. QED
    BY <1>1, <1>2, <1>3, <2>1, <2>2, LoopKeeps
<1>4. CASE /\ session' = Neutral(session) /\ UNCHANGED down
           /\ ctl' = [ctl EXCEPT !.streaming = FALSE]
  <2>1. ControlTyped' /\ ctl'.streaming = FALSE /\ ctl'.pending = ctl.pending
    BY <1>4, Disarming DEF BridgeTyped, ControlTyped
  <2>2. /\ GoodSession(session') /\ SameSession(session')
        /\ session'.drive = 0 /\ session'.next = session.next
    BY <1>1, <1>4, SessionNow DEF Alike
  <2>3. QED
    BY <1>1, <1>2, <1>4, <2>1, <2>2, LoopKeeps
<1>5. QED
  BY <1>3, <1>4 DEF Stream

LEMMA TailTyped ==
  ASSUME BridgeTyped, NEW c \in Connections, up[c] # <<>>,
         up' = [up EXCEPT ![c] = Tail(@)]
  PROVE  /\ Head(up[c]) \in HelloLine(c) \cup Honest
         /\ DOMAIN up' = Connections
         /\ \A d \in Connections : up'[d] \in Seq(UpLine(d))
<1>1. DOMAIN up = Connections /\ \A d \in Connections : up[d] \in Seq(UpLine(d))
  BY DEF BridgeTyped, LinesTyped
<1>2. Head(up[c]) \in UpLine(c) /\ Tail(up[c]) \in Seq(UpLine(c))
  BY <1>1, HeadTailProperties
<1>3. QED
  BY <1>1, <1>2 DEF UpLine

LEMMA OnStatusKeeps ==
  ASSUME BridgeInv, NEW m \in Honest, OnStatus(m),
         UNCHANGED <<linkVars, sessions, waiting, task, down, car, deskVars,
                     historyVars>>,
         DOMAIN up' = Connections,
         \A c \in Connections : up'[c] \in Seq(UpLine(c))
  PROVE  BridgeInv'
<1> USE DEF BridgeInv, linkVars, deskVars, historyVars
<1>1. CASE UNCHANGED <<session, ctl>>
  <2>1. GoodSession(session') /\ SameSession(session') /\ ControlTyped'
    BY <1>1, SessionNow DEF Alike, GoodSession, SameSession, BridgeTyped, ControlTyped
  <2>2. /\ ctl.pending # 0 => asked
        /\ session # NoSession /\ session.drive = 1 => ctl.streaming
    BY DEF RequestStands, DriveIsHeld, Live
  <2>3. QED
    BY <1>1, <2>1, <2>2, LoopKeeps
<1>2. CASE Live /\ m.session = session.id
  <2>1. m \in StatusLine /\ (m.mode = "REMOTE_DIRECT" => session.id \in granted)
    BY <1>2 DEF Honest
  <2>2. /\ Derived(session', m)
        /\ ctl' \in [streaming : BOOLEAN, pending : Seqs, hello : Verdicts]
        /\ ctl'.pending # 0 => ctl'.pending = ctl.pending
        /\ ctl'.streaming =>
             \/ ctl.streaming
             \/ ctl.pending # 0 /\ m.mode = "REMOTE_DIRECT"
        /\ session'.drive = 1 => ctl'.streaming
    BY <1>2, <2>1, StatusKeeps
  <2>3. /\ session' # NoSession /\ session # NoSession
        /\ session'.id = session.id /\ session'.boot = session.boot
        /\ session'.next = session.next
        /\ session'.last.mode \in {session.last.mode, m.mode}
        /\ session'.drive = 1 => session.drive = 1
        /\ GoodSession(session')
    BY <1>2, <2>2, LiveIsSome DEF Derived, Live
  <2>4. LinesTyped'
    <3>1. DownLine' = DownLine
      BY <2>3 DEF DownLine, AckLine, DriveLine, CommandLine
    <3>2. \A c \in Connections : UpLine(c)' = UpLine(c)
      BY DEF UpLine, HelloLine, Honest
    <3>3. QED
      BY <3>1, <3>2 DEF BridgeTyped, LinesTyped
  <2>5. BridgeTyped'
    BY <2>2, <2>3, <2>4
    DEF BridgeTyped, ControlTyped, SessionTyped, GoodSession, LockTyped, DeskTyped
  <2>6. LinkKept' /\ AckFirst'
    BY <2>3 DEF LinkKept, AckFirst
  <2>7. Consented'
    BY <2>1, <2>2, <2>3 DEF Consented, StreamIsGranted, Live
  <2>8. RequestStands'
    BY <2>2 DEF RequestStands, StreamIsAsked, Unsent
  <2>9. DriveIsHeld'
    BY <2>2, <2>3 DEF DriveIsHeld, Live
  <2>10. QED
    BY <2>5, <2>6, <2>7, <2>8, <2>9
<1>3. QED
  BY <1>1, <1>2 DEF OnStatus

LEMMA OnHelloKeeps ==
  ASSUME BridgeInv, NEW c \in Connections, conn[c] = "open",
         NEW m \in HelloLine(c), OnHello(m),
         UNCHANGED <<linkVars, waiting, task, car, deskVars, historyVars>>,
         DOMAIN up' = Connections,
         \A d \in Connections : up'[d] \in Seq(UpLine(d))
  PROVE  BridgeInv'
<1> USE DEF BridgeInv, linkVars, deskVars, historyVars
<1>1. active = c /\ sender = c /\ c # 0 /\ m.boot = c
  BY Numbers DEF LinkKept, HelloLine
<1>2. down \in Seq(DownLine) /\ car.conn \in 0..MaxConnections
  BY DEF BridgeTyped, LinesTyped, CarRecord
<1>3. task = NoCommand /\ Verdict(m) \in Verdicts /\ Verdict(m) # ""
  BY DEF OnHello, WriterFree, Verdict, Verdicts
<1>4. \A d \in Connections : UpLine(d)' = UpLine(d)
  BY DEF UpLine, HelloLine, Honest
<1>5. CASE /\ Live /\ session.boot = m.boot
           /\ down' = Written(sender, HelloAckLine(session.id, ctl.hello))
           /\ UNCHANGED <<session, sessions, ctl>>
  <2>1. HelloAckLine(session.id, ctl.hello) \in DownLine
    BY DEF HelloAckLine, DownLine, AckLine, BridgeTyped, ControlTyped
  <2>2. /\ down' \in Seq(DownLine)
        /\ down # <<>> => down' # <<>> /\ Head(down') = Head(down)
        /\ down = <<>> /\ down' # <<>> => active # 0 /\ active = car.conn
    BY <1>2, <1>5, <2>1, WrittenKeeps
  <2>3. LinesTyped'
    <3>1. DownLine' = DownLine
      BY <1>5 DEF DownLine, AckLine, DriveLine, CommandLine
    <3>2. QED
      BY <1>4, <2>2, <3>1 DEF LinesTyped
  <2>4. BridgeTyped'
    BY <1>5, <2>3
    DEF BridgeTyped, ControlTyped, SessionTyped, GoodSession, LockTyped, DeskTyped
  <2>5. LinkKept'
    BY <1>5 DEF LinkKept
  <2>6. AckFirst'
    BY <1>5, <2>2 DEF AckFirst, Live
  <2>7. Consented' /\ RequestStands' /\ DriveIsHeld'
    BY <1>5 DEF Consented, StreamIsGranted, Live, RequestStands, StreamIsAsked, Unsent,
       DriveIsHeld
  <2>8. QED
    BY <2>4, <2>5, <2>6, <2>7
<1>6. CASE /\ ~(Live /\ session.boot = m.boot) /\ sessions < MaxSessions
           /\ sessions' = sessions + 1 /\ session' = NewSession(m)
           /\ ctl' = [Idle EXCEPT !.hello = Verdict(m)]
           /\ down' = Written(sender, HelloAckLine(sessions + 1, Verdict(m)))
  <2>1. session = NoSession /\ down = <<>> /\ car.session = 0
    BY <1>1, <1>6 DEF LinkKept, AckFirst, Live
  <2>2. sessions + 1 \in Ids \ {0}
    BY <1>6, Numbers DEF BridgeTyped, SessionTyped, Ids
  <2>3. /\ session' \in LiveSession /\ session' # NoSession
        /\ session'.id = sessions + 1 /\ session'.boot = c /\ session'.next = 1
        /\ session'.out = NoCommand /\ session'.drive = 0
        /\ session'.last = NoStatus
    <3>1. /\ NoStatus \in [state : CarStates \cup {"NONE"}, mode : CarModes \cup {"NONE"}]
          /\ NoCommand \in [type : CommandTypes \cup {"NONE"}, seq : Seqs]
          /\ 1 \in 1..(MaxSeq + 1) /\ 0 \in 0..MaxResends
      BY Numbers DEF NoStatus, NoCommand, Seqs
    <3>2. session' = [id |-> sessions + 1, boot |-> c, next |-> 1, out |-> NoCommand,
                      resends |-> 0, drive |-> 0, last |-> NoStatus]
      BY <1>1, <1>6 DEF NewSession
    <3>3. QED
      BY <2>2, <3>1, <3>2, LiveIsSome DEF LiveSession
  <2>4. /\ ctl' \in [streaming : BOOLEAN, pending : Seqs, hello : Verdicts]
        /\ ctl'.streaming = FALSE /\ ctl'.pending = 0
    BY <1>3, <1>6, IdleTyped
  <2>5. HelloAckLine(sessions + 1, Verdict(m)) \in DownLine'
    BY <1>3, <2>3 DEF HelloAckLine, DownLine, AckLine
  <2>6. /\ down' \in Seq(DownLine')
        /\ down' # <<>> => active = car.conn
        /\ active = car.conn =>
             down' # <<>> /\ Head(down').type = "HELLO_ACK"
    <3>1. down \in Seq(DownLine')
      BY <2>1, EmptySeq
    <3>2. HelloAckLine(sessions + 1, Verdict(m)).type = "HELLO_ACK"
      BY DEF HelloAckLine
    <3>3. QED
      BY <1>1, <1>2, <1>6, <2>1, <2>5, <3>1, <3>2, WrittenKeeps
  <2>7. LinesTyped'
    BY <1>4, <2>6 DEF LinesTyped
  <2>8. SessionTyped'
    <3>1. sessions' \in Ids /\ session'.id <= sessions' /\ session'.next <= MaxSeq
      BY <1>6, <2>2, <2>3, Numbers DEF Ids
    <3>2. QED
      BY <2>3, <3>1 DEF SessionTyped, GoodSession
  <2>9. BridgeTyped'
    BY <2>4, <2>7, <2>8 DEF BridgeTyped, ControlTyped, LockTyped, DeskTyped
  <2>10. LinkKept'
    BY <1>1, <2>3 DEF LinkKept
  <2>11. AckFirst'
    BY <1>1, <1>3, <2>1, <2>3, <2>6 DEF AckFirst
  <2>12. Consented'
    BY <2>3, <2>4 DEF Consented, StreamIsGranted, NoStatus
  <2>13. RequestStands' /\ DriveIsHeld'
    BY <2>3, <2>4 DEF RequestStands, StreamIsAsked, Unsent, DriveIsHeld
  <2>14. QED
    BY <2>9, <2>10, <2>11, <2>12, <2>13
<1>7. QED
  BY <1>5, <1>6 DEF OnHello

LEMMA ReceiveKeeps ==
  ASSUME BridgeInv, NEW c \in Connections, Receive(c)
  PROVE  BridgeInv'
<1> DEFINE m == Head(up[c])
<1>1. /\ conn[c] = "open" /\ up[c] # <<>> /\ up' = [up EXCEPT ![c] = Tail(@)]
      /\ OnMessage(m)
      /\ UNCHANGED <<linkVars, waiting, task, car, deskVars, historyVars>>
  BY DEF Receive
<1>2. /\ m \in HelloLine(c) \cup Honest
      /\ DOMAIN up' = Connections
      /\ \A d \in Connections : up'[d] \in Seq(UpLine(d))
  BY <1>1, TailTyped DEF BridgeInv
<1> HIDE DEF m
<1>3. CASE m.type = "HELLO"
  <2>1. m \in HelloLine(c) /\ OnHello(m)
    BY <1>1, <1>2, <1>3 DEF Honest, StatusLine, OnMessage
  <2>2. QED
    BY <1>1, <1>2, <2>1, OnHelloKeeps
<1>4. CASE m.type # "HELLO"
  <2>1. m \in Honest /\ OnStatus(m) /\ UNCHANGED <<sessions, down>>
    BY <1>1, <1>2, <1>4 DEF HelloLine, OnMessage
  <2>2. QED
    BY <1>1, <1>2, <2>1, OnStatusKeeps
<1>5. QED
  BY <1>3, <1>4
-----------------------------------------------------------------------------
(* The car.                                                                *)

(* A step of the car: what it says is honest, and it keeps to its session. *)
LEMMA CarKeeps ==
  ASSUME BridgeInv,
         UNCHANGED <<conn, active, sender, session, sessions, ctl, waiting, task,
                     deskVars, asked>>,
         stopping' \in BOOLEAN, granted \subseteq granted', granted' \subseteq Ids,
         car' \in CarRecord, car'.conn = car.conn, car.conn # 0,
         down' = down \/ (down # <<>> /\ down' = Tail(down)),
         DOMAIN up' = Connections,
         \A c \in Connections : up'[c] \in Seq(UpLine(c)'),
         car'.session = car.session \/ (down # <<>> /\ car'.session = session.id),
         car.session = 0 /\ down' # down => car'.session # 0,
         car'.session = 0 => car'.mode = "WAYPOINT_AUTO",
         car'.mode = "REMOTE_DIRECT" => car'.session \in granted'
  PROVE  BridgeInv'
<1> USE DEF BridgeInv, deskVars
<1>1. down' \in Seq(DownLine')
  <2>1. DownLine' = DownLine
    BY DEF DownLine, AckLine, DriveLine, CommandLine
  <2>2. QED
    BY <2>1, HeadTailProperties DEF BridgeTyped, LinesTyped
<1>2. BridgeTyped'
  BY <1>1
  DEF BridgeTyped, LinesTyped, ControlTyped, SessionTyped, GoodSession, LockTyped,
      DeskTyped
<1>3. LinkKept'
  BY DEF LinkKept
<1>4. session # NoSession => session.id # 0
  BY DEF BridgeTyped, SessionTyped, GoodSession, LiveSession
<1>5. AckFirst'
  BY <1>4 DEF AckFirst
<1>6. Consented'
  BY DEF Consented, StreamIsGranted, Live
<1>7. RequestStands' /\ DriveIsHeld'
  BY DEF RequestStands, StreamIsAsked, Unsent, DriveIsHeld, Live
<1>8. QED
  BY <1>2, <1>3, <1>5, <1>6, <1>7

(* A STATUS of an honest car takes its place in the queue, or the one      *)
(* before the last.                                                        *)
LEMMA ReportedTyped ==
  ASSUME BridgeTyped, granted \subseteq granted', NEW x \in CarRecord, x.conn # 0,
         x.mode = "REMOTE_DIRECT" => x.session \in granted',
         NEW result \in Results, NEW rejected \in Seqs,
         Reported(x, Status(x, result, rejected))
  PROVE  DOMAIN up' = Connections /\ \A c \in Connections : up'[c] \in Seq(UpLine(c)')
<1> DEFINE m == Status(x, result, rejected)
           q == up[x.conn]
           n == Len(q)
<1>1. x.conn \in Connections
  BY Numbers DEF CarRecord
<1>2. \A c \in Connections : UpLine(c) \subseteq UpLine(c)'
  BY DEF UpLine, HelloLine, Honest
<1>3. /\ DOMAIN up = Connections
      /\ \A c \in Connections : up[c] \in Seq(UpLine(c)')
  BY <1>2, SeqMonotonic DEF BridgeTyped, LinesTyped
<1>4. m \in UpLine(x.conn)'
  BY DEF Status, UpLine, Honest, StatusLine, CarRecord
<1>5. q \in Seq(UpLine(x.conn)')
  BY <1>1, <1>3
<1> HIDE DEF m
<1>6. CASE up' = [up EXCEPT ![x.conn] = Append(q, m)]
  <2>1. Append(q, m) \in Seq(UpLine(x.conn)')
    BY <1>4, <1>5, AppendProperties
  <2> HIDE DEF q
  <2>2. QED
    BY <1>1, <1>3, <1>6, <2>1
<1>7. CASE /\ n > 0 /\ q[n].type = "STATUS"
           /\ up' = [up EXCEPT ![x.conn] =
                       Append(SubSeq(q, 1, n - 1), m)
                         \o <<[q[n] EXCEPT !.overtaken = TRUE]>>]
  <2>1. n \in Nat /\ q[n] \in UpLine(x.conn)'
    BY <1>5, <1>7, LenProperties, ElementOfSeq
  <2>2. q[n] \in Honest'
    BY <1>7, <2>1 DEF UpLine, HelloLine
  <2>3. [q[n] EXCEPT !.overtaken = TRUE] \in UpLine(x.conn)'
    BY <2>2 DEF UpLine, Honest, StatusLine
  <2> DEFINE e == [q[n] EXCEPT !.overtaken = TRUE]
  <2>4. SubSeq(q, 1, n - 1) \in Seq(UpLine(x.conn)')
    BY <1>5, <2>1
  <2>5. <<e>> \in Seq(UpLine(x.conn)')
    BY <2>3
  <2> HIDE DEF e, q, n
  <2>6. Append(SubSeq(q, 1, n - 1), m) \o <<e>> \in Seq(UpLine(x.conn)')
    BY <1>4, <2>4, <2>5, AppendProperties, ConcatProperties
  <2>7. QED
    BY <1>1, <1>3, <1>7, <2>6 DEF e
<1>8. QED
  BY <1>6, <1>7 DEF Reported, m

LEMMA NoCarTyped == NoCar \in CarRecord
<1>1. 0 \in 0..MaxConnections /\ 0 \in Ids /\ 0 \in Seqs
  BY Numbers DEF Ids, Seqs
<1>2. QED
  BY <1>1 DEF NoCar, CarRecord, CarStates, CarModes, Results, Previous

LEMMA CarComesAndGoes ==
  ASSUME BridgeInv, CarStarts \/ CarEnds
  PROVE  BridgeInv'
<1> USE Numbers DEF BridgeInv, deskVars
<1>1. /\ UNCHANGED <<active, sender, session, sessions, ctl, waiting, task, front,
                      held, prompt, asked, up, granted>>
      /\ down' = <<>> /\ stopping' \in BOOLEAN
  BY DEF CarStarts, CarEnds, HostUnchanged, Heard, BridgeTyped, DeskTyped
<1>2. /\ NoCar.conn = 0 /\ NoCar.session = 0 /\ NoCar.mode = "WAYPOINT_AUTO"
  BY DEF NoCar
<1>3. PICK c \in 0..MaxConnections :
        /\ car' \in CarRecord /\ car'.conn = c /\ car'.session = 0
        /\ car'.mode = "WAYPOINT_AUTO"
        /\ c # 0 => conn[c] = "none" /\ conn' = [conn EXCEPT ![c] = "arriving"]
        /\ c = 0 => conn' = conn /\ conn[car.conn] # "arriving"
        /\ car.conn = 0 \/ c = 0
  <2>1. CASE CarStarts
    <3>1. PICK c \in Connections, previous \in PreviousStates :
            /\ conn[c] = "none" /\ conn' = [conn EXCEPT ![c] = "arriving"]
            /\ car' = [NoCar EXCEPT !.conn = c, !.previous = previous]
      BY <2>1 DEF CarStarts
    <3>2. car.conn = 0 /\ c \in 0..MaxConnections /\ c # 0
      <4>1. car.conn = 0
        BY <2>1 DEF CarStarts
      <4>2. QED
        BY <4>1
    <3>3. previous \in Previous
      OBVIOUS
    <3>4. /\ car' \in CarRecord /\ car'.conn = c /\ car'.session = NoCar.session
          /\ car'.mode = NoCar.mode
      BY <3>1, <3>2, <3>3, NoCarTyped DEF CarRecord
    <3>5. QED
      BY <1>2, <3>1, <3>2, <3>4
  <2>2. CASE CarEnds
    BY <1>2, <2>2, NoCarTyped DEF CarEnds
  <2>3. QED
    BY <2>1, <2>2
<1>4. /\ car' \in CarRecord /\ car'.conn = c /\ car'.session = 0
      /\ car'.mode = "WAYPOINT_AUTO"
  BY <1>3
<1>5. conn' \in [Connections -> {"none", "arriving", "open", "closed", "over"}]
  BY <1>3 DEF BridgeTyped
<1>6. LinesTyped'
  <2>1. \A d \in Connections : UpLine(d)' = UpLine(d)
    BY <1>1 DEF UpLine, HelloLine, Honest
  <2>2. QED
    BY <1>1, <2>1, EmptySeq DEF BridgeTyped, LinesTyped
<1>7. BridgeTyped'
  BY <1>1, <1>4, <1>5, <1>6
  DEF BridgeTyped, ControlTyped, SessionTyped, GoodSession, LockTyped, DeskTyped
<1>8. c # 0 => active # c
  BY <1>3 DEF LinkKept
<1>9. LinkKept'
  BY <1>1, <1>3, <1>4, <1>5, <1>8 DEF LinkKept, BridgeTyped
<1>10. AckFirst'
  BY <1>1, <1>4, <1>8 DEF AckFirst, LinkKept
<1>11. Consented' /\ RequestStands' /\ DriveIsHeld'
  BY <1>1, <1>4
  DEF Consented, StreamIsGranted, Live, RequestStands, StreamIsAsked, Unsent,
      DriveIsHeld
<1>12. QED
  BY <1>7, <1>9, <1>10, <1>11

(* HELLO_ACK gives the car the bridge's session; it stays in its mode only *)
(* when that is the session it had.                                        *)
LEMMA AckKeeps ==
  ASSUME BridgeInv, NEW m \in AckLine, HandleHelloAck(m), car.conn # 0,
         down # <<>>, down' = Tail(down), stopping' \in BOOLEAN,
         UNCHANGED <<conn, active, sender, session, sessions, ctl, waiting, task,
                     deskVars, asked, granted>>
  PROVE  BridgeInv'
<1> DEFINE x == [car EXCEPT !.active = TRUE, !.session = m.session, !.seq = 0]
           ready == [x EXCEPT !.state = "READY", !.mode = "WAYPOINT_AUTO"]
           hold == [x EXCEPT !.state = "SYNCING"]
<1>1. /\ car \in CarRecord /\ m.session = session.id
      /\ session.id \in Ids /\ session.id # 0
  BY DEF BridgeInv, BridgeTyped, SessionTyped, GoodSession, LiveSession, AckLine,
         AckFirst
<1>2. 0 \in Seqs
  BY Numbers DEF Seqs
<1>3. /\ x \in CarRecord /\ x.conn = car.conn /\ x.session = session.id
      /\ x.mode = car.mode
  BY <1>1, <1>2 DEF CarRecord
<1> HIDE DEF x
<1>4. /\ ready \in CarRecord /\ ready.conn = car.conn
      /\ ready.session = session.id /\ ready.mode = "WAYPOINT_AUTO"
      /\ hold \in CarRecord /\ hold.conn = car.conn
      /\ hold.session = session.id /\ hold.mode = car.mode
  BY <1>3 DEF CarRecord, CarStates, CarModes
<1>5. car.mode = "REMOTE_DIRECT" => session.id \in granted
  BY DEF BridgeInv, Consented, AckFirst
<1> HIDE DEF ready, hold
<1>6. PICK y \in CarRecord, result \in Results :
        /\ y \in {ready, hold} /\ car' = y
        /\ Reported(y, Status(y, result, 0))
  <2>1. \/ car' = hold /\ Reported(hold, Status(hold, "HOLD", 0))
        \/ car' = ready /\ Reported(ready, Status(ready, "ACCEPTED", 0))
    BY DEF HandleHelloAck, ready, hold, x
  <2>2. QED
    BY <1>4, <2>1 DEF Results
<1>7. /\ y.conn # 0 /\ y.conn = car.conn /\ y.session = session.id
      /\ y.mode = "REMOTE_DIRECT" => y.session \in granted'
  BY <1>4, <1>5, <1>6
<1>8. DOMAIN up' = Connections /\ \A c \in Connections : up'[c] \in Seq(UpLine(c)')
  BY <1>2, <1>6, <1>7, ReportedTyped DEF BridgeInv
<1>9. granted' \subseteq Ids
  BY DEF BridgeInv, BridgeTyped, DeskTyped
<1>10. QED
  BY <1>1, <1>6, <1>7, <1>8, <1>9, CarKeeps

(* A reliable command finds a car that has the bridge's session; an        *)
(* accepted SET_MODE is that session's consent.                            *)
LEMMA ReliableKeeps ==
  ASSUME BridgeInv, NEW m \in CommandLine, HandleReliable(m), car.conn # 0,
         car.session # 0, down # <<>>, down' = Tail(down), stopping' \in BOOLEAN,
         UNCHANGED <<conn, active, sender, session, sessions, ctl, waiting, task,
                     deskVars, asked>>
  PROVE  BridgeInv'
<1>1. car \in CarRecord /\ m.seq \in Seqs /\ m.type \in CommandTypes
  BY DEF BridgeInv, BridgeTyped, CommandLine
<1>2. /\ car.mode = "REMOTE_DIRECT" => car.session \in granted
      /\ granted \subseteq Ids
  BY DEF BridgeInv, Consented, BridgeTyped, DeskTyped
<1>3. PICK x \in CarRecord, result \in Results, rejected \in Seqs :
        /\ car' = x /\ x.conn = car.conn /\ x.session = car.session
        /\ granted \subseteq granted' /\ granted' \subseteq Ids
        /\ x.mode = "REMOTE_DIRECT" => x.session \in granted'
        /\ Reported(x, Status(x, result, rejected))
  <2>1. 0 \in Seqs
    BY Numbers DEF Seqs
  <2>2. CASE /\ UNCHANGED <<car, granted>>
             /\ \E result \in Results, rejected \in Seqs :
                  Reported(car, Status(car, result, rejected))
    BY <1>1, <1>2, <2>2
  <2>3. CASE m.seq = car.seq \/ m.seq < car.seq
    <3>1. car.result \in Results
      BY <1>1 DEF CarRecord
    <3>2. QED
      BY <1>1, <2>1, <2>2, <2>3, <3>1 DEF HandleReliable, Results
  <2>4. CASE m.seq # car.seq /\ ~(m.seq < car.seq)
    <3> DEFINE done == Obeyed(m.type)
               x == [done[1] EXCEPT !.seq = m.seq, !.type = m.type, !.result = done[2]]
    <3>1. /\ car' = x /\ Reported(x, Status(x, done[2], 0))
          /\ granted' = IF m.type = "SET_MODE" /\ done[2] = "ACCEPTED"
                        THEN granted \cup {car.session} ELSE granted
      BY <2>4 DEF HandleReliable
    <3>2. /\ done[1] \in CarRecord /\ done[2] \in Results
          /\ done[1].conn = car.conn /\ done[1].session = car.session
          /\ done[1].mode = "REMOTE_DIRECT" =>
               \/ car.mode = "REMOTE_DIRECT"
               \/ m.type = "SET_MODE" /\ done[2] = "ACCEPTED"
      <4>1. CASE m.type = "SET_MODE"
        BY <1>1, <4>1 DEF Obeyed, CarRecord, CarModes, Results
      <4>2. CASE m.type = "STOP"
        BY <1>1, <4>2 DEF Obeyed, CarRecord, CarStates, Results
      <4>3. CASE m.type = "RESET"
        BY <1>1, <4>3 DEF Obeyed, CarRecord, CarStates, CarModes, Results
      <4>4. QED
        BY <1>1, <4>1, <4>2, <4>3 DEF CommandTypes
    <3> HIDE DEF done
    <3>3. /\ x \in CarRecord /\ x.conn = car.conn /\ x.session = car.session
          /\ x.mode = done[1].mode
      BY <1>1, <3>2 DEF CarRecord
    <3> HIDE DEF x
    <3>4. /\ granted \subseteq granted' /\ granted' \subseteq Ids
          /\ x.mode = "REMOTE_DIRECT" => x.session \in granted'
      BY <1>1, <1>2, <3>1, <3>2, <3>3 DEF CarRecord
    <3>5. QED
      BY <2>1, <3>1, <3>2, <3>3, <3>4
  <2>5. QED
    BY <2>3, <2>4
<1>4. DOMAIN up' = Connections /\ \A c \in Connections : up'[c] \in Seq(UpLine(c)')
  BY <1>3, ReportedTyped DEF BridgeInv
<1>5. QED
  BY <1>3, <1>4, CarKeeps

LEMMA CarReceivesKeeps ==
  ASSUME BridgeInv, CarReceives
  PROVE  BridgeInv'
<1> DEFINE m == Head(down)
<1>1. /\ car.conn # 0 /\ down # <<>> /\ down' = Tail(down)
      /\ UNCHANGED <<conn, active, sender, session, sessions, ctl, waiting, task,
                     deskVars, asked>>
      /\ CASE m.type = "HELLO_ACK" -> HandleHelloAck(m) /\ Heard
           [] m.type = "DIRECT_CONTROL" -> HandleDirect(m) /\ UNCHANGED up /\ Heard
           [] OTHER -> /\ HandleReliable(m)
                       /\ stopping' = (stopping /\ m.type # "STOP")
  BY DEF CarReceives, HostUnchanged
<1>2. m \in AckLine \cup DriveLine \cup CommandLine
  BY <1>1, HeadTailProperties DEF BridgeInv, BridgeTyped, LinesTyped, DownLine
<1>3. m.type # "HELLO_ACK" => car.session # 0
  BY <1>1 DEF BridgeInv, AckFirst
<1> HIDE DEF m
<1>4. CASE m \in AckLine
  <2>1. HandleHelloAck(m) /\ Heard
    BY <1>1, <1>4 DEF AckLine
  <2>2. stopping' \in BOOLEAN /\ UNCHANGED granted
    BY <2>1 DEF Heard, BridgeInv, BridgeTyped, DeskTyped
  <2>3. QED
    BY <1>1, <1>4, <2>1, <2>2, AckKeeps
<1>5. CASE m \in DriveLine
  <2>1. HandleDirect(m) /\ UNCHANGED up /\ Heard /\ car.session # 0
    BY <1>1, <1>3, <1>5 DEF DriveLine
  <2>2. car \in CarRecord /\ stopping \in BOOLEAN /\ granted \subseteq Ids
    BY DEF BridgeInv, BridgeTyped, DeskTyped
  <2>3. /\ car' \in CarRecord /\ car'.conn = car.conn /\ car'.session = car.session
        /\ car'.mode = car.mode
    BY <2>1, <2>2 DEF HandleDirect, CarRecord, CarStates
  <2>4. UNCHANGED <<stopping, granted>>
    BY <2>1 DEF Heard
  <2>5. DOMAIN up' = Connections /\ \A c \in Connections : up'[c] \in Seq(UpLine(c)')
    <3>1. \A c \in Connections : UpLine(c)' = UpLine(c)
      BY <2>4 DEF UpLine, HelloLine, Honest
    <3>2. QED
      BY <2>1, <3>1 DEF BridgeInv, BridgeTyped, LinesTyped
  <2>6. car'.mode = "REMOTE_DIRECT" => car'.session \in granted'
    BY <2>3, <2>4 DEF BridgeInv, Consented
  <2>7. QED
    BY <1>1, <2>1, <2>2, <2>3, <2>4, <2>5, <2>6, CarKeeps
<1>6. CASE m \in CommandLine
  <2>1. /\ HandleReliable(m) /\ car.session # 0
        /\ stopping' = (stopping /\ m.type # "STOP")
    BY <1>1, <1>3, <1>6 DEF CommandLine, CommandTypes
  <2>2. stopping' \in BOOLEAN
    BY <2>1, Zenon
  <2>3. QED
    BY <1>1, <1>6, <2>1, <2>2, ReliableKeeps
<1>7. QED
  BY <1>2, <1>4, <1>5, <1>6

(* What the car does on its own.                                           *)
LEMMA CarAloneKeeps ==
  ASSUME BridgeInv, SendHello \/ CarTimesOut \/ PeriodicStatus
  PROVE  BridgeInv'
<1>1. /\ UNCHANGED <<conn, active, sender, session, sessions, ctl, waiting, task,
                     deskVars, asked, down, stopping, granted>>
      /\ car.conn # 0
  BY DEF SendHello, CarTimesOut, PeriodicStatus, HostUnchanged, Heard
<1>2. /\ car \in CarRecord /\ stopping \in BOOLEAN /\ granted \subseteq Ids
      /\ car.conn \in Connections
  BY <1>1, Numbers DEF BridgeInv, BridgeTyped, DeskTyped, CarRecord
<1>3. /\ car.session = 0 => car.mode = "WAYPOINT_AUTO"
      /\ car.mode = "REMOTE_DIRECT" => car.session \in granted
  BY DEF BridgeInv, Consented
<1>4. /\ DOMAIN up = Connections
      /\ \A c \in Connections : up[c] \in Seq(UpLine(c))
      /\ \A c \in Connections : UpLine(c)' = UpLine(c)
  BY <1>1 DEF BridgeInv, BridgeTyped, LinesTyped, UpLine, HelloLine, Honest
<1>5. /\ car' \in CarRecord /\ car'.conn = car.conn /\ car'.session = car.session
      /\ car'.mode = car.mode
  BY <1>2 DEF SendHello, CarTimesOut, PeriodicStatus, CarRecord, CarStates
<1>6. \E line \in UpLine(car.conn) : up' = [up EXCEPT ![car.conn] = <<line>>]
  <2>1. CASE SendHello
    <3>1. [type |-> "HELLO", boot |-> car.conn, previous |-> car.previous] \in
            UpLine(car.conn)
      BY <1>2 DEF UpLine, HelloLine, CarRecord
    <3>2. QED
      BY <2>1, <3>1 DEF SendHello
  <2>2. CASE CarTimesOut \/ PeriodicStatus
    <3>1. up' = [up EXCEPT ![car.conn] = <<Status(car', "NONE", 0)>>]
      BY <2>2 DEF CarTimesOut, PeriodicStatus
    <3>2. 0 \in Seqs
      BY Numbers DEF Seqs
    <3>3. Status(car', "NONE", 0) \in UpLine(car.conn)
      BY <1>3, <1>5, <3>2 DEF Status, UpLine, Honest, StatusLine, CarRecord, Results
    <3>4. QED
      BY <3>1, <3>3
  <2>3. QED
    BY <2>1, <2>2
<1>7. DOMAIN up' = Connections /\ \A c \in Connections : up'[c] \in Seq(UpLine(c)')
  <2>1. PICK line \in UpLine(car.conn) : up' = [up EXCEPT ![car.conn] = <<line>>]
    BY <1>6
  <2>2. <<line>> \in Seq(UpLine(car.conn))
    OBVIOUS
  <2>3. QED
    BY <1>2, <1>4, <2>1, <2>2
<1>8. QED
  BY <1>1, <1>2, <1>3, <1>5, <1>7, CarKeeps
-----------------------------------------------------------------------------
(* The bridge.                                                             *)

LEMMA InitKeeps == Init => BridgeInv
<1> SUFFICES ASSUME Init PROVE BridgeInv
  OBVIOUS
<1> USE Numbers
<1>1. /\ conn = [c \in Connections |-> "none"] /\ active = 0 /\ sender = 0
      /\ session = NoSession /\ sessions = 0 /\ ctl = Idle
      /\ waiting = <<>> /\ task = NoCommand
      /\ up = [c \in Connections |-> <<>>] /\ down = <<>> /\ car = NoCar
      /\ front \in Fronts /\ held = FALSE /\ prompt = FALSE
      /\ asked = FALSE /\ stopping = FALSE /\ granted = {}
  BY Zenon DEF Init
<1>2. LinesTyped
  BY <1>1, EmptySeq DEF LinesTyped
<1>3. SessionTyped /\ ControlTyped /\ LockTyped /\ DeskTyped
  <2>1. SessionTyped /\ ControlTyped
    BY <1>1, IdleTyped DEF SessionTyped, GoodSession, ControlTyped, Ids
  <2>2. LockTyped
    BY <1>1, EmptySeq DEF LockTyped
  <2>3. DeskTyped
    BY <1>1 DEF DeskTyped
  <2>4. QED
    BY <2>1, <2>2, <2>3
<1>4. BridgeTyped
  BY <1>1, <1>2, <1>3, NoCarTyped DEF BridgeTyped
<1>5. NoCar.conn = 0 /\ NoCar.session = 0 /\ NoCar.mode = "WAYPOINT_AUTO"
  BY DEF NoCar
<1>6. LinkKept
  BY <1>1, <1>5 DEF LinkKept
<1>7. AckFirst /\ Consented
  BY <1>1, <1>5, IdleTyped DEF AckFirst, Consented, StreamIsGranted, Live
<1>8. RequestStands /\ DriveIsHeld
  BY <1>1, IdleTyped
  DEF RequestStands, StreamIsAsked, Unsent, DriveIsHeld, Live
<1>9. QED
  BY <1>4, <1>6, <1>7, <1>8 DEF BridgeInv

LEMMA BridgeStep == BridgeInv /\ [Next]_vars => BridgeInv'
<1> SUFFICES ASSUME BridgeInv, [Next]_vars PROVE BridgeInv'
  OBVIOUS
<1>1. CASE Loop
  BY <1>1, ConnectionKeeps, ReceiveKeeps, AcquireKeeps, WriteKeeps, ResendKeeps,
     StreamKeeps
  DEF Loop
<1>2. CASE Operator \/ CliDeadman
  BY <1>2, OperatorKeeps
<1>3. CASE Car
  BY <1>3, CarComesAndGoes, CarReceivesKeeps, CarAloneKeeps DEF Car
<1>4. CASE UNCHANGED vars
  <2>1. /\ UNCHANGED <<conn, active, sender, session, sessions, ctl, waiting, task,
                       up, down, car, front, held, prompt, asked, stopping, granted>>
    BY <1>4 DEF vars, linkVars, deskVars, historyVars
  <2>2. BridgeTyped'
    BY <2>1
    DEF BridgeInv, BridgeTyped, ControlTyped, SessionTyped, GoodSession, LockTyped,
        LinesTyped, DeskTyped, UpLine, HelloLine, Honest, DownLine, AckLine, DriveLine,
        CommandLine
  <2>3. LinkKept' /\ AckFirst' /\ Consented'
    BY <2>1 DEF BridgeInv, LinkKept, AckFirst, Consented, StreamIsGranted, Live
  <2>4. RequestStands' /\ DriveIsHeld'
    BY <2>1 DEF BridgeInv, RequestStands, StreamIsAsked, Unsent, DriveIsHeld, Live
  <2>5. QED
    BY <2>2, <2>3, <2>4 DEF BridgeInv
<1>5. QED
  BY <1>1, <1>2, <1>3, <1>4 DEF Next

LEMMA BridgeKept == Spec => []BridgeInv
  BY InitKeeps, BridgeStep, PTL DEF Spec

(* The controller's numbers stay in their bounds: no command has a number  *)
(* of the session's to come, and no resend is above the limit.             *)
THEOREM TypeCorrect == Spec => []TypeOK
<1>1. BridgeInv => TypeOK
  <2> SUFFICES ASSUME BridgeInv PROVE TypeOK
    OBVIOUS
  <2> USE Numbers DEF BridgeInv, BridgeTyped
  <2>1. Live => /\ session.id \in 1..sessions /\ session.boot \in Connections
                /\ session.next \in 1..(MaxSeq + 1) /\ session.drive \in {0, 1}
                /\ session.resends \in 0..MaxResends
                /\ Outstanding => /\ session.out.type \in CommandTypes
                                  /\ session.out.seq \in 1..(session.next - 1)
    <3> SUFFICES ASSUME Live
                 PROVE  /\ session.id \in 1..sessions /\ session.boot \in Connections
                        /\ session.next \in 1..(MaxSeq + 1) /\ session.drive \in {0, 1}
                        /\ session.resends \in 0..MaxResends
                        /\ Outstanding => /\ session.out.type \in CommandTypes
                                          /\ session.out.seq \in 1..(session.next - 1)
      OBVIOUS
    <3>1. session \in LiveSession /\ session.id <= sessions /\ sessions \in Nat
      BY DEF Live, SessionTyped, GoodSession, Ids
    <3>2. QED
      BY <3>1 DEF LiveSession, Ids, Outstanding, SessionTyped, GoodSession, Live
  <2>2. /\ conn \in [Connections -> {"none", "arriving", "open", "closed", "over"}]
        /\ {active, sender} \subseteq 0..MaxConnections
    BY DEF LinkKept
  <2>3. /\ ctl \in [streaming : BOOLEAN, pending : 0..MaxSeq,
                    hello : {"", "READY_ALLOWED", "HOLD"}]
        /\ task # NoCommand => task.type \in CommandTypes
    BY DEF ControlTyped, LockTyped, Seqs, Verdicts
  <2>4. /\ {held, prompt, asked, stopping} \subseteq BOOLEAN
        /\ car.conn \in 0..MaxConnections /\ granted \subseteq 0..MaxSessions
    BY DEF DeskTyped, CarRecord, Ids
  <2>5. QED
    BY <2>1, <2>2, <2>3, <2>4, Zenon DEF TypeOK
<1>2. QED
  BY <1>1, BridgeKept, PTL

(* A drive is streamed only while the stream is on, and at the window only *)
(* while the key is down: no way of losing the mode, the session, the      *)
(* focus or the key leaves one behind (session.py, wasd_gui.py).           *)
THEOREM DriveHolds == Spec => []DriveIsHeld
<1>1. BridgeInv => DriveIsHeld
  BY DEF BridgeInv
<1>2. QED
  BY <1>1, BridgeKept, PTL

(* The stream is on only in a session whose car has accepted REMOTE_DIRECT *)
(* and by a request made since the last STOP or RESET: HELLO_ACK comes     *)
(* before every command of a session, and a STATUS tells the mode of the   *)
(* session it names.                                                       *)
THEOREM ConsentHolds == Spec => []StreamIsConsented
<1>1. BridgeInv => StreamIsConsented
  BY DEF BridgeInv, Consented, RequestStands, StreamIsConsented
<1>2. QED
  BY <1>1, BridgeKept, PTL
=============================================================================
