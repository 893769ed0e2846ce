--------------------------- MODULE RemoteBridge ---------------------------
(* The REMOTE_DIRECT bridge (src/remote-direct-bridge): one asyncio loop   *)
(* that serves one car over TCP.  Handlers run to their next await, so     *)
(* what interleaves is: lines of a connection, the end of its handler, a   *)
(* new connection, the operator's commands, and a reliable command that    *)
(* waits for the writer while it holds the controller's lock.              *)
(*                                                                         *)
(* The car is the repository's own one, tools/mock_esp32.py; each          *)
(* connection is a car that has just started.  Throttle and steering are   *)
(* one value, 0 (neutral) or 1.  control_seq and heartbeat_seq are left    *)
(* out: one connection is FIFO, so the car never sees an old one.          *)
EXTENDS Integers, Sequences, FiniteSets

CONSTANTS
  Fronts,          \* which operator's desk: "gui" (wasd_gui), "cli" (cli)
  PreviousStates,  \* what HELLO may report the car was doing before
  MaxConnections,  \* bound: connections
  MaxSessions,     \* bound: sessions the bridge makes
  MaxSeq,          \* bound: reliable commands of a session
  MaxBacklog,      \* bound: lines on their way to a car that says HELLO again
  MaxResends       \* RELIABLE_MAX_RESENDS (config: 5)

ASSUME BridgeAssumption ==
  /\ Fronts # {} /\ Fronts \subseteq {"gui", "cli"}
  /\ PreviousStates # {} /\ PreviousStates \subseteq {"BOOT", "EMERGENCY_STOP"}
  /\ {MaxConnections, MaxSessions, MaxSeq, MaxBacklog} \subseteq Nat \ {0}
  /\ MaxResends \in Nat

VARIABLES
  conn,      \* each connection's transport and handler
  active,    \* server._active_writer, 0 for None
  sender,    \* controller.sender: the connection it writes to, 0 for None
  session,   \* controller.session
  sessions,  \* how many sessions were made: the source of new ids
  ctl,       \* _direct_streaming, _pending_remote_mode_seq, _hello_result
  waiting,   \* commands that wait for controller._lock, in order
  task,      \* the command whose sender holds the lock and waits to write
  up, down,  \* lines of each connection not yet handled, lines to the car
  car,
  front, held, prompt,  \* the operator's desk
  asked,     \* history: a mode request sent since the last STOP or RESET
  stopping,  \* history: a STOP the operator wants and the car has not had
  granted    \* history: sessions whose car has accepted REMOTE_DIRECT

linkVars == <<conn, active, sender>>
deskVars == <<front, held, prompt>>
historyVars == <<asked, stopping, granted>>
vars == <<linkVars, session, sessions, ctl, waiting, task, up, down, car,
          deskVars, historyVars>>

Connections == 1..MaxConnections
NoSession == [id |-> 0]
NoCommand == [type |-> "NONE", seq |-> 0]
NoStatus == [state |-> "NONE", mode |-> "NONE"]
Idle == [streaming |-> FALSE, pending |-> 0, hello |-> ""]
NoCar == [conn |-> 0, active |-> FALSE, session |-> 0, state |-> "SYNCING",
          mode |-> "WAYPOINT_AUTO", seq |-> 0, type |-> "NONE",
          result |-> "NONE", previous |-> "BOOT"]

DisarmingStates == {"EMERGENCY_STOP", "ERROR", "COMM_TIMEOUT", "SYNCING"}
Negative(result) == result \notin {"NONE", "ACCEPTED", "ALREADY_STOPPED"}

Init ==
  /\ conn = [c \in Connections |-> "none"] /\ active = 0 /\ sender = 0
  /\ session = NoSession /\ sessions = 0 /\ ctl = Idle
  /\ waiting = <<>> /\ task = NoCommand
  /\ up = [c \in Connections |-> <<>>] /\ down = <<>> /\ car = NoCar
  /\ front \in Fronts /\ held = FALSE /\ prompt = FALSE
  /\ asked = FALSE /\ stopping = FALSE /\ granted = {}

Live == session # NoSession
Outstanding == Live /\ session.out # NoCommand
Snapshot == IF Live THEN session.last ELSE NoStatus

(* The writer's lock is first come first served: while a command waits for *)
(* it, other lines wait behind.                                            *)
WriterFree == task = NoCommand

(* A line reaches the car if its connection is the car's and the transport *)
(* is not closing.                                                         *)
Written(c, m) ==
  IF c # 0 /\ c = car.conn /\ conn[c] = "open" THEN Append(down, m) ELSE down

Neutral(s) == IF s = NoSession THEN s ELSE [s EXCEPT !.drive = 0]

Disarmed == [ctl EXCEPT !.streaming = FALSE, !.pending = 0]

-----------------------------------------------------------------------------
(* protocol.py: the lines that go out, with what the car makes of them.    *)

HelloAckLine(id, result) ==
  [type |-> "HELLO_ACK", session |-> id, result |-> result]
DirectLine == [type |-> "DIRECT_CONTROL", session |-> session.id,
               drive |-> session.drive]
ReliableLine(command) == [type |-> command.type, seq |-> command.seq]

-----------------------------------------------------------------------------
(* server.py: connections.                                                 *)

Detach ==
  /\ sender' = 0
  /\ session' = NoSession
  /\ ctl' = Idle
  /\ stopping' = FALSE

(* A new connection closes the one before it and ends its session.         *)
HandleClient(c) ==
  /\ conn[c] = "arriving"
  /\ active' = c
  /\ IF active # 0 /\ conn[active] = "open"
     THEN /\ conn' = [conn EXCEPT ![c] = "open", ![active] = "closed"]
          /\ session' = NoSession /\ ctl' = Idle /\ stopping' = FALSE
     ELSE /\ conn' = [conn EXCEPT ![c] = "open"]
          /\ UNCHANGED <<session, ctl, stopping>>
  /\ sender' = c
  /\ UNCHANGED <<sessions, waiting, task, up, down, car, deskVars, asked,
                 granted>>

(* The finally of the handler: only the active connection is detached.     *)
HandlerEnds(c) ==
  /\ \/ conn[c] = "open" /\ car.conn # c /\ up[c] = <<>>
     \/ conn[c] = "closed"
  /\ conn' = [conn EXCEPT ![c] = "over"]
  /\ up' = [up EXCEPT ![c] = <<>>]
  /\ IF active = c THEN active' = 0 /\ Detach
     ELSE UNCHANGED <<active, sender, session, ctl, stopping>>
  /\ UNCHANGED <<sessions, waiting, task, down, car, deskVars, asked, granted>>

-----------------------------------------------------------------------------
(* controller.py: what a line does.                                        *)

Verdict(m) == IF m.previous = "EMERGENCY_STOP" THEN "HOLD" ELSE "READY_ALLOWED"

NewSession(m) ==
  [id |-> sessions + 1, boot |-> m.boot, next |-> 1, out |-> NoCommand,
   resends |-> 0, drive |-> 0, last |-> NoStatus]

(* The car names no previous session, so a HELLO of the session's own boot *)
(* is a repetition and is answered with the same session.                  *)
OnHello(m) ==
  /\ WriterFree
  /\ \/ /\ Live /\ session.boot = m.boot
        /\ down' = Written(sender, HelloAckLine(session.id, ctl.hello))
        /\ UNCHANGED <<session, sessions, ctl>>
     \/ /\ ~(Live /\ session.boot = m.boot)
        /\ sessions < MaxSessions
        /\ sessions' = sessions + 1
        /\ session' = NewSession(m)
        /\ ctl' = [Idle EXCEPT !.hello = Verdict(m)]
        /\ down' = Written(sender, HelloAckLine(sessions + 1, Verdict(m)))

ResultMatches(m, seq) ==
  /\ m.result # "NONE"
  /\ seq # 0 /\ seq \in {m.seq, m.rejected}

Arms(m) == m.result = "ACCEPTED" /\ m.mode = "REMOTE_DIRECT"

(* _finish_pending_mode_from_status, on controls x and session s.          *)
ModeAnswered(m) == ResultMatches(m, ctl.pending)
ModeRefused(m) == ModeAnswered(m) /\ ~Arms(m)
                  /\ (Negative(m.result) \/ m.mode # "REMOTE_DIRECT")
AfterAnswer(m) ==
  IF ModeAnswered(m) /\ Arms(m)
  THEN [ctl EXCEPT !.streaming = TRUE, !.pending = 0]
  ELSE IF ModeRefused(m) THEN Disarmed ELSE ctl

Completed(m) == IF ResultMatches(m, session.out.seq)
                THEN [session EXCEPT !.out = NoCommand] ELSE session

(* record_snapshot, of a STATUS that is not stale.                         *)
Recorded(s, m) == [s EXCEPT !.last = [state |-> m.state, mode |-> m.mode]]

ModeLost(m) == m.mode # "REMOTE_DIRECT" /\ AfterAnswer(m).streaming

(* A completed command and the answered mode count even on a STATUS that a *)
(* later one has overtaken; the snapshot only on one that is not.          *)
OnStatus(m) ==
  IF ~Live \/ m.session # session.id
  THEN UNCHANGED <<session, ctl>>
  ELSE LET answered == IF ModeRefused(m) THEN Neutral(Completed(m))
                       ELSE Completed(m)
           recorded == Recorded(answered, m)
           disarming == m.state \in DisarmingStates
       IN IF m.overtaken
          THEN session' = answered /\ ctl' = AfterAnswer(m)
          ELSE /\ session' = IF disarming \/ ModeLost(m) THEN Neutral(recorded)
                             ELSE recorded
               /\ ctl' = IF disarming THEN Disarmed
                         ELSE [AfterAnswer(m) EXCEPT !.streaming =
                                                       @ /\ ~ModeLost(m)]

(* What the loop has ready it runs in its next passes, before new lines    *)
(* come in or the car does anything: the waiter of a free lock, the        *)
(* handler of a closing transport and the writer that waited for it.       *)
LoopSettled ==
  /\ task = NoCommand => waiting = <<>>
  /\ task # NoCommand => task.to # 0 /\ conn[task.to] = "open"
  /\ \A c \in Connections : conn[c] # "closed"

OnMessage(m) ==
  IF m.type = "HELLO" THEN OnHello(m)
  ELSE OnStatus(m) /\ UNCHANGED <<sessions, down>>

(* Lines of a connection that was superseded in the same pass are left     *)
(* out.                                                                    *)
Receive(c) ==
  /\ conn[c] = "open" /\ up[c] # <<>> /\ LoopSettled
  /\ up' = [up EXCEPT ![c] = Tail(@)]
  /\ OnMessage(Head(up[c]))
  /\ UNCHANGED <<linkVars, waiting, task, car, deskVars, historyVars>>

-----------------------------------------------------------------------------
(* controller.py: reliable commands.  The number and the outstanding       *)
(* command are set under the lock, then the writer is awaited.             *)

(* Mutant: no command may go before the answer to the one outstanding.     *)
NonePreempts(type) == FALSE

Preempts(type) == type = "STOP"

(* What _send_reliable does once it has the lock.                          *)
Begin(type, s) ==
  IF s = NoSession \/ (s.out # NoCommand /\ ~Preempts(type))
  THEN task' = NoCommand /\ session' = s
  ELSE /\ task' = [type |-> type, seq |-> s.next, to |-> sender]
       /\ session' = [s EXCEPT !.next = @ + 1, !.resends = 0,
                               !.out = [type |-> type, seq |-> s.next]]

(* Bound: numbers left for this command and for those that wait.           *)
Room == Live => session.next + Len(waiting) <= MaxSeq

Request(type, s) ==
  IF task = NoCommand /\ waiting = <<>>
  THEN Begin(type, s) /\ UNCHANGED waiting
  ELSE /\ waiting = <<>>
       /\ waiting' = Append(waiting, type)
       /\ session' = s
       /\ UNCHANGED task

(* The lock goes to the command that has waited longest.                   *)
Acquire ==
  /\ task = NoCommand /\ waiting # <<>>
  /\ waiting' = Tail(waiting)
  /\ Begin(Head(waiting), session)
  /\ UNCHANGED <<linkVars, sessions, ctl, up, down, car, deskVars, historyVars>>

(* The line goes out and _send returns.  Only SET_MODE goes on: it records *)
(* its number as pending, on whatever session there is by now.             *)
Write ==
  /\ task # NoCommand
  /\ down' = Written(task.to, ReliableLine(task))
  /\ task' = NoCommand
  /\ IF task.type = "SET_MODE"
     THEN /\ ctl' = [ctl EXCEPT !.streaming = FALSE, !.pending = task.seq]
          /\ session' = Neutral(session)
     ELSE UNCHANGED <<ctl, session>>
  /\ UNCHANGED <<linkVars, sessions, waiting, up, car, deskVars, historyVars>>

(* Mutant: one resend more than the limit.                                 *)
ResendOnceMore == session.resends <= MaxResends

ResendsLeft == session.resends < MaxResends

(* One pass of reliable_resend_loop after the command's time is over.      *)
Resend ==
  /\ WriterFree /\ Outstanding /\ sender # 0
  /\ \/ /\ ResendsLeft
        /\ session' = [session EXCEPT !.resends = @ + 1]
        /\ down' = Written(sender, ReliableLine(session.out))
        /\ UNCHANGED ctl
     \/ /\ ~ResendsLeft
        /\ LET given_up == [session EXCEPT !.out = NoCommand] IN
             IF ctl.pending = session.out.seq
             THEN ctl' = Disarmed /\ session' = Neutral(given_up)
             ELSE session' = given_up /\ UNCHANGED ctl
        /\ UNCHANGED down
  /\ UNCHANGED <<linkVars, sessions, waiting, task, up, car, deskVars,
                 historyVars>>

(* direct_control_loop.                                                    *)
StreamStates == {"READY", "MOVING", "WAITING"}
Stream ==
  /\ WriterFree /\ Live /\ sender # 0 /\ ctl.streaming
  /\ IF Snapshot.mode = "REMOTE_DIRECT" /\ Snapshot.state \in StreamStates
     THEN /\ \A i \in DOMAIN down : down[i].type # "DIRECT_CONTROL"
          /\ down' = Written(sender, DirectLine)
          /\ UNCHANGED <<session, ctl>>
     ELSE /\ session' = Neutral(session)
          /\ ctl' = [ctl EXCEPT !.streaming = FALSE]
          /\ UNCHANGED down
  /\ UNCHANGED <<linkVars, sessions, waiting, task, up, car, deskVars,
                 historyVars>>

-----------------------------------------------------------------------------
(* The operator's desk.  Mode, STOP and RESET clear the keys of the window *)
(* before they call the controller.                                        *)

(* In the window a change of the keys, on the console a line or a key.     *)
KeysCleared == held' = (held /\ front # "gui")
DriveCleared(s) == IF front = "gui" THEN Neutral(s) ELSE s
CanCommand == (front = "gui" \/ ~prompt) /\ Room

(* A request that has not gone out yet goes out after a STOP pressed now.  *)
Unsent == \/ task # NoCommand /\ task.type = "SET_MODE"
          \/ \E i \in DOMAIN waiting : waiting[i] = "SET_MODE"

(* Mutant: READY is enough to arm, whatever the mode.                      *)
ArmsWhenReady == Snapshot.state = "READY"

ReArms == Snapshot.mode = "REMOTE_DIRECT"

CmdModeRemote ==
  /\ CanCommand /\ KeysCleared
  /\ LET s == DriveCleared(session) IN
     \/ /\ Live /\ ctl.pending = 0 /\ Snapshot.state = "READY"
        /\ asked' = TRUE
        /\ IF ReArms
           THEN /\ ctl' = [ctl EXCEPT !.streaming = TRUE]
                /\ session' = Neutral(s)
                /\ UNCHANGED <<waiting, task>>
           ELSE Request("SET_MODE", s) /\ UNCHANGED ctl
     \/ /\ ~(Live /\ ctl.pending = 0 /\ Snapshot.state = "READY")
        /\ session' = s
        /\ UNCHANGED <<ctl, asked, waiting, task>>
  /\ UNCHANGED <<linkVars, sessions, up, down, car, front, prompt, stopping,
                 granted>>

(* Mutant: STOP leaves a pending mode request as it is.                    *)
StopKeepsPending == [ctl EXCEPT !.streaming = FALSE]

StopDisarms == Disarmed

StopNotNeeded == Snapshot.state = "EMERGENCY_STOP" /\ ~Outstanding

CmdStop ==
  /\ CanCommand /\ KeysCleared
  /\ ctl' = StopDisarms
  /\ asked' = Unsent
  /\ IF StopNotNeeded
     THEN session' = Neutral(session) /\ UNCHANGED <<waiting, task, stopping>>
     ELSE Request("STOP", Neutral(session)) /\ stopping' = (stopping \/ Live)
  /\ UNCHANGED <<linkVars, sessions, up, down, car, front, prompt, granted>>

ResetAllowed == \/ Snapshot.state \in {"EMERGENCY_STOP", "ERROR"}
                \/ Snapshot.state = "SYNCING" /\ ctl.hello = "HOLD"

CmdReset ==
  /\ CanCommand /\ KeysCleared
  /\ IF ResetAllowed
     THEN /\ ctl' = Disarmed /\ asked' = Unsent
          /\ Request("RESET", Neutral(session))
     ELSE /\ session' = DriveCleared(session)
          /\ UNCHANGED <<ctl, asked, waiting, task>>
  /\ UNCHANGED <<linkVars, sessions, up, down, car, front, prompt, stopping,
                 granted>>

(* cmd_set_drive and its kin: nothing but neutral unless streaming.        *)
Driven(value) ==
  IF ~Live THEN session
  ELSE [session EXCEPT !.drive = IF ctl.streaming THEN value ELSE 0]

DeskOnly == UNCHANGED <<linkVars, sessions, ctl, waiting, task, up, down, car,
                        front, historyVars>>

(* wasd_logic.py: opposite keys cancel; the steering ramp is at zero only  *)
(* while no side is held.                                                  *)
Keys == {"w", "s", "a", "d"}
Throttle(pressed) ==
  IF ("w" \in pressed) = ("s" \in pressed) THEN 0
  ELSE IF "w" \in pressed THEN 1 ELSE -1
Steering(pressed) ==
  IF ("a" \in pressed) = ("d" \in pressed) THEN 0
  ELSE IF "a" \in pressed THEN -1 ELSE 1
Intent(pressed) ==
  IF Throttle(pressed) = 0 /\ Steering(pressed) = 0 THEN 0 ELSE 1

(* _apply_keys calls the controller only when the intent changes.          *)
GuiKeys ==
  /\ front = "gui"
  /\ \E pressed \in SUBSET Keys :
       /\ held' = (Intent(pressed) = 1) /\ held' # held
       /\ session' = Driven(Intent(pressed))
  /\ DeskOnly /\ UNCHANGED prompt

(* Mutant: losing the focus forgets the keys and tells nobody.             *)
KeysForgotten == held' = FALSE /\ UNCHANGED session

FocusLost == held' = FALSE /\ session' = Neutral(session)

GuiFocusOut == front = "gui" /\ FocusLost /\ DeskOnly /\ UNCHANGED prompt

(* The console: a drive key arms its deadman, held says it is armed.       *)
CliKey ==
  /\ front = "cli" /\ ~prompt
  /\ held' = TRUE
  /\ session' = Driven(1)
  /\ DeskOnly /\ UNCHANGED prompt

CliDeadman ==
  /\ front = "cli" /\ ~prompt /\ held
  /\ held' = FALSE
  /\ session' = Neutral(session)
  /\ DeskOnly /\ UNCHANGED prompt

(* ";" reads a line in the thread that would run the deadman.              *)
CliPrompt ==
  /\ front = "cli" /\ ~prompt
  /\ prompt' = TRUE
  /\ DeskOnly /\ UNCHANGED <<session, held>>

(* stream pause                                                            *)
PauseStream ==
  /\ ctl' = [ctl EXCEPT !.streaming = FALSE]
  /\ session' = Neutral(session)
  /\ UNCHANGED asked

(* stream resume                                                           *)
ResumeStream ==
  /\ Snapshot.mode = "REMOTE_DIRECT"
  /\ Snapshot.state \in {"READY", "WAITING"}
  /\ ctl' = [ctl EXCEPT !.streaming = TRUE]
  /\ session' = Neutral(session)
  /\ asked' = TRUE

CliLine ==
  /\ front = "cli" /\ prompt
  /\ prompt' = FALSE
  /\ \/ \E value \in {0, 1} : session' = Driven(value) /\ UNCHANGED <<ctl, asked>>
     \/ PauseStream
     \/ ResumeStream
  /\ UNCHANGED <<linkVars, sessions, waiting, task, up, down, car, front, held,
                 stopping, granted>>

Operator == \/ CmdModeRemote \/ CmdStop \/ CmdReset \/ GuiKeys \/ GuiFocusOut
            \/ CliKey \/ CliPrompt \/ CliLine

-----------------------------------------------------------------------------
(* tools/mock_esp32.py: the car.                                           *)

HostUnchanged == UNCHANGED <<active, sender, session, sessions, ctl, waiting,
                             task, deskVars, asked>>
Heard == UNCHANGED <<stopping, granted>>

Status(x, result, rejected) ==
  [type |-> "STATUS", session |-> x.session, seq |-> x.seq,
   rejected |-> rejected, result |-> result, state |-> x.state,
   mode |-> x.mode, overtaken |-> FALSE]

(* A result may overtake a periodic STATUS that is not out yet: the car's  *)
(* queues for the two are separate.                                        *)
Reported(x, m) ==
  LET q == up[x.conn]
      n == Len(q)
      CanOvertake == n > 0 /\ q[n].type = "STATUS" /\ q[n].result = "NONE"
      Behind == Append(q, m)
      Ahead == Append(SubSeq(q, 1, n - 1), m)
                 \o <<[q[n] EXCEPT !.overtaken = TRUE]>>
  IN \/ up' = [up EXCEPT ![x.conn] = Behind]
     \/ CanOvertake /\ up' = [up EXCEPT ![x.conn] = Ahead]

CarStarts ==
  /\ car.conn = 0 /\ LoopSettled
  /\ \E c \in Connections, previous \in PreviousStates :
       /\ conn[c] = "none" /\ \A b \in 1..(c - 1) : conn[b] # "none"
       /\ conn' = [conn EXCEPT ![c] = "arriving"]
       /\ car' = [NoCar EXCEPT !.conn = c, !.previous = previous]
  /\ down' = <<>>
  /\ UNCHANGED up /\ Heard /\ HostUnchanged

CarEnds ==
  /\ car.conn # 0 /\ conn[car.conn] # "arriving"
  /\ car' = NoCar
  /\ down' = <<>>
  /\ UNCHANGED <<conn, up, granted>> /\ HostUnchanged /\ stopping' = FALSE

SendHello ==
  /\ LoopSettled /\ car.conn # 0 /\ ~car.active
  /\ up[car.conn] = <<>> /\ Len(down) < MaxBacklog
  /\ up' = [up EXCEPT ![car.conn] = <<[type |-> "HELLO", boot |-> car.conn,
                                       previous |-> car.previous]>>]
  /\ UNCHANGED <<conn, car, down>> /\ Heard /\ HostUnchanged

HandleHelloAck(m) ==
  LET x == [car EXCEPT !.active = TRUE, !.session = m.session, !.seq = 0]
      ready == [x EXCEPT !.state = "READY", !.mode = "WAYPOINT_AUTO"]
      hold == [x EXCEPT !.state = "SYNCING"]
  IN IF m.result = "HOLD" THEN car' = hold /\ Reported(hold, Status(hold, "HOLD", 0))
     ELSE car' = ready /\ Reported(ready, Status(ready, "ACCEPTED", 0))

Obeyed(type) ==
  CASE type = "SET_MODE" ->
         IF car.state \in {"EMERGENCY_STOP", "ERROR", "COMM_TIMEOUT", "MOVING"}
         THEN <<car, "INVALID_STATE">>
         ELSE <<[car EXCEPT !.mode = "REMOTE_DIRECT"], "ACCEPTED">>
    [] type = "STOP" -> <<[car EXCEPT !.state = "EMERGENCY_STOP"], "ACCEPTED">>
    [] type = "RESET" ->
         IF car.state \in {"EMERGENCY_STOP", "ERROR"}
         THEN <<[car EXCEPT !.state = "READY", !.mode = "WAYPOINT_AUTO"],
                "ACCEPTED">>
         ELSE <<car, "INVALID_STATE">>

HandleReliable(m) ==
  IF m.seq = car.seq
  THEN /\ UNCHANGED <<car, granted>>
       /\ IF m.type = car.type THEN Reported(car, Status(car, car.result, 0))
          ELSE Reported(car, Status(car, "SEQ_CONFLICT", m.seq))
  ELSE IF m.seq < car.seq
  THEN UNCHANGED <<car, granted>> /\ Reported(car, Status(car, "STALE_SEQ", m.seq))
  ELSE LET done == Obeyed(m.type)
           x == [done[1] EXCEPT !.seq = m.seq, !.type = m.type,
                                !.result = done[2]]
       IN /\ car' = x
          /\ Reported(x, Status(x, done[2], 0))
          /\ granted' = IF m.type = "SET_MODE" /\ done[2] = "ACCEPTED"
                        THEN granted \cup {car.session} ELSE granted

DirectIgnored(m) ==
  \/ ~car.active \/ m.session # car.session \/ car.mode # "REMOTE_DIRECT"
  \/ car.state \in {"EMERGENCY_STOP", "ERROR", "COMM_TIMEOUT"}

HandleDirect(m) ==
  car' = IF DirectIgnored(m) THEN car
         ELSE [car EXCEPT !.state = IF m.drive = 1 THEN "MOVING" ELSE "READY"]

CarReceives ==
  /\ LoopSettled /\ car.conn # 0 /\ down # <<>>
  /\ down' = Tail(down)
  /\ LET m == Head(down) IN
     CASE m.type = "HELLO_ACK" -> HandleHelloAck(m) /\ Heard
       [] m.type = "DIRECT_CONTROL" -> HandleDirect(m) /\ UNCHANGED up /\ Heard
       [] OTHER -> /\ HandleReliable(m)
                   /\ stopping' = (stopping /\ m.type # "STOP")
  /\ UNCHANGED conn /\ HostUnchanged

(* A stalled link shows in either timeout; COMM_TIMEOUT ends the session.  *)
CarTimesOut ==
  /\ LoopSettled /\ car.conn # 0 /\ car.active
  /\ \/ car.mode = "REMOTE_DIRECT" /\ car.state = "MOVING"
        /\ car' = [car EXCEPT !.state = "WAITING"]
     \/ car' = [car EXCEPT !.state = "COMM_TIMEOUT", !.active = FALSE]
  /\ up[car.conn] = <<>>
  /\ up' = [up EXCEPT ![car.conn] = <<Status(car', "NONE", 0)>>]
  /\ UNCHANGED <<conn, down>> /\ Heard /\ HostUnchanged

PeriodicStatus ==
  /\ LoopSettled /\ car.conn # 0 /\ car.active /\ up[car.conn] = <<>>
  /\ up' = [up EXCEPT ![car.conn] = <<Status(car, "NONE", 0)>>]
  /\ UNCHANGED <<conn, car, down>> /\ Heard /\ HostUnchanged

-----------------------------------------------------------------------------
Loop == \/ \E c \in Connections : HandleClient(c) \/ HandlerEnds(c) \/ Receive(c)
        \/ Acquire \/ Write \/ Resend \/ Stream

Car == \/ CarStarts \/ CarEnds \/ SendHello \/ CarReceives \/ CarTimesOut
       \/ PeriodicStatus

Next == Loop \/ Operator \/ CliDeadman \/ Car

Spec == Init /\ [][Next]_vars

(* The loop runs what is ready, the writer drains or fails, the car reads  *)
(* its socket, and the console's thread polls every 20 ms.                 *)
FairSpec == /\ Spec
            /\ WF_vars(Acquire) /\ WF_vars(Write)
            /\ WF_vars(CarReceives) /\ SF_vars(CliDeadman)

-----------------------------------------------------------------------------
(* Types.                                                                  *)
CommandTypes == {"SET_MODE", "STOP", "RESET"}
TypeOK ==
  /\ conn \in [Connections -> {"none", "arriving", "open", "closed", "over"}]
  /\ {active, sender} \subseteq 0..MaxConnections
  /\ Live => /\ session.id \in 1..sessions /\ session.boot \in Connections
             /\ session.next \in 1..(MaxSeq + 1) /\ session.drive \in {0, 1}
             /\ session.resends \in 0..MaxResends
             /\ Outstanding => /\ session.out.type \in CommandTypes
                               /\ session.out.seq \in 1..(session.next - 1)
  /\ ctl \in [streaming : BOOLEAN, pending : 0..MaxSeq,
              hello : {"", "READY_ALLOWED", "HOLD"}]
  /\ task # NoCommand => task.type \in CommandTypes
  /\ {held, prompt, asked, stopping} \subseteq BOOLEAN
  /\ car.conn \in 0..MaxConnections /\ granted \subseteq 0..MaxSessions

(* A drive is streamed only while the stream is on, and at the window only *)
(* while the key is down: no way of losing the mode, the session, the      *)
(* focus or the key leaves a drive behind that a later stream would send.  *)
DriveIsHeld ==
  Live /\ session.drive = 1 => /\ ctl.streaming
                               /\ front = "gui" => held

(* The stream is on only in a session whose car has accepted REMOTE_DIRECT *)
(* (the SET_MODE race of session.py: a STATUS without a result, or of      *)
(* another command, must not count as the answer).                         *)
StreamIsGranted == ctl.streaming => Live /\ session.id \in granted

(* After STOP or RESET no stream comes back by the answer to an older      *)
(* request: only by a request sent since.                                  *)
StreamIsAsked == ctl.streaming => asked

(* The stream has the consent of the car, and a request that still stands. *)
StreamIsConsented == StreamIsGranted /\ StreamIsAsked

LinkDown == sender # car.conn

(* A STOP the operator asks for reaches the car, or the link is lost: it   *)
(* overtakes an outstanding command and gets its turn at the lock.         *)
StopReaches == stopping ~> ~stopping \/ LinkDown

=============================================================================
