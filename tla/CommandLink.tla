------------------------------ MODULE CommandLink ------------------------------
(***************************************************************************)
(* The reliable command link between the host and one car:                 *)
(* VehicleServer and ReliableSender (integrated/host/comm) on one side, on *)
(* the other what the firmware does with sequence numbers.                 *)
(*                                                                         *)
(* Four kinds of host thread meet here: the callers that send commands,    *)
(* the tick thread that resends and watches for silence, one receiving     *)
(* thread per connection, and the handshake that replaces a session.  Each *)
(* holds a lock for a few lines at a time, and every lock section, every   *)
(* raw send and every callback into the pipeline is an action of its own.  *)
(*                                                                         *)
(* A session and the TCP connection it lives on are one number.  The car   *)
(* may handle what it received in any order: STOP and WAIT wait in slots,  *)
(* other commands in a queue.  A timeout may strike whenever it is armed.  *)
(***************************************************************************)
EXTENDS Integers, Sequences

CONSTANTS
  Callers,        \* threads of the upper layers that send commands
  Types,          \* command types they send
  MaxSession,     \* bound: connections of the car
  MaxSeq,         \* bound: commands per session
  MaxRetransmit,  \* TIMING["MAX_RETRANSMIT"]
  QueueLength,    \* COMMAND_QUEUE_LENGTH of the firmware
  ReplyLength     \* TX_HIGH_QUEUE_LENGTH of the firmware

ASSUME LinkAssumption ==
  /\ Types \subseteq {"GO", "WAIT", "STOP"}
  /\ {MaxSession, MaxSeq, MaxRetransmit, QueueLength, ReplyLength} \subseteq
       Nat \ {0}

Sessions == 1..MaxSession
None == 0
Nobody == [seq |-> 0, type |-> "NONE"]
Command == [seq : 0..MaxSeq, type : Types \cup {"NONE"}]
NoPending == [seq |-> 0, type |-> "NONE", attempts |-> 0]
Results == {"ACCEPTED", "INVALID_STATE", "STALE_SEQ", "SEQ_CONFLICT"}

VARIABLES
  (* VehicleServer: the session table and VehicleSession *)
  current,      \* sessions[car_id]
  alive, comm_failed,
  (* ReliableSender, one per session *)
  seq, pending,
  (* where each thread is *)
  caller, ticker, receiver,
  (* PipelineRunner *)
  comm_lost,    \* car_id \in _comm_lost
  (* the wire and the car *)
  to_car, from_car,
  car,
  (* history *)
  outcome,      \* the first answer of the car to each command
  stop_due,     \* a STOP was sent and the car has handled none since
  dropped       \* a reply was dropped in the session

serverVars == <<current, alive, comm_failed>>
numberVars == <<seq, stop_due>>
senderVars == <<numberVars, pending>>
wireVars == <<to_car, from_car>>
carVars == <<car, outcome, dropped>>
vars == <<serverVars, senderVars, caller, ticker, receiver, comm_lost,
          wireVars, carVars>>

NoCar == [session |-> None, last |-> Nobody, result |-> "NONE",
          stop |-> Nobody, wait |-> Nobody, queue |-> <<>>]
IdleCaller == [at |-> "idle", session |-> None, command |-> Nobody]
IdleTicker == [at |-> "idle", session |-> None, command |-> Nobody]
NoThread == [at |-> "none", seq |-> 0, reply |-> "NONE"]

Init ==
  /\ current = None
  /\ alive = [s \in Sessions |-> FALSE]
  /\ comm_failed = [s \in Sessions |-> FALSE]
  /\ seq = [s \in Sessions |-> 0]
  /\ pending = [s \in Sessions |-> NoPending]
  /\ caller = [c \in Callers |-> IdleCaller]
  /\ ticker = IdleTicker
  /\ receiver = [s \in Sessions |-> NoThread]
  /\ comm_lost = FALSE
  /\ to_car = [s \in Sessions |-> <<>>]
  /\ from_car = [s \in Sessions |-> <<>>]
  /\ car = NoCar
  /\ outcome = [s \in Sessions |-> [n \in 1..MaxSeq |-> "NONE"]]
  /\ stop_due = [s \in Sessions |-> FALSE]
  /\ dropped = [s \in Sessions |-> FALSE]
-----------------------------------------------------------------------------
(* Sending: VehicleServer.send_* and ReliableSender.send.                  *)

Priority(type) == CASE type = "STOP" -> 2 [] type = "WAIT" -> 1 [] OTHER -> 0

(* Mutant: a command that is not pending any more is not sent.             *)
RawSendPending(s, command) ==
  to_car' = IF car.session = s /\ pending[s].seq = command.seq
            THEN [to_car EXCEPT ![s] = Append(@, command)] ELSE to_car

(* A raw send into a connection that is gone is swallowed.                 *)
RawSend(s, command) ==
  to_car' = IF car.session = s
            THEN [to_car EXCEPT ![s] = Append(@, command)] ELSE to_car

HasSession == current # None /\ alive[current]

(* _session: the caller looks the session up under the server's lock.      *)
FindSession(c, type) ==
  /\ caller[c].at = "idle"
  /\ HasSession /\ seq[current] < MaxSeq
  /\ caller' = [caller EXCEPT ![c] =
                  [at |-> "found", session |-> current,
                   command |-> [seq |-> 0, type |-> type]]]
  /\ UNCHANGED <<serverVars, senderVars, ticker, receiver, comm_lost, wireVars,
                 carVars>>

(* Mutant: any WAIT or STOP takes the place, a STOP's included.            *)
MayReplaceAny(p, type) == p = NoPending \/ Priority(type) > 0

(* An ordinary command waits for its turn, WAIT and STOP take the place of *)
(* a command of lower priority.                                            *)
MayReplace(p, type) == p = NoPending \/ Priority(type) > Priority(p.type)

(* The locked part of send: refused with a RuntimeError, or numbered.      *)
NumberCommand(c) ==
  LET s == caller[c].session
      command == [seq |-> seq[s] + 1, type |-> caller[c].command.type]
  IN /\ caller[c].at = "found"
     /\ \/ /\ ~MayReplace(pending[s], command.type) \/ seq[s] = MaxSeq
           /\ caller' = [caller EXCEPT ![c] = IdleCaller]
           /\ UNCHANGED senderVars
        \/ /\ MayReplace(pending[s], command.type) /\ seq[s] < MaxSeq
           /\ caller' = [caller EXCEPT ![c] = [at |-> "raw", session |-> s,
                                               command |-> command]]
           /\ seq' = [seq EXCEPT ![s] = command.seq]
           /\ pending' = [pending EXCEPT ![s] =
                            [seq |-> command.seq, type |-> command.type,
                             attempts |-> 1]]
           /\ stop_due' = [stop_due EXCEPT ![s] = @ \/ command.type = "STOP"]
     /\ UNCHANGED <<serverVars, ticker, receiver, comm_lost, wireVars, carVars>>

(* The raw send follows outside the lock.                                  *)
SendFirst(c) ==
  /\ caller[c].at = "raw"
  /\ RawSend(caller[c].session, caller[c].command)
  /\ caller' = [caller EXCEPT ![c] = IdleCaller]
  /\ UNCHANGED <<serverVars, senderVars, ticker, receiver, comm_lost, from_car,
                 carVars>>
-----------------------------------------------------------------------------
(* The tick thread: ReliableSender.tick, then the look for silence.        *)

TickSession ==
  /\ ticker.at = "idle" /\ HasSession
  /\ ticker' = [IdleTicker EXCEPT !.at = "tick", !.session = current]
  /\ UNCHANGED <<serverVars, senderVars, caller, receiver, comm_lost, wireVars,
                 carVars>>

(* A pass of the loop over no session, or over a dead one.                 *)
TickIdle ==
  /\ ticker.at = "idle" /\ ~HasSession
  /\ UNCHANGED vars

TickNothing ==
  /\ ticker.at = "tick"
  /\ ticker' = [ticker EXCEPT !.at = "silence"]
  /\ UNCHANGED <<serverVars, senderVars, caller, receiver, comm_lost, wireVars,
                 carVars>>

(* Mutant: an attempt is not counted.                                      *)
CountNoAttempt(p) == p

CountAttempt(p) == [p EXCEPT !.attempts = @ + 1]

(* Mutant: one attempt more than MAX_RETRANSMIT.                           *)
ExhaustedLate(p) == p.attempts > MaxRetransmit

Exhausted(p) == p.attempts >= MaxRetransmit

(* The timeout of the pending command has run out.                         *)
TickExpired ==
  LET s == ticker.session
      p == pending[s]
  IN /\ ticker.at = "tick" /\ p # NoPending
     /\ \/ /\ Exhausted(p)
           /\ pending' = [pending EXCEPT ![s] = NoPending]
           /\ ticker' = [ticker EXCEPT !.at = "failed"]
        \/ /\ ~Exhausted(p)
           /\ pending' = [pending EXCEPT ![s] = CountAttempt(p)]
           /\ ticker' = [ticker EXCEPT !.at = "resend",
                           !.command = [seq |-> p.seq, type |-> p.type]]
     /\ UNCHANGED <<serverVars, numberVars, caller, receiver, comm_lost, wireVars,
                    carVars>>

(* Mutant: the same payload under a number of its own.                     *)
ResentNew(s) == [ticker.command EXCEPT !.seq = seq[s]]

Resent(s) == ticker.command

Resend ==
  /\ ticker.at = "resend"
  /\ RawSend(ticker.session, Resent(ticker.session))
  /\ ticker' = [ticker EXCEPT !.at = "silence", !.command = Nobody]
  /\ UNCHANGED <<serverVars, senderVars, caller, receiver, comm_lost, from_car,
                 carVars>>

(* _comm_fail finds the session by car_id, not the one that failed, and    *)
(* tells the pipeline only of the first failure.                           *)
CommFail(next, told) ==
  IF comm_failed[current]
  THEN /\ ticker' = [ticker EXCEPT !.at = next]
       /\ UNCHANGED <<comm_failed, pending>>
  ELSE /\ ticker' = [ticker EXCEPT !.at = told]
       /\ comm_failed' = [comm_failed EXCEPT ![current] = TRUE]
       /\ pending' = [pending EXCEPT ![current] = NoPending]

CommandFailed ==
  /\ ticker.at = "failed"
  /\ CommFail("silence", "tell failure")
  /\ UNCHANGED <<current, alive, numberVars, caller, receiver, comm_lost, wireVars,
                 carVars>>

(* Nothing was received for COMM_TIMEOUT, or it was.                       *)
Silence ==
  /\ ticker.at = "silence"
  /\ \/ CommFail("idle", "tell silence")
     \/ /\ ticker' = IdleTicker
        /\ UNCHANGED <<comm_failed, pending>>
  /\ UNCHANGED <<current, alive, numberVars, caller, receiver, comm_lost, wireVars,
                 carVars>>

(* PipelineRunner._on_comm_fail, called after the lock is released.        *)
TellFailure ==
  /\ ticker.at \in {"tell failure", "tell silence"}
  /\ comm_lost' = TRUE
  /\ ticker' = IF ticker.at = "tell failure"
               THEN [ticker EXCEPT !.at = "silence"] ELSE IdleTicker
  /\ UNCHANGED <<serverVars, senderVars, caller, receiver, wireVars, carVars>>
-----------------------------------------------------------------------------
(* A car connects: _handshake after READY_ALLOWED, and what the new        *)
(* session means to the car.  HELLO_ACK precedes every command on the wire.*)

Connect ==
  LET s == current + 1
  IN /\ s \in Sessions /\ car.session = None
     /\ \A r \in Sessions : receiver[r].at # "resync"
     /\ alive' = [r \in Sessions |-> r = s]
     /\ current' = s
     /\ comm_failed' = [comm_failed EXCEPT ![s] = FALSE]
     /\ seq' = [seq EXCEPT ![s] = 0]
     /\ pending' = [pending EXCEPT ![s] = NoPending]
     /\ receiver' = [receiver EXCEPT ![s] = [NoThread EXCEPT !.at = "resync"]]
     /\ car' = [NoCar EXCEPT !.session = s]
     /\ from_car' = [r \in Sessions |-> <<>>]
     /\ UNCHANGED <<stop_due, caller, ticker, comm_lost, to_car, outcome,
                    dropped>>

(* PipelineRunner._on_resync, then the thread goes on to receive.          *)
Resync(s) ==
  /\ receiver[s].at = "resync"
  /\ comm_lost' = FALSE
  /\ receiver' = [receiver EXCEPT ![s].at = "idle"]
  /\ UNCHANGED <<serverVars, senderVars, caller, ticker, wireVars, carVars>>

(* The car's end of the connection goes; the host may not notice for long. *)
Disconnect ==
  /\ car.session # None
  /\ car' = NoCar
  /\ to_car' = [to_car EXCEPT ![car.session] = <<>>]
  /\ UNCHANGED <<serverVars, senderVars, caller, ticker, receiver, comm_lost,
                 from_car, outcome, dropped>>
-----------------------------------------------------------------------------
(* The receiving thread of a session: _rx_loop and _dispatch.              *)

(* Whatever arrives ends a failure; the pipeline is told after.            *)
Receive(s) ==
  /\ receiver[s].at = "idle" /\ from_car[s] # <<>>
  /\ from_car' = [from_car EXCEPT ![s] = Tail(@)]
  /\ comm_failed' = [comm_failed EXCEPT ![s] = FALSE]
  /\ receiver' = [receiver EXCEPT ![s] =
                    [at |-> IF comm_failed[s] THEN "recovered" ELSE "consume",
                     seq |-> 0, reply |-> Head(from_car[s])]]
  /\ UNCHANGED <<current, alive, senderVars, caller, ticker, comm_lost, to_car,
                 carVars>>

(* PipelineRunner._on_comm_recovered: a loss it knows of ends, and a       *)
(* running mission is planned anew (clear_outstanding).                    *)
TellRecovery(s) ==
  /\ receiver[s].at = "recovered"
  /\ receiver' = [receiver EXCEPT ![s].at = "consume"]
  /\ comm_lost' = FALSE
  /\ \/ UNCHANGED pending
     \/ comm_lost /\ pending' = [pending EXCEPT ![current] = NoPending]
  /\ UNCHANGED <<serverVars, numberVars, caller, ticker, wireVars, carVars>>

(* Mutant: only the result is looked at.                                   *)
AnswersAny(reply, n) == n # 0

Answers(reply, n) == n # 0 /\ n \in {reply.acked, reply.rejected}

(* _consume_command_result, first half: does the reply answer the pending  *)
(* command?                                                                *)
ReadOutstanding(s) ==
  LET reply == receiver[s].reply
      n == pending[s].seq
  IN /\ receiver[s].at = "consume"
     /\ receiver' = [receiver EXCEPT ![s] =
                       IF reply.result # "NONE" /\ Answers(reply, n)
                       THEN [@ EXCEPT !.at = "matched", !.seq = n]
                       ELSE [NoThread EXCEPT !.at = "idle"]]
     /\ UNCHANGED <<serverVars, senderVars, caller, ticker, comm_lost, wireVars,
                    carVars>>

(* Second half: on_ack under the sender's lock, then the result goes up.   *)
OnAck(s) ==
  /\ receiver[s].at = "matched"
  /\ pending' = IF pending[s].seq \in 1..receiver[s].seq
                THEN [pending EXCEPT ![s] = NoPending] ELSE pending
  /\ receiver' = [receiver EXCEPT ![s] = [NoThread EXCEPT !.at = "idle"]]
  /\ UNCHANGED <<serverVars, numberVars, caller, ticker, comm_lost, wireVars, carVars>>

(* recv fails or ends: the session is over for the host.                   *)
ReceiverEnds(s) ==
  /\ receiver[s].at = "idle"
  /\ ~alive[s] \/ car.session # s
  /\ receiver' = [receiver EXCEPT ![s] = NoThread]
  /\ alive' = [alive EXCEPT ![s] = FALSE]
  /\ UNCHANGED <<current, comm_failed, senderVars, caller, ticker, comm_lost,
                 wireVars, carVars>>
-----------------------------------------------------------------------------
(* The car, as far as sequence numbers go.                                 *)

Slot(type) == CASE type = "STOP" -> "stop" [] type = "WAIT" -> "wait"
              [] OTHER -> "queue"

(* vehicle_control_submit_message: a slot is overwritten, a full queue     *)
(* drops.                                                                  *)
Submit ==
  LET s == car.session
      command == Head(to_car[s])
  IN /\ s # None /\ to_car[s] # <<>>
     /\ to_car' = [to_car EXCEPT ![s] = Tail(@)]
     /\ CASE Slot(command.type) = "stop" -> car' = [car EXCEPT !.stop = command]
          [] Slot(command.type) = "wait" -> car' = [car EXCEPT !.wait = command]
          [] OTHER ->
               car' = IF Len(car.queue) < QueueLength
                      THEN [car EXCEPT !.queue = Append(@, command)] ELSE car
     /\ UNCHANGED <<serverVars, senderVars, caller, ticker, receiver, comm_lost,
                    from_car, outcome, dropped>>

(* tx_manager_enqueue_high: a full queue drops the reply.                  *)
Reply(result, acked, rejected) ==
  LET s == car.session
      full == Len(from_car[s]) >= ReplyLength
  IN /\ from_car' = IF full THEN from_car
                    ELSE [from_car EXCEPT ![s] =
                            Append(@, [result |-> result, acked |-> acked,
                                       rejected |-> rejected])]
     /\ dropped' = [dropped EXCEPT ![s] = @ \/ full]

IsNew(command) == command.seq > car.last.seq

(* begin_reliable_locked and finish_reliable_locked on a command the task  *)
(* took out of the slots or the queue.                                     *)
Process(command, waiting) ==
  LET s == car.session
  IN \/ \E result \in {"ACCEPTED"} \cup
                      IF command.type = "STOP" THEN {} ELSE {"INVALID_STATE"} :
          /\ IsNew(command)
          /\ car' = [waiting EXCEPT !.last = command, !.result = result]
          /\ outcome' = [outcome EXCEPT ![s][command.seq] = result]
          /\ Reply(result, command.seq, 0)
     \/ /\ ~IsNew(command)
        /\ car' = waiting
        /\ UNCHANGED outcome
        /\ IF command = car.last THEN Reply(car.result, command.seq, 0)
           ELSE Reply(IF command.seq = car.last.seq THEN "SEQ_CONFLICT"
                      ELSE "STALE_SEQ", car.last.seq, command.seq)

unchangedByCar == <<serverVars, caller, ticker, receiver, comm_lost,
                    to_car>>

(* STOP drops a WAIT of the same pass.                                     *)
CarStop ==
  /\ car.stop # Nobody
  /\ \E wait \in {car.wait, Nobody} :
       Process(car.stop, [car EXCEPT !.stop = Nobody, !.wait = wait])
  /\ stop_due' = [stop_due EXCEPT ![car.session] = FALSE]
  /\ UNCHANGED <<unchangedByCar, seq, pending>>

CarWait ==
  /\ car.wait # Nobody
  /\ Process(car.wait, [car EXCEPT !.wait = Nobody])
  /\ UNCHANGED <<unchangedByCar, senderVars>>

CarGeneral ==
  /\ car.queue # <<>>
  /\ Process(Head(car.queue), [car EXCEPT !.queue = Tail(@)])
  /\ UNCHANGED <<unchangedByCar, senderVars>>

(* A periodic STATUS: no result, the last number repeated.                 *)
PeriodicStatus ==
  /\ car.session # None /\ from_car[car.session] = <<>>
  /\ Reply("NONE", car.last.seq, 0)
  /\ UNCHANGED <<unchangedByCar, senderVars, car, outcome>>
-----------------------------------------------------------------------------
Host == \/ \E c \in Callers : \/ \E type \in Types : FindSession(c, type)
                              \/ NumberCommand(c) \/ SendFirst(c)
        \/ TickIdle \/ TickSession \/ TickNothing \/ TickExpired \/ Resend
        \/ CommandFailed \/ Silence \/ TellFailure
        \/ \E s \in Sessions : \/ Resync(s) \/ Receive(s) \/ TellRecovery(s)
                               \/ ReadOutstanding(s) \/ OnAck(s)
                               \/ ReceiverEnds(s)

Car == Submit \/ CarStop \/ CarWait \/ CarGeneral \/ PeriodicStatus

Next == Host \/ Car \/ Connect \/ Disconnect

Spec == Init /\ [][Next]_vars

(* Every thread runs, TCP delivers while it is up, and a timeout that is   *)
(* looked at every 20 ms runs out.                                         *)
FairSpec ==
  /\ Spec
  /\ \A c \in Callers : WF_vars(NumberCommand(c)) /\ WF_vars(SendFirst(c))
  /\ WF_vars(TickSession) /\ WF_vars(TickNothing) /\ SF_vars(TickExpired)
  /\ WF_vars(Resend) /\ WF_vars(CommandFailed) /\ WF_vars(Silence)
  /\ WF_vars(TellFailure)
  /\ WF_vars(Submit) /\ WF_vars(CarStop)
-----------------------------------------------------------------------------
Threads == {"none", "resync", "idle", "recovered", "consume", "matched"}
Replies == [result : Results \cup {"NONE"}, acked : 0..MaxSeq,
            rejected : 0..MaxSeq]

TypeOK ==
  /\ current \in Sessions \cup {None}
  /\ alive \in [Sessions -> BOOLEAN] /\ comm_failed \in [Sessions -> BOOLEAN]
  /\ seq \in [Sessions -> 0..MaxSeq]
  /\ pending \in [Sessions -> [seq : 0..MaxSeq, type : Types \cup {"NONE"},
                               attempts : 0..MaxRetransmit]]
  /\ \A s \in Sessions :
       /\ to_car[s] \in Seq(Command)
       /\ from_car[s] \in Seq(Replies) /\ Len(from_car[s]) <= ReplyLength
       /\ receiver[s].at \in Threads
  /\ comm_lost \in BOOLEAN

(* Two commands of a session never share a number, so the car, which       *)
(* compares fingerprints under equal numbers, never sees a conflict: not   *)
(* when callers race, a command is replaced or a resend crosses a new send.*)
NoSeqConflict ==
  \A s \in Sessions : \A i \in 1..Len(from_car[s]) :
    from_car[s][i].result # "SEQ_CONFLICT"

(* The result the upper layers get for a command is the car's own answer   *)
(* to that command, whatever was resent, replaced or answered late.  The   *)
(* one exception is a session in which the car dropped a reply: then a     *)
(* refusal of an older command can be taken for the answer.                *)
ResultIsOwn ==
  \A s \in Sessions :
    receiver[s].at = "matched" /\ ~dropped[s] =>
      receiver[s].reply.result = outcome[s][receiver[s].seq]

(* Resends, replacements and late answers never mix up two commands, on    *)
(* neither side.                                                           *)
CommandsKeptApart == NoSeqConflict /\ ResultIsOwn

(* A STOP that waits for its answer is never cancelled by another command, *)
(* by an answer to another command, or by an attempt that was not the      *)
(* last: only its own answer, its last timeout or a failed link ends it    *)
(* (docstring of ReliableSender.send).                                     *)
StopNotCancelled ==
  [][\A s \in Sessions :
       pending[s].type = "STOP" /\ pending'[s].seq # pending[s].seq =>
         /\ pending'[s] = NoPending
         /\ \/ receiver[s].at = "matched" /\ receiver[s].seq = pending[s].seq
            \/ pending[s].attempts = MaxRetransmit
            \/ comm_failed'[s] \/ comm_lost]_vars

(* No command stays outstanding for ever: it is answered, replaced or      *)
(* given up, and the next ordinary command can be sent.                    *)
CommandsSettle ==
  \A s \in Sessions : \A n \in 1..MaxSeq :
    pending[s].seq = n ~> pending[s].seq # n \/ ~alive[s]

(* After a STOP was accepted for sending the car handles a STOP, or the    *)
(* connection is lost: a sender that gives up, a failure that clears the   *)
(* pending command and a slot that a late resend overwrites do not lose it.*)
StopArrives ==
  \A s \in Sessions : stop_due[s] ~> ~stop_due[s] \/ car.session # s
=============================================================================
