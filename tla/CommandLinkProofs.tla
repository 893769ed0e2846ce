------------------------- MODULE CommandLinkProofs -------------------------
(* Proofs about CommandLink: the state keeps its types, neither side ever  *)
(* takes one command for another, and a STOP that waits for its answer is  *)
(* not cancelled, for any number of callers, connections and commands.     *)
EXTENDS CommandLink, SequenceTheorems, TLAPS

-----------------------------------------------------------------------------
(* The inductive invariant.                                                *)

Numbers == 1..MaxSeq
Verdicts == {"ACCEPTED", "INVALID_STATE"}
Pendings == [seq : 0..MaxSeq, type : Types \cup {"NONE"},
             attempts : 0..MaxRetransmit]
Carried == [at : {"idle", "found", "raw"}, session : 0..MaxSession,
            command : Command]
Ticking == [at : {"idle", "tick", "silence", "failed", "resend", "tell failure",
                  "tell silence"},
            session : 0..MaxSession, command : Command]
Receiving == [at : Threads, seq : 0..MaxSeq, reply : Replies \cup {"NONE"}]
Cars == [session : 0..MaxSession, last : Command, result : Verdicts \cup {"NONE"},
         stop : Command, wait : Command, queue : Seq(Command)]

(* Every variable has its type.                                            *)
LinkTyped ==
  /\ current \in 0..MaxSession
  /\ alive \in [Sessions -> BOOLEAN] /\ comm_failed \in [Sessions -> BOOLEAN]
  /\ seq \in [Sessions -> 0..MaxSeq] /\ pending \in [Sessions -> Pendings]
  /\ caller \in [Callers -> Carried] /\ ticker \in Ticking
  /\ receiver \in [Sessions -> Receiving]
  /\ comm_lost \in BOOLEAN
  /\ to_car \in [Sessions -> Seq(Command)] /\ from_car \in [Sessions -> Seq(Replies)]
  /\ \A s \in Sessions : Len(from_car[s]) <= ReplyLength
  /\ car \in Cars
  /\ outcome \in [Sessions -> [Numbers -> Verdicts \cup {"NONE"}]]
  /\ dropped \in [Sessions -> BOOLEAN]

(* A connection that is still to come has left nothing behind.             *)
Fresh ==
  \A s \in Sessions : s > current =>
    /\ seq[s] = 0 /\ pending[s] = NoPending /\ receiver[s] = NoThread
    /\ to_car[s] = <<>> /\ \A n \in Numbers : outcome[s][n] = "NONE"

(* Who works on a session works on one that has been, and nothing waits in *)
(* a car that is not connected.                                            *)
Places ==
  /\ \A c \in Callers : caller[c].at # "idle" =>
                          /\ caller[c].session \in 1..current
                          /\ caller[c].command.type \in Types
  /\ ticker.at # "idle" => ticker.session \in 1..current
  /\ car.session \in {None, current}
  /\ car.session = None => car.stop = Nobody /\ car.wait = Nobody /\ car.queue = <<>>

(* Only the last command that was numbered can be outstanding.             *)
LastPending ==
  \A s \in Sessions : pending[s] # NoPending =>
    pending[s].seq = seq[s] /\ pending[s].seq # 0 /\ pending[s].type \in Types

(* There is one book of what command each number was given to, and every   *)
(* copy of a command, wherever it is, stands in it.                        *)
Book == [Sessions -> [Numbers -> Types \cup {"NONE"}]]
Issued(T, s) == {[seq |-> n, type |-> T[s][n]] : n \in 1..seq[s]}

HandsMatch(T) ==
  /\ \A c \in Callers : caller[c].at = "raw" =>
                          caller[c].command \in Issued(T, caller[c].session)
  /\ ticker.at = "resend" => ticker.command \in Issued(T, ticker.session)
PendingMatch(T) ==
  \A s \in Sessions : pending[s] # NoPending =>
    [seq |-> pending[s].seq, type |-> pending[s].type] \in Issued(T, s)
WireMatch(T) == \A s \in Sessions : to_car[s] \in Seq(Issued(T, s))
CarMatch(T) ==
  car.session # None =>
    /\ car.stop \in Issued(T, car.session) \cup {Nobody}
    /\ car.wait \in Issued(T, car.session) \cup {Nobody}
    /\ car.last \in Issued(T, car.session) \cup {Nobody}
    /\ car.queue \in Seq(Issued(T, car.session))
Matches(T) == HandsMatch(T) /\ PendingMatch(T) /\ WireMatch(T) /\ CarMatch(T)
OneTypeEach == \E T \in Book : Matches(T)

(* The car has answered what it took, up to the last, and knows how.       *)
CarRemembers ==
  car.session # None =>
    /\ \A n \in Numbers : outcome[car.session][n] # "NONE" => n <= car.last.seq
    /\ car.last.seq # 0 => /\ car.result \in Verdicts
                           /\ outcome[car.session][car.last.seq] = car.result

(* The replies under way: the car's own answer to a command, the refusal of*)
(* an older command than the last, or a status without a result.           *)
Own(s) ==
  {r \in Replies : /\ r.result \in Verdicts /\ r.rejected = 0
                   /\ r.acked \in 1..seq[s] /\ outcome[s][r.acked] = r.result}
Stale(s) ==
  {r \in Replies : /\ r.result = "STALE_SEQ" /\ r.acked \in 1..seq[s]
                   /\ r.rejected \in 1..(r.acked - 1)}
Silent == {r \in Replies : r.result = "NONE"}
Truthful(s) == Own(s) \cup Stale(s) \cup Silent

Held(s) == receiver[s].at \in {"recovered", "consume"}
ToldIn(s) ==
  /\ from_car[s] \in Seq(Truthful(s))
  /\ Held(s) => receiver[s].reply \in Truthful(s)
  /\ receiver[s].at = "matched" =>
       /\ receiver[s].seq \in 1..seq[s] /\ receiver[s].reply.result # "NONE"
       /\ ~dropped[s] => receiver[s].reply.result = outcome[s][receiver[s].seq]
Told == \A s \in Sessions : ToldIn(s)

(* Command n of session s is not outstanding any more, or its answer is in *)
(* the receiving thread's hands; or the answer is among the next k replies.*)
InHand(s, n) == \/ Held(s) /\ receiver[s].reply \in Own(s) /\ receiver[s].reply.acked = n
                \/ receiver[s].at = "matched" /\ receiver[s].seq = n
Settled(s, n) == pending[s].seq # n \/ InHand(s, n)
OnItsWay(s, n, k) == \E i \in 1..k : from_car[s][i] \in Own(s) /\ from_car[s][i].acked = n

(* Where no reply was dropped, a command's own answer comes before any     *)
(* refusal that names it as the last.                                      *)
RefusalsLate(s) ==
  \A i \in 1..Len(from_car[s]) : from_car[s][i] \in Stale(s) =>
    Settled(s, from_car[s][i].acked) \/ OnItsWay(s, from_car[s][i].acked, i - 1)
HandLate(s) ==
  Held(s) /\ receiver[s].reply \in Stale(s) => pending[s].seq # receiver[s].reply.acked
LastLate(s) ==
  car.session = s /\ car.last.seq # 0 =>
    Settled(s, car.last.seq) \/ OnItsWay(s, car.last.seq, Len(from_car[s]))
AnswerFirstIn(s) == ~dropped[s] => RefusalsLate(s) /\ HandLate(s) /\ LastLate(s)
AnswerFirst == \A s \in Sessions : AnswerFirstIn(s)

LinkInv ==
  /\ LinkTyped /\ Fresh /\ Places /\ LastPending /\ OneTypeEach
  /\ CarRemembers /\ Told /\ AnswerFirst

-----------------------------------------------------------------------------
LEMMA Bounds ==
  /\ MaxSession \in Nat /\ MaxSeq \in Nat /\ MaxRetransmit \in Nat
  /\ QueueLength \in Nat /\ ReplyLength \in Nat
  /\ MaxSession >= 1 /\ MaxSeq >= 1 /\ MaxRetransmit >= 1 /\ ReplyLength >= 1
  /\ 0 \in 0..MaxSession /\ 0 \in 0..MaxSeq
  /\ Sessions = (0..MaxSession) \ {0} /\ Numbers = (0..MaxSeq) \ {0}
<1>1. /\ MaxSession \in Nat \ {0} /\ MaxSeq \in Nat \ {0} /\ MaxRetransmit \in Nat \ {0}
      /\ QueueLength \in Nat \ {0} /\ ReplyLength \in Nat \ {0}
  BY LinkAssumption
<1> QED BY <1>1 DEF Sessions, Numbers

LEMMA Constants ==
  /\ Nobody \in Command /\ Nobody.seq = 0 /\ Nobody.type = "NONE"
  /\ NoPending \in Pendings /\ NoPending.seq = 0 /\ NoPending.type = "NONE"
  /\ IdleCaller \in Carried /\ IdleCaller.at = "idle"
  /\ IdleTicker \in Ticking /\ IdleTicker.at = "idle"
  /\ NoThread \in Receiving /\ NoThread.at = "none"
  /\ "NONE" \notin Types
<1>1. Nobody \in Command BY Bounds DEF Nobody, Command
<1>2. NoPending \in Pendings BY Bounds DEF NoPending, Pendings
<1>3. IdleCaller \in Carried BY <1>1, Bounds DEF IdleCaller, Carried, None
<1>4. IdleTicker \in Ticking BY <1>1, Bounds DEF IdleTicker, Ticking, None
<1>5. NoThread \in Receiving BY Bounds DEF NoThread, Receiving, Threads
<1>6. "NONE" \notin Types BY LinkAssumption
<1> QED BY <1>1, <1>2, <1>3, <1>4, <1>5, <1>6
      DEF Nobody, NoPending, IdleCaller, IdleTicker, NoThread

(* What stands in the book is a command with a number already given.       *)
LEMMA InBook ==
  ASSUME LinkTyped, NEW T \in Book, NEW s \in Sessions, NEW x \in Issued(T, s)
  PROVE  /\ x \in Command /\ x # Nobody
         /\ x.seq \in 1..seq[s] /\ x.seq \in Numbers /\ x.type = T[s][x.seq]
<1>1. PICK n \in 1..seq[s] : x = [seq |-> n, type |-> T[s][n]]
  BY DEF Issued
<1>2. seq[s] \in 0..MaxSeq BY DEF LinkTyped
<1>3. n \in Numbers /\ n \in 0..MaxSeq /\ n # 0 BY <1>2, Bounds
<1>4. T[s][n] \in Types \cup {"NONE"} BY <1>3 DEF Book
<1> QED BY <1>1, <1>3, <1>4 DEF Command, Nobody

LEMMA SameNumber ==
  ASSUME NEW T, NEW s, NEW x \in Issued(T, s), NEW y \in Issued(T, s), x.seq = y.seq
  PROVE  x = y
BY DEF Issued

(* A session none of whose replies, answers and receiving thread a step    *)
(* touches, and in which at most what is outstanding changes.              *)
LEMMA SessionKept ==
  ASSUME LinkInv, LinkTyped', NEW s \in Sessions,
         seq'[s] >= seq[s], receiver'[s] = receiver[s], outcome'[s] = outcome[s],
         dropped'[s] = dropped[s],
         pending'[s].seq = 0 \/ pending'[s].seq = pending[s].seq \/ pending'[s].seq > seq[s],
         \/ /\ car'.session = car.session /\ car'.last = car.last
            /\ from_car'[s] = from_car[s]
         \/ car'.session # s /\ from_car'[s] \in {from_car[s], <<>>}
  PROVE  ToldIn(s)' /\ AnswerFirstIn(s)'
<1>1. seq[s] \in Nat /\ seq'[s] \in Nat /\ car \in Cars /\ car' \in Cars
  BY Bounds DEF LinkInv, LinkTyped
<1>2. /\ Own(s) \subseteq Own(s)' /\ Stale(s) \subseteq Stale(s)' /\ Silent' = Silent
      /\ Held(s)' = Held(s)
  BY <1>1 DEF Own, Stale, Silent, Held
<1>3. \A r \in Truthful(s) : r \in Truthful(s)' /\ (r \in Stale(s)' => r \in Stale(s))
  BY <1>1, <1>2 DEF Truthful, Own, Stale, Silent, Verdicts
<1>4. ToldIn(s) /\ AnswerFirstIn(s) BY DEF LinkInv, Told, AnswerFirst
<1>5. from_car'[s] \in Seq(Truthful(s)')
  <2>1. Truthful(s) \subseteq Truthful(s)' BY <1>3
  <2>2. from_car[s] \in Seq(Truthful(s)') BY <2>1, <1>4, SeqMonotonic DEF ToldIn
  <2>3. <<>> \in Seq(Truthful(s)') BY EmptySeq
  <2> QED BY <2>2, <2>3
<1>6. ToldIn(s)' BY <1>1, <1>2, <1>3, <1>4, <1>5 DEF ToldIn
<1>7. \A n \in 1..seq[s] : Settled(s, n) => Settled(s, n)'
  BY <1>1, <1>2 DEF Settled, InHand
<1>8. \A r \in Stale(s) : r.acked \in 1..seq[s] BY DEF Stale
<1>9. from_car'[s] = from_car[s] =>
        \A n, k : OnItsWay(s, n, k) => OnItsWay(s, n, k)'
  BY <1>2 DEF OnItsWay
<1>10. AnswerFirstIn(s)'
  <2> SUFFICES ASSUME ~dropped[s]
               PROVE  RefusalsLate(s)' /\ HandLate(s)' /\ LastLate(s)'
    BY DEF AnswerFirstIn
  <2>1. RefusalsLate(s) /\ HandLate(s) /\ LastLate(s) BY <1>4 DEF AnswerFirstIn
  <2>2. RefusalsLate(s)'
    <3>1. CASE from_car'[s] = <<>>
      BY <3>1 DEF RefusalsLate
    <3>2. CASE from_car'[s] = from_car[s]
      <4>1. ASSUME NEW i \in 1..Len(from_car[s]), from_car[s][i] \in Stale(s)'
            PROVE  from_car[s][i] \in Stale(s)
        <5>1. from_car[s][i] \in Truthful(s) BY <1>4, ElementOfSeq DEF ToldIn
        <5> QED BY <4>1, <5>1, <1>3
      <4>2. ASSUME NEW r \in Stale(s), NEW k,
                   Settled(s, r.acked) \/ OnItsWay(s, r.acked, k)
            PROVE  Settled(s, r.acked)' \/ OnItsWay(s, r.acked, k)'
        <5>1. PICK n \in 1..seq[s] : n = r.acked BY <1>8
        <5>2. Settled(s, n)' \/ OnItsWay(s, n, k)' BY <3>2, <4>2, <5>1, <1>7, <1>9
        <5> QED BY <5>1, <5>2
      <4> QED BY <2>1, <3>2, <4>1, <4>2 DEF RefusalsLate
    <3> QED BY <3>1, <3>2
  <2>3. HandLate(s)'
    BY <1>1, <1>2, <1>3, <1>4, <1>8, <2>1 DEF HandLate, ToldIn
  <2>4. LastLate(s)'
    <3>1. CASE car'.session = s /\ car'.last.seq # 0
      <4>1. /\ car.session = s /\ car'.last = car.last /\ from_car'[s] = from_car[s]
        BY <3>1
      <4>2. PICK T \in Book : CarMatch(T) BY DEF LinkInv, OneTypeEach, Matches
      <4>3. car.last \in Issued(T, s)
        BY <3>1, <4>1, <4>2, Constants, Bounds DEF CarMatch, Sessions, None
      <4>4. PICK n \in 1..seq[s] : n = car.last.seq BY <4>3, InBook DEF LinkInv
      <4>5. PICK k : k = Len(from_car[s]) OBVIOUS
      <4>6. Settled(s, n) \/ OnItsWay(s, n, k)
        BY <2>1, <3>1, <4>1, <4>4, <4>5 DEF LastLate
      <4>7. Settled(s, n)' \/ OnItsWay(s, n, k)' BY <4>1, <4>6, <1>7, <1>9
      <4> QED BY <4>1, <4>4, <4>5, <4>7 DEF LastLate
    <3> QED BY <3>1 DEF LastLate
  <2> QED BY <2>2, <2>3, <2>4
<1> QED BY <1>6, <1>10

(* The book is kept, command by command, when nothing is numbered and no   *)
(* command gets to a new place.                                            *)
LEMMA BookKept ==
  ASSUME LinkInv, LinkTyped',
         UNCHANGED <<seq, car>>,
         \A s \in Sessions :
           \/ pending'[s] = NoPending
           \/ /\ pending[s] # NoPending /\ pending'[s].seq = pending[s].seq
              /\ pending'[s].type = pending[s].type,
         \A T \in Book : Matches(T) => (HandsMatch(T) /\ WireMatch(T))'
  PROVE  LastPending' /\ OneTypeEach'
<1>1. LastPending' BY DEF LinkInv, LastPending
<1>2. PICK T \in Book : Matches(T) BY DEF LinkInv, OneTypeEach
<1>3. PendingMatch(T)' BY <1>2 DEF Matches, PendingMatch, Issued
<1>4. CarMatch(T)' BY <1>2 DEF Matches, CarMatch, Issued
<1> QED BY <1>1, <1>2, <1>3, <1>4 DEF OneTypeEach, Matches

(* Steps of the callers and of the tick thread that number nothing.        *)
LEMMA HostStep ==
  ASSUME LinkInv, LinkTyped', Places',
         UNCHANGED <<current, seq, receiver, from_car, car, outcome, dropped>>,
         \A s \in Sessions :
           \/ pending'[s] = NoPending
           \/ /\ pending[s] # NoPending /\ pending'[s].seq = pending[s].seq
              /\ pending'[s].type = pending[s].type,
         \A s \in Sessions : s > current => to_car'[s] = to_car[s]
                                          /\ pending'[s] = pending[s],
         \A T \in Book : Matches(T) => (HandsMatch(T) /\ WireMatch(T))'
  PROVE  LinkInv'
<1>1. Fresh' BY DEF LinkInv, Fresh
<1>2. LastPending' /\ OneTypeEach' BY BookKept
<1>3. CarRemembers' BY DEF LinkInv, CarRemembers
<1>4. ASSUME NEW s \in Sessions PROVE ToldIn(s)' /\ AnswerFirstIn(s)'
  <2>1. seq[s] \in Nat BY Bounds DEF LinkInv, LinkTyped
  <2>2. pending'[s].seq = 0 \/ pending'[s].seq = pending[s].seq BY Constants
  <2> QED BY <2>1, <2>2, SessionKept
<1> QED BY <1>1, <1>2, <1>3, <1>4 DEF LinkInv, Told, AnswerFirst

(* Steps of the receiving thread of a session.                             *)
LEMMA ReceiverStep ==
  ASSUME LinkInv, LinkTyped', NEW s \in Sessions, s <= current,
         UNCHANGED <<current, seq, caller, ticker, to_car, car, outcome, dropped>>,
         \A r \in Sessions : pending'[r] = NoPending \/ pending'[r] = pending[r],
         \A r \in Sessions \ {s} : /\ receiver'[r] = receiver[r]
                                   /\ from_car'[r] = from_car[r],
         ToldIn(s)', AnswerFirstIn(s)'
  PROVE  LinkInv'
<1>1. Fresh'
  <2>1. s \in Nat /\ current \in Nat
    BY Bounds DEF LinkInv, LinkTyped, Sessions
  <2>2. ASSUME NEW r \in Sessions, r > current
        PROVE  /\ seq'[r] = 0 /\ pending'[r] = NoPending /\ receiver'[r] = NoThread
               /\ to_car'[r] = <<>> /\ \A n \in Numbers : outcome'[r][n] = "NONE"
    <3>1. r # s
      BY <2>1, <2>2
    <3> QED BY <3>1, <2>2 DEF LinkInv, Fresh
  <2> QED BY <2>2 DEF Fresh
<1>2. LastPending' /\ OneTypeEach'
  <2>1. \A T \in Book : Matches(T) => (HandsMatch(T) /\ WireMatch(T))'
    BY DEF Matches, HandsMatch, WireMatch, Issued
  <2> QED BY <2>1, BookKept
<1>3. CarRemembers' /\ Places' BY DEF LinkInv, CarRemembers, Places
<1>4. ASSUME NEW r \in Sessions PROVE ToldIn(r)' /\ AnswerFirstIn(r)'
  <2>1. CASE r = s BY <2>1
  <2>2. CASE r # s
    <3>1. seq[r] \in Nat BY Bounds DEF LinkInv, LinkTyped
    <3>2. pending'[r].seq = 0 \/ pending'[r].seq = pending[r].seq BY Constants
    <3> QED BY <2>2, <3>1, <3>2, SessionKept
  <2> QED BY <2>1, <2>2
<1> QED BY <1>1, <1>2, <1>3, <1>4 DEF LinkInv, Told, AnswerFirst

(* A thread that is at work on a session works on one that has been.       *)
LEMMA Been ==
  ASSUME LinkInv, NEW s \in Sessions, receiver[s].at # "none"
  PROVE  s <= current
BY Constants DEF LinkInv, LinkTyped, Fresh, Sessions

-----------------------------------------------------------------------------
(* Sending.                                                                *)

LEMMA FindSessionKeeps ==
  ASSUME LinkInv, NEW c \in Callers, NEW type \in Types, FindSession(c, type)
  PROVE  LinkInv'
<1>u. /\ UNCHANGED <<serverVars, senderVars, ticker, receiver, comm_lost, wireVars,
                      carVars>>
      /\ caller' = [caller EXCEPT ![c] = [at |-> "found", session |-> current,
                                         command |-> [seq |-> 0, type |-> type]]]
      /\ current # None
  BY DEF FindSession, HasSession
<1> USE <1>u DEF serverVars, senderVars, numberVars, wireVars, carVars
<1>1. LinkTyped'
  <2>1. [seq |-> 0, type |-> type] \in Command BY Bounds DEF Command
  <2>2. [at |-> "found", session |-> current,
         command |-> [seq |-> 0, type |-> type]] \in Carried
    BY <2>1 DEF Carried, LinkInv, LinkTyped
  <2> QED BY <2>2 DEF LinkInv, LinkTyped
<1>2. caller \in [Callers -> Carried] /\ current \in 1..current
  BY Bounds DEF LinkInv, LinkTyped, None
<1>3. Places' BY <1>2 DEF LinkInv, Places
<1>4. \A T \in Book : Matches(T) => (HandsMatch(T) /\ WireMatch(T))'
  BY <1>2 DEF Matches, HandsMatch, WireMatch, Issued
<1> QED BY <1>1, <1>3, <1>4, HostStep

LEMMA SendFirstKeeps ==
  ASSUME LinkInv, NEW c \in Callers, SendFirst(c)
  PROVE  LinkInv'
<1> DEFINE s == caller[c].session
           command == caller[c].command
<1>u. /\ UNCHANGED <<serverVars, senderVars, ticker, receiver, comm_lost, from_car,
                      carVars>>
      /\ caller' = [caller EXCEPT ![c] = IdleCaller]
      /\ caller[c].at = "raw"
      /\ to_car' = to_car \/ to_car' = [to_car EXCEPT ![s] = Append(@, command)]
  BY DEF SendFirst, RawSend
<1> USE <1>u DEF serverVars, senderVars, numberVars, carVars
<1>1. /\ caller \in [Callers -> Carried] /\ s \in 1..current /\ s \in Sessions
      /\ to_car \in [Sessions -> Seq(Command)] /\ command \in Command
      /\ current \in Nat
  BY Bounds DEF LinkInv, LinkTyped, Places, Sessions, Carried
<1> HIDE DEF s, command
<1>2. to_car' \in [Sessions -> Seq(Command)]
  <2>1. Append(to_car[s], command) \in Seq(Command) BY <1>1, AppendProperties
  <2> QED BY <1>1, <2>1
<1>3. LinkTyped' BY <1>1, <1>2, Constants DEF LinkInv, LinkTyped
<1>4. Places' BY <1>1, Constants DEF LinkInv, Places
<1>5. ASSUME NEW T \in Book, Matches(T) PROVE (HandsMatch(T) /\ WireMatch(T))'
  <2>1. HandsMatch(T)' BY <1>1, <1>5, Constants DEF Matches, HandsMatch, Issued
  <2>2. command \in Issued(T, s) BY <1>5 DEF Matches, HandsMatch, s, command
  <2>3. ASSUME NEW r \in Sessions PROVE to_car'[r] \in Seq(Issued(T, r))
    <3>1. to_car[r] \in Seq(Issued(T, r)) BY <1>5 DEF Matches, WireMatch
    <3>2. to_car'[r] = to_car[r] \/ (r = s /\ to_car'[r] = Append(to_car[r], command))
      BY <1>1
    <3> QED BY <2>2, <3>1, <3>2, AppendProperties
  <2>4. \A r \in Sessions : Issued(T, r)' = Issued(T, r) BY DEF Issued
  <2> QED BY <2>1, <2>3, <2>4 DEF WireMatch
<1>6. \A r \in Sessions : r > current => to_car'[r] = to_car[r] BY <1>1
<1>7. UNCHANGED pending OBVIOUS
<1> QED BY <1>3, <1>4, <1>5, <1>6, <1>7, HostStep

LEMMA NumberCommandKeeps ==
  ASSUME LinkInv, NEW c \in Callers, NumberCommand(c)
  PROVE  LinkInv'
<1>0. PICK s, command :
        /\ s = caller[c].session
        /\ command = [seq |-> seq[s] + 1, type |-> caller[c].command.type]
  OBVIOUS
<1> DEFINE raw == [at |-> "raw", session |-> s, command |-> command]
           p == [seq |-> command.seq, type |-> command.type, attempts |-> 1]
<1>u. UNCHANGED <<serverVars, ticker, receiver, comm_lost, wireVars, carVars>>
  BY DEF NumberCommand
<1> USE <1>u DEF serverVars, wireVars, carVars
<1>1. /\ caller \in [Callers -> Carried] /\ caller[c].at = "found"
      /\ seq \in [Sessions -> 0..MaxSeq] /\ pending \in [Sessions -> Pendings]
      /\ s \in 1..current /\ s \in Sessions
      /\ caller[c].command.type \in Types /\ current \in Nat
  BY <1>0, Bounds DEF LinkInv, LinkTyped, Places, Sessions, NumberCommand
<1>2. CASE UNCHANGED senderVars /\ caller' = [caller EXCEPT ![c] = IdleCaller]
  <2>1. LinkTyped' BY <1>2, Constants DEF LinkInv, LinkTyped, senderVars, numberVars
  <2>2. Places' BY <1>1, <1>2, Constants DEF LinkInv, Places
  <2>3. \A T \in Book : Matches(T) => (HandsMatch(T) /\ WireMatch(T))'
    BY <1>1, <1>2, Constants
    DEF Matches, HandsMatch, WireMatch, Issued, senderVars, numberVars
  <2> QED BY <1>2, <2>1, <2>2, <2>3, HostStep DEF senderVars, numberVars
<1>3. CASE /\ seq[s] < MaxSeq
           /\ caller' = [caller EXCEPT ![c] = raw]
           /\ seq' = [seq EXCEPT ![s] = command.seq]
           /\ pending' = [pending EXCEPT ![s] = p]
  <2>1. /\ command \in Command /\ command.seq = seq[s] + 1 /\ command.seq \in Numbers
        /\ command.type \in Types
        /\ p \in Pendings /\ raw \in Carried
    <3>1. seq[s] \in 0..MaxSeq BY <1>1
    <3> USE <1>0
    <3>2. command.seq \in 1..MaxSeq BY <1>1, <1>3, <3>1, Bounds
    <3>3. command \in Command BY <1>1, <3>2, Bounds DEF Command
    <3> QED BY <1>1, <3>2, <3>3, Bounds DEF Numbers, Pendings, Carried, Sessions
  <2> HIDE DEF raw, p
  <2>2. LinkTyped'
    BY <1>1, <1>3, <2>1, Bounds DEF LinkInv, LinkTyped, Numbers
  <2>3. Fresh' BY <1>1, <1>3 DEF LinkInv, Fresh
  <2>4. Places' BY <1>1, <1>3, <2>1 DEF LinkInv, Places, raw
  <2>5. LastPending' BY <1>1, <1>3, <2>1, Bounds DEF LinkInv, LastPending, p, Numbers
  <2>6. OneTypeEach'
    <3>1. PICK T \in Book : Matches(T) BY DEF LinkInv, OneTypeEach
    <3>2. PICK T1 : T1 = [T EXCEPT ![s] = [@ EXCEPT ![command.seq] = command.type]]
      OBVIOUS
    <3>3. /\ T1 \in Book
          /\ \A r \in Sessions : r # s => T1[r] = T[r]
          /\ T1[s][command.seq] = command.type
          /\ \A n \in Numbers : n # command.seq => T1[s][n] = T[s][n]
      BY <1>1, <2>1, <3>2 DEF Book
    <3>4. command = [seq |-> command.seq, type |-> command.type] BY <2>1 DEF Command
    <3>5. ASSUME NEW r \in Sessions PROVE Issued(T, r) \subseteq Issued(T1, r)'
      <4> SUFFICES ASSUME NEW n \in 1..seq[r]
                   PROVE  n \in 1..seq'[r] /\ T1[r][n] = T[r][n]
        BY DEF Issued
      <4>1. seq[r] \in 0..MaxSeq /\ n \in Numbers BY <1>1, Bounds DEF Numbers
      <4>2. CASE r # s BY <1>1, <1>3, <3>3, <4>2
      <4>3. CASE r = s BY <1>1, <1>3, <2>1, <3>3, <4>1, <4>3, Bounds
      <4> QED BY <4>2, <4>3
    <3>6. command \in Issued(T1, s)'
      BY <1>1, <1>3, <2>1, <3>3, <3>4, Bounds DEF Issued, Numbers
    <3>7. HandsMatch(T1)'
      <4>1. ticker.at = "resend" => ticker.session \in Sessions
        BY Bounds DEF LinkInv, LinkTyped, Places, Sessions
      <4>2. \A d \in Callers : caller[d].at = "raw" => caller[d].session \in Sessions
        BY Bounds DEF LinkInv, LinkTyped, Places, Sessions
      <4> QED BY <1>1, <1>3, <3>1, <3>5, <3>6, <4>1, <4>2 DEF Matches, HandsMatch, raw
    <3>8. PendingMatch(T1)'
      BY <1>1, <1>3, <3>1, <3>4, <3>5, <3>6 DEF Matches, PendingMatch, p
    <3>9. WireMatch(T1)'
      BY <3>1, <3>5, SeqMonotonic DEF Matches, WireMatch
    <3>10. CarMatch(T1)'
      <4>1. car.session # None => car.session \in Sessions
        BY Bounds DEF LinkInv, LinkTyped, Cars, None
      <4> QED BY <3>1, <3>5, <4>1, SeqMonotonic DEF Matches, CarMatch
    <3> QED BY <3>3, <3>7, <3>8, <3>9, <3>10 DEF OneTypeEach, Matches
  <2>7. CarRemembers' BY DEF LinkInv, CarRemembers
  <2>8. ASSUME NEW r \in Sessions PROVE ToldIn(r)' /\ AnswerFirstIn(r)'
    <3>1. seq[r] \in Nat /\ seq'[r] \in Nat /\ seq'[r] >= seq[r]
      BY <1>1, <1>3, <2>1, Bounds DEF Numbers
    <3>2. pending'[r].seq = pending[r].seq \/ pending'[r].seq > seq[r]
      BY <1>1, <1>3, <2>1, <3>1 DEF p
    <3> QED BY <2>2, <3>1, <3>2, SessionKept
  <2> QED BY <2>2, <2>3, <2>4, <2>5, <2>6, <2>7, <2>8 DEF LinkInv, Told, AnswerFirst
<1> QED BY <1>0, <1>2, <1>3 DEF NumberCommand, MayReplace

-----------------------------------------------------------------------------
(* The tick thread.                                                        *)

(* What a step of the tick thread has to show besides its own places.      *)
LEMMA TickerStep ==
  ASSUME LinkInv, ticker' \in Ticking,
         comm_failed' \in [Sessions -> BOOLEAN], pending' \in [Sessions -> Pendings],
         comm_lost' \in BOOLEAN,
         UNCHANGED <<current, alive, seq, caller, receiver, to_car, from_car, car,
                     outcome, dropped>>,
         \A s \in Sessions :
           \/ pending'[s] = NoPending
           \/ /\ pending[s] # NoPending /\ pending'[s].seq = pending[s].seq
              /\ pending'[s].type = pending[s].type,
         \A s \in Sessions : s > current => pending'[s] = pending[s],
         ticker'.at # "idle" => ticker'.session \in 1..current,
         ticker'.at = "resend" =>
           /\ pending[ticker'.session] # NoPending
           /\ ticker'.command = [seq |-> pending[ticker'.session].seq,
                                 type |-> pending[ticker'.session].type]
  PROVE  LinkInv'
<1>1. LinkTyped' BY DEF LinkInv, LinkTyped
<1>2. Places' BY DEF LinkInv, Places
<1>3. ticker'.at = "resend" => ticker'.session \in Sessions
  BY Bounds DEF LinkInv, LinkTyped, Sessions
<1>4. ASSUME NEW T \in Book, Matches(T) PROVE (HandsMatch(T) /\ WireMatch(T))'
  <2>1. \A s : Issued(T, s)' = Issued(T, s) BY DEF Issued
  <2>2. WireMatch(T)' BY <1>4, <2>1 DEF Matches, WireMatch
  <2>3. ticker'.at = "resend" => ticker'.command \in Issued(T, ticker'.session)
    BY <1>3, <1>4 DEF Matches, PendingMatch
  <2>4. \A c \in Callers : caller[c].at = "raw" =>
                            caller[c].command \in Issued(T, caller[c].session)
    BY <1>4 DEF Matches, HandsMatch
  <2>5. HandsMatch(T)' BY <2>3, <2>4, <2>1 DEF HandsMatch, Issued
  <2> QED BY <2>2, <2>5
<1> QED BY <1>1, <1>2, <1>4, HostStep

LEMMA TickTyped ==
  ASSUME LinkInv
  PROVE  /\ ticker \in Ticking /\ current \in 0..MaxSession /\ current \in Nat
         /\ comm_failed \in [Sessions -> BOOLEAN] /\ pending \in [Sessions -> Pendings]
         /\ comm_lost \in BOOLEAN
         /\ ticker.at # "idle" => ticker.session \in 1..current /\ ticker.session \in Sessions
         /\ current # None => current \in 1..current /\ current \in Sessions
         /\ \A s \in Sessions : s > current => s # current
BY Bounds DEF LinkInv, LinkTyped, Places, Sessions, None

LEMMA TickSessionKeeps ==
  ASSUME LinkInv, TickSession
  PROVE  LinkInv'
<1>1. /\ ticker' = [IdleTicker EXCEPT !.at = "tick", !.session = current]
      /\ current # None
  BY DEF TickSession, HasSession
<1>2. ticker' \in Ticking /\ ticker'.at = "tick" /\ ticker'.session = current
  BY <1>1, TickTyped, Constants DEF Ticking
<1> QED BY <1>1, <1>2, TickTyped, TickerStep
     DEF TickSession, serverVars, senderVars, numberVars, wireVars, carVars

LEMMA TickNothingKeeps ==
  ASSUME LinkInv, TickNothing
  PROVE  LinkInv'
<1>1. ticker' = [ticker EXCEPT !.at = "silence"] /\ ticker.at = "tick"
  BY DEF TickNothing
<1>2. ticker' \in Ticking /\ ticker'.at = "silence" /\ ticker'.session = ticker.session
  BY <1>1, TickTyped DEF Ticking
<1> QED BY <1>1, <1>2, TickTyped, TickerStep
     DEF TickNothing, serverVars, senderVars, numberVars, wireVars, carVars

LEMMA TickExpiredKeeps ==
  ASSUME LinkInv, TickExpired
  PROVE  LinkInv'
<1> DEFINE s == ticker.session
           p == pending[s]
<1>1. /\ ticker.at = "tick" /\ p # NoPending
      /\ UNCHANGED <<serverVars, numberVars, caller, receiver, comm_lost, wireVars,
                     carVars>>
      /\ s \in Sessions /\ s \in 1..current
  BY TickTyped DEF TickExpired
<1>2. CASE /\ pending' = [pending EXCEPT ![s] = NoPending]
           /\ ticker' = [ticker EXCEPT !.at = "failed"]
  <2>1. ticker' \in Ticking /\ ticker'.at = "failed" /\ ticker'.session = s
    BY <1>2, TickTyped DEF Ticking
  <2>2. /\ pending' \in [Sessions -> Pendings] /\ pending'[s] = NoPending
        /\ \A r \in Sessions \ {s} : pending'[r] = pending[r]
    BY <1>1, <1>2, TickTyped, Constants
  <2> HIDE DEF s
  <2> QED BY <1>1, <2>1, <2>2, TickTyped, TickerStep
       DEF serverVars, senderVars, numberVars, wireVars, carVars
<1>3. CASE /\ ~Exhausted(p) /\ pending' = [pending EXCEPT ![s] = CountAttempt(p)]
           /\ ticker' = [ticker EXCEPT !.at = "resend",
                           !.command = [seq |-> p.seq, type |-> p.type]]
  <2>1. p \in Pendings BY <1>1, TickTyped
  <2>2. /\ CountAttempt(p) \in Pendings /\ CountAttempt(p).seq = p.seq
        /\ CountAttempt(p).type = p.type
    BY <1>3, <2>1, Bounds DEF CountAttempt, Exhausted, Pendings
  <2>3. [seq |-> p.seq, type |-> p.type] \in Command BY <2>1 DEF Pendings, Command
  <2>4. /\ ticker' \in Ticking /\ ticker'.at = "resend" /\ ticker'.session = s
        /\ ticker'.command = [seq |-> p.seq, type |-> p.type]
    BY <1>3, <2>3, TickTyped DEF Ticking
  <2>5. /\ pending' \in [Sessions -> Pendings] /\ pending'[s] = CountAttempt(p)
        /\ \A r \in Sessions \ {s} : pending'[r] = pending[r]
    BY <1>1, <1>3, <2>2, TickTyped
  <2> HIDE DEF s
  <2> QED BY <1>1, <2>2, <2>4, <2>5, TickTyped, TickerStep
       DEF serverVars, senderVars, numberVars, wireVars, carVars
<1> QED BY <1>2, <1>3 DEF TickExpired

LEMMA ResendKeeps ==
  ASSUME LinkInv, Resend
  PROVE  LinkInv'
<1>0. PICK s, command : s = ticker.session /\ command = ticker.command OBVIOUS
<1>1. /\ ticker.at = "resend"
      /\ to_car' = to_car \/ to_car' = [to_car EXCEPT ![s] = Append(@, command)]
      /\ ticker' = [ticker EXCEPT !.at = "silence", !.command = Nobody]
      /\ UNCHANGED <<serverVars, senderVars, caller, receiver, comm_lost, from_car,
                     carVars>>
  BY <1>0 DEF Resend, RawSend, Resent
<1>2. /\ s \in Sessions /\ s \in 1..current /\ to_car \in [Sessions -> Seq(Command)]
      /\ command \in Command
  BY <1>0, <1>1, TickTyped DEF LinkInv, LinkTyped, Ticking
<1>3. ticker' \in Ticking /\ ticker'.at = "silence" /\ ticker'.session = s
  BY <1>0, <1>1, TickTyped, Constants DEF Ticking
<1> USE <1>1 DEF serverVars, senderVars, numberVars, carVars
<1>4. Append(to_car[s], command) \in Seq(Command) BY <1>2, AppendProperties
<1>5. LinkTyped' BY <1>2, <1>3, <1>4 DEF LinkInv, LinkTyped
<1>6. Places' BY <1>2, <1>3 DEF LinkInv, Places
<1>7. ASSUME NEW T \in Book, Matches(T) PROVE (HandsMatch(T) /\ WireMatch(T))'
  <2>1. HandsMatch(T)' BY <1>3, <1>7 DEF Matches, HandsMatch, Issued
  <2>2. command \in Issued(T, s) BY <1>0, <1>7 DEF Matches, HandsMatch
  <2>3. ASSUME NEW r \in Sessions PROVE to_car'[r] \in Seq(Issued(T, r))
    <3>1. to_car[r] \in Seq(Issued(T, r)) BY <1>7 DEF Matches, WireMatch
    <3>2. to_car'[r] = to_car[r] \/ (r = s /\ to_car'[r] = Append(to_car[r], command))
      BY <1>2
    <3> QED BY <2>2, <3>1, <3>2, AppendProperties
  <2>4. \A r \in Sessions : Issued(T, r)' = Issued(T, r) BY DEF Issued
  <2> QED BY <2>1, <2>3, <2>4 DEF WireMatch
<1>8. \A r \in Sessions : r > current => to_car'[r] = to_car[r] BY <1>2, TickTyped
<1>9. UNCHANGED pending OBVIOUS
<1> QED BY <1>5, <1>6, <1>7, <1>8, <1>9, HostStep

(* _comm_fail sets the flag and clears what is outstanding, if at all.     *)
LEMMA CommFailDoes ==
  ASSUME LinkInv, NEW after \in {"silence", "idle"},
         NEW call \in {"tell failure", "tell silence"}, CommFail(after, call)
  PROVE  /\ comm_failed' \in [Sessions -> BOOLEAN] /\ pending' \in [Sessions -> Pendings]
         /\ \A s \in Sessions : pending'[s] = NoPending \/ pending'[s] = pending[s]
         /\ \A s \in Sessions : s > current => pending'[s] = pending[s]
         /\ ticker' \in Ticking /\ ticker'.session = ticker.session
         /\ ticker'.at # "resend"
<1>1. \/ UNCHANGED <<comm_failed, pending>>
      \/ /\ comm_failed' = [comm_failed EXCEPT ![current] = TRUE]
         /\ pending' = [pending EXCEPT ![current] = NoPending]
  BY DEF CommFail
<1>2. \/ ticker' = [ticker EXCEPT !.at = after]
      \/ ticker' = [ticker EXCEPT !.at = call]
  BY DEF CommFail
<1>3. /\ comm_failed' \in [Sessions -> BOOLEAN] /\ pending' \in [Sessions -> Pendings]
      /\ \A s \in Sessions : \/ pending'[s] = pending[s]
                             \/ s = current /\ pending'[s] = NoPending
  BY <1>1, TickTyped, Constants
<1>4. \A s \in Sessions : s > current => s # current
  BY TickTyped
<1>5. ticker' \in Ticking /\ ticker'.session = ticker.session /\ ticker'.at # "resend"
  BY <1>2, TickTyped DEF Ticking
<1> QED BY <1>3, <1>4, <1>5

LEMMA CommandFailedKeeps ==
  ASSUME LinkInv, CommandFailed
  PROVE  LinkInv'
<1>1. ticker.at = "failed" /\ CommFail("silence", "tell failure") BY DEF CommandFailed
<1>2. UNCHANGED <<current, alive, seq, caller, receiver, comm_lost, to_car, from_car,
                  car, outcome, dropped>>
  BY DEF CommandFailed, numberVars, wireVars, carVars
<1>3. /\ comm_failed' \in [Sessions -> BOOLEAN] /\ pending' \in [Sessions -> Pendings]
      /\ \A s \in Sessions : pending'[s] = NoPending \/ pending'[s] = pending[s]
      /\ \A s \in Sessions : s > current => pending'[s] = pending[s]
      /\ ticker' \in Ticking /\ ticker'.session = ticker.session
      /\ ticker'.at # "resend"
  BY <1>1, CommFailDoes
<1> QED BY <1>1, <1>2, <1>3, TickTyped, TickerStep

LEMMA SilenceKeeps ==
  ASSUME LinkInv, Silence
  PROVE  LinkInv'
<1>1. UNCHANGED <<current, alive, seq, caller, receiver, comm_lost, to_car, from_car,
                  car, outcome, dropped>>
  BY DEF Silence, numberVars, wireVars, carVars
<1>2. ticker.at = "silence" BY DEF Silence
<1>3. CASE CommFail("idle", "tell silence")
  <2>1. /\ comm_failed' \in [Sessions -> BOOLEAN] /\ pending' \in [Sessions -> Pendings]
        /\ \A s \in Sessions : pending'[s] = NoPending \/ pending'[s] = pending[s]
        /\ \A s \in Sessions : s > current => pending'[s] = pending[s]
        /\ ticker' \in Ticking /\ ticker'.session = ticker.session
        /\ ticker'.at # "resend"
    BY <1>3, CommFailDoes
  <2> QED BY <1>1, <1>2, <2>1, TickTyped, TickerStep
<1>4. CASE ticker' = IdleTicker /\ UNCHANGED <<comm_failed, pending>>
  <2>1. ticker' \in Ticking /\ ticker'.at = "idle" BY <1>4, Constants
  <2> QED BY <1>1, <1>4, <2>1, TickTyped, TickerStep
<1> QED BY <1>3, <1>4 DEF Silence

LEMMA TellFailureKeeps ==
  ASSUME LinkInv, TellFailure
  PROVE  LinkInv'
<1>1. /\ ticker.at # "idle" /\ comm_lost' = TRUE
      /\ ticker' = [ticker EXCEPT !.at = "silence"] \/ ticker' = IdleTicker
  BY DEF TellFailure
<1>2. /\ ticker' \in Ticking /\ ticker'.at # "resend"
      /\ ticker'.at # "idle" => ticker'.session = ticker.session
  BY <1>1, TickTyped, Constants DEF Ticking
<1> QED BY <1>1, <1>2, TickTyped, TickerStep
     DEF TellFailure, serverVars, senderVars, numberVars, wireVars, carVars

-----------------------------------------------------------------------------
(* The receiving threads.                                                  *)

LEMMA ReceiverTyped ==
  ASSUME LinkInv, NEW s \in Sessions
  PROVE  /\ receiver \in [Sessions -> Receiving] /\ pending \in [Sessions -> Pendings]
         /\ from_car \in [Sessions -> Seq(Replies)] /\ current \in Nat
         /\ seq[s] \in Nat /\ pending[s].seq \in Nat
         /\ ToldIn(s) /\ AnswerFirstIn(s)
         /\ pending[s] # NoPending => pending[s].seq = seq[s] /\ pending[s].seq # 0
<1>1. /\ receiver \in [Sessions -> Receiving] /\ pending \in [Sessions -> Pendings]
      /\ from_car \in [Sessions -> Seq(Replies)] /\ current \in 0..MaxSession
      /\ seq[s] \in 0..MaxSeq /\ pending[s] \in Pendings
  BY DEF LinkInv, LinkTyped
<1>2. current \in Nat /\ seq[s] \in Nat BY <1>1, Bounds
<1>3. pending[s].seq \in Nat BY <1>1, Bounds DEF Pendings
<1>4. ToldIn(s) /\ AnswerFirstIn(s) BY DEF LinkInv, Told, AnswerFirst
<1> QED BY <1>1, <1>2, <1>3, <1>4 DEF LinkInv, LastPending

(* A step of the thread that neither takes a reply from the wire nor       *)
(* clears what the session has outstanding.                                *)
LEMMA ReceiverOnly ==
  ASSUME LinkInv, NEW s \in Sessions, receiver[s].at # "none",
         NEW r \in Receiving, receiver' = [receiver EXCEPT ![s] = r],
         alive' \in [Sessions -> BOOLEAN], comm_failed' \in [Sessions -> BOOLEAN],
         comm_lost' \in BOOLEAN,
         UNCHANGED <<current, seq, caller, ticker, wireVars, carVars>>,
         pending' \in [Sessions -> Pendings],
         \A q \in Sessions : pending'[q] = NoPending \/ pending'[q] = pending[q],
         r.at \in {"recovered", "consume"} => Held(s) /\ r.reply = receiver[s].reply,
         r.at = "matched" =>
           /\ r.seq \in 1..seq[s] /\ r.reply.result # "NONE"
           /\ ~dropped[s] => r.reply.result = outcome[s][r.seq],
         \A n \in 1..seq[s] :
           InHand(s, n) => \/ pending'[s].seq # n
                           \/ r.at = "matched" /\ r.seq = n
                           \/ /\ r.at \in {"recovered", "consume"} /\ r.reply \in Own(s)
                              /\ r.reply.acked = n
  PROVE  LinkInv'
<1> USE DEF wireVars, carVars
<1>u. /\ receiver'[s] = r /\ receiver' \in [Sessions -> Receiving]
      /\ \A q \in Sessions \ {s} : receiver'[q] = receiver[q]
  BY ReceiverTyped
<1>1. LinkTyped' BY <1>u DEF LinkInv, LinkTyped
<1>2. Own(s)' = Own(s) /\ Stale(s)' = Stale(s) /\ Silent' = Silent
      /\ Truthful(s)' = Truthful(s)
  BY DEF Own, Stale, Silent, Truthful
<1>3. Held(s)' = (r.at \in {"recovered", "consume"}) BY <1>u DEF Held
<1>4. ToldIn(s)'
  BY <1>u, <1>2, <1>3, ReceiverTyped DEF ToldIn
<1>5. \A n \in 1..seq[s] : Settled(s, n) => Settled(s, n)'
  <2> SUFFICES ASSUME NEW n \in 1..seq[s], Settled(s, n), pending'[s].seq = n
               PROVE  InHand(s, n)'
    BY DEF Settled
  <2>1. n # 0 BY ReceiverTyped
  <2>2. pending[s].seq = n BY <2>1, Constants
  <2>3. InHand(s, n) BY <2>2 DEF Settled
  <2> QED BY <1>u, <1>2, <1>3, <2>3 DEF InHand
<1>6. AnswerFirstIn(s)'
  <2> SUFFICES ASSUME ~dropped[s]
               PROVE  RefusalsLate(s)' /\ HandLate(s)' /\ LastLate(s)'
    BY DEF AnswerFirstIn
  <2>1. RefusalsLate(s) /\ HandLate(s) /\ LastLate(s)
    BY ReceiverTyped DEF AnswerFirstIn
  <2>2. \A n, k : OnItsWay(s, n, k)' = OnItsWay(s, n, k) BY <1>2 DEF OnItsWay
  <2>3. \A q \in Stale(s) : q.acked \in 1..seq[s] BY DEF Stale
  <2>4. RefusalsLate(s)'
    <3>1. ASSUME NEW q \in Stale(s), NEW k, Settled(s, q.acked) \/ OnItsWay(s, q.acked, k)
          PROVE  Settled(s, q.acked)' \/ OnItsWay(s, q.acked, k)'
      <4>1. PICK n \in 1..seq[s] : n = q.acked BY <2>3
      <4>2. Settled(s, n)' \/ OnItsWay(s, n, k)' BY <3>1, <4>1, <1>5, <2>2
      <4> QED BY <4>1, <4>2
    <3> QED BY <2>1, <3>1, <1>2 DEF RefusalsLate
  <2>5. HandLate(s)'
    <3> SUFFICES ASSUME r.at \in {"recovered", "consume"}, r.reply \in Stale(s)
                 PROVE  pending'[s].seq # r.reply.acked
      BY <1>u, <1>2, <1>3 DEF HandLate
    <3>1. r.reply.acked # 0 BY <2>3, ReceiverTyped
    <3>2. pending[s].seq # r.reply.acked BY <2>1 DEF HandLate
    <3> QED BY <3>1, <3>2, Constants
  <2>6. LastLate(s)'
    <3>1. CASE car.session = s /\ car.last.seq # 0
      <4>1. PICK T \in Book : CarMatch(T) BY DEF LinkInv, OneTypeEach, Matches
      <4>2. car.last \in Issued(T, s)
        BY <3>1, <4>1, Constants, Bounds DEF CarMatch, Sessions, None
      <4>3. PICK n \in 1..seq[s] : n = car.last.seq BY <4>2, InBook DEF LinkInv
      <4>4. PICK k : k = Len(from_car[s]) OBVIOUS
      <4>5. Settled(s, n) \/ OnItsWay(s, n, k) BY <2>1, <3>1, <4>3, <4>4 DEF LastLate
      <4>6. Settled(s, n)' \/ OnItsWay(s, n, k)' BY <4>5, <1>5, <2>2
      <4> QED BY <4>3, <4>4, <4>6 DEF LastLate
    <3> QED BY <3>1 DEF LastLate
  <2> QED BY <2>4, <2>5, <2>6
<1>7. s <= current BY Been
<1> QED BY <1>u, <1>1, <1>4, <1>6, <1>7, ReceiverStep

LEMMA ResyncKeeps ==
  ASSUME LinkInv, NEW s \in Sessions, Resync(s)
  PROVE  LinkInv'
<1>1. /\ receiver[s].at = "resync" /\ comm_lost' = FALSE
      /\ receiver' = [receiver EXCEPT ![s].at = "idle"]
      /\ UNCHANGED <<serverVars, senderVars, caller, ticker, wireVars, carVars>>
  BY DEF Resync
<1>2. PICK r : r = [receiver[s] EXCEPT !.at = "idle"] OBVIOUS
<1>3. r \in Receiving /\ r.at = "idle"
  BY <1>2, ReceiverTyped DEF Receiving, Threads
<1>4. receiver' = [receiver EXCEPT ![s] = r] BY <1>1, <1>2
<1>5. \A n : ~InHand(s, n) BY <1>1 DEF InHand, Held
<1>6. /\ alive' \in [Sessions -> BOOLEAN] /\ comm_failed' \in [Sessions -> BOOLEAN]
      /\ pending' \in [Sessions -> Pendings] /\ UNCHANGED <<current, seq, pending>>
  BY <1>1 DEF LinkInv, LinkTyped, serverVars, senderVars, numberVars
<1> QED BY <1>1, <1>3, <1>4, <1>5, <1>6, ReceiverOnly

LEMMA TellRecoveryKeeps ==
  ASSUME LinkInv, NEW s \in Sessions, TellRecovery(s)
  PROVE  LinkInv'
<1>1. /\ receiver[s].at = "recovered" /\ comm_lost' = FALSE
      /\ receiver' = [receiver EXCEPT ![s].at = "consume"]
      /\ UNCHANGED pending \/ pending' = [pending EXCEPT ![current] = NoPending]
      /\ UNCHANGED <<serverVars, numberVars, caller, ticker, wireVars, carVars>>
  BY DEF TellRecovery
<1>2. PICK r : r = [receiver[s] EXCEPT !.at = "consume"] OBVIOUS
<1>3. r \in Receiving /\ r.at = "consume" /\ r.reply = receiver[s].reply
  BY <1>2, ReceiverTyped DEF Receiving, Threads
<1>4. receiver' = [receiver EXCEPT ![s] = r] BY <1>1, <1>2
<1>5. Held(s) BY <1>1 DEF Held
<1>6. \A n : InHand(s, n) => r.reply \in Own(s) /\ r.reply.acked = n
  BY <1>1, <1>3 DEF InHand
<1>7. /\ pending' \in [Sessions -> Pendings]
      /\ \A q \in Sessions : pending'[q] = NoPending \/ pending'[q] = pending[q]
  BY <1>1, ReceiverTyped, Constants
<1>8. /\ alive' \in [Sessions -> BOOLEAN] /\ comm_failed' \in [Sessions -> BOOLEAN]
      /\ UNCHANGED <<current, seq>>
  BY <1>1 DEF LinkInv, LinkTyped, serverVars, numberVars
<1>9. /\ receiver[s].at # "none" /\ comm_lost' \in BOOLEAN
      /\ UNCHANGED <<current, seq, caller, ticker, wireVars, carVars>>
  BY <1>1, <1>8
<1>10. r.at \in {"recovered", "consume"} => Held(s) /\ r.reply = receiver[s].reply
  BY <1>3, <1>5
<1>11. \A n \in 1..seq[s] :
         InHand(s, n) => \/ pending'[s].seq # n
                         \/ r.at = "matched" /\ r.seq = n
                         \/ /\ r.at \in {"recovered", "consume"} /\ r.reply \in Own(s)
                            /\ r.reply.acked = n
  BY <1>3, <1>6
<1>12. r.at # "matched"
  BY <1>3
<1> QED
  BY <1>3, <1>4, <1>7, <1>8, <1>9, <1>10, <1>11, <1>12, ReceiverOnly, ZenonT(60)

LEMMA ReadOutstandingKeeps ==
  ASSUME LinkInv, NEW s \in Sessions, ReadOutstanding(s)
  PROVE  LinkInv'
<1>0. PICK reply, n : reply = receiver[s].reply /\ n = pending[s].seq OBVIOUS
<1>1. /\ receiver[s].at = "consume"
      /\ UNCHANGED <<serverVars, senderVars, caller, ticker, comm_lost, wireVars,
                     carVars>>
  BY DEF ReadOutstanding
<1>2. /\ alive' \in [Sessions -> BOOLEAN] /\ comm_failed' \in [Sessions -> BOOLEAN]
      /\ comm_lost' \in BOOLEAN
      /\ pending' \in [Sessions -> Pendings] /\ UNCHANGED <<current, seq, pending>>
  BY <1>1 DEF LinkInv, LinkTyped, serverVars, senderVars, numberVars
<1>3. Held(s) BY <1>1 DEF Held
<1>4. reply \in Truthful(s) BY <1>0, <1>3, ReceiverTyped DEF ToldIn
<1>5. CASE /\ reply.result # "NONE" /\ Answers(reply, n)
           /\ receiver' = [receiver EXCEPT ![s] = [@ EXCEPT !.at = "matched", !.seq = n]]
  <2>1. PICK r : r = [receiver[s] EXCEPT !.at = "matched", !.seq = n] OBVIOUS
  <2>2. n \in 1..seq[s] /\ n = seq[s] /\ n \in 0..MaxSeq
    BY <1>0, <1>5, ReceiverTyped, Constants DEF Answers, Pendings
  <2>3. r \in Receiving /\ r.at = "matched" /\ r.seq = n /\ r.reply = reply
    BY <1>0, <2>1, <2>2, ReceiverTyped DEF Receiving, Threads
  <2>4. receiver' = [receiver EXCEPT ![s] = r] BY <1>5, <2>1
  <2>5. ASSUME ~dropped[s] PROVE reply.result = outcome[s][n]
    <3>1. CASE reply \in Own(s)
      BY <1>5, <2>2, <3>1 DEF Own, Answers
    <3>2. CASE reply \in Stale(s)
      <4>1. reply.acked # n
        BY <1>0, <1>3, <2>5, <3>2, ReceiverTyped DEF AnswerFirstIn, HandLate
      <4>2. /\ reply.acked \in 1..seq[s] /\ reply.rejected \in 1..(reply.acked - 1)
            /\ seq[s] \in Nat
        BY <3>2, ReceiverTyped DEF Stale
      <4>3. reply.rejected # n BY <2>2, <4>2
      <4> QED BY <1>5, <4>1, <4>3 DEF Answers
    <3> QED BY <1>4, <1>5, <3>1, <3>2 DEF Truthful, Silent
  <2>6. \A m \in 1..seq[s] : InHand(s, m) =>
          pending'[s].seq # m \/ (r.at = "matched" /\ r.seq = m)
    BY <1>0, <1>2, <2>3
  <2>7. r.seq \in 1..seq[s] /\ r.reply.result # "NONE" BY <1>5, <2>2, <2>3
  <2>8. ~dropped[s] => r.reply.result = outcome[s][r.seq] BY <2>3, <2>5
  <2>9. \A q \in Sessions : pending'[q] = NoPending \/ pending'[q] = pending[q]
    BY <1>2
  <2>10. /\ receiver[s].at # "none" /\ r \in Receiving /\ r.at = "matched"
         /\ UNCHANGED <<current, seq, caller, ticker, wireVars, carVars>>
    BY <1>1, <1>2, <2>3
  <2> QED BY <1>2, <2>4, <2>6, <2>7, <2>8, <2>9, <2>10, ReceiverOnly
<1>6. CASE /\ ~(reply.result # "NONE" /\ Answers(reply, n))
           /\ receiver' = [receiver EXCEPT ![s] = [NoThread EXCEPT !.at = "idle"]]
  <2>1. PICK r : r = [NoThread EXCEPT !.at = "idle"] OBVIOUS
  <2>2. r \in Receiving /\ r.at = "idle"
    BY <2>1, Constants DEF Receiving, Threads
  <2>3. receiver' = [receiver EXCEPT ![s] = r] BY <1>6, <2>1
  <2>4. ASSUME NEW m \in 1..seq[s], InHand(s, m) PROVE pending'[s].seq # m
    <3>1. reply \in Own(s) /\ reply.acked = m
      BY <1>0, <1>1, <2>4 DEF InHand
    <3>2. reply.result # "NONE" BY <3>1 DEF Own, Verdicts
    <3>3. m # 0 BY ReceiverTyped
    <3> QED BY <1>0, <1>2, <1>6, <3>1, <3>2, <3>3 DEF Answers
  <2> QED BY <1>1, <1>2, <2>2, <2>3, <2>4, ReceiverOnly
<1> QED BY <1>0, <1>5, <1>6 DEF ReadOutstanding

LEMMA OnAckKeeps ==
  ASSUME LinkInv, NEW s \in Sessions, OnAck(s)
  PROVE  LinkInv'
<1>1. /\ receiver[s].at = "matched"
      /\ pending' = IF pending[s].seq \in 1..receiver[s].seq
                    THEN [pending EXCEPT ![s] = NoPending] ELSE pending
      /\ receiver' = [receiver EXCEPT ![s] = [NoThread EXCEPT !.at = "idle"]]
      /\ UNCHANGED <<serverVars, numberVars, caller, ticker, comm_lost, wireVars, carVars>>
  BY DEF OnAck
<1>2. PICK r : r = [NoThread EXCEPT !.at = "idle"] OBVIOUS
<1>3. r \in Receiving /\ r.at = "idle"
  BY <1>2, Constants DEF Receiving, Threads
<1>4. /\ alive' \in [Sessions -> BOOLEAN] /\ comm_failed' \in [Sessions -> BOOLEAN]
      /\ comm_lost' \in BOOLEAN /\ UNCHANGED <<current, seq>>
  BY <1>1 DEF LinkInv, LinkTyped, serverVars, numberVars
<1>5. /\ pending' \in [Sessions -> Pendings]
      /\ \A q \in Sessions : pending'[q] = NoPending \/ pending'[q] = pending[q]
  BY <1>1, ReceiverTyped, Constants
<1>6. ASSUME NEW n \in 1..seq[s], InHand(s, n) PROVE pending'[s].seq # n
  <2>1. receiver[s].seq = n /\ n # 0 BY <1>1, <1>6, ReceiverTyped DEF InHand, Held
  <2>2. CASE pending[s].seq \in 1..receiver[s].seq
    BY <1>1, <2>1, <2>2, ReceiverTyped, Constants
  <2>3. CASE pending[s].seq \notin 1..receiver[s].seq
    <3>1. n \in 1..n BY ReceiverTyped
    <3> QED BY <1>1, <2>1, <2>3, <3>1
  <2> QED BY <2>2, <2>3
<1>7. receiver' = [receiver EXCEPT ![s] = r] BY <1>1, <1>2
<1> QED BY <1>1, <1>3, <1>4, <1>5, <1>6, <1>7, ReceiverOnly

LEMMA ReceiverEndsKeeps ==
  ASSUME LinkInv, NEW s \in Sessions, ReceiverEnds(s)
  PROVE  LinkInv'
<1>1. /\ receiver[s].at = "idle"
      /\ receiver' = [receiver EXCEPT ![s] = NoThread]
      /\ alive' = [alive EXCEPT ![s] = FALSE]
      /\ UNCHANGED <<current, comm_failed, senderVars, caller, ticker, comm_lost,
                     wireVars, carVars>>
  BY DEF ReceiverEnds
<1>2. \A n : ~InHand(s, n) BY <1>1 DEF InHand, Held
<1>3. /\ alive' \in [Sessions -> BOOLEAN] /\ comm_failed' \in [Sessions -> BOOLEAN]
      /\ comm_lost' \in BOOLEAN
      /\ pending' \in [Sessions -> Pendings] /\ UNCHANGED <<seq, pending>>
  BY <1>1 DEF LinkInv, LinkTyped, senderVars, numberVars
<1>4. NoThread \in Receiving /\ NoThread.at = "none" BY Constants
<1> QED BY <1>1, <1>2, <1>3, <1>4, ReceiverOnly

LEMMA ReceiveKeeps ==
  ASSUME LinkInv, NEW s \in Sessions, Receive(s)
  PROVE  LinkInv'
<1>0. PICK reply, line : reply = Head(from_car[s]) /\ line = from_car[s] OBVIOUS
<1>1. /\ receiver[s].at = "idle" /\ line # <<>>
      /\ from_car' = [from_car EXCEPT ![s] = Tail(@)]
      /\ comm_failed' = [comm_failed EXCEPT ![s] = FALSE]
      /\ UNCHANGED <<current, alive, senderVars, caller, ticker, comm_lost, to_car,
                     carVars>>
  BY <1>0 DEF Receive
<1> USE <1>1 DEF senderVars, numberVars, carVars
<1>2. PICK r : r = [at |-> IF comm_failed[s] THEN "recovered" ELSE "consume",
                    seq |-> 0, reply |-> reply]
  OBVIOUS
<1>3. line \in Seq(Truthful(s)) /\ line \in Seq(Replies) /\ Len(line) <= ReplyLength
  BY <1>0, ReceiverTyped DEF ToldIn, LinkInv, LinkTyped
<1>4. /\ reply \in Truthful(s) /\ reply \in Replies /\ reply = line[1]
      /\ Tail(line) \in Seq(Truthful(s)) /\ Tail(line) \in Seq(Replies)
      /\ Len(line) \in Nat \ {0} /\ Len(Tail(line)) = Len(line) - 1
      /\ \A i \in 1..Len(Tail(line)) : i + 1 \in 1..Len(line) /\ Tail(line)[i] = line[i + 1]
  BY <1>0, <1>1, <1>3, HeadTailProperties
<1>5. r \in Receiving /\ r.at \in {"recovered", "consume"} /\ r.reply = reply
  BY <1>2, <1>4, Bounds DEF Receiving, Threads
<1>6. /\ receiver' \in [Sessions -> Receiving] /\ receiver'[s] = r
      /\ \A q \in Sessions \ {s} : receiver'[q] = receiver[q]
  <2>1. receiver' = [receiver EXCEPT ![s] = r] BY <1>0, <1>2 DEF Receive
  <2> QED BY <1>5, <2>1, ReceiverTyped
<1>7. /\ from_car' \in [Sessions -> Seq(Replies)] /\ from_car'[s] = Tail(line)
      /\ \A q \in Sessions \ {s} : from_car'[q] = from_car[q]
  BY <1>0, <1>4, ReceiverTyped
<1>8. LinkTyped'
  <2>1. \A q \in Sessions : Len(from_car'[q]) <= ReplyLength
    BY <1>3, <1>4, <1>7, Bounds DEF LinkInv, LinkTyped
  <2>2. comm_failed' \in [Sessions -> BOOLEAN] BY DEF LinkInv, LinkTyped
  <2> QED BY <1>6, <1>7, <2>1, <2>2 DEF LinkInv, LinkTyped
<1>9. /\ Own(s)' = Own(s) /\ Stale(s)' = Stale(s) /\ Truthful(s)' = Truthful(s)
      /\ Held(s)'
  BY <1>5, <1>6 DEF Own, Stale, Silent, Truthful, Held
<1>10. ToldIn(s)' BY <1>4, <1>5, <1>6, <1>7, <1>9 DEF ToldIn
<1>11. \A q \in Stale(s) : q.acked \in 1..seq[s] BY DEF Stale
<1>12. ~Held(s) /\ \A n : Settled(s, n) <=> pending[s].seq # n
  BY DEF Held, Settled, InHand
<1>13. ASSUME NEW n, NEW k \in Nat, k <= Len(line) - 1,
              Settled(s, n) \/ OnItsWay(s, n, k + 1)
       PROVE  Settled(s, n)' \/ OnItsWay(s, n, k)'
  <2>1. CASE Settled(s, n) BY <2>1, <1>12 DEF Settled
  <2>2. CASE OnItsWay(s, n, k + 1)
    <3>1. PICK i \in 1..(k + 1) : line[i] \in Own(s) /\ line[i].acked = n
      BY <1>0, <2>2 DEF OnItsWay
    <3>2. CASE i = 1
      BY <3>1, <3>2, <1>4, <1>5, <1>6, <1>9 DEF Settled, InHand
    <3>3. CASE i # 1
      <4>1. PICK j \in 1..k : i = j + 1 BY <3>3, <1>13
      <4>2. j \in 1..Len(Tail(line)) BY <1>4, <1>13
      <4>3. from_car'[s][j] \in Own(s)' /\ from_car'[s][j].acked = n
        BY <3>1, <4>1, <4>2, <1>4, <1>7, <1>9
      <4> QED BY <4>3 DEF OnItsWay
    <3> QED BY <3>2, <3>3
  <2> QED BY <1>13, <2>1, <2>2
<1>14. AnswerFirstIn(s)'
  <2> SUFFICES ASSUME ~dropped[s]
               PROVE  RefusalsLate(s)' /\ HandLate(s)' /\ LastLate(s)'
    BY DEF AnswerFirstIn
  <2>1. RefusalsLate(s) /\ HandLate(s) /\ LastLate(s)
    BY ReceiverTyped DEF AnswerFirstIn
  <2>2. RefusalsLate(s)'
    <3>1. ASSUME NEW i \in 1..Len(Tail(line)), Tail(line)[i] \in Stale(s)
          PROVE  \A n : n = Tail(line)[i].acked =>
                   Settled(s, n)' \/ OnItsWay(s, n, i - 1)'
      <4> SUFFICES ASSUME NEW n, n = Tail(line)[i].acked
                   PROVE  Settled(s, n)' \/ OnItsWay(s, n, i - 1)'
        OBVIOUS
      <4>1. PICK k \in Nat : k = i - 1 /\ k <= Len(line) - 1 /\ k + 1 = (i + 1) - 1
        BY <1>4
      <4>2. Settled(s, n) \/ OnItsWay(s, n, (i + 1) - 1)
        BY <1>0, <1>4, <2>1, <3>1 DEF RefusalsLate
      <4>3. Settled(s, n) \/ OnItsWay(s, n, k + 1) BY <4>1, <4>2
      <4> QED BY <4>1, <4>3, <1>13
    <3> QED BY <3>1, <1>7, <1>9 DEF RefusalsLate
  <2>3. HandLate(s)'
    <3>1. CASE reply \in Stale(s)
      <4>1. PICK n : n = reply.acked OBVIOUS
      <4>2. Settled(s, n) \/ OnItsWay(s, n, 1 - 1)
        BY <1>0, <1>4, <2>1, <3>1, <4>1 DEF RefusalsLate
      <4>3. pending[s].seq # n BY <4>2, <1>12 DEF OnItsWay
      <4> QED BY <4>1, <4>3, <1>5, <1>6 DEF HandLate
    <3> QED BY <3>1, <1>5, <1>6, <1>9 DEF HandLate
  <2>4. LastLate(s)'
    <3>1. CASE car.session = s /\ car.last.seq # 0
      <4>1. PICK n, k : n = car.last.seq /\ k = Len(line) - 1 OBVIOUS
      <4>2. k \in Nat /\ k <= Len(line) - 1 /\ k + 1 = Len(line) BY <4>1, <1>4
      <4>3. Settled(s, n) \/ OnItsWay(s, n, k + 1)
        BY <1>0, <2>1, <3>1, <4>1, <4>2 DEF LastLate
      <4>4. Settled(s, n)' \/ OnItsWay(s, n, k)' BY <4>2, <4>3, <1>13
      <4>5. Len(from_car[s])' = k BY <1>4, <1>7, <4>1
      <4> QED BY <4>1, <4>4, <4>5 DEF LastLate
    <3> QED BY <3>1 DEF LastLate
  <2> QED BY <2>2, <2>3, <2>4
<1>15. s <= current BY Been
<1> QED BY <1>6, <1>7, <1>8, <1>10, <1>14, <1>15, ReceiverStep

-----------------------------------------------------------------------------
(* Connections come and go.                                                *)

LEMMA ConnectKeeps ==
  ASSUME LinkInv, Connect
  PROVE  LinkInv'
<1>0. PICK s : s = current + 1 OBVIOUS
<1>1. /\ s \in Sessions /\ car.session = None
      /\ alive' = [r \in Sessions |-> r = s]
      /\ current' = s
      /\ comm_failed' = [comm_failed EXCEPT ![s] = FALSE]
      /\ seq' = [seq EXCEPT ![s] = 0]
      /\ pending' = [pending EXCEPT ![s] = NoPending]
      /\ receiver' = [receiver EXCEPT ![s] = [NoThread EXCEPT !.at = "resync"]]
      /\ car' = [NoCar EXCEPT !.session = s]
      /\ from_car' = [r \in Sessions |-> <<>>]
      /\ UNCHANGED <<caller, ticker, comm_lost, to_car, outcome, dropped>>
  BY <1>0 DEF Connect
<1>2. /\ current \in Nat /\ s \in Nat /\ s > current /\ s \in 1..s /\ s # None
      /\ \A r \in Sessions : r > s => r > current
      /\ \A r \in 1..current : r \in 1..s
      /\ \A r \in Sessions : r \in Nat
  BY <1>0, <1>1, Bounds DEF LinkInv, LinkTyped, Sessions, None
<1>3. /\ seq[s] = 0 /\ pending[s] = NoPending /\ receiver[s] = NoThread
      /\ to_car[s] = <<>> /\ \A n \in Numbers : outcome[s][n] = "NONE"
  BY <1>1, <1>2 DEF LinkInv, Fresh
<1>4. seq' = seq /\ pending' = pending
  BY <1>1, <1>3 DEF LinkInv, LinkTyped
<1>5. PICK r : r = [NoThread EXCEPT !.at = "resync"] OBVIOUS
<1>6. r \in Receiving /\ r.at = "resync"
  BY <1>5, Constants DEF Receiving, Threads
<1>7. /\ receiver' \in [Sessions -> Receiving] /\ receiver'[s] = r
      /\ \A q \in Sessions \ {s} : receiver'[q] = receiver[q]
  BY <1>1, <1>5, <1>6 DEF LinkInv, LinkTyped
<1>8. /\ car' \in Cars /\ car'.session = s /\ car'.last = Nobody /\ car'.stop = Nobody
      /\ car'.wait = Nobody /\ car'.queue = <<>>
  <2>1. <<>> \in Seq(Command) BY EmptySeq
  <2> QED BY <1>1, <2>1, Bounds, Constants DEF NoCar, Cars, Sessions
<1>9. LinkTyped'
  <2>1. from_car' \in [Sessions -> Seq(Replies)] /\ \A q \in Sessions : Len(from_car'[q]) = 0
    BY <1>1, EmptySeq
  <2>2. /\ alive' \in [Sessions -> BOOLEAN] /\ comm_failed' \in [Sessions -> BOOLEAN]
        /\ current' \in 0..MaxSession
    BY <1>1, Bounds DEF LinkInv, LinkTyped, Sessions
  <2>3. \A q \in Sessions : Len(from_car'[q]) <= ReplyLength BY <2>1, Bounds
  <2>4. UNCHANGED <<seq, pending, caller, ticker, comm_lost, to_car, outcome, dropped>>
    BY <1>1, <1>4
  <2>5. receiver' \in [Sessions -> Receiving] /\ car' \in Cars BY <1>7, <1>8
  <2> QED BY <2>1, <2>2, <2>3, <2>4, <2>5 DEF LinkInv, LinkTyped
<1>10. Fresh'
  BY <1>1, <1>2, <1>4, <1>7 DEF LinkInv, Fresh
<1>11. Places' BY <1>1, <1>2, <1>8 DEF LinkInv, Places
<1>12. LastPending' BY <1>4 DEF LinkInv, LastPending
<1>13. OneTypeEach'
  <2>1. PICK T \in Book : Matches(T) BY DEF LinkInv, OneTypeEach
  <2>2. PendingMatch(T)' BY <2>1, <1>4 DEF Matches, PendingMatch, Issued
  <2>3. HandsMatch(T)' BY <2>1, <1>1, <1>4 DEF Matches, HandsMatch, Issued
  <2>4. WireMatch(T)' BY <2>1, <1>1, <1>4 DEF Matches, WireMatch, Issued
  <2>5. CarMatch(T)' BY <1>8, EmptySeq DEF CarMatch
  <2> QED BY <2>1, <2>2, <2>3, <2>4, <2>5 DEF OneTypeEach, Matches
<1>14. CarRemembers' BY <1>1, <1>3, <1>8, Constants DEF CarRemembers
<1>15. ASSUME NEW q \in Sessions PROVE ToldIn(q)' /\ AnswerFirstIn(q)'
  <2>1. CASE q = s
    <3>1. from_car'[s] = <<>> /\ ~Held(s)' /\ receiver'[s].at # "matched"
      BY <1>1, <1>6, <1>7 DEF Held
    <3>2. ToldIn(s)' BY <3>1, EmptySeq DEF ToldIn
    <3>3. RefusalsLate(s)' /\ HandLate(s)' BY <3>1 DEF RefusalsLate, HandLate
    <3>4. LastLate(s)' BY <1>8, Constants DEF LastLate
    <3> QED BY <2>1, <3>2, <3>3, <3>4 DEF AnswerFirstIn
  <2>2. CASE q # s
    <3>1. car'.session # q /\ from_car'[q] \in {from_car[q], <<>>} /\ seq[q] \in Nat
      BY <1>1, <1>8, <2>2, Bounds DEF LinkInv, LinkTyped
    <3> QED BY <1>1, <1>4, <1>7, <1>9, <2>2, <3>1, SessionKept
  <2> QED BY <2>1, <2>2
<1> QED BY <1>9, <1>10, <1>11, <1>12, <1>13, <1>14, <1>15
      DEF LinkInv, Told, AnswerFirst

LEMMA DisconnectKeeps ==
  ASSUME LinkInv, Disconnect
  PROVE  LinkInv'
<1>1. /\ car.session # None /\ car' = NoCar
      /\ to_car' = [to_car EXCEPT ![car.session] = <<>>]
      /\ UNCHANGED <<serverVars, senderVars, caller, ticker, receiver, comm_lost,
                     from_car, outcome, dropped>>
  BY DEF Disconnect
<1> USE <1>1 DEF serverVars, senderVars, numberVars
<1>2. NoCar \in Cars /\ NoCar.session = None
  <2>1. <<>> \in Seq(Command) BY EmptySeq
  <2> QED BY <2>1, Bounds, Constants DEF NoCar, Cars, None
<1>3. /\ to_car' \in [Sessions -> Seq(Command)]
      /\ \A s \in Sessions : to_car'[s] = to_car[s] \/ to_car'[s] = <<>>
  BY EmptySeq DEF LinkInv, LinkTyped
<1>4. LinkTyped' BY <1>2, <1>3 DEF LinkInv, LinkTyped
<1>5. Fresh' BY <1>3 DEF LinkInv, Fresh
<1>6. Places' BY <1>2 DEF LinkInv, Places, NoCar
<1>7. LastPending' BY DEF LinkInv, LastPending
<1>8. OneTypeEach'
  <2>1. PICK T \in Book : Matches(T) BY DEF LinkInv, OneTypeEach
  <2>2. PendingMatch(T)' BY <2>1 DEF Matches, PendingMatch, Issued
  <2>3. HandsMatch(T)' BY <2>1 DEF Matches, HandsMatch, Issued
  <2>4. WireMatch(T)'
    <3>1. \A s : Issued(T, s)' = Issued(T, s) BY DEF Issued
    <3> QED BY <2>1, <1>3, <3>1, EmptySeq DEF Matches, WireMatch
  <2>5. CarMatch(T)' BY <1>2 DEF CarMatch
  <2> QED BY <2>1, <2>2, <2>3, <2>4, <2>5 DEF OneTypeEach, Matches
<1>9. CarRemembers' BY <1>2 DEF CarRemembers
<1>10. ASSUME NEW q \in Sessions PROVE ToldIn(q)' /\ AnswerFirstIn(q)'
  <2>1. q # None BY Bounds DEF Sessions, None
  <2>2. car'.session # q BY <1>2, <2>1
  <2>3. seq[q] \in Nat BY ReceiverTyped
  <2> QED BY <1>4, <2>2, <2>3, SessionKept
<1> QED BY <1>4, <1>5, <1>6, <1>7, <1>8, <1>9, <1>10 DEF LinkInv, Told, AnswerFirst

-----------------------------------------------------------------------------
(* The car.                                                                *)

LEMMA CarTyped ==
  ASSUME LinkInv, car.session # None, NEW T \in Book, Matches(T)
  PROVE  /\ car \in Cars /\ car.session \in Sessions /\ car.session = current
         /\ current \in Nat
         /\ car.stop \in Issued(T, car.session) \cup {Nobody}
         /\ car.wait \in Issued(T, car.session) \cup {Nobody}
         /\ car.last \in Issued(T, car.session) \cup {Nobody}
         /\ car.queue \in Seq(Issued(T, car.session))
<1>1. car \in Cars /\ current \in 0..MaxSession /\ car.session = current
  BY DEF LinkInv, LinkTyped, Places
<1>2. car.session \in Sessions /\ current \in Nat BY <1>1, Bounds DEF None
<1> QED BY <1>1, <1>2 DEF Matches, CarMatch

(* A command that stands in the book has been numbered, and only one       *)
(* command has its number.                                                 *)
LEMMA TheOne ==
  ASSUME LinkInv, NEW T \in Book, NEW s \in Sessions,
         NEW x \in Issued(T, s), NEW y \in Issued(T, s) \cup {Nobody}
  PROVE  /\ x \in Command /\ x # Nobody /\ x.seq \in 1..seq[s] /\ x.seq \in Numbers
         /\ y \in Command /\ y.seq \in Nat
         /\ y.seq # 0 => y \in Issued(T, s) /\ y.seq \in 1..seq[s]
         /\ x.seq = y.seq => x = y
<1>1. LinkTyped BY DEF LinkInv
<1>2. /\ x \in Command /\ x # Nobody /\ x.seq \in 1..seq[s] /\ x.seq \in Numbers
  BY <1>1, InBook
<1>3. y \in Command BY <1>1, InBook, Constants
<1>4. y.seq \in 0..MaxSeq BY <1>3 DEF Command
<1>5. y.seq \in Nat BY <1>4, Bounds
<1>6. y.seq # 0 => y \in Issued(T, s) BY Constants
<1>7. y.seq # 0 => y.seq \in 1..seq[s] BY <1>1, <1>6, InBook
<1>8. x.seq # 0 BY <1>2, Bounds
<1>9. x.seq = y.seq => x = y BY <1>6, <1>8, SameNumber
<1> QED BY <1>2, <1>3, <1>5, <1>6, <1>7, <1>9

LEMMA SubmitKeeps ==
  ASSUME LinkInv, Submit
  PROVE  LinkInv'
<1>0. PICK s, command : s = car.session /\ command = Head(to_car[s]) OBVIOUS
<1>1. /\ s # None /\ to_car[s] # <<>>
      /\ to_car' = [to_car EXCEPT ![s] = Tail(@)]
      /\ UNCHANGED <<serverVars, senderVars, caller, ticker, receiver, comm_lost,
                     from_car, outcome, dropped>>
  BY <1>0 DEF Submit
<1>2. PICK T \in Book : Matches(T) BY DEF LinkInv, OneTypeEach
<1> USE <1>1 DEF serverVars, senderVars, numberVars
<1>3. /\ s \in Sessions /\ s = current /\ s \in Nat /\ car \in Cars /\ car.session = s
      /\ car.stop \in Issued(T, s) \cup {Nobody}
      /\ car.wait \in Issued(T, s) \cup {Nobody}
      /\ car.last \in Issued(T, s) \cup {Nobody}
      /\ car.queue \in Seq(Issued(T, s))
  BY <1>0, <1>1, <1>2, CarTyped
<1>4. /\ to_car \in [Sessions -> Seq(Command)]
      /\ \A r \in Sessions : to_car[r] \in Seq(Issued(T, r))
  BY <1>2 DEF LinkInv, LinkTyped, Matches, WireMatch
<1>5. /\ command \in Issued(T, s) /\ command \in Command
      /\ Tail(to_car[s]) \in Seq(Issued(T, s)) /\ Tail(to_car[s]) \in Seq(Command)
  BY <1>0, <1>3, <1>4, HeadTailProperties
<1>6. /\ to_car' \in [Sessions -> Seq(Command)]
      /\ \A r \in Sessions : to_car'[r] \in Seq(Issued(T, r))
      /\ \A r \in Sessions : r # s => to_car'[r] = to_car[r]
  BY <1>3, <1>4, <1>5
<1>7. /\ car' \in Cars /\ car'.session = s /\ car'.last = car.last
      /\ car'.result = car.result
      /\ car'.stop \in Issued(T, s) \cup {Nobody}
      /\ car'.wait \in Issued(T, s) \cup {Nobody}
      /\ car'.queue \in Seq(Issued(T, s))
  <2>1. CASE car' = [car EXCEPT !.stop = command]
    BY <2>1, <1>3, <1>5 DEF Cars
  <2>2. CASE car' = [car EXCEPT !.wait = command]
    BY <2>2, <1>3, <1>5 DEF Cars
  <2>3. CASE car' = [car EXCEPT !.queue = Append(@, command)]
    <3>1. /\ Append(car.queue, command) \in Seq(Issued(T, s))
          /\ Append(car.queue, command) \in Seq(Command)
      BY <1>3, <1>5, AppendProperties DEF Cars
    <3> QED BY <2>3, <3>1, <1>3 DEF Cars
  <2>4. CASE car' = car BY <2>4, <1>3
  <2> QED BY <1>0, <2>1, <2>2, <2>3, <2>4 DEF Submit, Slot
<1>8. LinkTyped' BY <1>6, <1>7 DEF LinkInv, LinkTyped
<1>9. Fresh' BY <1>3, <1>6 DEF LinkInv, Fresh
<1>10. Places' BY <1>3, <1>7 DEF LinkInv, Places
<1>11. LastPending' BY DEF LinkInv, LastPending
<1>12. OneTypeEach'
  <2>1. \A r : Issued(T, r)' = Issued(T, r) BY DEF Issued
  <2>2. PendingMatch(T)' BY <1>2, <2>1 DEF Matches, PendingMatch
  <2>3. HandsMatch(T)' BY <1>2 DEF Matches, HandsMatch, Issued
  <2>4. WireMatch(T)' BY <1>6, <2>1 DEF WireMatch
  <2>5. CarMatch(T)' BY <1>3, <1>7 DEF CarMatch, Issued
  <2> QED BY <2>2, <2>3, <2>4, <2>5 DEF OneTypeEach, Matches
<1>13. CarRemembers' BY <1>3, <1>7 DEF LinkInv, CarRemembers
<1>14. ASSUME NEW q \in Sessions PROVE ToldIn(q)' /\ AnswerFirstIn(q)'
  BY <1>3, <1>7, <1>8, ReceiverTyped, SessionKept
<1> QED BY <1>8, <1>9, <1>10, <1>11, <1>12, <1>13, <1>14
      DEF LinkInv, Told, AnswerFirst

(* What the car puts on the wire is added at the end, or dropped.          *)
LEMMA ReplyDoes ==
  ASSUME LinkInv, NEW s \in Sessions, s = car.session,
         NEW result \in Results \cup {"NONE"}, NEW acked \in 0..MaxSeq,
         NEW rejected \in 0..MaxSeq, Reply(result, acked, rejected),
         NEW r, r = [result |-> result, acked |-> acked, rejected |-> rejected]
  PROVE  /\ r \in Replies
         /\ from_car' \in [Sessions -> Seq(Replies)] /\ dropped' \in [Sessions -> BOOLEAN]
         /\ \A q \in Sessions : Len(from_car'[q]) <= ReplyLength
         /\ \A q \in Sessions \ {s} : from_car'[q] = from_car[q] /\ dropped'[q] = dropped[q]
         /\ \/ from_car'[s] = from_car[s] /\ dropped'[s]
            \/ from_car'[s] = Append(from_car[s], r) /\ dropped'[s] = dropped[s]
<1>1. r \in Replies BY DEF Replies
<1>2. /\ from_car \in [Sessions -> Seq(Replies)] /\ dropped \in [Sessions -> BOOLEAN]
      /\ \A q \in Sessions : Len(from_car[q]) <= ReplyLength
  BY DEF LinkInv, LinkTyped
<1>3. CASE Len(from_car[s]) >= ReplyLength
  <2>1. from_car' = from_car /\ dropped' = [dropped EXCEPT ![s] = TRUE]
    BY <1>3, <1>2 DEF Reply
  <2> QED BY <1>1, <1>2, <2>1
<1>4. CASE ~(Len(from_car[s]) >= ReplyLength)
  <2>1. from_car' = [from_car EXCEPT ![s] = Append(@, r)] /\ dropped' = dropped
    BY <1>4, <1>2 DEF Reply
  <2>2. /\ Append(from_car[s], r) \in Seq(Replies)
        /\ Len(Append(from_car[s], r)) = Len(from_car[s]) + 1
        /\ Len(from_car[s]) \in Nat
    BY <1>1, <1>2, AppendProperties, LenProperties
  <2>3. Len(Append(from_car[s], r)) <= ReplyLength BY <1>4, <2>2, Bounds
  <2> QED BY <1>1, <1>2, <2>1, <2>2, <2>3
<1> QED BY <1>3, <1>4

(* A reply of the car to what it is handling keeps the record of answers.  *)
LEMMA AnswersKept ==
  ASSUME LinkInv, LinkTyped', NEW s \in Sessions, car.session = s, car'.session = s,
         UNCHANGED <<seq, pending, receiver>>,
         \A q \in Sessions \ {s} : /\ from_car'[q] = from_car[q]
                                   /\ dropped'[q] = dropped[q] /\ outcome'[q] = outcome[q],
         NEW r,
         \/ from_car'[s] = from_car[s] /\ dropped'[s]
         \/ from_car'[s] = Append(from_car[s], r) /\ dropped'[s] = dropped[s],
         r \in Truthful(s)', Own(s) \subseteq Own(s)',
         receiver[s].at = "matched" /\ ~dropped[s] =>
           outcome'[s][receiver[s].seq] = outcome[s][receiver[s].seq],
         \/ r \in Own(s)' /\ r.acked = car'.last.seq
         \/ /\ car'.last = car.last
            /\ r \in Stale(s) => r.acked = car.last.seq /\ car.last.seq # 0
  PROVE  Told' /\ AnswerFirst'
<1>1. /\ Stale(s)' = Stale(s) /\ Silent' = Silent /\ Held(s)' = Held(s)
      /\ Truthful(s) \subseteq Truthful(s)'
  BY DEF Stale, Silent, Held, Truthful
<1>2. ToldIn(s) /\ AnswerFirstIn(s) BY ReceiverTyped
<1>3. PICK line, L : line = from_car[s] /\ L = Len(line) OBVIOUS
<1>4. /\ line \in Seq(Truthful(s)') /\ L \in Nat
      /\ Append(line, r) \in Seq(Truthful(s)') /\ Len(Append(line, r)) = L + 1
      /\ \A i \in 1..L : Append(line, r)[i] = line[i]
      /\ Append(line, r)[L + 1] = r
  <2>1. line \in Seq(Truthful(s)') BY <1>1, <1>2, <1>3, SeqMonotonic DEF ToldIn
  <2> QED BY <2>1, <1>3, AppendProperties, LenProperties
<1>5. ToldIn(s)'
  <2>1. from_car'[s] \in Seq(Truthful(s)') BY <1>3, <1>4
  <2>2. Held(s) => receiver[s].reply \in Truthful(s)' BY <1>1, <1>2 DEF ToldIn
  <2> QED BY <1>1, <1>2, <2>1, <2>2 DEF ToldIn
<1>6. \A n : Settled(s, n) => Settled(s, n)'
  BY <1>1 DEF Settled, InHand
<1>7. AnswerFirstIn(s)'
  <2> SUFFICES ASSUME ~dropped'[s]
               PROVE  RefusalsLate(s)' /\ HandLate(s)' /\ LastLate(s)'
    BY DEF AnswerFirstIn
  <2>1. ~dropped[s] /\ from_car'[s] = Append(line, r) BY <1>3
  <2>2. RefusalsLate(s) /\ HandLate(s) /\ LastLate(s) BY <1>2, <2>1 DEF AnswerFirstIn
  <2>3. \A n : \A k \in 0..L : OnItsWay(s, n, k) => OnItsWay(s, n, k)'
    BY <1>3, <1>4, <2>1 DEF OnItsWay
  <2>4. ASSUME NEW n, n = car.last.seq, car.last.seq # 0
        PROVE  Settled(s, n)' \/ OnItsWay(s, n, L)'
    <3>1. Settled(s, n) \/ OnItsWay(s, n, L) BY <1>3, <2>2, <2>4 DEF LastLate
    <3>2. L \in 0..L BY <1>4
    <3> QED BY <3>1, <3>2, <1>6, <2>3
  <2>5. RefusalsLate(s)'
    <3> SUFFICES ASSUME NEW i \in 1..(L + 1), Append(line, r)[i] \in Stale(s),
                        NEW n, n = Append(line, r)[i].acked
                 PROVE  Settled(s, n)' \/ OnItsWay(s, n, i - 1)'
      BY <1>1, <1>4, <2>1 DEF RefusalsLate
    <3>1. CASE i # L + 1
      <4>1. i \in 1..L /\ i - 1 \in 0..L /\ Append(line, r)[i] = line[i]
        BY <3>1, <1>4
      <4>2. PICK k \in 0..L : k = i - 1 BY <4>1
      <4>3. Settled(s, n) \/ OnItsWay(s, n, i - 1)
        BY <1>3, <2>2, <4>1 DEF RefusalsLate
      <4>4. Settled(s, n)' \/ OnItsWay(s, n, k)' BY <4>2, <4>3, <1>6, <2>3
      <4> QED BY <4>2, <4>4
    <3>2. CASE i = L + 1
      <4>1. r \in Stale(s) /\ n = r.acked /\ i - 1 = L BY <3>2, <1>4
      <4>2. r \notin Own(s)' BY <4>1 DEF Stale, Own, Verdicts
      <4>3. n = car.last.seq /\ car.last.seq # 0 BY <4>1, <4>2
      <4> QED BY <4>1, <4>3, <2>4
    <3> QED BY <3>1, <3>2
  <2>6. HandLate(s)' BY <1>1, <2>2 DEF HandLate
  <2>7. LastLate(s)'
    <3>1. CASE r \in Own(s)' /\ r.acked = car'.last.seq
      <4>1. PICK n : n = car'.last.seq OBVIOUS
      <4>2. L + 1 \in 1..(L + 1) BY <1>4
      <4>3. OnItsWay(s, n, L + 1)' BY <3>1, <4>1, <4>2, <1>4, <2>1 DEF OnItsWay
      <4>4. Len(from_car[s])' = L + 1 BY <1>4, <2>1
      <4> QED BY <4>1, <4>3, <4>4 DEF LastLate
    <3>2. CASE car'.last = car.last /\ car.last.seq # 0
      <4>1. PICK n : n = car.last.seq OBVIOUS
      <4>2. Settled(s, n)' \/ OnItsWay(s, n, L)' BY <3>2, <4>1, <2>4
      <4>3. \A i \in 1..L : i \in 1..(L + 1) BY <1>4
      <4>4. OnItsWay(s, n, L)' => OnItsWay(s, n, L + 1)' BY <4>3 DEF OnItsWay
      <4>5. Len(from_car[s])' = L + 1 BY <1>4, <2>1
      <4> QED BY <3>2, <4>1, <4>2, <4>4, <4>5 DEF LastLate
    <3>3. CASE car'.last = car.last /\ car.last.seq = 0 BY <3>3 DEF LastLate
    <3> QED BY <3>1, <3>2, <3>3
  <2> QED BY <2>5, <2>6, <2>7
<1>8. ASSUME NEW q \in Sessions PROVE ToldIn(q)' /\ AnswerFirstIn(q)'
  <2>1. CASE q = s BY <2>1, <1>5, <1>7
  <2>2. CASE q # s
    <3>1. car'.session # q /\ seq[q] \in Nat BY <2>2, ReceiverTyped
    <3> QED BY <2>2, <3>1, SessionKept
  <2> QED BY <2>1, <2>2
<1> QED BY <1>8 DEF Told, AnswerFirst

(* What a step of the car that answers a command leaves alone, and what it *)
(* still has waiting.                                                      *)
Waits(T, w) ==
  /\ w \in Cars /\ w.session = car.session /\ w.last = car.last /\ w.result = car.result
  /\ w.stop \in Issued(T, car.session) \cup {Nobody}
  /\ w.wait \in Issued(T, car.session) \cup {Nobody}
  /\ w.queue \in Seq(Issued(T, car.session))

LEMMA CarStep ==
  ASSUME LinkInv, NEW s \in Sessions, s = car.session, NEW T \in Book, Matches(T),
         UNCHANGED <<current, alive, comm_failed, seq, pending, caller, ticker,
                     receiver, comm_lost, to_car>>,
         car' \in Cars, car'.session = s,
         car'.stop \in Issued(T, s) \cup {Nobody},
         car'.wait \in Issued(T, s) \cup {Nobody},
         car'.last \in Issued(T, s) \cup {Nobody},
         car'.queue \in Seq(Issued(T, s)),
         from_car' \in [Sessions -> Seq(Replies)], dropped' \in [Sessions -> BOOLEAN],
         outcome' \in [Sessions -> [Numbers -> Verdicts \cup {"NONE"}]],
         \A q \in Sessions : Len(from_car'[q]) <= ReplyLength,
         \A q \in Sessions \ {s} : outcome'[q] = outcome[q],
         LinkTyped' => Told' /\ AnswerFirst',
         CarRemembers'
  PROVE  LinkInv'
<1>1. LinkTyped' BY DEF LinkInv, LinkTyped
<1>2. s = current /\ current \in Nat BY CarTyped, Bounds DEF Sessions, None
<1>3. \A q \in Sessions : q > current => q # s
  BY <1>2, Bounds DEF Sessions
<1>4. Fresh' BY <1>3 DEF LinkInv, Fresh
<1>5. Places'
  <2>1. car'.session # None BY Bounds DEF Sessions, None
  <2> QED BY <1>2, <2>1 DEF LinkInv, Places
<1>6. LastPending' BY DEF LinkInv, LastPending
<1>7. OneTypeEach'
  <2>1. PendingMatch(T)' BY DEF Matches, PendingMatch, Issued
  <2>2. HandsMatch(T)' BY DEF Matches, HandsMatch, Issued
  <2>3. WireMatch(T)' BY DEF Matches, WireMatch, Issued
  <2>4. CarMatch(T)' BY DEF CarMatch, Issued
  <2> QED BY <2>1, <2>2, <2>3, <2>4 DEF OneTypeEach, Matches
<1> QED BY <1>1, <1>4, <1>5, <1>6, <1>7 DEF LinkInv

LEMMA ProcessKeeps ==
  ASSUME LinkInv, car.session # None, NEW T \in Book, Matches(T),
         NEW command \in Issued(T, car.session), NEW waiting, Waits(T, waiting),
         Process(command, waiting),
         UNCHANGED <<current, alive, comm_failed, seq, pending, caller, ticker,
                     receiver, comm_lost, to_car>>
  PROVE  LinkInv'
<1>1. PICK s : s = car.session OBVIOUS
<1>2. /\ s \in Sessions /\ car \in Cars /\ car.last \in Issued(T, s) \cup {Nobody}
      /\ command \in Issued(T, s)
  BY <1>1, CarTyped
<1>3. /\ waiting \in Cars /\ waiting.session = s /\ waiting.last = car.last
      /\ waiting.result = car.result
      /\ waiting.stop \in Issued(T, s) \cup {Nobody}
      /\ waiting.wait \in Issued(T, s) \cup {Nobody}
      /\ waiting.queue \in Seq(Issued(T, s))
  BY <1>1 DEF Waits
<1>4. /\ command \in Command /\ command.seq \in 1..seq[s] /\ command.seq \in Numbers
      /\ car.last \in Command /\ car.last.seq \in Nat
      /\ car.last.seq # 0 => car.last.seq \in 1..seq[s]
      /\ command.seq = car.last.seq => command = car.last
  BY <1>2, TheOne
<1>5. /\ outcome \in [Sessions -> [Numbers -> Verdicts \cup {"NONE"}]]
      /\ \A n \in Numbers : outcome[s][n] # "NONE" => n <= car.last.seq
      /\ car.last.seq # 0 => car.result \in Verdicts /\ outcome[s][car.last.seq] = car.result
  BY <1>1, <1>2 DEF LinkInv, LinkTyped, CarRemembers
<1>6. /\ 0 \in 0..MaxSeq /\ command.seq \in 0..MaxSeq /\ car.last.seq \in 0..MaxSeq
      /\ command.seq \in Nat /\ command.seq >= 1 /\ seq[s] \in Nat /\ seq[s] <= MaxSeq
      /\ seq[s] \in 0..MaxSeq
  <2>1. seq[s] \in 0..MaxSeq BY <1>2 DEF LinkInv, LinkTyped
  <2>2. command.seq \in 0..MaxSeq /\ car.last.seq \in 0..MaxSeq BY <1>4 DEF Command
  <2> QED BY <1>4, <2>1, <2>2, Bounds
<1>7. /\ ToldIn(s) /\ 1..seq[s] \subseteq Numbers
  BY <1>2, <1>6, ReceiverTyped, Bounds DEF Numbers
<1>8. ASSUME NEW result \in Verdicts, IsNew(command),
             car' = [waiting EXCEPT !.last = command, !.result = result],
             outcome' = [outcome EXCEPT ![s] = [@ EXCEPT ![command.seq] = result]],
             Reply(result, command.seq, 0)
      PROVE  LinkInv'
  <2>1. PICK r : r = [result |-> result, acked |-> command.seq, rejected |-> 0] OBVIOUS
  <2>2. result \in Results \cup {"NONE"} /\ result # "NONE"
    BY DEF Verdicts, Results
  <2>3. /\ r \in Replies
        /\ from_car' \in [Sessions -> Seq(Replies)] /\ dropped' \in [Sessions -> BOOLEAN]
        /\ \A q \in Sessions : Len(from_car'[q]) <= ReplyLength
        /\ \A q \in Sessions \ {s} : from_car'[q] = from_car[q] /\ dropped'[q] = dropped[q]
        /\ \/ from_car'[s] = from_car[s] /\ dropped'[s]
           \/ from_car'[s] = Append(from_car[s], r) /\ dropped'[s] = dropped[s]
    BY <1>1, <1>2, <1>6, <1>8, <2>1, <2>2, ReplyDoes
  <2>4. /\ car' \in Cars /\ car'.session = s /\ car'.last = command /\ car'.result = result
        /\ car'.stop = waiting.stop /\ car'.wait = waiting.wait
        /\ car'.queue = waiting.queue
    BY <1>3, <1>4, <1>8 DEF Cars
  <2>5. /\ outcome' \in [Sessions -> [Numbers -> Verdicts \cup {"NONE"}]]
        /\ outcome'[s][command.seq] = result
        /\ \A n \in Numbers : n # command.seq => outcome'[s][n] = outcome[s][n]
        /\ \A q \in Sessions \ {s} : outcome'[q] = outcome[q]
    BY <1>2, <1>4, <1>5, <1>8
  <2>6. command.seq > car.last.seq BY <1>8 DEF IsNew
  <2>7. outcome[s][command.seq] = "NONE" BY <1>4, <1>5, <1>6, <2>6
  <2>8. CarRemembers'
    <3>1. \A n \in Numbers : outcome'[s][n] # "NONE" => n <= command.seq
      <4> SUFFICES ASSUME NEW n \in Numbers, outcome'[s][n] # "NONE", n # command.seq
                   PROVE  n <= command.seq
        BY <1>6
      <4>1. n <= car.last.seq BY <1>5, <2>5
      <4>2. n \in Nat BY Bounds
      <4> QED BY <1>4, <1>6, <2>6, <4>1, <4>2
    <3> QED BY <3>1, <2>4, <2>5 DEF CarRemembers
  <2>9. Own(s) \subseteq Own(s)'
    <3> SUFFICES ASSUME NEW x \in Own(s) PROVE outcome'[s][x.acked] = x.result
      BY DEF Own
    <3>1. x.acked \in Numbers /\ outcome[s][x.acked] = x.result /\ x.result # "NONE"
      BY <1>7 DEF Own, Verdicts
    <3> QED BY <3>1, <2>5, <2>7
  <2>10. r \in Own(s)' /\ r \in Truthful(s)' /\ r.acked = car'.last.seq
    BY <1>4, <2>1, <2>3, <2>4, <2>5 DEF Own, Truthful
  <2>11. receiver[s].at = "matched" /\ ~dropped[s] =>
           outcome'[s][receiver[s].seq] = outcome[s][receiver[s].seq]
    <3> SUFFICES ASSUME receiver[s].at = "matched", ~dropped[s]
                 PROVE  outcome'[s][receiver[s].seq] = outcome[s][receiver[s].seq]
      OBVIOUS
    <3>1. receiver[s].seq \in Numbers /\ outcome[s][receiver[s].seq] # "NONE"
      BY <1>7 DEF ToldIn
    <3> QED BY <3>1, <2>5, <2>7
  <2>12. LinkTyped' => Told' /\ AnswerFirst'
    BY <1>1, <1>2, <2>3, <2>4, <2>5, <2>9, <2>10, <2>11, AnswersKept
  <2> QED BY <1>1, <1>2, <1>3, <2>3, <2>4, <2>5, <2>8, <2>12, CarStep
<1>9. ASSUME ~IsNew(command), car' = waiting, UNCHANGED outcome,
             NEW result \in Results, NEW acked \in 0..MaxSeq, NEW rejected \in 0..MaxSeq,
             Reply(result, acked, rejected),
             \/ /\ result = car.result /\ acked = car.last.seq /\ rejected = 0
                /\ car.last.seq # 0
             \/ /\ result = "STALE_SEQ" /\ acked = car.last.seq
                /\ rejected = command.seq /\ command.seq < car.last.seq
      PROVE  LinkInv'
  <2>1. PICK r : r = [result |-> result, acked |-> acked, rejected |-> rejected] OBVIOUS
  <2>2. result \in Results \cup {"NONE"} OBVIOUS
  <2>3. /\ r \in Replies
        /\ from_car' \in [Sessions -> Seq(Replies)] /\ dropped' \in [Sessions -> BOOLEAN]
        /\ \A q \in Sessions : Len(from_car'[q]) <= ReplyLength
        /\ \A q \in Sessions \ {s} : from_car'[q] = from_car[q] /\ dropped'[q] = dropped[q]
        /\ \/ from_car'[s] = from_car[s] /\ dropped'[s]
           \/ from_car'[s] = Append(from_car[s], r) /\ dropped'[s] = dropped[s]
    BY <1>1, <1>2, <1>9, <2>1, <2>2, ReplyDoes
  <2>4. /\ car' \in Cars /\ car'.session = s /\ car'.last = car.last
        /\ car'.result = car.result
    BY <1>3, <1>9
  <2>5. CarRemembers' BY <1>1, <1>5, <1>9, <2>4 DEF CarRemembers
  <2>6. Own(s)' = Own(s) /\ Stale(s)' = Stale(s) BY <1>9 DEF Own, Stale
  <2>7. r \in Truthful(s)'
    <3>1. CASE result = car.result /\ acked = car.last.seq /\ rejected = 0 /\ car.last.seq # 0
      <4>1. car.last.seq \in 1..seq[s] /\ result \in Verdicts
            /\ outcome[s][car.last.seq] = result
        BY <1>4, <1>5, <3>1
      <4>2. r \in Own(s) BY <4>1, <3>1, <2>1, <2>3 DEF Own
      <4> QED BY <4>2, <2>6 DEF Truthful
    <3>2. CASE /\ result = "STALE_SEQ" /\ acked = car.last.seq
               /\ rejected = command.seq /\ command.seq < car.last.seq
      <4>1. car.last.seq # 0 BY <3>2, <1>6
      <4>2. car.last.seq \in 1..seq[s] /\ command.seq \in 1..(car.last.seq - 1)
        BY <1>4, <1>6, <4>1, <3>2
      <4>3. r \in Stale(s) BY <4>2, <3>2, <2>1, <2>3 DEF Stale
      <4> QED BY <4>3, <2>6 DEF Truthful
    <3> QED BY <1>9, <3>1, <3>2
  <2>8. r \in Stale(s) => r.acked = car.last.seq /\ car.last.seq # 0
    BY <1>4, <1>6, <1>9, <2>1
  <2>9. LinkTyped' => Told' /\ AnswerFirst'
    BY <1>1, <1>2, <1>9, <2>3, <2>4, <2>6, <2>7, <2>8, AnswersKept
  <2> QED BY <1>1, <1>2, <1>3, <1>5, <1>9, <2>3, <2>4, <2>5, <2>9, CarStep
<1>10. CASE \E result \in {"ACCEPTED"} \cup
                          IF command.type = "STOP" THEN {} ELSE {"INVALID_STATE"} :
              /\ IsNew(command)
              /\ car' = [waiting EXCEPT !.last = command, !.result = result]
              /\ outcome' = [outcome EXCEPT ![s][command.seq] = result]
              /\ Reply(result, command.seq, 0)
  <2>1. PICK result \in {"ACCEPTED"} \cup
                        IF command.type = "STOP" THEN {} ELSE {"INVALID_STATE"} :
              /\ IsNew(command)
              /\ car' = [waiting EXCEPT !.last = command, !.result = result]
              /\ outcome' = [outcome EXCEPT ![s][command.seq] = result]
              /\ Reply(result, command.seq, 0)
    BY <1>10
  <2>2. result \in Verdicts BY DEF Verdicts
  <2> QED BY <2>1, <2>2, <1>8
<1>11. CASE /\ ~IsNew(command) /\ car' = waiting /\ UNCHANGED outcome
            /\ IF command = car.last THEN Reply(car.result, command.seq, 0)
               ELSE Reply(IF command.seq = car.last.seq THEN "SEQ_CONFLICT"
                          ELSE "STALE_SEQ", car.last.seq, command.seq)
  <2>1. CASE command = car.last
    <3>1. Reply(car.result, command.seq, 0) BY <1>11, <2>1
    <3>2. car.result \in Results /\ car.last.seq # 0
      BY <1>4, <1>5, <1>6, <2>1 DEF Verdicts, Results
    <3> QED BY <1>6, <1>9, <1>11, <2>1, <3>1, <3>2
  <2>2. CASE command # car.last
    <3>1. command.seq # car.last.seq BY <1>4, <2>2
    <3>2. Reply("STALE_SEQ", car.last.seq, command.seq) BY <1>11, <2>2, <3>1
    <3>3. command.seq < car.last.seq BY <1>4, <1>6, <1>11, <3>1 DEF IsNew
    <3>4. "STALE_SEQ" \in Results BY DEF Results
    <3> QED BY <1>6, <1>9, <1>11, <3>2, <3>3, <3>4
  <2> QED BY <2>1, <2>2
<1> QED BY <1>1, <1>10, <1>11 DEF Process

(* A car that has something waiting is connected.                          *)
LEMMA HasCar ==
  ASSUME LinkInv, car.session = None
  PROVE  car.stop = Nobody /\ car.wait = Nobody /\ car.queue = <<>>
BY DEF LinkInv, Places

LEMMA CarStopKeeps ==
  ASSUME LinkInv, CarStop
  PROVE  LinkInv'
<1>1. /\ car.stop # Nobody
      /\ UNCHANGED <<current, alive, comm_failed, seq, pending, caller, ticker,
                     receiver, comm_lost, to_car>>
  BY DEF CarStop, unchangedByCar, serverVars
<1>2. PICK wait \in {car.wait, Nobody} :
        Process(car.stop, [car EXCEPT !.stop = Nobody, !.wait = wait])
  BY DEF CarStop
<1>3. PICK T \in Book : Matches(T) BY DEF LinkInv, OneTypeEach
<1>4. car.session # None BY <1>1, HasCar
<1>5. PICK waiting : waiting = [car EXCEPT !.stop = Nobody, !.wait = wait] OBVIOUS
<1>6. car.stop \in Issued(T, car.session) BY <1>1, <1>3, <1>4, CarTyped
<1>7. Waits(T, waiting)
  BY <1>3, <1>4, <1>5, CarTyped, Constants DEF Waits, Cars
<1> QED BY <1>1, <1>2, <1>3, <1>4, <1>5, <1>6, <1>7, ProcessKeeps

LEMMA CarWaitKeeps ==
  ASSUME LinkInv, CarWait
  PROVE  LinkInv'
<1>1. /\ car.wait # Nobody
      /\ UNCHANGED <<current, alive, comm_failed, seq, pending, caller, ticker,
                     receiver, comm_lost, to_car>>
  BY DEF CarWait, unchangedByCar, serverVars, senderVars, numberVars
<1>2. Process(car.wait, [car EXCEPT !.wait = Nobody]) BY DEF CarWait
<1>3. PICK T \in Book : Matches(T) BY DEF LinkInv, OneTypeEach
<1>4. car.session # None BY <1>1, HasCar
<1>5. PICK waiting : waiting = [car EXCEPT !.wait = Nobody] OBVIOUS
<1>6. car.wait \in Issued(T, car.session) BY <1>1, <1>3, <1>4, CarTyped
<1>7. Waits(T, waiting)
  BY <1>3, <1>4, <1>5, CarTyped, Constants DEF Waits, Cars
<1> QED BY <1>1, <1>2, <1>3, <1>4, <1>5, <1>6, <1>7, ProcessKeeps

LEMMA CarGeneralKeeps ==
  ASSUME LinkInv, CarGeneral
  PROVE  LinkInv'
<1>1. /\ car.queue # <<>>
      /\ UNCHANGED <<current, alive, comm_failed, seq, pending, caller, ticker,
                     receiver, comm_lost, to_car>>
  BY DEF CarGeneral, unchangedByCar, serverVars, senderVars, numberVars
<1>2. Process(Head(car.queue), [car EXCEPT !.queue = Tail(@)]) BY DEF CarGeneral
<1>3. PICK T \in Book : Matches(T) BY DEF LinkInv, OneTypeEach
<1>4. car.session # None BY <1>1, HasCar
<1>5. PICK waiting, command : /\ waiting = [car EXCEPT !.queue = Tail(@)]
                              /\ command = Head(car.queue)
  OBVIOUS
<1>6. /\ car.queue \in Seq(Issued(T, car.session)) /\ car \in Cars
      /\ car.queue \in Seq(Command)
  BY <1>3, <1>4, CarTyped DEF Cars
<1>7. /\ command \in Issued(T, car.session)
      /\ Tail(car.queue) \in Seq(Issued(T, car.session))
      /\ Tail(car.queue) \in Seq(Command)
  BY <1>1, <1>5, <1>6, HeadTailProperties
<1>8. Waits(T, waiting)
  BY <1>3, <1>4, <1>5, <1>6, <1>7, CarTyped, Constants DEF Waits, Cars
<1> QED BY <1>1, <1>2, <1>3, <1>4, <1>5, <1>7, <1>8, ProcessKeeps

LEMMA PeriodicStatusKeeps ==
  ASSUME LinkInv, PeriodicStatus
  PROVE  LinkInv'
<1>1. /\ car.session # None /\ Reply("NONE", car.last.seq, 0)
      /\ UNCHANGED <<current, alive, comm_failed, seq, pending, caller, ticker,
                     receiver, comm_lost, to_car, car, outcome>>
  BY DEF PeriodicStatus, unchangedByCar, serverVars, senderVars, numberVars
<1>2. PICK T \in Book : Matches(T) BY DEF LinkInv, OneTypeEach
<1>3. PICK s : s = car.session OBVIOUS
<1>4. /\ s \in Sessions /\ car \in Cars
      /\ car.stop \in Issued(T, s) \cup {Nobody}
      /\ car.wait \in Issued(T, s) \cup {Nobody}
      /\ car.last \in Issued(T, s) \cup {Nobody}
      /\ car.queue \in Seq(Issued(T, s))
  BY <1>1, <1>2, <1>3, CarTyped
<1>5. car.last.seq \in 0..MaxSeq /\ 0 \in 0..MaxSeq BY <1>4, Bounds DEF Cars, Command
<1>6. PICK r : r = [result |-> "NONE", acked |-> car.last.seq, rejected |-> 0] OBVIOUS
<1>7. /\ r \in Replies
      /\ from_car' \in [Sessions -> Seq(Replies)] /\ dropped' \in [Sessions -> BOOLEAN]
      /\ \A q \in Sessions : Len(from_car'[q]) <= ReplyLength
      /\ \A q \in Sessions \ {s} : from_car'[q] = from_car[q] /\ dropped'[q] = dropped[q]
      /\ \/ from_car'[s] = from_car[s] /\ dropped'[s]
         \/ from_car'[s] = Append(from_car[s], r) /\ dropped'[s] = dropped[s]
  BY <1>1, <1>3, <1>4, <1>5, <1>6, ReplyDoes, SMTT(30)
<1>8. Own(s)' = Own(s) BY <1>1 DEF Own
<1>9. r \in Truthful(s)' /\ r \notin Stale(s)
  BY <1>6, <1>7 DEF Truthful, Silent, Stale
<1>10. LinkTyped' => Told' /\ AnswerFirst'
  BY <1>1, <1>3, <1>4, <1>7, <1>8, <1>9, AnswersKept
<1>11. CarRemembers' BY <1>1 DEF LinkInv, CarRemembers
<1>12. outcome' \in [Sessions -> [Numbers -> Verdicts \cup {"NONE"}]]
  BY <1>1 DEF LinkInv, LinkTyped
<1> QED BY <1>1, <1>2, <1>3, <1>4, <1>7, <1>10, <1>11, <1>12, CarStep

-----------------------------------------------------------------------------
(* The invariant, from the start and over every step.                      *)

LEMMA InitLinkInv == Init => LinkInv
<1> SUFFICES ASSUME Init PROVE LinkInv
  OBVIOUS
<1> USE DEF Init
<1>1. <<>> \in Seq(Command) /\ <<>> \in Seq(Replies) /\ Len(<<>>) = 0
  BY EmptySeq
<1>2. NoCar \in Cars /\ NoCar.session = None
  BY <1>1, Bounds, Constants DEF NoCar, Cars, None
<1>3. LinkTyped
  <2>1. /\ alive \in [Sessions -> BOOLEAN] /\ comm_failed \in [Sessions -> BOOLEAN]
        /\ dropped \in [Sessions -> BOOLEAN] /\ comm_lost \in BOOLEAN
    OBVIOUS
  <2>2. /\ current \in 0..MaxSession /\ seq \in [Sessions -> 0..MaxSeq]
        /\ pending \in [Sessions -> Pendings]
    BY Bounds, Constants DEF None
  <2>3. /\ caller \in [Callers -> Carried] /\ ticker \in Ticking
        /\ receiver \in [Sessions -> Receiving] /\ car \in Cars
    BY <1>2, Constants
  <2>4. /\ to_car \in [Sessions -> Seq(Command)] /\ from_car \in [Sessions -> Seq(Replies)]
        /\ \A s \in Sessions : Len(from_car[s]) <= ReplyLength
    BY <1>1, Bounds
  <2>5. outcome \in [Sessions -> [Numbers -> Verdicts \cup {"NONE"}]] BY DEF Numbers
  <2> QED BY <2>1, <2>2, <2>3, <2>4, <2>5 DEF LinkTyped
<1>4. Fresh BY DEF Fresh, Numbers
<1>5. Places BY <1>2, Constants DEF Places, NoCar
<1>6. LastPending BY DEF LastPending
<1>7. OneTypeEach
  <2>1. PICK T : T = [s \in Sessions |-> [n \in Numbers |-> "NONE"]] OBVIOUS
  <2>2. T \in Book BY <2>1 DEF Book
  <2>3. HandsMatch(T) BY Constants DEF HandsMatch
  <2>4. PendingMatch(T) BY DEF PendingMatch
  <2>5. WireMatch(T) BY EmptySeq DEF WireMatch
  <2>6. CarMatch(T) BY <1>2 DEF CarMatch
  <2> QED BY <2>2, <2>3, <2>4, <2>5, <2>6 DEF OneTypeEach, Matches
<1>8. CarRemembers BY <1>2 DEF CarRemembers
<1>9. ASSUME NEW s \in Sessions PROVE ToldIn(s) /\ AnswerFirstIn(s)
  <2>1. from_car[s] = <<>> /\ ~Held(s) /\ receiver[s].at # "matched"
    BY Constants DEF Held
  <2>2. car.session # s BY <1>2, Bounds DEF Sessions, None
  <2>3. ToldIn(s) BY <2>1, EmptySeq DEF ToldIn
  <2>4. RefusalsLate(s) BY <2>1 DEF RefusalsLate
  <2>5. HandLate(s) /\ LastLate(s) BY <2>1, <2>2 DEF HandLate, LastLate
  <2> QED BY <2>3, <2>4, <2>5 DEF AnswerFirstIn
<1> QED BY <1>3, <1>4, <1>5, <1>6, <1>7, <1>8, <1>9 DEF LinkInv, Told, AnswerFirst

LEMMA StutterKeeps ==
  ASSUME LinkInv, UNCHANGED vars
  PROVE  LinkInv'
<1> USE DEF vars, serverVars, senderVars, numberVars, wireVars, carVars
<1>1. LinkTyped' BY DEF LinkInv, LinkTyped
<1>2. Places' BY DEF LinkInv, Places
<1>3. \A T \in Book : Matches(T) => (HandsMatch(T) /\ WireMatch(T))'
  BY DEF Matches, HandsMatch, WireMatch, Issued
<1> QED BY <1>1, <1>2, <1>3, HostStep

LEMMA HostKeeps ==
  ASSUME LinkInv, Host
  PROVE  LinkInv'
<1>1. CASE \E c \in Callers : \/ \E type \in Types : FindSession(c, type)
                              \/ NumberCommand(c) \/ SendFirst(c)
  BY <1>1, FindSessionKeeps, NumberCommandKeeps, SendFirstKeeps
<1>2. CASE TickIdle BY <1>2, StutterKeeps DEF TickIdle
<1>3. CASE TickSession \/ TickNothing \/ TickExpired \/ Resend
  BY <1>3, TickSessionKeeps, TickNothingKeeps, TickExpiredKeeps, ResendKeeps
<1>4. CASE CommandFailed \/ Silence \/ TellFailure
  BY <1>4, CommandFailedKeeps, SilenceKeeps, TellFailureKeeps
<1>5. CASE \E s \in Sessions : \/ Resync(s) \/ Receive(s) \/ TellRecovery(s)
                               \/ ReadOutstanding(s) \/ OnAck(s)
                               \/ ReceiverEnds(s)
  BY <1>5, ResyncKeeps, ReceiveKeeps, TellRecoveryKeeps, ReadOutstandingKeeps,
     OnAckKeeps, ReceiverEndsKeeps
<1> QED BY <1>1, <1>2, <1>3, <1>4, <1>5 DEF Host

LEMMA StepKeeps == LinkInv /\ [Next]_vars => LinkInv'
<1> SUFFICES ASSUME LinkInv, [Next]_vars PROVE LinkInv'
  OBVIOUS
<1>1. CASE Host BY <1>1, HostKeeps
<1>2. CASE Car
  BY <1>2, SubmitKeeps, CarStopKeeps, CarWaitKeeps, CarGeneralKeeps,
     PeriodicStatusKeeps DEF Car
<1>3. CASE Connect BY <1>3, ConnectKeeps
<1>4. CASE Disconnect BY <1>4, DisconnectKeeps
<1>5. CASE UNCHANGED vars BY <1>5, StutterKeeps
<1> QED BY <1>1, <1>2, <1>3, <1>4, <1>5 DEF Next

LEMMA LinkInvariant == Spec => []LinkInv
<1> QED BY InitLinkInv, StepKeeps, PTL DEF Spec

-----------------------------------------------------------------------------
(* Every variable of the link keeps its type, and no reply queue of the    *)
(* car ever holds more than it has room for, whatever the threads of the   *)
(* host do: the sizes the code relies on when it indexes and counts.       *)
THEOREM TypeCorrect == Spec => []TypeOK
<1>1. LinkInv => TypeOK
  <2> SUFFICES ASSUME LinkTyped PROVE TypeOK
    BY DEF LinkInv
  <2>1. current \in Sessions \cup {None} BY Bounds DEF LinkTyped, None
  <2>2. \A s \in Sessions : receiver[s].at \in Threads
    BY DEF LinkTyped, Receiving
  <2> QED BY <2>1, <2>2 DEF LinkTyped, TypeOK, Pendings
<1> QED BY <1>1, LinkInvariant, PTL

(* Neither side ever takes one command for another: the car never meets    *)
(* two commands of a session under one number, though callers race for     *)
(* numbers, urgent commands replace ordinary ones and a resend is put on   *)
(* the wire outside the lock; and the result _consume_command_result hands *)
(* up is the car's own answer to the command it reads as outstanding,      *)
(* unless the car dropped a reply in that session.                         *)
THEOREM CommandsKeptApartHolds == Spec => []CommandsKeptApart
<1>1. LinkInv => CommandsKeptApart
  <2> SUFFICES ASSUME LinkInv PROVE CommandsKeptApart
    OBVIOUS
  <2>1. NoSeqConflict
    <3> SUFFICES ASSUME NEW s \in Sessions, NEW i \in 1..Len(from_car[s])
                 PROVE  from_car[s][i].result # "SEQ_CONFLICT"
      BY DEF NoSeqConflict
    <3>1. from_car[s] \in Seq(Truthful(s)) BY ReceiverTyped DEF ToldIn
    <3>2. from_car[s][i] \in Truthful(s) BY <3>1, ElementOfSeq
    <3> QED BY <3>2 DEF Truthful, Own, Stale, Silent, Verdicts
  <2>2. ResultIsOwn BY ReceiverTyped DEF ResultIsOwn, ToldIn
  <2> QED BY <2>1, <2>2 DEF CommandsKeptApart
<1> QED BY <1>1, LinkInvariant, PTL

-----------------------------------------------------------------------------
(* A STOP that waits for its answer.                                       *)

StopEnds(s) ==
  pending[s].type = "STOP" /\ pending'[s].seq # pending[s].seq =>
    /\ pending'[s] = NoPending
    /\ \/ receiver[s].at = "matched" /\ receiver[s].seq = pending[s].seq
       \/ pending[s].attempts = MaxRetransmit
       \/ comm_failed'[s] \/ comm_lost

LEMMA NumberSpares ==
  ASSUME LinkInv, NEW s \in Sessions, NEW c \in Callers, NumberCommand(c)
  PROVE  StopEnds(s)
<1>1. PICK r, type : r = caller[c].session /\ type = caller[c].command.type OBVIOUS
<1>2. type \in {"GO", "WAIT", "STOP"}
  BY <1>1, LinkAssumption DEF LinkInv, Places, NumberCommand
<1>3. CASE r = s /\ pending[s].type = "STOP"
  <2>1. ~MayReplace(pending[s], type)
    BY <1>2, <1>3, Constants DEF MayReplace, Priority
  <2> QED BY <1>1, <1>3, <2>1 DEF NumberCommand, senderVars, StopEnds
<1>4. CASE r # s
  <2>1. pending'[s] = pending[s]
    BY <1>1, <1>4, ReceiverTyped DEF NumberCommand, senderVars
  <2> QED BY <2>1 DEF StopEnds
<1> QED BY <1>3, <1>4 DEF StopEnds

LEMMA ExpirySpares ==
  ASSUME LinkInv, NEW s \in Sessions, TickExpired
  PROVE  StopEnds(s)
<1>1. PICK r : r = ticker.session OBVIOUS
<1>2. /\ pending \in [Sessions -> Pendings] /\ pending[s] \in Pendings
  BY TickTyped
<1>3. CASE /\ r = s /\ Exhausted(pending[s])
           /\ pending' = [pending EXCEPT ![s] = NoPending]
  <2>1. pending[s].attempts = MaxRetransmit
    BY <1>2, <1>3, Bounds DEF Exhausted, Pendings
  <2> QED BY <1>2, <1>3, <2>1 DEF StopEnds
<1>4. CASE r = s /\ pending' = [pending EXCEPT ![s] = CountAttempt(pending[s])]
  <2>1. CountAttempt(pending[s]).seq = pending[s].seq
    BY <1>2 DEF CountAttempt, Pendings
  <2> QED BY <1>2, <1>4, <2>1 DEF StopEnds
<1>5. CASE r # s
  <2>1. pending'[s] = pending[s] BY <1>1, <1>2, <1>5 DEF TickExpired
  <2> QED BY <2>1 DEF StopEnds
<1> QED BY <1>1, <1>3, <1>4, <1>5 DEF TickExpired

LEMMA FailureSpares ==
  ASSUME LinkInv, NEW s \in Sessions, CommandFailed \/ Silence
  PROVE  StopEnds(s)
<1>1. \/ pending' = pending
      \/ /\ comm_failed' = [comm_failed EXCEPT ![current] = TRUE]
         /\ pending' = [pending EXCEPT ![current] = NoPending]
  BY DEF CommandFailed, Silence, CommFail
<1>2. CASE pending' = pending BY <1>2 DEF StopEnds
<1>3. CASE /\ comm_failed' = [comm_failed EXCEPT ![current] = TRUE]
           /\ pending' = [pending EXCEPT ![current] = NoPending]
  <2>1. \/ pending'[s] = pending[s]
        \/ pending'[s] = NoPending /\ comm_failed'[s]
    BY <1>3, TickTyped
  <2> QED BY <2>1 DEF StopEnds
<1> QED BY <1>1, <1>2, <1>3

LEMMA RecoverySpares ==
  ASSUME LinkInv, NEW s \in Sessions, NEW r \in Sessions, TellRecovery(r)
  PROVE  StopEnds(s)
<1>1. pending' = pending \/ (comm_lost /\ pending' = [pending EXCEPT ![current] = NoPending])
  BY DEF TellRecovery
<1>2. pending'[s] = pending[s] \/ (comm_lost /\ pending'[s] = NoPending)
  BY <1>1, TickTyped
<1> QED BY <1>2 DEF StopEnds

LEMMA AckSpares ==
  ASSUME LinkInv, NEW s \in Sessions, NEW r \in Sessions, OnAck(r)
  PROVE  StopEnds(s)
<1>1. CASE r = s /\ pending[s].seq \in 1..receiver[s].seq
  <2>1. receiver[s].at = "matched" /\ receiver[s].seq \in 1..seq[s] /\ seq[s] \in Nat
    BY <1>1, ReceiverTyped DEF OnAck, ToldIn
  <2>2. pending[s].seq = seq[s]
    BY <1>1, <2>1, ReceiverTyped, Constants
  <2>3. receiver[s].seq = pending[s].seq BY <1>1, <2>1, <2>2
  <2>4. pending'[s] = NoPending BY <1>1, TickTyped DEF OnAck
  <2> QED BY <2>1, <2>3, <2>4 DEF StopEnds
<1>2. CASE r # s \/ pending[s].seq \notin 1..receiver[s].seq
  <2>1. pending'[s] = pending[s] BY <1>2, TickTyped DEF OnAck
  <2> QED BY <2>1 DEF StopEnds
<1> QED BY <1>1, <1>2

LEMMA ConnectSpares ==
  ASSUME LinkInv, NEW s \in Sessions, Connect
  PROVE  StopEnds(s)
<1>1. PICK r : r = current + 1 OBVIOUS
<1>2. r \in Sessions /\ pending' = [pending EXCEPT ![r] = NoPending]
  BY <1>1 DEF Connect
<1>3. pending[r] = NoPending
  BY <1>1, <1>2, TickTyped DEF LinkInv, Fresh
<1>4. pending'[s] = pending[s] BY <1>2, <1>3, TickTyped
<1> QED BY <1>4 DEF StopEnds

(* A STOP that waits for its answer is not cancelled: not by a WAIT or a GO*)
(* of a racing caller, not by an answer to another command, however late,  *)
(* and not by an attempt that was not the last.  Only its own answer, its  *)
(* last timeout, or a link the host holds for failed ends it.              *)
THEOREM StopNotCancelledHolds == Spec => StopNotCancelled
<1>1. LinkInv /\ [Next]_vars => [\A s \in Sessions : StopEnds(s)]_vars
  <2> SUFFICES ASSUME LinkInv, Next, NEW s \in Sessions PROVE StopEnds(s)
    OBVIOUS
  <2>1. CASE UNCHANGED pending BY <2>1 DEF StopEnds
  <2>2. CASE \E c \in Callers : NumberCommand(c) BY <2>2, NumberSpares
  <2>3. CASE TickExpired BY <2>3, ExpirySpares
  <2>4. CASE CommandFailed \/ Silence BY <2>4, FailureSpares
  <2>5. CASE \E r \in Sessions : TellRecovery(r) BY <2>5, RecoverySpares
  <2>6. CASE \E r \in Sessions : OnAck(r) BY <2>6, AckSpares
  <2>7. CASE Connect BY <2>7, ConnectSpares
  <2>8. CASE \E c \in Callers : (\E type \in Types : FindSession(c, type)) \/ SendFirst(c)
    BY <2>8, <2>1 DEF FindSession, SendFirst, senderVars
  <2>9. CASE TickIdle \/ TickSession \/ TickNothing \/ Resend \/ TellFailure
    BY <2>9, <2>1
    DEF TickIdle, TickSession, TickNothing, Resend, TellFailure, vars, senderVars
  <2>10. CASE \E r \in Sessions : \/ Resync(r) \/ Receive(r) \/ ReadOutstanding(r)
                                 \/ ReceiverEnds(r)
    BY <2>10, <2>1 DEF Resync, Receive, ReadOutstanding, ReceiverEnds, senderVars
  <2>11. CASE Car \/ Disconnect
    BY <2>11, <2>1
    DEF Car, Submit, CarStop, CarWait, CarGeneral, PeriodicStatus, Disconnect,
        senderVars
  <2> QED BY <2>2, <2>3, <2>4, <2>5, <2>6, <2>7, <2>8, <2>9, <2>10, <2>11
       DEF Next, Host
<1> QED BY <1>1, LinkInvariant, PTL DEF Spec, StopNotCancelled, StopEnds

=============================================================================
