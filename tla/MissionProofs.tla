----------------------------- MODULE MissionProofs -----------------------------
(***************************************************************************)
(* Proofs about the mission of one car, for routes of any length and any   *)
(* number of routes, holds, failures of the link and STATUS on the way.    *)
(***************************************************************************)
EXTENDS Mission, SequenceTheorems, TLAPS

(* Where each thread can be, and what it can have under way.               *)
CameraPlaces == {"start", "judge", "collide", "resume", "send", "write", "dead"}
ReceiverPlaces == {"receive", "recovered", "consume", "rejected", "status", "send",
                   "write", "dead"}

InCall(t) == at[t] \in {"send", "write"}
About(t, next) == InCall(t) /\ call[t].next = next

MissionRecord == [state : MissionStates, route : 0..MaxRoute, index : 0..Last]
CarRecord == [state : CarStates, target : Target, reason : Reasons,
              resumable : BOOLEAN]

HostTyped ==
  /\ mission \in MissionRecord
  /\ route_counter \in 0..MaxRoute /\ pending \in Types
  /\ {collision_held, at_risk, comm_failed, comm_lost} \subseteq BOOLEAN
  /\ ticker \in {"idle", "tell", "mark"}
  /\ holds \in 0..MaxHolds /\ failures \in 0..MaxFailures

ThreadsTyped ==
  /\ at \in [Threads -> Places] /\ call \in [Threads -> Call]
  /\ at["camera"] \in CameraPlaces /\ at["receiver"] \in ReceiverPlaces
  /\ call["camera"].then \in {"judge", "collide", "resume", "dead"}
  /\ call["receiver"].then \in {"receive", "consume", "status", "dead"}
  /\ call["receiver"].next \in {"NONE", "LOADING", "RESUMING", "DRIVING"}
  /\ \A t \in Threads : at[t] = "send" => call[t].type # "NONE"

LinesTyped ==
  /\ to_car \in Seq(Command)
  /\ from_car \in Seq(Report) /\ Len(from_car) <= ReplyLength
  /\ report \in Report

CarTyped == car \in CarRecord /\ place \in [target : Target, exact : BOOLEAN]

(* A SWITCHING mission has a waypoint to go on from, and only the camera   *)
(* thread makes a mission SWITCHING.                                       *)
IndexInRoute ==
  /\ mission.state = "SWITCHING" => mission.index < Last
  /\ About("camera", "SWITCHING") =>
       mission.index < Last /\ mission.state # "SWITCHING"

(* Until the mission starts nothing has been sent, so nothing is answered  *)
(* and nobody has planned a route.                                         *)
NothingOpen == ~report.open /\ \A i \in DOMAIN from_car : ~from_car[i].open

CleanStart ==
  IF at["camera"] = "start"
  THEN /\ mission.state = "NONE" /\ route_counter = 0
       /\ pending = "NONE" /\ to_car = <<>> /\ NothingOpen
       /\ ticker # "mark"
       /\ at["receiver"] \in {"receive", "recovered", "consume", "status"}
  ELSE route_counter > 0

(* Only the newest command can be open, and it is answered last.           *)
LastOpen ==
  /\ \A i \in 1..Len(to_car) : to_car[i].open => i = Len(to_car)
  /\ to_car # <<>> => NothingOpen

(* Between two times that the outstanding command is forgotten, one        *)
(* command can take the place of another once: a WAIT of one that is none. *)
Times == route_counter + failures
LineBound ==
  route_counter > 0 =>
    /\ Len(to_car) <= Times + Times
    /\ pending # "WAIT" => Len(to_car) <= Times + Times - 1
    /\ pending = "NONE" => Len(to_car) <= Times + Times - 2

TypeInv == HostTyped /\ ThreadsTyped /\ LinesTyped /\ CarTyped
FlowInv == IndexInRoute /\ CleanStart /\ LastOpen /\ LineBound
MissionInv == TypeInv /\ FlowInv
-----------------------------------------------------------------------------
(* Numbers, and messages that are closed.                                  *)

LEMMA Numbers ==
  /\ Last \in Nat /\ Last > 0 /\ MaxRoute \in Nat /\ MaxRoute > 0
  /\ ReplyLength \in Nat /\ ReplyLength > 0
  /\ MaxHolds \in Nat /\ MaxFailures \in Nat
  BY MissionAssumption

(* The words the threads use.                                              *)
LEMMA Words ==
  /\ "NONE" \in Types /\ "WAYPOINT" \in Types /\ "GO" \in Types /\ "WAIT" \in Types
  /\ "NONE" \in Reasons /\ "COLLISION_RISK" \in Reasons
  /\ "WAYPOINT_REACHED" \in Reasons /\ "FINAL_WAYPOINT_REACHED" \in Reasons
  /\ "LOADING" \in MissionStates /\ "SWITCHING" \in MissionStates
  /\ "PARKED_CHECK" \in MissionStates /\ "DONE" \in MissionStates
  /\ "HELD" \in MissionStates /\ "RESUMING" \in MissionStates
  /\ "DRIVING" \in MissionStates /\ "IDLE" \in MissionStates
  BY DEF Types, Reasons, MissionStates

LEMMA ClosedKeeps ==
  ASSUME NEW S, NEW s \in Seq(S), \A x \in S : [x EXCEPT !.open = FALSE] \in S
  PROVE  /\ Closed(s) \in Seq(S) /\ Len(Closed(s)) = Len(s)
         /\ DOMAIN Closed(s) = DOMAIN s
         /\ \A i \in DOMAIN s : Closed(s)[i] = [s[i] EXCEPT !.open = FALSE]
<1> DEFINE f == Closed(s)
<1>1. s \in [1..Len(s) -> S] /\ Len(s) \in Nat /\ DOMAIN s = 1..Len(s)
  BY LenProperties
<1>2. f = [i \in 1..Len(s) |-> [s[i] EXCEPT !.open = FALSE]]
  BY <1>1 DEF Closed
<1>3. \A i \in 1..Len(s) : s[i] \in S
  BY <1>1
<1>4. f \in [1..Len(s) -> S]
  BY <1>2, <1>3
<1>5. f \in Seq(S)
  BY <1>1, <1>4, SeqDef
<1>6. DOMAIN f = 1..Len(f) /\ Len(f) \in Nat
  BY <1>5, LenProperties
<1>7. DOMAIN f = 1..Len(s)
  BY <1>2
<1>8. \A m, n \in Nat : 1..m = 1..n => m = n
  OBVIOUS
<1> HIDE DEF f
<1>9. Len(f) = Len(s)
  BY <1>1, <1>6, <1>7, <1>8
<1>10. QED
  BY <1>1, <1>2, <1>5, <1>7, <1>9 DEF f

LEMMA ClosedCommands ==
  ASSUME NEW s \in Seq(Command)
  PROVE  /\ Closed(s) \in Seq(Command) /\ Len(Closed(s)) = Len(s)
         /\ s = <<>> => Closed(s) = <<>>
         /\ \A i \in 1..Len(s) :
              /\ ~Closed(s)[i].open
              /\ Closed(s)[i].type = s[i].type /\ Closed(s)[i].target = s[i].target
              /\ Closed(s)[i].reason = s[i].reason
<1>1. \A x \in Command : /\ [x EXCEPT !.open = FALSE] \in Command
                         /\ ~[x EXCEPT !.open = FALSE].open
                         /\ [x EXCEPT !.open = FALSE].type = x.type
                         /\ [x EXCEPT !.open = FALSE].target = x.target
                         /\ [x EXCEPT !.open = FALSE].reason = x.reason
  BY DEF Command
<1>2. DOMAIN s = 1..Len(s) /\ \A i \in 1..Len(s) : s[i] \in Command
  BY LenProperties, ElementOfSeq
<1>3. /\ Closed(s) \in Seq(Command) /\ Len(Closed(s)) = Len(s)
      /\ \A i \in 1..Len(s) : Closed(s)[i] = [s[i] EXCEPT !.open = FALSE]
  BY <1>1, <1>2, ClosedKeeps
<1>4. s = <<>> => Closed(s) = <<>>
  BY <1>3, EmptySeq
<1>5. QED
  BY <1>1, <1>2, <1>3, <1>4

LEMMA ClosedReports ==
  ASSUME NEW s \in Seq(Report)
  PROVE  /\ Closed(s) \in Seq(Report) /\ Len(Closed(s)) = Len(s)
         /\ DOMAIN Closed(s) = DOMAIN s
         /\ \A i \in DOMAIN s :
              /\ ~Closed(s)[i].open
              /\ Closed(s)[i].state = s[i].state /\ Closed(s)[i].target = s[i].target
              /\ Closed(s)[i].result = s[i].result
<1>1. \A x \in Report : /\ [x EXCEPT !.open = FALSE] \in Report
                        /\ ~[x EXCEPT !.open = FALSE].open
                        /\ [x EXCEPT !.open = FALSE].state = x.state
                        /\ [x EXCEPT !.open = FALSE].target = x.target
                        /\ [x EXCEPT !.open = FALSE].result = x.result
  BY DEF Report
<1>2. DOMAIN s = 1..Len(s) /\ \A i \in 1..Len(s) : s[i] \in Report
  BY LenProperties, ElementOfSeq
<1>3. /\ Closed(s) \in Seq(Report) /\ Len(Closed(s)) = Len(s)
      /\ DOMAIN Closed(s) = DOMAIN s
      /\ \A i \in DOMAIN s : Closed(s)[i] = [s[i] EXCEPT !.open = FALSE]
  BY <1>1, ClosedKeeps
<1>4. QED
  BY <1>1, <1>2, <1>3

LEMMA ClosedReport ==
  ASSUME report \in Report
  PROVE  LET r == [report EXCEPT !.open = FALSE]
         IN  /\ r \in Report /\ ~r.open /\ r.state = report.state
             /\ r.target = report.target /\ r.result = report.result
  BY DEF Report

(* What is forgotten is answered no more.                                  *)
LEMMA Forgotten ==
  ASSUME LinesTyped, ClearOutstanding
  PROVE  /\ LinesTyped' /\ NothingOpen' /\ pending' = "NONE"
         /\ Len(to_car') = Len(to_car) /\ (to_car = <<>> => to_car' = <<>>)
         /\ \A i \in 1..Len(to_car') : ~to_car'[i].open
         /\ LastOpen'
<1> USE DEF LinesTyped
<1>1. /\ to_car' \in Seq(Command) /\ Len(to_car') = Len(to_car)
      /\ to_car = <<>> => to_car' = <<>>
      /\ \A i \in 1..Len(to_car') : ~to_car'[i].open
  BY ClosedCommands DEF ClearOutstanding
<1>2. /\ from_car' \in Seq(Report) /\ Len(from_car') = Len(from_car)
      /\ \A i \in DOMAIN from_car' : ~from_car'[i].open
  BY ClosedReports DEF ClearOutstanding
<1>3. report' \in Report /\ ~report'.open
  BY ClosedReport DEF ClearOutstanding
<1>4. NothingOpen'
  BY <1>2, <1>3 DEF NothingOpen
<1>5. QED
  BY <1>1, <1>2, <1>3, <1>4, Numbers DEF ClearOutstanding, LastOpen
-----------------------------------------------------------------------------
(* A thread that goes on, and one that has something to send or to write.  *)

LEMMA CameraGoes ==
  ASSUME ThreadsTyped, NEW p \in CameraPlaces \ {"send"}, GoTo("camera", p)
  PROVE  /\ ThreadsTyped' /\ at'["camera"] = p /\ call'["camera"] = NoCall
         /\ at'["receiver"] = at["receiver"] /\ call'["receiver"] = call["receiver"]
<1> USE DEF ThreadsTyped, GoTo, Threads
<1>1. at' \in [Threads -> Places]
  BY DEF CameraPlaces, Places
<1>2. NoCall \in Call /\ NoCall.then = "dead"
  BY DEF NoCall, Call, Types, Reasons, MissionStates, Places
<1>3. QED
  BY <1>1, <1>2

LEMMA ReceiverGoes ==
  ASSUME ThreadsTyped, NEW p \in ReceiverPlaces \ {"send"}, GoTo("receiver", p)
  PROVE  /\ ThreadsTyped' /\ at'["receiver"] = p /\ call'["receiver"] = NoCall
         /\ at'["camera"] = at["camera"] /\ call'["camera"] = call["camera"]
<1> USE DEF ThreadsTyped, GoTo, Threads
<1>1. at' \in [Threads -> Places]
  BY DEF ReceiverPlaces, Places
<1>2. NoCall \in Call /\ NoCall.then = "dead" /\ NoCall.next = "NONE"
  BY DEF NoCall, Call, Types, Reasons, MissionStates, Places
<1>3. QED
  BY <1>1, <1>2

LEMMA CameraBegins ==
  ASSUME ThreadsTyped, NEW type \in Types, NEW reason \in Reasons,
         NEW next \in MissionStates, NEW then \in {"judge", "collide", "resume"},
         Begin("camera", type, reason, next, then)
  PROVE  /\ ThreadsTyped'
         /\ at'["camera"] = IF type = "NONE" THEN "write" ELSE "send"
         /\ call'["camera"].type = type /\ call'["camera"].reason = reason
         /\ call'["camera"].next = next /\ call'["camera"].then = then
         /\ at'["receiver"] = at["receiver"] /\ call'["receiver"] = call["receiver"]
<1> USE DEF ThreadsTyped, Begin, Threads
<1> DEFINE c == [type |-> type, reason |-> reason, next |-> next, then |-> then]
<1>1. /\ c \in Call /\ c.type = type /\ c.reason = reason
      /\ c.next = next /\ c.then = then
  BY DEF Call, Places
<1>2. at' \in [Threads -> Places] /\ at'["camera"] \in CameraPlaces
  BY DEF Places, CameraPlaces
<1>3. call' = [call EXCEPT !["camera"] = c]
  BY DEF Begin
<1> HIDE DEF c
<1>4. QED
  BY <1>1, <1>2, <1>3 DEF c

LEMMA ReceiverBegins ==
  ASSUME ThreadsTyped, NEW type \in Types, NEW reason \in Reasons,
         NEW next \in {"LOADING", "RESUMING", "DRIVING"},
         NEW then \in {"receive", "consume", "status"},
         Begin("receiver", type, reason, next, then)
  PROVE  /\ ThreadsTyped'
         /\ at'["receiver"] = IF type = "NONE" THEN "write" ELSE "send"
         /\ call'["receiver"].type = type /\ call'["receiver"].reason = reason
         /\ call'["receiver"].next = next /\ call'["receiver"].then = then
         /\ at'["camera"] = at["camera"] /\ call'["camera"] = call["camera"]
<1> USE DEF ThreadsTyped, Begin, Threads
<1> DEFINE c == [type |-> type, reason |-> reason, next |-> next, then |-> then]
<1>1. /\ c \in Call /\ c.type = type /\ c.reason = reason
      /\ c.next = next /\ c.then = then
  BY DEF Call, Places, MissionStates
<1>2. at' \in [Threads -> Places] /\ at'["receiver"] \in ReceiverPlaces
  BY DEF Places, ReceiverPlaces
<1>3. call' = [call EXCEPT !["receiver"] = c]
  BY DEF Begin
<1> HIDE DEF c
<1>4. QED
  BY <1>1, <1>2, <1>3 DEF c
-----------------------------------------------------------------------------
(* The camera thread.                                                      *)

LEMMA CameraKeeps ==
  ASSUME MissionInv, ThreadsTyped', HostTyped', at["camera"] # "start",
         at'["camera"] # "start", UNCHANGED <<missionVars, linkVars, report>>,
         UNCHANGED <<failures, carVars>>,
         About("camera", "SWITCHING")' =>
           mission.state = "DRIVING" /\ mission.index < Last
  PROVE  MissionInv'
<1> USE DEF MissionInv, TypeInv, FlowInv, missionVars, linkVars, carVars
<1>1. LinesTyped' /\ CarTyped'
  BY DEF LinesTyped, CarTyped
<1>2. IndexInRoute'
  BY DEF IndexInRoute
<1>3. CleanStart'
  BY DEF CleanStart
<1>4. LastOpen' /\ LineBound'
  BY DEF LastOpen, NothingOpen, LineBound, Times
<1>5. QED
  BY <1>1, <1>2, <1>3, <1>4

LEMMA FirstBound ==
  failures \in Nat /\ Len(to_car) = 0 /\ route_counter = 1 => LineBound
  BY DEF LineBound, Times

LEMMA StartMissionStep ==
  ASSUME MissionInv, StartMission
  PROVE  MissionInv'
<1> USE DEF MissionInv, TypeInv, FlowInv, StartMission
<1>1. /\ mission.state = "NONE" /\ route_counter = 0 /\ to_car = <<>>
      /\ route_counter' = 1
      /\ mission' = [state |-> "IDLE", route |-> 1, index |-> 0]
  BY DEF CleanStart, NewMission, NextRoute
<1>2. /\ ThreadsTyped' /\ at'["camera"] = "send"
      /\ call'["camera"].next = "LOADING"
  BY CameraBegins, Words
<1>3. HostTyped'
  <2>1. mission' \in MissionRecord
    BY <1>1, Numbers DEF MissionRecord, MissionStates
  <2>2. QED
    BY <1>1, <2>1, Numbers DEF HostTyped, linkVars, runnerVars, failVars
<1>4. LinesTyped' /\ CarTyped'
  BY DEF LinesTyped, CarTyped, linkVars, carVars
<1>5. IndexInRoute' /\ CleanStart'
  BY <1>1, <1>2 DEF IndexInRoute, CleanStart, About
<1>6. LastOpen'
  BY DEF LastOpen, NothingOpen, linkVars
<1>7. LineBound'
  <2>1. Len(to_car') = 0 /\ failures' \in Nat
    BY <1>1, <1>3, EmptySeq, Numbers DEF linkVars, HostTyped
  <2>2. (failures \in Nat /\ Len(to_car) = 0 /\ route_counter = 1)'
    BY <1>1, <2>1
  <2>3. QED
    BY <2>2, FirstBound, PTL
<1>8. QED
  BY <1>2, <1>3, <1>4, <1>5, <1>6, <1>7

LEMMA JudgeStep ==
  ASSUME MissionInv, Judge
  PROVE  MissionInv'
<1> USE DEF MissionInv, TypeInv, Judge
<1>1. HostTyped'
  BY DEF HostTyped, missionVars, linkVars, runnerVars, failVars
<1>2. /\ ThreadsTyped' /\ at'["camera"] # "start"
      /\ About("camera", "SWITCHING")' =>
           mission.state = "DRIVING" /\ mission.index < Last
  <2> USE DEF About, InCall
  <2>1. CASE /\ mission.state = "DRIVING" /\ Reached
             /\ Begin("camera", "WAIT", "FINAL_WAYPOINT_REACHED", "PARKED_CHECK",
                      "collide")
    BY <2>1, CameraBegins, Words
  <2>2. CASE /\ mission.state = "DRIVING" /\ Reached
             /\ Begin("camera", "WAIT", "WAYPOINT_REACHED", "SWITCHING", "collide")
    BY <2>2, CameraBegins, Words
    DEF Reached, CurrentIndex
  <2>3. CASE Begin("camera", "NONE", "NONE", "DONE", "collide")
    BY <2>3, CameraBegins, Words
  <2>4. CASE GoTo("camera", "collide")
    BY <2>4, CameraGoes DEF CameraPlaces
  <2>5. QED
    BY <2>1, <2>2, <2>3, <2>4
<1>3. QED
  BY <1>1, <1>2, CameraKeeps DEF failVars

LEMMA HoldGoes ==
  ASSUME ThreadsTyped, Hold
  PROVE  /\ ThreadsTyped' /\ at'["camera"] # "start"
         /\ ~About("camera", "SWITCHING")'
<1> USE DEF About, InCall
<1>1. CASE Active
  BY <1>1, CameraBegins DEF Hold, Types, Reasons, MissionStates
<1>2. CASE ~Active
  BY <1>2, CameraGoes DEF Hold, CameraPlaces
<1>3. QED
  BY <1>1, <1>2

LEMMA CollideStep ==
  ASSUME MissionInv, Collide
  PROVE  MissionInv'
<1> USE DEF MissionInv, TypeInv, Collide
<1>1. /\ ThreadsTyped' /\ at'["camera"] # "start"
      /\ ~About("camera", "SWITCHING")'
  <2>1. CASE GoTo("camera", "resume")
    BY <2>1, CameraGoes DEF CameraPlaces, About, InCall
  <2>2. QED
    BY <2>1, HoldGoes
<1>2. HostTyped'
  <2>1. holds \in 0..MaxHolds => holds' \in 0..MaxHolds
    BY Numbers
  <2>2. at_risk' \in BOOLEAN /\ (collision_held' = collision_held \/ collision_held')
    OBVIOUS
  <2>3. QED
    BY <2>1, <2>2 DEF HostTyped, missionVars, linkVars, failVars
<1>3. QED
  BY <1>1, <1>2, CameraKeeps DEF failVars

LEMMA ResumeStep ==
  ASSUME MissionInv, Resume
  PROVE  MissionInv'
<1> USE DEF MissionInv, TypeInv, Resume
<1>1. /\ ThreadsTyped' /\ at'["camera"] # "start"
      /\ ~About("camera", "SWITCHING")'
  <2> USE DEF About, InCall
  <2>1. CASE GoTo("camera", "judge")
    BY <2>1, CameraGoes DEF CameraPlaces
  <2>2. CASE Begin("camera", "GO", "NONE", "RESUMING", "judge")
    BY <2>2, CameraBegins, Words
  <2>3. QED
    BY <2>1, <2>2 DEF ResumeHeld
<1>2. HostTyped'
  BY DEF HostTyped, missionVars, linkVars, failVars
<1>3. QED
  BY <1>1, <1>2, CameraKeeps DEF failVars
-----------------------------------------------------------------------------
(* What both threads do: send, and write.                                  *)

LEMMA CurrentTyped ==
  ASSUME mission \in MissionRecord
  PROVE  Current \in Target
<1>1. ASSUME CurrentIndex PROVE Route[mission.index + 1].id = mission.index + 1
  BY <1>1, Numbers DEF Route, Waypoint, CurrentIndex, MissionRecord
<1>2. QED
  BY <1>1, Numbers DEF Current, CurrentIndex, Target, MissionRecord

(* A thread that may send puts one more command on the line, at a higher   *)
(* level than the one it replaces.                                         *)
LEMMA Sent ==
  ASSUME MissionInv, NEW t \in Threads, at[t] = "send", route_counter > 0,
         MayReplace(call[t].type), pending' = call[t].type,
         to_car' = Append(Closed(to_car), Message(call[t])),
         from_car' = Closed(from_car), report' = [report EXCEPT !.open = FALSE],
         UNCHANGED <<route_counter, failures>>
  PROVE  LinesTyped' /\ LastOpen' /\ LineBound' /\ pending' \in Types
<1> DEFINE m == Message(call[t])
           s == Closed(to_car)
<1> USE DEF MissionInv, TypeInv, FlowInv, LinesTyped
<1>1. /\ call[t].type \in Types \ {"NONE"} /\ call[t].reason \in Reasons
  BY DEF ThreadsTyped, Call
<1>2. m \in Command
  BY <1>1, CurrentTyped DEF Message, Command, HostTyped
<1>3. /\ s \in Seq(Command) /\ Len(s) = Len(to_car) /\ Len(to_car) \in Nat
      /\ \A i \in 1..Len(s) : ~s[i].open
  BY ClosedCommands, LenProperties
<1>4. to_car' = Append(s, m)
  OBVIOUS
<1> HIDE DEF m, s
<1>5. /\ to_car' \in Seq(Command) /\ Len(to_car') = Len(to_car) + 1
      /\ \A i \in 1..Len(to_car') : i # Len(to_car') => ~to_car'[i].open
  BY <1>2, <1>3, <1>4, AppendProperties
<1>6. /\ from_car' \in Seq(Report) /\ Len(from_car') = Len(from_car)
      /\ \A i \in DOMAIN from_car' : ~from_car'[i].open
  BY ClosedReports
<1>7. report' \in Report /\ ~report'.open
  BY ClosedReport
<1>8. LineBound'
  <2>1. failures \in Nat /\ route_counter \in Nat
    BY Numbers DEF HostTyped
  <2>2. /\ pending' # "NONE"
        /\ pending = "NONE" \/ (pending # "WAIT" /\ pending' = "WAIT")
    BY <1>1 DEF MayReplace, Priority, Types
  <2>3. QED
    BY <1>3, <1>5, <2>1, <2>2 DEF LineBound, Times
<1>9. QED
  BY <1>1, <1>5, <1>6, <1>7, <1>8 DEF LastOpen, NothingOpen

LEMMA SendCallStep ==
  ASSUME MissionInv, NEW t \in Threads, SendCall(t)
  PROVE  MissionInv'
<1> USE DEF MissionInv, TypeInv, FlowInv, SendCall
<1>1. route_counter > 0 /\ at["camera"] # "start"
  BY DEF CleanStart, Threads
<1>2. CASE MayReplace(call[t].type) /\ at' = [at EXCEPT ![t] = "write"]
  <2>1. LinesTyped' /\ LastOpen' /\ LineBound' /\ pending' \in Types
    BY <1>1, <1>2, Sent DEF missionVars, failVars, linkVars
  <2>2. HostTyped' /\ CarTyped'
    BY <2>1 DEF HostTyped, CarTyped, missionVars, runnerVars, failVars, carVars
  <2>3. ThreadsTyped'
    BY <1>2 DEF ThreadsTyped, Threads, Places, CameraPlaces, ReceiverPlaces, linkVars
  <2>4. IndexInRoute' /\ CleanStart'
    BY <1>1, <1>2, <2>3
    DEF IndexInRoute, CleanStart, About, InCall, missionVars, ThreadsTyped, Threads,
        linkVars
  <2>5. QED
    BY <2>1, <2>2, <2>3, <2>4
<1>3. CASE ~MayReplace(call[t].type)
  <2>1. HostTyped' /\ LinesTyped' /\ CarTyped'
    BY <1>3
    DEF HostTyped, LinesTyped, CarTyped, missionVars, linkVars, runnerVars,
        failVars, carVars
  <2>2. LastOpen' /\ LineBound'
    BY <1>3
    DEF LastOpen, NothingOpen, LineBound, Times, missionVars, linkVars, failVars
  <2>3. CASE t = "camera"
    <3>1. /\ ThreadsTyped' /\ at'["camera"] \in {"judge", "dead"}
          /\ at'["receiver"] = at["receiver"]
      BY <1>3, <2>3, CameraGoes DEF CameraPlaces
    <3>2. QED
      BY <1>1, <2>1, <2>2, <3>1
      DEF IndexInRoute, CleanStart, About, InCall, missionVars
  <2>4. CASE t = "receiver"
    <3>1. /\ ThreadsTyped' /\ at'["camera"] = at["camera"]
          /\ call'["camera"] = call["camera"]
      BY <1>3, <2>4, ReceiverGoes DEF ReceiverPlaces
    <3>2. QED
      BY <1>1, <2>1, <2>2, <3>1
      DEF IndexInRoute, CleanStart, About, InCall, missionVars
  <2>5. QED
    BY <2>3, <2>4 DEF Threads
<1>4. QED
  BY <1>2, <1>3

LEMMA WriteStateStep ==
  ASSUME MissionInv, NEW t \in Threads, WriteState(t)
  PROVE  MissionInv'
<1> USE DEF MissionInv, TypeInv, FlowInv, WriteState
<1>1. route_counter > 0 /\ at["camera"] # "start"
  BY DEF CleanStart, Threads
<1>2. /\ mission' \in MissionRecord /\ mission'.state = call[t].next
      /\ mission'.index = mission.index
  BY DEF HostTyped, MissionRecord, ThreadsTyped, Call
<1>3. HostTyped' /\ LinesTyped' /\ CarTyped' /\ LastOpen' /\ LineBound'
  BY <1>2
  DEF HostTyped, LinesTyped, CarTyped, linkVars, runnerVars, failVars, carVars,
      LastOpen, NothingOpen, LineBound, Times
<1>4. CASE t = "camera"
  <2>1. /\ ThreadsTyped' /\ at'["receiver"] = at["receiver"]
        /\ at'["camera"] \in {"judge", "collide", "resume", "dead"}
    BY <1>4, CameraGoes DEF CameraPlaces, ThreadsTyped
  <2>2. QED
    BY <1>1, <1>2, <1>3, <1>4, <2>1 DEF IndexInRoute, CleanStart, About, InCall
<1>5. CASE t = "receiver"
  <2>1. /\ ThreadsTyped' /\ at'["camera"] = at["camera"]
        /\ call'["camera"] = call["camera"] /\ mission'.state # "SWITCHING"
    BY <1>2, <1>5, ReceiverGoes DEF ReceiverPlaces, ThreadsTyped
  <2>2. QED
    BY <1>1, <1>2, <1>3, <1>5, <2>1 DEF IndexInRoute, CleanStart, About, InCall
<1>6. QED
  BY <1>4, <1>5 DEF Threads
-----------------------------------------------------------------------------
(* The receiving thread.                                                   *)

LEMMA BoundFrom ==
  \A k, n \in Nat : Times = k /\ Len(to_car) = n /\ n <= k + k - 2 => LineBound
  BY DEF LineBound

LEMMA NextBoundFrom ==
  (\A k, n \in Nat : Times = k /\ Len(to_car) = n /\ n <= k + k - 2 => LineBound)'
  BY BoundFrom, PTL

LEMMA ReceiverKeeps ==
  ASSUME MissionInv, ThreadsTyped', HostTyped', at["receiver"] # "rejected",
         at'["camera"] = at["camera"], call'["camera"] = call["camera"],
         at["camera"] = "start" => at'["receiver"] \in {"consume", "status", "receive"},
         UNCHANGED <<missionVars, linkVars, report>>,
         UNCHANGED <<failures, carVars>>, ticker' = ticker
  PROVE  MissionInv'
<1> USE DEF MissionInv, TypeInv, FlowInv, missionVars, linkVars, carVars
<1>1. LinesTyped' /\ CarTyped'
  BY DEF LinesTyped, CarTyped
<1>2. IndexInRoute'
  BY DEF IndexInRoute, About, InCall
<1>3. CleanStart'
  BY DEF CleanStart, NothingOpen
<1>4. LastOpen' /\ LineBound'
  BY DEF LastOpen, NothingOpen, LineBound, Times
<1>5. QED
  BY <1>1, <1>2, <1>3, <1>4

LEMMA ReceiveStep ==
  ASSUME MissionInv, Receive
  PROVE  MissionInv'
<1> USE DEF MissionInv, TypeInv, FlowInv, Receive
<1>1. /\ ThreadsTyped' /\ at'["receiver"] \in {"recovered", "consume"}
      /\ at'["camera"] = at["camera"] /\ call'["camera"] = call["camera"]
  BY ReceiverGoes DEF ReceiverPlaces
<1>2. LinesTyped'
  <2>1. /\ report' \in Report /\ from_car' \in Seq(Report)
        /\ Len(from_car') = Len(from_car) - 1 /\ Len(from_car) \in Nat
    BY HeadTailProperties, LenProperties DEF LinesTyped
  <2>2. QED
    BY <2>1, Numbers DEF LinesTyped
<1>3. HostTyped' /\ CarTyped'
  BY DEF HostTyped, CarTyped, missionVars, runnerVars, carVars
<1>4. NothingOpen => NothingOpen'
  <2>1. /\ from_car \in Seq(Report) /\ from_car # <<>> /\ report' = from_car[1]
        /\ \A i \in DOMAIN from_car' : from_car'[i] = from_car[i + 1]
        /\ \A i \in DOMAIN from_car' : i + 1 \in DOMAIN from_car
        /\ 1 \in DOMAIN from_car
    BY DEF LinesTyped
  <2>2. QED
    BY <2>1 DEF NothingOpen
<1>5. IndexInRoute' /\ CleanStart'
  BY <1>1, <1>4 DEF IndexInRoute, CleanStart, About, InCall, missionVars
<1>6. LastOpen' /\ LineBound'
  BY <1>4 DEF LastOpen, LineBound, Times, missionVars
<1>7. QED
  BY <1>1, <1>2, <1>3, <1>5, <1>6

(* A mission planned anew, or held for want of another route.              *)
LEMMA ReplanKeeps ==
  ASSUME MissionInv, at["camera"] # "start" \/ mission.state = "NONE",
         NEW state \in {mission.state, "HELD"},
         mission.state = "NONE" => state = "NONE" \/ at["camera"] # "start",
         NEW then \in {"consume", "status"}, Replan(state, then),
         UNCHANGED <<runnerVars, comm_failed, ticker, failures, carVars, holds>>,
         comm_lost' \in BOOLEAN
  PROVE  MissionInv'
<1> USE DEF MissionInv, TypeInv, FlowInv
<1>1. state \in MissionStates
  BY DEF HostTyped, MissionRecord, MissionStates
<1>2. CarTyped'
  BY DEF CarTyped, carVars
<1>3. CASE mission.state = "NONE" \/ route_counter = MaxRoute
  <2>1. /\ ThreadsTyped' /\ at'["receiver"] = then
        /\ at'["camera"] = at["camera"] /\ call'["camera"] = call["camera"]
    BY <1>3, ReceiverGoes DEF Replan, ReceiverPlaces
  <2>2. /\ mission' \in MissionRecord /\ mission'.state = state
        /\ mission'.index = mission.index
        /\ UNCHANGED <<route_counter, linkVars, report>>
    BY <1>1, <1>3 DEF Replan, HostTyped, MissionRecord
  <2>3. HostTyped' /\ LinesTyped'
    BY <2>2 DEF HostTyped, LinesTyped, linkVars, runnerVars
  <2>4. LastOpen' /\ LineBound'
    BY <2>2 DEF LastOpen, NothingOpen, LineBound, Times, linkVars
  <2>5. IndexInRoute' /\ CleanStart'
    BY <2>1, <2>2
    DEF IndexInRoute, CleanStart, NothingOpen, About, InCall, linkVars
  <2>6. QED
    BY <1>2, <2>1, <2>3, <2>4, <2>5
<1>4. CASE ~(mission.state = "NONE" \/ route_counter = MaxRoute)
  <2>1. /\ NewMission(state) /\ ClearOutstanding
        /\ Begin("receiver", "WAYPOINT", "NONE", "LOADING", then)
    BY <1>4 DEF Replan, Regenerate
  <2>2. /\ ThreadsTyped' /\ at'["receiver"] = "send"
        /\ at'["camera"] = at["camera"] /\ call'["camera"] = call["camera"]
    BY <2>1, ReceiverBegins, Words
  <2>3. /\ LinesTyped' /\ NothingOpen' /\ pending' = "NONE" /\ LastOpen'
        /\ Len(to_car') = Len(to_car)
    BY <2>1, Forgotten
  <2>4. /\ route_counter \in 0..(MaxRoute - 1)
        /\ route_counter' = route_counter + 1
    BY <1>4, <2>1, Numbers DEF NewMission, NextRoute, HostTyped
  <2>5. /\ mission' \in MissionRecord /\ mission'.state = state
        /\ mission'.index = 0
    BY <1>1, <2>1, <2>4, Numbers DEF NewMission, MissionRecord
  <2>6. HostTyped'
    BY <2>3, <2>4, <2>5, Numbers, Words DEF HostTyped, runnerVars
  <2>7. IndexInRoute'
    BY <2>2, <2>5, Numbers DEF IndexInRoute, About, InCall
  <2>8. CleanStart'
    BY <1>4, <2>2, <2>4 DEF CleanStart
  <2>9. LineBound'
    <3>1. Times \in Nat /\ Len(to_car) \in Nat /\ Len(to_car) <= Times + Times
      BY <1>4, LenProperties, Numbers
      DEF CleanStart, LineBound, Times, HostTyped, LinesTyped
    <3>2. Times' = Times + 1
      BY <2>4, Numbers DEF Times, HostTyped
    <3>3. QED
      BY <2>3, <3>1, <3>2, NextBoundFrom
  <2>10. QED
    BY <1>2, <2>2, <2>3, <2>6, <2>7, <2>8, <2>9
<1>5. QED
  BY <1>3, <1>4

LEMMA RecoveredStep ==
  ASSUME MissionInv, Recovered
  PROVE  MissionInv'
<1> USE DEF MissionInv, TypeInv, FlowInv, Recovered
<1>1. CASE Replan(mission.state, "consume")
  BY <1>1, ReplanKeeps DEF CleanStart
<1>2. CASE ~comm_lost /\ GoTo("receiver", "consume")
  <2>1. /\ ThreadsTyped' /\ at'["receiver"] = "consume"
        /\ at'["camera"] = at["camera"] /\ call'["camera"] = call["camera"]
    BY <1>2, ReceiverGoes DEF ReceiverPlaces
  <2>2. HostTyped'
    BY <1>2 DEF HostTyped, missionVars, linkVars, runnerVars
  <2>3. QED
    BY <1>2, <2>1, <2>2, ReceiverKeeps
<1>3. QED
  BY <1>1, <1>2

LEMMA RejectedStep ==
  ASSUME MissionInv, Rejected
  PROVE  MissionInv'
<1> USE DEF MissionInv, TypeInv, FlowInv, Rejected
<1>1. at["camera"] # "start" /\ comm_lost' \in BOOLEAN
  BY DEF CleanStart, HostTyped, failVars
<1>2. CASE Replan("HELD", "status")
  BY <1>1, <1>2, ReplanKeeps DEF failVars
<1>3. CASE report.result = "INVALID_STATE"
  <2>1. /\ ThreadsTyped' /\ at'["camera"] = at["camera"]
        /\ call'["camera"] = call["camera"]
    BY <1>3, ReceiverGoes DEF ReceiverPlaces
  <2>2. /\ mission' \in MissionRecord /\ mission'.state = "HELD"
        /\ mission'.index = mission.index
        /\ UNCHANGED <<route_counter, linkVars, report>>
    BY <1>3, Words DEF HostTyped, MissionRecord
  <2>3. HostTyped' /\ LinesTyped' /\ CarTyped'
    BY <2>2 DEF HostTyped, LinesTyped, CarTyped, linkVars, runnerVars, failVars,
                carVars
  <2>4. LastOpen' /\ LineBound'
    BY <2>2 DEF LastOpen, NothingOpen, LineBound, Times, linkVars, failVars
  <2>5. IndexInRoute' /\ CleanStart'
    BY <1>1, <2>1, <2>2 DEF IndexInRoute, CleanStart, About, InCall
  <2>6. QED
    BY <2>1, <2>3, <2>4, <2>5
<1>4. QED
  BY <1>2, <1>3

LEMMA ConsumeStep ==
  ASSUME MissionInv, Consume
  PROVE  MissionInv'
<1> USE DEF MissionInv, TypeInv, FlowInv, Consume
<1>1. CASE /\ report.open /\ pending' = AfterAnswer
           /\ report' = [report EXCEPT !.open = FALSE]
           /\ GoTo("receiver",
                   IF report.result \in Negative THEN "rejected" ELSE "status")
  <2>1. to_car = <<>> /\ at["camera"] # "start"
    BY <1>1 DEF LastOpen, NothingOpen, CleanStart
  <2>2. /\ ThreadsTyped' /\ at'["camera"] = at["camera"]
        /\ call'["camera"] = call["camera"]
    BY <1>1, ReceiverGoes DEF ReceiverPlaces
  <2>3. report' \in Report /\ ~report'.open
    BY <1>1, ClosedReport DEF LinesTyped
  <2>4. HostTyped' /\ LinesTyped' /\ CarTyped'
    BY <1>1, <2>3, Words
    DEF HostTyped, LinesTyped, CarTyped, AfterAnswer, missionVars, runnerVars,
        failVars, carVars
  <2>5. IndexInRoute' /\ CleanStart'
    BY <2>1, <2>2 DEF IndexInRoute, CleanStart, About, InCall, missionVars
  <2>6. LastOpen'
    BY <2>1, EmptySeq DEF LastOpen
  <2>7. LineBound'
    <3>1. /\ Times \in Nat /\ 0 <= Times + Times - 2
      BY <2>1, Numbers DEF CleanStart, Times, HostTyped
    <3>2. Times' = Times /\ Len(to_car') = 0
      BY <2>1, EmptySeq DEF Times, missionVars, failVars
    <3>3. QED
      BY <3>1, <3>2, NextBoundFrom
  <2>8. QED
    BY <2>2, <2>4, <2>5, <2>6, <2>7
<1>2. CASE GoTo("receiver", "status") /\ UNCHANGED <<pending, report>>
  <2>1. /\ ThreadsTyped' /\ at'["receiver"] = "status"
        /\ at'["camera"] = at["camera"] /\ call'["camera"] = call["camera"]
    BY <1>2, ReceiverGoes DEF ReceiverPlaces
  <2>2. HostTyped'
    BY <1>2 DEF HostTyped, missionVars, runnerVars, failVars
  <2>3. QED
    BY <1>2, <2>1, <2>2, ReceiverKeeps DEF failVars, linkVars
<1>3. QED
  BY <1>1, <1>2

LEMMA VehicleStatusStep ==
  ASSUME MissionInv, VehicleStatus
  PROVE  MissionInv'
<1> USE DEF MissionInv, TypeInv, FlowInv, VehicleStatus
<1>1. CASE /\ Switched
           /\ mission' = [mission EXCEPT
                            !.index = NextIndex,
                            !.state = IF NextIndex < Last THEN @ ELSE "DONE"]
           /\ IF NextIndex < Last
              THEN Begin("receiver", "WAYPOINT", "NONE", "LOADING", "receive")
              ELSE GoTo("receiver", "receive")
  <2>1. /\ mission.state = "SWITCHING" /\ mission.index < Last
        /\ at["camera"] # "start" /\ ~About("camera", "SWITCHING")
    BY <1>1 DEF Switched, IndexInRoute, CleanStart
  <2>2. /\ ThreadsTyped' /\ at'["camera"] = at["camera"]
        /\ call'["camera"] = call["camera"]
    <3>1. CASE Begin("receiver", "WAYPOINT", "NONE", "LOADING", "receive")
      BY <3>1, ReceiverBegins, Words
    <3>2. CASE GoTo("receiver", "receive")
      BY <3>2, ReceiverGoes DEF ReceiverPlaces
    <3>3. QED
      BY <1>1, <3>1, <3>2
  <2>3. /\ mission' \in MissionRecord /\ mission'.index = mission.index + 1
        /\ mission'.state = "SWITCHING" => mission'.index < Last
    <3>1. mission.index + 1 \in 0..Last /\ mission.index + 1 = NextIndex
      BY <2>1, Numbers DEF HostTyped, MissionRecord, NextIndex
    <3>2. mission \in MissionRecord /\ "DONE" \in MissionStates
      BY Words DEF HostTyped
    <3>3. mission.state \in MissionStates
      BY <3>2 DEF MissionRecord
    <3>4. QED
      BY <1>1, <3>1, <3>2, <3>3 DEF MissionRecord
  <2>4. HostTyped' /\ LinesTyped' /\ CarTyped' /\ LastOpen' /\ LineBound'
    BY <2>3
    DEF HostTyped, LinesTyped, CarTyped, linkVars, runnerVars, failVars, carVars,
        LastOpen, NothingOpen, LineBound, Times
  <2>5. IndexInRoute' /\ CleanStart'
    BY <2>1, <2>2, <2>3 DEF IndexInRoute, CleanStart, About, InCall
  <2>6. QED
    BY <2>2, <2>4, <2>5
<1>2. CASE /\ UNCHANGED mission
           /\ \/ Loaded /\ Begin("receiver", "GO", "NONE", "RESUMING", "receive")
              \/ Started /\ Begin("receiver", "NONE", "NONE", "DRIVING", "receive")
              \/ GoTo("receiver", "receive")
  <2>1. /\ ThreadsTyped' /\ at'["camera"] = at["camera"]
        /\ call'["camera"] = call["camera"]
        /\ at["camera"] = "start" => at'["receiver"] = "receive"
    <3>1. CASE Loaded /\ Begin("receiver", "GO", "NONE", "RESUMING", "receive")
      BY <3>1, ReceiverBegins, Words DEF Loaded, CleanStart
    <3>2. CASE Started /\ Begin("receiver", "NONE", "NONE", "DRIVING", "receive")
      BY <3>2, ReceiverBegins, Words DEF Started, CleanStart
    <3>3. CASE GoTo("receiver", "receive")
      BY <3>3, ReceiverGoes DEF ReceiverPlaces
    <3>4. QED
      BY <1>2, <3>1, <3>2, <3>3
  <2>2. HostTyped'
    BY <1>2 DEF HostTyped, linkVars, runnerVars, failVars
  <2>3. QED
    BY <1>2, <2>1, <2>2, ReceiverKeeps DEF failVars, missionVars
<1>3. QED
  BY <1>1, <1>2
-----------------------------------------------------------------------------
(* The tick thread.                                                        *)

LEMMA CommFailStep ==
  ASSUME MissionInv, CommFail
  PROVE  MissionInv'
<1> USE DEF MissionInv, TypeInv, FlowInv, CommFail
<1>1. /\ LinesTyped' /\ NothingOpen' /\ pending' = "NONE" /\ LastOpen'
      /\ Len(to_car') = Len(to_car) /\ (to_car = <<>> => to_car' = <<>>)
  BY Forgotten
<1>2. failures \in 0..(MaxFailures - 1) /\ failures' = failures + 1
  BY Numbers DEF HostTyped
<1>3. HostTyped' /\ ThreadsTyped' /\ CarTyped'
  BY <1>1, <1>2, Numbers, Words
  DEF HostTyped, ThreadsTyped, CarTyped, missionVars, threadVars, runnerVars, carVars
<1>4. IndexInRoute' /\ CleanStart'
  BY <1>1
  DEF IndexInRoute, CleanStart, About, InCall, missionVars, threadVars
<1>5. LineBound'
  <2>1. CASE at["camera"] = "start"
    BY <2>1 DEF CleanStart, LineBound, missionVars
  <2>2. CASE at["camera"] # "start"
    <3>1. Times \in Nat /\ Len(to_car) \in Nat /\ Len(to_car) <= Times + Times
      BY <2>2, LenProperties, Numbers
      DEF CleanStart, LineBound, Times, HostTyped, LinesTyped
    <3>2. Times' = Times + 1
      BY <1>2, Numbers DEF Times, HostTyped, missionVars
    <3>3. QED
      BY <1>1, <3>1, <3>2, NextBoundFrom
  <2>3. QED
    BY <2>1, <2>2
<1>6. QED
  BY <1>1, <1>3, <1>4, <1>5

(* The tick thread tells of the failure, and holds a mission under way.    *)
LEMMA TickStep ==
  ASSUME MissionInv, TellFailure \/ MarkLinkLost
  PROVE  MissionInv'
<1> USE DEF MissionInv, TypeInv, FlowInv, TellFailure, MarkLinkLost
<1>1. /\ mission' \in MissionRecord /\ mission'.index = mission.index
      /\ mission'.state \in {mission.state, "HELD"}
      /\ at["camera"] = "start" => mission' = mission /\ ticker' # "mark"
  BY Words DEF HostTyped, MissionRecord, missionVars, CleanStart, Active
<1>2. HostTyped' /\ ThreadsTyped' /\ LinesTyped' /\ CarTyped'
  BY <1>1
  DEF HostTyped, ThreadsTyped, LinesTyped, CarTyped, missionVars, linkVars,
      threadVars, runnerVars, carVars
<1>3. IndexInRoute' /\ CleanStart'
  BY <1>1
  DEF IndexInRoute, CleanStart, NothingOpen, About, InCall, missionVars, linkVars,
      threadVars
<1>4. LastOpen' /\ LineBound'
  BY DEF LastOpen, NothingOpen, LineBound, Times, missionVars, linkVars
<1>5. QED
  BY <1>2, <1>3, <1>4
-----------------------------------------------------------------------------
(* The car.                                                                *)

LEMMA CarAnswers ==
  ASSUME CarTyped, NEW m \in Command
  PROVE  /\ AfterWaypoint(m) \in CarRecord /\ WaypointResult(m) \in Results
         /\ AfterGo(m) \in CarRecord /\ GoResult(m) \in Results
         /\ AfterWait(m) \in CarRecord /\ WaitResult(m) \in Results
<1> USE DEF CarTyped
<1>1. /\ car \in CarRecord /\ m.target \in Target /\ m.reason \in Reasons
  BY DEF Command
<1>2. AfterWaypoint(m) \in CarRecord
  BY <1>1 DEF AfterWaypoint, CarRecord, CarStates, Reasons
<1>3. AfterGo(m) \in CarRecord
  BY <1>1 DEF AfterGo, CarRecord, CarStates, Reasons
<1>4. AfterWait(m) \in CarRecord
  <2>1. "WAITING" \in CarStates /\ "REMOTE_WAIT" \in Reasons
    BY DEF CarStates, Reasons
  <2>2. (car.resumable /\ m.reason \notin Completing) \in BOOLEAN
    OBVIOUS
  <2>3. (IF OtherTarget(m) THEN "REMOTE_WAIT" ELSE m.reason) \in Reasons
    BY <1>1, <2>1
  <2> DEFINE reason == IF OtherTarget(m) THEN "REMOTE_WAIT" ELSE m.reason
             resumable == car.resumable /\ m.reason \notin Completing
  <2>4. AfterWait(m) = IF car.state = "READY" THEN car
                       ELSE [car EXCEPT !.state = "WAITING", !.reason = reason,
                                        !.resumable = resumable]
    BY <1>1 DEF AfterWait, CarRecord
  <2>5. reason \in Reasons /\ resumable \in BOOLEAN
    BY <2>2, <2>3
  <2> HIDE DEF reason, resumable
  <2>6. QED
    BY <1>1, <2>1, <2>4, <2>5 DEF CarRecord
<1>5. RouteFailure(m.target) \in Results
  BY DEF RouteFailure, Results
<1>6. /\ WaypointResult(m) \in Results /\ GoResult(m) \in Results
      /\ WaitResult(m) \in Results
  BY <1>5 DEF WaypointResult, GoResult, WaitResult, Results
<1>7. QED
  BY <1>2, <1>3, <1>4, <1>6

LEMMA CarHandlesStep ==
  ASSUME MissionInv, CarHandles
  PROVE  MissionInv'
<1> DEFINE m == Head(to_car)
           result == CASE m.type = "WAYPOINT" -> WaypointResult(m)
                       [] m.type = "GO" -> GoResult(m)
                       [] OTHER -> WaitResult(m)
           answer == [state |-> car'.state, target |-> car'.target,
                      result |-> result, open |-> m.open]
<1> USE DEF MissionInv, TypeInv, FlowInv
<1>1. /\ to_car # <<>> /\ Len(from_car) < ReplyLength
      /\ to_car' = Tail(to_car)
      /\ car' = CASE m.type = "WAYPOINT" -> AfterWaypoint(m)
                  [] m.type = "GO" -> AfterGo(m)
                  [] OTHER -> AfterWait(m)
      /\ from_car' = Append(from_car, answer)
      /\ UNCHANGED <<missionVars, pending, threadVars, report, runnerVars, failVars,
                     place, holds>>
  BY DEF CarHandles
<1>2. /\ m \in Command /\ m = to_car[1]
      /\ to_car' \in Seq(Command) /\ Len(to_car') = Len(to_car) - 1
      /\ Len(to_car) \in Nat /\ Len(to_car) > 0
      /\ \A i \in 1..Len(to_car') : to_car'[i] = to_car[i + 1]
  BY <1>1, HeadTailProperties, LenProperties, EmptySeq DEF LinesTyped
<1>3. car' \in CarRecord /\ result \in Results
  <2>1. CASE m.type = "WAYPOINT"
    BY <1>1, <1>2, <2>1, CarAnswers
  <2>2. CASE m.type = "GO"
    BY <1>1, <1>2, <2>2, CarAnswers
  <2>3. CASE m.type # "WAYPOINT" /\ m.type # "GO"
    BY <1>1, <1>2, <2>3, CarAnswers
  <2>4. QED
    BY <2>1, <2>2, <2>3
<1>4. answer \in Report /\ answer.open = m.open
  BY <1>2, <1>3 DEF Report, CarRecord, Command
<1> HIDE DEF m, result, answer
<1>5. /\ from_car' \in Seq(Report) /\ Len(from_car') = Len(from_car) + 1
      /\ Len(from_car) \in Nat
      /\ \A i \in DOMAIN from_car' : from_car'[i] = answer \/
           (i \in DOMAIN from_car /\ from_car'[i] = from_car[i])
  BY <1>1, <1>4, AppendProperties, LenProperties DEF LinesTyped
<1>6. HostTyped' /\ ThreadsTyped' /\ CarTyped'
  BY <1>1, <1>3
  DEF HostTyped, ThreadsTyped, CarTyped, missionVars, threadVars, runnerVars,
      failVars
<1>7. LinesTyped'
  BY <1>1, <1>2, <1>5, Numbers DEF LinesTyped
<1>8. IndexInRoute' /\ CleanStart'
  BY <1>1
  DEF IndexInRoute, CleanStart, About, InCall, missionVars, threadVars
<1>9. LastOpen'
  <2>1. /\ \A i \in 1..Len(to_car) : to_car[i].open => i = Len(to_car)
        /\ NothingOpen
    BY <1>1 DEF LastOpen
  <2>2. \A i \in 1..Len(to_car') : to_car'[i].open => i = Len(to_car')
    BY <1>2, <2>1
  <2>3. ASSUME to_car' # <<>> PROVE NothingOpen'
    <3>1. Len(to_car) # 1
      BY <1>2, <2>3, EmptySeq
    <3>2. ~m.open
      BY <1>2, <2>1, <3>1
    <3>3. QED
      BY <1>1, <1>4, <1>5, <2>1, <3>2 DEF NothingOpen
  <2>4. QED
    BY <2>2, <2>3 DEF LastOpen
<1>10. LineBound'
  <2>1. Times' = Times /\ Times \in Nat /\ pending' = pending
        /\ route_counter' = route_counter
    BY <1>1, Numbers DEF Times, missionVars, failVars, HostTyped
  <2>2. QED
    BY <1>2, <2>1 DEF LineBound
<1>11. QED
  BY <1>6, <1>7, <1>8, <1>9, <1>10

LEMMA CarReportsStep ==
  ASSUME MissionInv, CarReports
  PROVE  MissionInv'
<1> DEFINE r == [state |-> car.state, target |-> car.target,
                 result |-> "NONE", open |-> FALSE]
<1> USE DEF MissionInv, TypeInv, FlowInv
<1>1. r \in Report /\ ~r.open
  BY DEF Report, CarTyped, CarRecord, Results
<1>2. from_car' = <<r>>
  BY DEF CarReports
<1> HIDE DEF r
<1>3. /\ from_car' \in Seq(Report) /\ Len(from_car') = 1
      /\ \A i \in DOMAIN from_car' : from_car'[i] = r
  BY <1>1, <1>2
<1>4. HostTyped' /\ ThreadsTyped' /\ LinesTyped' /\ CarTyped'
  <2>1. LinesTyped'
    BY <1>3, Numbers DEF CarReports, LinesTyped
  <2>2. HostTyped' /\ ThreadsTyped' /\ CarTyped'
    BY DEF CarReports, HostTyped, ThreadsTyped, CarTyped, missionVars, threadVars,
           runnerVars, failVars, carVars
  <2>3. QED
    BY <2>1, <2>2
<1>5. NothingOpen => NothingOpen'
  <2>1. report' = report
    BY DEF CarReports
  <2>2. QED
    BY <1>1, <1>3, <2>1 DEF NothingOpen
<1>6. IndexInRoute' /\ CleanStart'
  BY <1>5
  DEF CarReports, IndexInRoute, CleanStart, About, InCall, missionVars, threadVars,
      failVars
<1>7. LastOpen' /\ LineBound'
  BY <1>5 DEF CarReports, LastOpen, LineBound, Times, missionVars, failVars
<1>8. QED
  BY <1>4, <1>6, <1>7

(* A car that comes to its waypoint changes nothing else.                  *)
LEMMA CarComesStep ==
  ASSUME MissionInv, CarArrives \/ CarCloses
  PROVE  MissionInv'
<1> USE DEF MissionInv, TypeInv, FlowInv, CarArrives, CarCloses
<1>1. CarTyped'
  <2>1. CASE CarArrives
    BY <2>1 DEF CarTyped, CarRecord
  <2>2. CASE CarCloses
    BY <2>2 DEF CarTyped
  <2>3. QED
    BY <2>1, <2>2
<1>2. HostTyped' /\ ThreadsTyped' /\ LinesTyped'
  BY DEF HostTyped, ThreadsTyped, LinesTyped, missionVars, linkVars, threadVars,
         runnerVars, failVars
<1>3. IndexInRoute' /\ CleanStart'
  BY DEF IndexInRoute, CleanStart, NothingOpen, About, InCall, missionVars, linkVars,
         threadVars, failVars
<1>4. LastOpen' /\ LineBound'
  BY DEF LastOpen, NothingOpen, LineBound, Times, missionVars, linkVars, failVars
<1>5. QED
  BY <1>1, <1>2, <1>3, <1>4
-----------------------------------------------------------------------------
(* The invariant.                                                          *)

LEMMA MissionInvInit == Init => MissionInv
<1> SUFFICES ASSUME Init PROVE MissionInv
  OBVIOUS
<1> USE DEF Init
<1>1. NoTarget \in Target
  BY Numbers DEF NoTarget, Target
<1>2. HostTyped
  <2>1. mission \in MissionRecord
    BY Numbers, Words DEF MissionRecord, MissionStates
  <2>2. {collision_held, at_risk, comm_failed, comm_lost} \subseteq BOOLEAN
    OBVIOUS
  <2>3. /\ route_counter \in 0..MaxRoute /\ holds \in 0..MaxHolds
        /\ failures \in 0..MaxFailures
    BY Numbers
  <2>4. QED
    BY <2>1, <2>2, <2>3, Words DEF HostTyped
<1>3. ThreadsTyped
  <2>1. NoCall \in Call /\ NoCall.then = "dead" /\ NoCall.next = "NONE"
    BY DEF NoCall, Call, Types, Reasons, MissionStates, Places
  <2>2. QED
    BY <2>1 DEF ThreadsTyped, Threads, Places, CameraPlaces, ReceiverPlaces
<1>4. NoReport \in Report /\ ~NoReport.open
  BY <1>1 DEF NoReport, Report, CarStates, Results
<1>5. LinesTyped /\ NothingOpen
  BY <1>4, Numbers, EmptySeq DEF LinesTyped, NothingOpen
<1>6. CarTyped
  BY <1>1 DEF CarTyped, CarRecord, CarStates, Reasons
<1>7. IndexInRoute /\ CleanStart
  BY <1>5 DEF IndexInRoute, CleanStart, About, InCall
<1>8. LastOpen /\ LineBound
  BY EmptySeq DEF LastOpen, LineBound
<1>9. QED
  BY <1>2, <1>3, <1>5, <1>6, <1>7, <1>8 DEF MissionInv, TypeInv, FlowInv

LEMMA MissionInvStep == MissionInv /\ [Next]_vars => MissionInv'
<1> SUFFICES ASSUME MissionInv, [Next]_vars PROVE MissionInv'
  OBVIOUS
<1>1. CASE CameraStep
  BY <1>1, StartMissionStep, JudgeStep, CollideStep, ResumeStep, SendCallStep,
     WriteStateStep DEF CameraStep, Threads
<1>2. CASE ReceiverStep
  BY <1>2, ReceiveStep, RecoveredStep, ConsumeStep, RejectedStep, VehicleStatusStep,
     SendCallStep, WriteStateStep DEF ReceiverStep, Threads
<1>3. CASE CommFail \/ TellFailure \/ MarkLinkLost
  BY <1>3, CommFailStep, TickStep
<1>4. CASE CarHandles \/ CarReports \/ CarArrives \/ CarCloses
  BY <1>4, CarHandlesStep, CarReportsStep, CarComesStep
<1>5. CASE UNCHANGED vars
  <2>1. TypeInv'
    BY <1>5
    DEF MissionInv, TypeInv, HostTyped, ThreadsTyped, LinesTyped, CarTyped, vars,
        missionVars, linkVars, threadVars, runnerVars, failVars, carVars
  <2>2. IndexInRoute' /\ CleanStart'
    BY <1>5
    DEF MissionInv, FlowInv, IndexInRoute, CleanStart, NothingOpen, About, InCall,
        vars, missionVars, linkVars, threadVars, failVars
  <2>3. LastOpen' /\ LineBound'
    BY <1>5
    DEF MissionInv, FlowInv, LastOpen, NothingOpen, LineBound, Times, vars,
        missionVars, linkVars, failVars
  <2>4. QED
    BY <2>1, <2>2, <2>3 DEF MissionInv, FlowInv
<1>6. QED
  BY <1>1, <1>2, <1>3, <1>4, <1>5 DEF Next

LEMMA MissionInvHolds == Spec => []MissionInv
  BY MissionInvInit, MissionInvStep, PTL DEF Spec

(* What TypeOK says of the lines to and from the car.                      *)
LEMMA MissionInvTyped == MissionInv => TypeOK
<1> SUFFICES ASSUME MissionInv PROVE TypeOK
  OBVIOUS
<1> USE DEF MissionInv, TypeInv, FlowInv
<1>1. route_counter \in Nat /\ failures \in Nat /\ Len(to_car) \in Nat
  BY LenProperties, Numbers DEF HostTyped, LinesTyped
<1>2. Len(to_car) <= 2 * (route_counter + failures)
  <2>1. CASE at["camera"] = "start"
    BY <1>1, <2>1, EmptySeq DEF CleanStart
  <2>2. CASE at["camera"] # "start"
    <3>1. Len(to_car) <= Times + Times
      BY <2>2, Numbers DEF CleanStart, LineBound, HostTyped
    <3>2. QED
      BY <1>1, <3>1 DEF Times
  <2>3. QED
    BY <2>1, <2>2
<1>3. QED
  BY <1>2
  DEF TypeOK, HostTyped, ThreadsTyped, LinesTyped, CarTyped, MissionRecord, CarRecord

(* The mission, its threads, what is on its way and the car stay in their  *)
(* types, and the line to the car never holds more than two messages for   *)
(* every route planned and every failure of the link.                      *)
THEOREM TypeCorrect == Spec => []TypeOK
  BY MissionInvHolds, MissionInvTyped, PTL
-----------------------------------------------------------------------------
(* The leg of a route, while the link has not failed.  What the camera     *)
(* thread judges by; and what it is to write after a judgement.            *)
Judging == {"SWITCHING", "PARKED_CHECK", "DONE"}
JudgedNext == InCall("camera") /\ call["camera"].next \in Judging

LinkQuiet ==
  /\ ~comm_failed /\ ~comm_lost /\ ticker = "idle"
  /\ at["receiver"] # "recovered"
  /\ at["receiver"] = "rejected" => report.result = "INVALID_STATE"

(* The command the car handles next.                                       *)
Comes(type) == Len(to_car) > 0 /\ to_car[1].type = type

(* The line holds the outstanding command, and at most the WAYPOINT or GO  *)
(* that a WAIT took the place of.                                          *)
OneCommand ==
  /\ Len(to_car) <= 2
  /\ pending = "NONE" => Len(to_car) = 0
  /\ Len(to_car) > 0 => to_car[Len(to_car)].type = pending
  /\ Len(to_car) = 2 => pending = "WAIT" /\ to_car[1].type \in {"WAYPOINT", "GO"}

(* What a thread sends says what it writes then.                           *)
CameraCall ==
  LET c == call["camera"]
  IN  \/ c.type = "WAYPOINT" /\ c.reason = "NONE" /\ c.next = "LOADING"
      \/ c.type = "GO" /\ c.reason = "NONE" /\ c.next = "RESUMING"
      \/ c.type = "WAIT" /\ c.reason = "COLLISION_RISK" /\ c.next = "HELD"
      \/ c.type = "WAIT" /\ c.reason = "WAYPOINT_REACHED" /\ c.next = "SWITCHING"
      \/ c.type = "WAIT" /\ c.reason = "FINAL_WAYPOINT_REACHED"
           /\ c.next = "PARKED_CHECK"
      \/ c.type = "NONE" /\ c.next = "DONE"
ReceiverCall ==
  LET c == call["receiver"]
  IN  \/ c.type = "WAYPOINT" /\ c.reason = "NONE" /\ c.next = "LOADING"
      \/ c.type = "GO" /\ c.reason = "NONE" /\ c.next = "RESUMING"
           /\ mission.state # "SWITCHING"
      \/ c.type = "NONE" /\ c.next = "DRIVING"
           /\ mission.state # "SWITCHING" /\ report.state = "MOVING"
KnownCalls ==
  /\ InCall("camera") => CameraCall
  /\ InCall("receiver") => ReceiverCall /\ call["receiver"].then # "dead"

(* The receiving thread sends, writes or has ended: it follows no STATUS.  *)
Busy == at["receiver"] \in {"send", "write", "dead"}

(* A mission that is SWITCHING has another waypoint.                       *)
WaypointsLeft ==
  /\ mission.index < Last
  /\ mission.state = "SWITCHING" /\ ~Busy => mission.index + 1 < Last
  /\ About("camera", "SWITCHING") => mission.index + 1 < Last
  /\ About("camera", "PARKED_CHECK") => mission.index + 1 = Last

(* While the camera thread judges the mission, the receiving thread        *)
(* changes nothing but that a refused command makes it HELD.               *)
JudgedAlone ==
  /\ mission.state \in {"DRIVING", "PARKED_CHECK", "DONE"} \/ JudgedNext => ~Busy
  /\ About("camera", "SWITCHING") \/ About("camera", "PARKED_CHECK") =>
       mission.state \in {"DRIVING", "HELD"}
  /\ About("camera", "DONE") => mission.state \in {"PARKED_CHECK", "HELD"}
  /\ About("camera", "RESUMING") => mission.state \notin Judging
  /\ About("camera", "LOADING") => mission.state \in {"IDLE", "HELD"} /\ ~Busy

(* A receiving thread that may not send, or has ended for it, never again  *)
(* handles an answer.                                                      *)
Doomed == at["receiver"] = "dead" \/ (at["receiver"] = "send" /\ pending # "NONE")

(* The waypoint before the current one, and who is still to load that.     *)
Previous ==
  IF mission.index = 0 THEN NoTarget
  ELSE [route |-> mission.route, waypoint |-> mission.index]
Starting ==
  at["camera"] = "start" \/ (at["camera"] = "send" /\ call["camera"].next = "LOADING")
ToLoad ==
  Starting \/ (at["receiver"] = "send" /\ call["receiver"].next = "LOADING")

(* The car has the current waypoint, or stands with the one before.        *)
TargetKept ==
  /\ Starting => pending = "NONE" /\ mission.index = 0 /\ ~Busy
  /\ car.target = Current \/ (car.target = Previous /\ car.state # "MOVING")
  /\ car.state = "READY" => car.target = NoTarget
  /\ ToLoad => car.target = Previous /\ ~Comes("WAYPOINT")
  /\ Comes("WAYPOINT") => car.target = Previous
  /\ car.target = Previous => Doomed \/ ToLoad \/ Comes("WAYPOINT")
  /\ \A i \in 1..Len(to_car) :
       to_car[i].type # "WAIT" \/ ~Doomed => to_car[i].target = Current

(* What the reports, the one in hand and those on their way, say of the    *)
(* car: all is true of it when nothing is outstanding, and a car that      *)
(* drives was not reported to drive before it was reported to stand.       *)
Heard(i) == IF i = 0 THEN report ELSE from_car[i]
Right(i) == Heard(i).state = "MOVING" <=> car.state = "MOVING"
ReportsHeard ==
  /\ pending = "NONE" \/ Comes("WAYPOINT") \/ Comes("GO") =>
       \A i \in 0..Len(from_car) : Right(i)
  /\ \A i, j \in 0..Len(from_car) : i <= j =>
       /\ Heard(i).open => Right(j)
       /\ car.state = "MOVING" /\ Heard(i).state = "MOVING" =>
            Heard(j).state = "MOVING"

(* The host has not heard of the car's start, or that is still to come:    *)
(* then nobody judges.                                                     *)
Behind ==
  \/ car.state = "MOVING" /\ report.state # "MOVING"
  \/ Comes("GO") /\ car.state # "MOVING"
  \/ Comes("WAYPOINT")
NotJudged ==
  Behind =>
    /\ mission.state \notin {"PARKED_CHECK", "DONE"} /\ ~JudgedNext
    /\ mission.state = "SWITCHING" => at["receiver"] = "write"
    /\ mission.state = "DRIVING" =>
         at["camera"] = "write" /\ call["camera"].next = "RESUMING"

(* No answer makes the host plan anew.                                     *)
Harmless == {"NONE", "ACCEPTED", "ALREADY_STOPPED", "INVALID_STATE"}
AnswersHarmless ==
  ~Doomed =>
    /\ \A i \in 0..Len(from_car) : Heard(i).result \in Harmless
    /\ \A i \in 1..Len(to_car) : to_car[i].reason \in Completing =>
         /\ car.target = Current
         /\ to_car[i].reason = "FINAL_WAYPOINT_REACHED" => mission.index + 1 = Last
    /\ car.reason = "FINAL_WAYPOINT_REACHED" => car.target.waypoint = Last

ParkedStanding ==
  mission.state = "DONE" \/ About("camera", "DONE") =>
    car.state = "WAITING" /\ place = [target |-> Current, exact |-> TRUE]

LegInv ==
  /\ LinkQuiet /\ OneCommand /\ KnownCalls /\ WaypointsLeft /\ JudgedAlone
  /\ TargetKept /\ ReportsHeard /\ NotJudged /\ AnswersHarmless /\ ParkedStanding

LEMMA Waypoints ==
  mission \in MissionRecord /\ mission.index < Last =>
    /\ Current.route = mission.route /\ Current.waypoint = mission.index + 1
    /\ Previous.waypoint = mission.index /\ mission.index \in Nat
    /\ Current # Previous /\ Current # NoTarget
    /\ mission.index > 0 => Previous.route = mission.route
    /\ mission.index = 0 => Previous = NoTarget
<1> SUFFICES ASSUME mission \in MissionRecord, mission.index < Last
             PROVE  /\ Current.route = mission.route
                    /\ Current.waypoint = mission.index + 1
                    /\ Previous.waypoint = mission.index /\ mission.index \in Nat
                    /\ Current # Previous /\ Current # NoTarget
                    /\ mission.index > 0 => Previous.route = mission.route
                    /\ mission.index = 0 => Previous = NoTarget
  OBVIOUS
<1>1. mission.index \in Nat
  BY Numbers DEF MissionRecord
<1>2. Route[mission.index + 1].id = mission.index + 1
  BY <1>1, Numbers DEF Route, Waypoint
<1>3. Current.route = mission.route /\ Current.waypoint = mission.index + 1
  BY <1>2 DEF Current, CurrentIndex
<1>4. /\ Previous.waypoint = mission.index
      /\ mission.index > 0 => Previous.route = mission.route
      /\ mission.index = 0 => Previous = NoTarget
  BY <1>1 DEF Previous, NoTarget
<1>5. QED
  BY <1>1, <1>3, <1>4 DEF NoTarget

LEMMA SameWaypoints ==
  mission'.index = mission.index /\ mission'.route = mission.route =>
    Current' = Current /\ Previous' = Previous
  BY DEF Current, CurrentIndex, Previous, Route, Waypoint

LEMMA FinalWaypoint ==
  ASSUME mission \in MissionRecord, mission.index < Last
  PROVE  IsFinal <=> mission.index + 1 = Last
<1>1. mission.index + 1 \in 1..Last
  BY Numbers DEF MissionRecord
<1> DEFINE last == mission.index + 1 = Last
<1>2. Route[mission.index + 1] = [id |-> mission.index + 1, final |-> last]
  BY <1>1 DEF Route, Waypoint
<1>3. last \in BOOLEAN
  OBVIOUS
<1>4. last <=> mission.index + 1 = Last
  OBVIOUS
<1> HIDE DEF last
<1>5. Route[mission.index + 1].final = last
  BY <1>2, <1>3
<1>6. QED
  BY <1>4, <1>5 DEF IsFinal

(* The car has the current waypoint where a mission is judged.             *)
LEMMA JudgedHasTarget ==
  ASSUME MissionInv, LegInv, ~Busy, ~Behind, ~Starting
  PROVE  car.target = Current
  BY DEF LegInv, TargetKept, Busy, Behind, ToLoad, Doomed
-----------------------------------------------------------------------------
(* The camera thread begins and ends a judgement.                          *)

LEMMA CameraTurns ==
  ASSUME MissionInv, LegInv, MissionInv',
         at["camera"] \in {"judge", "collide", "resume"}, at'["camera"] # "start",
         at'["receiver"] = at["receiver"], call'["receiver"] = call["receiver"],
         UNCHANGED <<missionVars, linkVars, report>>, UNCHANGED <<carVars, failVars>>,
         InCall("camera")' =>
           /\ CameraCall' /\ call'["camera"].next # "LOADING"
           /\ call'["camera"].next = "SWITCHING" =>
                mission.state = "DRIVING" /\ mission.index + 1 < Last
           /\ call'["camera"].next = "PARKED_CHECK" =>
                mission.state = "DRIVING" /\ mission.index + 1 = Last
           /\ call'["camera"].next = "DONE" =>
                mission.state = "PARKED_CHECK" /\ Parked
           /\ call'["camera"].next = "RESUMING" => mission.state = "HELD"
  PROVE  LegInv'
<1> USE DEF LegInv, missionVars, linkVars, carVars, failVars
<1>1. Current' = Current /\ Previous' = Previous
  BY SameWaypoints
<1>2. /\ Busy' = Busy /\ Doomed' = Doomed /\ Behind' = Behind /\ ~Starting'
      /\ ~Starting /\ ToLoad' = ToLoad
      /\ \A type : Comes(type)' = Comes(type)
      /\ \A i : Heard(i)' = Heard(i)
  BY DEF Busy, Doomed, Behind, Starting, ToLoad, Comes, Heard, InCall
<1>3. LinkQuiet' /\ OneCommand'
  BY DEF LinkQuiet, OneCommand
<1>4. ReportsHeard'
  BY <1>2 DEF ReportsHeard, Right
<1>5. KnownCalls'
  BY DEF KnownCalls, InCall, ReceiverCall
<1>6. WaypointsLeft'
  BY <1>2 DEF WaypointsLeft, About
<1>7. JudgedAlone'
  BY <1>2 DEF JudgedAlone, JudgedNext, Judging, About, InCall
<1>8. TargetKept'
  BY <1>1, <1>2 DEF TargetKept
<1>9. NotJudged'
  BY <1>2 DEF NotJudged, JudgedNext, Judging, InCall
<1>10. AnswersHarmless'
  BY <1>1, <1>2 DEF AnswersHarmless
<1>11. ParkedStanding'
  <2>1. CASE About("camera", "DONE")'
    <3>1. mission.state = "PARKED_CHECK" /\ Parked
      BY <2>1 DEF About
    <3>2. ~Busy /\ ~Behind
      BY <3>1 DEF JudgedAlone, NotJudged
    <3>3. car.target = Current /\ Current # NoTarget
      BY <1>2, <3>2, JudgedHasTarget, Waypoints
      DEF MissionInv, TypeInv, HostTyped, WaypointsLeft
    <3>4. car.state = "WAITING"
      BY <3>1, <3>3
      DEF TargetKept, Parked, Stationary, MissionInv, TypeInv, CarTyped, CarRecord,
          CarStates
    <3>5. place = [target |-> Current, exact |-> TRUE]
      BY <3>1 DEF Parked, Reached, MissionInv, TypeInv, CarTyped
    <3>6. QED
      BY <1>1, <3>4, <3>5 DEF ParkedStanding
  <2>2. CASE ~About("camera", "DONE")'
    BY <1>1, <2>2 DEF ParkedStanding
  <2>3. QED
    BY <2>1, <2>2
<1>12. QED
  BY <1>3, <1>4, <1>5, <1>6, <1>7, <1>8, <1>9, <1>10, <1>11

LEMMA JudgeLeg ==
  ASSUME MissionInv, LegInv, MissionInv', Judge
  PROVE  LegInv'
<1> USE DEF Judge
<1>1. ThreadsTyped /\ mission \in MissionRecord /\ mission.index < Last
  BY DEF MissionInv, TypeInv, HostTyped, LegInv, WaypointsLeft
<1>2. IsFinal <=> mission.index + 1 = Last
  BY <1>1, FinalWaypoint
<1>3. mission.index + 1 # Last => mission.index + 1 < Last
  BY <1>1, Numbers DEF MissionRecord
<1>4. /\ at'["camera"] # "start" /\ at'["receiver"] = at["receiver"]
      /\ call'["receiver"] = call["receiver"]
      /\ InCall("camera")' =>
           /\ CameraCall' /\ call'["camera"].next # "LOADING"
           /\ call'["camera"].next = "SWITCHING" =>
                mission.state = "DRIVING" /\ mission.index + 1 < Last
           /\ call'["camera"].next = "PARKED_CHECK" =>
                mission.state = "DRIVING" /\ mission.index + 1 = Last
           /\ call'["camera"].next = "DONE" =>
                mission.state = "PARKED_CHECK" /\ Parked
           /\ call'["camera"].next = "RESUMING" => mission.state = "HELD"
  <2>1. CASE /\ mission.state = "DRIVING" /\ IsFinal
             /\ Begin("camera", "WAIT", "FINAL_WAYPOINT_REACHED", "PARKED_CHECK",
                      "collide")
    BY <1>1, <1>2, <2>1, CameraBegins, Words DEF CameraCall
  <2>2. CASE /\ mission.state = "DRIVING" /\ ~IsFinal
             /\ Begin("camera", "WAIT", "WAYPOINT_REACHED", "SWITCHING", "collide")
    BY <1>1, <1>2, <1>3, <2>2, CameraBegins, Words DEF CameraCall
  <2>3. CASE /\ mission.state = "PARKED_CHECK" /\ Parked
             /\ Begin("camera", "NONE", "NONE", "DONE", "collide")
    BY <1>1, <2>3, CameraBegins, Words DEF CameraCall
  <2>4. CASE GoTo("camera", "collide")
    BY <1>1, <2>4, CameraGoes DEF CameraPlaces, InCall
  <2>5. QED
    BY <2>1, <2>2, <2>3, <2>4
<1>5. QED
  BY <1>4, CameraTurns

LEMMA CollideLeg ==
  ASSUME MissionInv, LegInv, MissionInv', Collide
  PROVE  LegInv'
<1> USE DEF Collide
<1>1. ThreadsTyped
  BY DEF MissionInv, TypeInv
<1>2. /\ at'["camera"] # "start" /\ at'["receiver"] = at["receiver"]
      /\ call'["receiver"] = call["receiver"]
      /\ InCall("camera")' => CameraCall' /\ call'["camera"].next = "HELD"
  <2>1. CASE GoTo("camera", "resume")
    BY <1>1, <2>1, CameraGoes DEF CameraPlaces, InCall
  <2>2. CASE Begin("camera", "WAIT", "COLLISION_RISK", "HELD", "resume")
    BY <1>1, <2>2, CameraBegins, Words DEF CameraCall
  <2>3. QED
    BY <2>1, <2>2 DEF Hold
<1>3. QED
  BY <1>2, CameraTurns

LEMMA ResumeLeg ==
  ASSUME MissionInv, LegInv, MissionInv', Resume
  PROVE  LegInv'
<1> USE DEF Resume
<1>1. ThreadsTyped
  BY DEF MissionInv, TypeInv
<1>2. /\ at'["camera"] # "start" /\ at'["receiver"] = at["receiver"]
      /\ call'["receiver"] = call["receiver"]
      /\ InCall("camera")' =>
           /\ CameraCall' /\ call'["camera"].next = "RESUMING"
           /\ mission.state = "HELD"
  <2>1. CASE GoTo("camera", "judge")
    BY <1>1, <2>1, CameraGoes DEF CameraPlaces, InCall
  <2>2. CASE /\ mission.state = "HELD"
             /\ Begin("camera", "GO", "NONE", "RESUMING", "judge")
    BY <1>1, <2>2, CameraBegins, Words DEF CameraCall
  <2>3. QED
    BY <2>1, <2>2 DEF ResumeHeld
<1>3. QED
  BY <1>2, CameraTurns

(* The mission starts: its first waypoint is to be loaded.                 *)
LEMMA StartMissionLeg ==
  ASSUME MissionInv, LegInv, MissionInv', StartMission
  PROVE  LegInv'
<1> USE DEF LegInv, linkVars, carVars, failVars, StartMission
<1>1. /\ ThreadsTyped /\ at["camera"] = "start" /\ Starting
      /\ mission.state = "NONE" /\ route_counter = 0 /\ to_car = <<>>
      /\ route_counter' = 1 /\ mission.index = 0
      /\ mission'.state = "IDLE" /\ mission'.index = 0
  BY DEF MissionInv, TypeInv, FlowInv, CleanStart, NewMission, NextRoute, Starting,
         TargetKept
<1>2. /\ at'["camera"] = "send" /\ CameraCall' /\ call'["camera"].next = "LOADING"
      /\ at'["receiver"] = at["receiver"] /\ call'["receiver"] = call["receiver"]
  BY <1>1, CameraBegins, Words DEF CameraCall
<1>3. Previous' = NoTarget /\ Previous = NoTarget
  BY <1>1 DEF Previous
<1>4. /\ Busy' = Busy /\ Doomed' = Doomed /\ Behind' = Behind /\ Starting'
      /\ ToLoad /\ ToLoad'
      /\ \A type : Comes(type)' = Comes(type)
      /\ \A i : Heard(i)' = Heard(i)
      /\ Len(to_car) = 0 /\ ~Busy /\ ~Doomed
  BY <1>1, <1>2, EmptySeq
  DEF Busy, Doomed, Behind, Starting, ToLoad, Comes, Heard, TargetKept
<1>5. LinkQuiet' /\ OneCommand'
  BY <1>2 DEF LinkQuiet, OneCommand
<1>6. ReportsHeard'
  BY <1>4 DEF ReportsHeard, Right
<1>7. KnownCalls' /\ WaypointsLeft' /\ JudgedAlone'
  BY <1>1, <1>2, <1>4, Numbers
  DEF KnownCalls, WaypointsLeft, JudgedAlone, JudgedNext, Judging, InCall, About, Busy
<1>8. TargetKept'
  <2>1. car.target = Previous /\ car.state # "MOVING"
    BY <1>4, Waypoints
    DEF TargetKept, WaypointsLeft, MissionInv, TypeInv, HostTyped
  <2>2. QED
    BY <1>1, <1>3, <1>4, <2>1 DEF TargetKept
<1>9. NotJudged'
  BY <1>1, <1>2 DEF NotJudged, JudgedNext, Judging
<1>10. AnswersHarmless'
  BY <1>4 DEF AnswersHarmless
<1>11. ParkedStanding'
  BY <1>1, <1>2 DEF ParkedStanding, About
<1>12. QED
  BY <1>5, <1>6, <1>7, <1>8, <1>9, <1>10, <1>11
-----------------------------------------------------------------------------
(* The receiving thread follows a STATUS.                                  *)

LEMMA ReceiverTurns ==
  ASSUME MissionInv, LegInv, MissionInv', at["receiver"] \in {"consume", "status"},
         at'["camera"] = at["camera"], call'["camera"] = call["camera"],
         at'["receiver"] \in {"receive", "status", "send", "write"},
         UNCHANGED <<missionVars, linkVars, report>>, UNCHANGED <<carVars, failVars>>,
         InCall("receiver")' =>
           /\ ReceiverCall' /\ call'["receiver"].next # "LOADING"
           /\ call'["receiver"].then # "dead"
           /\ mission.state \in {"LOADING", "RESUMING"}
  PROVE  LegInv'
<1> USE DEF LegInv, missionVars, linkVars, carVars, failVars
<1>1. Current' = Current /\ Previous' = Previous
  BY SameWaypoints
<1>2. /\ ~Busy /\ ~Doomed /\ Behind' = Behind /\ Starting' = Starting
      /\ ToLoad' = ToLoad /\ JudgedNext' = JudgedNext
      /\ \A next : About("camera", next)' = About("camera", next)
      /\ \A type : Comes(type)' = Comes(type)
      /\ \A i : Heard(i)' = Heard(i)
  BY DEF Busy, Doomed, Behind, Starting, ToLoad, Comes, Heard, InCall, JudgedNext,
         About
<1>3. Busy' => /\ mission.state \in {"LOADING", "RESUMING"} /\ ~JudgedNext
               /\ ~Starting /\ ~About("camera", "LOADING")
  BY DEF Busy, InCall, JudgedAlone, JudgedNext, Judging, About, Starting, MissionInv,
         FlowInv, CleanStart
<1>4. LinkQuiet' /\ OneCommand'
  BY DEF LinkQuiet, OneCommand
<1>5. ReportsHeard'
  BY <1>2 DEF ReportsHeard, Right
<1>6. KnownCalls'
  BY DEF KnownCalls, InCall, CameraCall
<1>7. WaypointsLeft'
  BY <1>2 DEF WaypointsLeft
<1>8. JudgedAlone'
  BY <1>2, <1>3 DEF JudgedAlone
<1>9. TargetKept'
  BY <1>1, <1>2, <1>3 DEF TargetKept
<1>10. NotJudged'
  BY <1>2 DEF NotJudged
<1>11. AnswersHarmless'
  BY <1>1, <1>2 DEF AnswersHarmless
<1>12. ParkedStanding'
  BY <1>1, <1>2 DEF ParkedStanding
<1>13. QED
  BY <1>4, <1>5, <1>6, <1>7, <1>8, <1>9, <1>10, <1>11, <1>12

LEMMA OnlyWaits ==
  ASSUME LinesTyped, OneCommand, pending \in Types, ~Comes("WAYPOINT"), ~Comes("GO")
  PROVE  \A i \in 1..Len(to_car) : to_car[i].type = "WAIT"
<1>1. Len(to_car) \in Nat
  BY LenProperties DEF LinesTyped
<1>2. Len(to_car) <= 2 /\ Len(to_car) # 2
  BY DEF OneCommand, Comes
<1>3. \A n \in Nat : n <= 2 /\ n # 2 => \A i \in 1..n : n = 1 /\ i = 1
  OBVIOUS
<1>4. \A i \in 1..Len(to_car) : Len(to_car) = 1 /\ i = 1
  BY <1>1, <1>2, <1>3
<1>5. Len(to_car) = 1 => to_car[1].type = "WAIT"
  BY DEF OneCommand, Comes, Types
<1>6. QED
  BY <1>4, <1>5

(* The car stands at its waypoint, and nothing on its way can move it: the *)
(* next waypoint becomes the current one.                                  *)
LEMMA SwitchedLeg ==
  ASSUME MissionInv, LegInv, MissionInv', at["receiver"] = "status", Switched,
         Begin("receiver", "WAYPOINT", "NONE", "LOADING", "receive"),
         mission'.state = mission.state, mission'.index = mission.index + 1,
         mission'.route = mission.route, mission.index + 1 < Last,
         UNCHANGED <<linkVars, report, carVars>>, UNCHANGED failVars
  PROVE  LegInv'
<1> USE DEF LegInv, linkVars, carVars, failVars
<1>1. /\ mission.state = "SWITCHING" /\ report.state = "WAITING" /\ ~Busy
      /\ ~Doomed /\ at["camera"] # "start"
      /\ mission \in MissionRecord /\ mission.index \in Nat
  BY Numbers DEF Switched, Busy, Doomed, MissionInv, TypeInv, HostTyped, FlowInv,
         CleanStart, MissionRecord
<1>2. /\ at'["receiver"] = "send" /\ call'["receiver"].next = "LOADING"
      /\ ReceiverCall' /\ call'["receiver"].then # "dead"
      /\ at'["camera"] = at["camera"] /\ call'["camera"] = call["camera"]
  BY ReceiverBegins, Words DEF MissionInv, TypeInv, ReceiverCall
<1>3. InCall("camera") => call["camera"].next = "HELD"
  BY <1>1 DEF KnownCalls, CameraCall, JudgedAlone, About, InCall, Judging
<1>4. ~Starting /\ ~JudgedNext /\ ~Behind /\ ~Starting' /\ ToLoad'
  BY <1>1, <1>2, <1>3
  DEF Starting, InCall, JudgedNext, Judging, NotJudged, ToLoad
<1>5. car.state # "MOVING" /\ ~Comes("WAYPOINT") /\ ~Comes("GO")
  BY <1>1, <1>4 DEF Behind
<1>6. car.target = Current
  BY <1>1, <1>4, JudgedHasTarget
<1>7. Previous' = Current
  <2>1. Current = [route |-> mission.route, waypoint |-> mission.index + 1]
    BY <1>1, Numbers DEF Current, CurrentIndex, Route, Waypoint
  <2>2. Previous' = [route |-> mission.route, waypoint |-> mission.index + 1]
    BY <1>1 DEF Previous
  <2>3. QED
    BY <2>1, <2>2
<1>8. pending = "NONE" => Len(to_car) = 0
  BY DEF OneCommand
<1>9. \A i \in 1..Len(to_car) : to_car[i].type = "WAIT"
  BY <1>5, OnlyWaits DEF MissionInv, TypeInv, HostTyped
<1>10. /\ JudgedNext' = JudgedNext /\ Behind' = Behind /\ Busy'
       /\ \A next : About("camera", next)' = About("camera", next)
       /\ \A type : Comes(type)' = Comes(type)
       /\ \A i : Heard(i)' = Heard(i)
       /\ ~Doomed' => pending = "NONE"
  BY <1>2 DEF JudgedNext, Behind, Busy, InCall, About, Comes, Heard, Doomed
<1>11. LinkQuiet' /\ OneCommand'
  BY <1>2 DEF LinkQuiet, OneCommand
<1>12. ReportsHeard'
  BY <1>10 DEF ReportsHeard, Right
<1>13. KnownCalls'
  BY <1>2 DEF KnownCalls, InCall, CameraCall
<1>14. WaypointsLeft' /\ JudgedAlone'
  BY <1>1, <1>3, <1>4, <1>10 DEF WaypointsLeft, JudgedAlone, About
<1>15. TargetKept'
  BY <1>4, <1>5, <1>6, <1>7, <1>8, <1>9, <1>10 DEF TargetKept
<1>16. NotJudged'
  BY <1>4, <1>10 DEF NotJudged
<1>17. AnswersHarmless'
  BY <1>1, <1>8, <1>10 DEF AnswersHarmless
<1>18. ParkedStanding'
  BY <1>1, <1>3, <1>10 DEF ParkedStanding, About
<1>19. QED
  BY <1>11, <1>12, <1>13, <1>14, <1>15, <1>16, <1>17, <1>18

LEMMA VehicleStatusLeg ==
  ASSUME MissionInv, LegInv, MissionInv', VehicleStatus
  PROVE  LegInv'
<1> USE DEF VehicleStatus
<1>1. ThreadsTyped /\ mission \in MissionRecord
  BY DEF MissionInv, TypeInv, HostTyped
<1>2. CASE /\ Switched
           /\ mission' = [mission EXCEPT
                            !.index = NextIndex,
                            !.state = IF NextIndex < Last THEN @ ELSE "DONE"]
           /\ IF NextIndex < Last
              THEN Begin("receiver", "WAYPOINT", "NONE", "LOADING", "receive")
              ELSE GoTo("receiver", "receive")
  <2>1. mission.index + 1 < Last
    BY <1>2 DEF LegInv, WaypointsLeft, Switched, Busy
  <2>2. /\ mission'.state = mission.state /\ mission'.index = mission.index + 1
        /\ mission'.route = mission.route
    BY <1>1, <1>2, <2>1 DEF MissionRecord, NextIndex
  <2>3. QED
    BY <1>2, <2>1, <2>2, SwitchedLeg DEF NextIndex
<1>3. CASE /\ UNCHANGED mission
           /\ \/ Loaded /\ Begin("receiver", "GO", "NONE", "RESUMING", "receive")
              \/ Started /\ Begin("receiver", "NONE", "NONE", "DRIVING", "receive")
              \/ GoTo("receiver", "receive")
  <2>1. /\ at'["camera"] = at["camera"] /\ call'["camera"] = call["camera"]
        /\ at'["receiver"] \in {"receive", "status", "send", "write"}
        /\ InCall("receiver")' =>
             /\ ReceiverCall' /\ call'["receiver"].next # "LOADING"
             /\ call'["receiver"].then # "dead"
             /\ mission.state \in {"LOADING", "RESUMING"}
    <3>1. CASE Loaded /\ Begin("receiver", "GO", "NONE", "RESUMING", "receive")
      BY <1>1, <1>3, <3>1, ReceiverBegins, Words DEF Loaded, ReceiverCall
    <3>2. CASE Started /\ Begin("receiver", "NONE", "NONE", "DRIVING", "receive")
      BY <1>1, <1>3, <3>2, ReceiverBegins, Words DEF Started, ReceiverCall
    <3>3. CASE GoTo("receiver", "receive")
      BY <1>1, <3>3, ReceiverGoes DEF ReceiverPlaces, InCall
    <3>4. QED
      BY <1>3, <3>1, <3>2, <3>3
  <2>2. QED
    BY <1>3, <2>1, ReceiverTurns DEF missionVars
<1>4. QED
  BY <1>2, <1>3

(* An answer to the outstanding command, of a thread that still handles    *)
(* one.                                                                    *)
LEMMA ConsumeLeg ==
  ASSUME MissionInv, LegInv, MissionInv', Consume
  PROVE  LegInv'
<1> USE DEF LegInv, missionVars, carVars, failVars, Consume
<1>1. ThreadsTyped /\ LinesTyped /\ ~Busy /\ ~Doomed
  BY DEF MissionInv, TypeInv, Busy, Doomed
<1>2. CASE /\ report.open /\ report.result # "NONE"
           /\ pending' = AfterAnswer
           /\ report' = [report EXCEPT !.open = FALSE]
           /\ GoTo("receiver",
                   IF report.result \in Negative THEN "rejected" ELSE "status")
  <2>1. /\ at'["receiver"] =
             IF report.result \in Negative THEN "rejected" ELSE "status"
        /\ at'["camera"] = at["camera"] /\ call'["camera"] = call["camera"]
    BY <1>1, <1>2, ReceiverGoes DEF ReceiverPlaces
  <2>2. /\ pending' = "NONE" /\ Len(to_car) = 0 /\ to_car' = to_car
        /\ ~report'.open /\ report'.state = report.state
        /\ report'.result = report.result
    <3>1. to_car = <<>>
      BY <1>2 DEF MissionInv, FlowInv, LastOpen, NothingOpen
    <3>2. /\ ~report'.open /\ report'.state = report.state
          /\ report'.result = report.result
      BY <1>1, <1>2, ClosedReport DEF LinesTyped
    <3>3. QED
      BY <1>2, <3>1, <3>2, EmptySeq DEF AfterAnswer
  <2>3. report.result \in Harmless
    BY <1>1, LenProperties DEF AnswersHarmless, Heard, LinesTyped
  <2>4. Current' = Current /\ Previous' = Previous
    BY SameWaypoints
  <2>5. /\ ~Busy' /\ ~Doomed' /\ Behind' = Behind /\ Starting' = Starting
        /\ ToLoad' = ToLoad /\ JudgedNext' = JudgedNext
        /\ \A next : About("camera", next)' = About("camera", next)
        /\ \A type : Comes(type)' = Comes(type)
        /\ \A i : Right(i)' = Right(i) /\ Heard(i)'.result = Heard(i).result
    BY <2>1, <2>2
    DEF Busy, Doomed, Behind, Starting, ToLoad, Comes, Heard, Right, InCall,
        JudgedNext, About
  <2>6. LinkQuiet'
    BY <2>1, <2>2, <2>3 DEF LinkQuiet, Harmless, Negative
  <2>7. OneCommand'
    BY <2>2 DEF OneCommand
  <2>8. ReportsHeard'
    <3>1. Len(from_car) \in Nat
      BY <1>1, LenProperties DEF LinesTyped
    <3>2. \A i \in 0..Len(from_car) : Right(i)
      BY <1>2, <3>1 DEF ReportsHeard, Heard
    <3>3. ASSUME NEW i \in 0..Len(from_car), NEW j \in 0..Len(from_car), i <= j,
                 car.state = "MOVING"
          PROVE  Heard(j)'.state = "MOVING"
      BY <2>5, <3>2, <3>3 DEF Right
    <3>4. QED
      BY <2>5, <3>2, <3>3 DEF ReportsHeard
  <2>9. KnownCalls' /\ WaypointsLeft' /\ JudgedAlone'
    BY <1>1, <2>1, <2>5
    DEF KnownCalls, WaypointsLeft, JudgedAlone, CameraCall, InCall
  <2>10. TargetKept'
    BY <1>1, <2>2, <2>4, <2>5 DEF TargetKept
  <2>11. NotJudged'
    BY <2>1, <2>5 DEF NotJudged
  <2>12. AnswersHarmless'
    BY <1>1, <2>2, <2>4, <2>5 DEF AnswersHarmless
  <2>13. ParkedStanding'
    BY <2>4, <2>5 DEF ParkedStanding
  <2>14. QED
    BY <2>6, <2>7, <2>8, <2>9, <2>10, <2>11, <2>12, <2>13
<1>3. CASE GoTo("receiver", "status") /\ UNCHANGED <<pending, report>>
  <2>1. /\ at'["receiver"] = "status" /\ at'["camera"] = at["camera"]
        /\ call'["camera"] = call["camera"]
    BY <1>1, <1>3, ReceiverGoes DEF ReceiverPlaces
  <2>2. QED
    BY <1>3, <2>1, ReceiverTurns DEF InCall, linkVars
<1>4. QED
  BY <1>2, <1>3

(* The only refusal there is holds the mission.                            *)
LEMMA RejectedLeg ==
  ASSUME MissionInv, LegInv, MissionInv', Rejected
  PROVE  LegInv'
<1> USE DEF LegInv, linkVars, carVars, failVars, Rejected
<1>1. report.result = "INVALID_STATE"
  BY DEF LinkQuiet
<1>2. /\ ThreadsTyped /\ ~Busy /\ ~Doomed /\ at["camera"] # "start"
      /\ mission'.state = "HELD" /\ mission'.index = mission.index
      /\ mission'.route = mission.route
  BY <1>1
  DEF MissionInv, TypeInv, HostTyped, FlowInv, CleanStart, MissionRecord, Busy, Doomed
<1>3. /\ at'["receiver"] = "status" /\ at'["camera"] = at["camera"]
      /\ call'["camera"] = call["camera"]
  BY <1>1, <1>2, ReceiverGoes DEF ReceiverPlaces
<1>4. Current' = Current /\ Previous' = Previous
  BY <1>2, SameWaypoints
<1>5. /\ ~Busy' /\ ~Doomed' /\ Behind' = Behind /\ Starting' = Starting
      /\ ToLoad' = ToLoad /\ JudgedNext' = JudgedNext
      /\ \A next : About("camera", next)' = About("camera", next)
      /\ \A type : Comes(type)' = Comes(type)
      /\ \A i : Heard(i)' = Heard(i)
  BY <1>1, <1>3
  DEF Busy, Doomed, Behind, Starting, ToLoad, Comes, Heard, InCall, JudgedNext, About
<1>6. LinkQuiet' /\ OneCommand'
  BY <1>1, <1>3 DEF LinkQuiet, OneCommand
<1>7. ReportsHeard'
  BY <1>1, <1>5 DEF ReportsHeard, Right
<1>8. KnownCalls' /\ WaypointsLeft' /\ JudgedAlone'
  BY <1>2, <1>3, <1>5
  DEF KnownCalls, WaypointsLeft, JudgedAlone, CameraCall, InCall, About, Judging
<1>9. TargetKept'
  BY <1>1, <1>2, <1>4, <1>5 DEF TargetKept
<1>10. NotJudged'
  BY <1>2, <1>5 DEF NotJudged
<1>11. AnswersHarmless'
  BY <1>1, <1>2, <1>4, <1>5 DEF AnswersHarmless
<1>12. ParkedStanding'
  BY <1>2, <1>4, <1>5 DEF ParkedStanding
<1>13. QED
  BY <1>6, <1>7, <1>8, <1>9, <1>10, <1>11, <1>12

LEMMA ReceiveLeg ==
  ASSUME MissionInv, LegInv, MissionInv', Receive
  PROVE  LegInv'
<1> USE DEF LegInv, missionVars, carVars, Receive
<1>1. ThreadsTyped /\ LinesTyped /\ ~Busy /\ ~Doomed /\ ~comm_failed
  BY DEF MissionInv, TypeInv, Busy, Doomed, LinkQuiet
<1>2. /\ at'["receiver"] = "consume" /\ at'["camera"] = at["camera"]
      /\ call'["camera"] = call["camera"]
  BY <1>1, ReceiverGoes DEF ReceiverPlaces
<1>3. /\ Len(from_car) \in Nat /\ Len(from_car) > 0
      /\ Len(from_car') = Len(from_car) - 1
      /\ report' = from_car[1]
      /\ \A i \in 1..Len(from_car') : from_car'[i] = from_car[i + 1]
  BY <1>1, HeadTailProperties, LenProperties, EmptySeq DEF LinesTyped
<1>4. \A i \in 0..Len(from_car') :
        /\ Heard(i)' = Heard(i + 1) /\ Right(i)' = Right(i + 1)
        /\ i + 1 \in 0..Len(from_car)
  BY <1>3 DEF Heard, Right
<1>5. Current' = Current /\ Previous' = Previous
  BY SameWaypoints
<1>6. /\ ~Busy' /\ ~Doomed' /\ Starting' = Starting
      /\ ToLoad' = ToLoad /\ JudgedNext' = JudgedNext
      /\ \A next : About("camera", next)' = About("camera", next)
      /\ \A type : Comes(type)' = Comes(type)
  BY <1>2 DEF Busy, Doomed, Starting, ToLoad, Comes, InCall, JudgedNext, About
<1>7. Behind' => Behind
  <2>1. /\ Heard(0) = report /\ Heard(1) = from_car[1]
        /\ 0 \in 0..Len(from_car) /\ 1 \in 0..Len(from_car)
    BY <1>3 DEF Heard
  <2>2. car.state = "MOVING" /\ report.state = "MOVING" => from_car[1].state = "MOVING"
    BY <2>1 DEF ReportsHeard
  <2>3. QED
    BY <1>3, <1>6, <2>2 DEF Behind
<1>8. LinkQuiet' /\ OneCommand'
  BY <1>2 DEF LinkQuiet, OneCommand
<1>9. ReportsHeard'
  <2>1. \A i, j \in 0..Len(from_car') : i <= j => i + 1 <= j + 1
    BY <1>3
  <2>2. QED
    BY <1>4, <1>6, <2>1 DEF ReportsHeard
<1>10. KnownCalls' /\ WaypointsLeft' /\ JudgedAlone'
  BY <1>1, <1>2, <1>6
  DEF KnownCalls, WaypointsLeft, JudgedAlone, CameraCall, InCall
<1>11. TargetKept'
  BY <1>1, <1>5, <1>6 DEF TargetKept
<1>12. NotJudged'
  BY <1>2, <1>6, <1>7 DEF NotJudged, Busy
<1>13. AnswersHarmless'
  BY <1>1, <1>4, <1>5, <1>6 DEF AnswersHarmless
<1>14. ParkedStanding'
  BY <1>5, <1>6 DEF ParkedStanding
<1>15. QED
  BY <1>8, <1>9, <1>10, <1>11, <1>12, <1>13, <1>14
-----------------------------------------------------------------------------
(* Both threads write what they were about to, and send.                   *)

LEMMA CameraWritesLeg ==
  ASSUME MissionInv, LegInv, MissionInv', WriteState("camera")
  PROVE  LegInv'
<1> USE DEF LegInv, linkVars, carVars, failVars, WriteState
<1>1. /\ ThreadsTyped /\ at["camera"] = "write" /\ CameraCall
      /\ mission'.state = call["camera"].next /\ mission'.index = mission.index
      /\ mission'.route = mission.route
  BY DEF MissionInv, TypeInv, HostTyped, MissionRecord, KnownCalls, InCall
<1>2. /\ at'["camera"] \in {"judge", "collide", "resume", "dead"}
      /\ at'["receiver"] = at["receiver"] /\ call'["receiver"] = call["receiver"]
  BY <1>1, CameraGoes DEF CameraPlaces, ThreadsTyped
<1>3. Current' = Current /\ Previous' = Previous
  BY <1>1, SameWaypoints
<1>4. /\ Busy' = Busy /\ Doomed' = Doomed /\ Behind' = Behind
      /\ ~Starting' /\ ~Starting /\ ToLoad' = ToLoad /\ ~JudgedNext'
      /\ \A next : ~About("camera", next)'
      /\ \A type : Comes(type)' = Comes(type)
      /\ \A i : Heard(i)' = Heard(i)
  BY <1>1, <1>2
  DEF Busy, Doomed, Behind, Starting, ToLoad, Comes, Heard, InCall, JudgedNext, About
<1>5. /\ mission'.state \in {"LOADING", "RESUMING", "HELD"} \cup Judging
      /\ mission'.state \in Judging => JudgedNext /\ ~Busy
      /\ About("camera", mission'.state)
  BY <1>1 DEF CameraCall, Judging, JudgedNext, InCall, About, JudgedAlone
<1>6. LinkQuiet' /\ OneCommand'
  BY <1>2 DEF LinkQuiet, OneCommand
<1>7. ReportsHeard'
  BY <1>4 DEF ReportsHeard, Right
<1>8. KnownCalls'
  BY <1>2, <1>5 DEF KnownCalls, InCall, ReceiverCall, Busy, Judging
<1>9. WaypointsLeft' /\ JudgedAlone'
  BY <1>1, <1>4, <1>5 DEF WaypointsLeft, JudgedAlone, Judging
<1>10. TargetKept'
  BY <1>3, <1>4 DEF TargetKept
<1>11. NotJudged'
  BY <1>4, <1>5 DEF NotJudged, Judging
<1>12. AnswersHarmless'
  BY <1>1, <1>3, <1>4 DEF AnswersHarmless
<1>13. ParkedStanding'
  BY <1>3, <1>4, <1>5 DEF ParkedStanding
<1>14. QED
  BY <1>6, <1>7, <1>8, <1>9, <1>10, <1>11, <1>12, <1>13

(* A report of a car that drives made the mission DRIVING: nothing can be  *)
(* on its way that makes the car start once more.                          *)
LEMMA ReceiverWritesLeg ==
  ASSUME MissionInv, LegInv, MissionInv', WriteState("receiver")
  PROVE  LegInv'
<1> USE DEF LegInv, linkVars, carVars, failVars, WriteState
<1>1. /\ ThreadsTyped /\ LinesTyped /\ at["receiver"] = "write" /\ ReceiverCall
      /\ call["receiver"].then # "dead" /\ Busy /\ ~Doomed
      /\ mission'.state = call["receiver"].next /\ mission'.index = mission.index
      /\ mission'.route = mission.route
      /\ mission \in MissionRecord /\ mission.index < Last
  BY DEF MissionInv, TypeInv, HostTyped, MissionRecord, KnownCalls, InCall, Busy,
         Doomed, WaypointsLeft
<1>2. /\ at'["receiver"] \in {"receive", "consume", "status"}
      /\ at'["camera"] = at["camera"] /\ call'["camera"] = call["camera"]
  BY <1>1, ReceiverGoes DEF ReceiverPlaces, ThreadsTyped
<1>3. Current' = Current /\ Previous' = Previous
  BY <1>1, SameWaypoints
<1>4. /\ ~Busy' /\ ~Doomed' /\ Behind' = Behind
      /\ Starting' = Starting /\ ToLoad' = ToLoad /\ ~JudgedNext /\ ~JudgedNext'
      /\ \A next : About("camera", next)' = About("camera", next)
      /\ \A type : Comes(type)' = Comes(type)
      /\ \A i : Heard(i)' = Heard(i)
  BY <1>1, <1>2
  DEF Busy, Doomed, Behind, Starting, ToLoad, Comes, Heard, InCall, JudgedNext,
      About, JudgedAlone
<1>5. mission'.state \in {"LOADING", "RESUMING", "DRIVING"}
  BY <1>1 DEF ReceiverCall
<1>6. mission'.state = "DRIVING" => ~Behind
  <2>1. CASE mission'.state = "DRIVING"
    <3>1. report.state = "MOVING"
      BY <1>1, <2>1 DEF ReceiverCall
    <3>2. Comes("GO") \/ Comes("WAYPOINT") => car.state = "MOVING"
      <4>1. Right(0) <=> car.state = "MOVING"
        BY <3>1 DEF Right, Heard
      <4>2. 0 \in 0..Len(from_car)
        BY <1>1, LenProperties DEF LinesTyped
      <4>3. QED
        BY <4>1, <4>2 DEF ReportsHeard
    <3>3. Comes("WAYPOINT") => car.state # "MOVING"
      BY <1>1, Waypoints DEF TargetKept
    <3>4. QED
      BY <3>1, <3>2, <3>3 DEF Behind
  <2>2. QED
    BY <2>1
<1>7. LinkQuiet' /\ OneCommand'
  BY <1>2 DEF LinkQuiet, OneCommand
<1>8. ReportsHeard'
  BY <1>4 DEF ReportsHeard, Right
<1>9. KnownCalls'
  BY <1>2 DEF KnownCalls, InCall, CameraCall
<1>10. WaypointsLeft' /\ JudgedAlone'
  BY <1>1, <1>4, <1>5
  DEF WaypointsLeft, JudgedAlone, Judging, JudgedNext, About
<1>11. TargetKept'
  BY <1>1, <1>3, <1>4 DEF TargetKept
<1>12. NotJudged'
  BY <1>4, <1>5, <1>6 DEF NotJudged
<1>13. AnswersHarmless'
  BY <1>1, <1>3, <1>4 DEF AnswersHarmless
<1>14. ParkedStanding'
  BY <1>3, <1>4, <1>5 DEF ParkedStanding
<1>15. QED
  BY <1>7, <1>8, <1>9, <1>10, <1>11, <1>12, <1>13, <1>14

(* A thread that may not send: the camera thread ends, or the receiving    *)
(* thread does.                                                            *)
LEMMA NotSentLeg ==
  ASSUME MissionInv, LegInv, MissionInv', NEW t \in Threads, SendCall(t),
         ~MayReplace(call[t].type)
  PROVE  LegInv'
<1> USE DEF LegInv, missionVars, linkVars, carVars, failVars
<1>1. /\ ThreadsTyped /\ at[t] = "send" /\ InCall(t)
      /\ GoTo(t, IF t = "camera" /\ call[t].type = "WAYPOINT"
                 THEN "judge" ELSE "dead")
      /\ UNCHANGED <<missionVars, linkVars, report, carVars, failVars>>
  BY DEF SendCall, MissionInv, TypeInv, InCall
<1>2. Current' = Current /\ Previous' = Previous
  BY <1>1, SameWaypoints
<1>3. /\ \A type : Comes(type)' = Comes(type)
      /\ \A i : Heard(i)' = Heard(i)
      /\ Behind' = Behind
  BY <1>1 DEF Comes, Heard, Behind
<1>4. OneCommand' /\ ReportsHeard'
  BY <1>1, <1>3 DEF OneCommand, ReportsHeard, Right
<1>5. CASE t = "camera"
  <2>1. ~Starting
    BY <1>1, <1>5
    DEF Starting, TargetKept, MayReplace
  <2>2. /\ at'["camera"] \in {"judge", "dead"}
        /\ at'["receiver"] = at["receiver"] /\ call'["receiver"] = call["receiver"]
    BY <1>1, <1>5, CameraGoes DEF CameraPlaces
  <2>3. /\ Busy' = Busy /\ Doomed' = Doomed /\ ~Starting' /\ ToLoad' = ToLoad
        /\ ~JudgedNext' /\ \A next : ~About("camera", next)'
    BY <1>1, <2>1, <2>2
    DEF Busy, Doomed, Starting, ToLoad, InCall, JudgedNext, About
  <2>4. LinkQuiet' /\ KnownCalls' /\ WaypointsLeft' /\ JudgedAlone'
    BY <1>1, <2>2, <2>3
    DEF LinkQuiet, KnownCalls, ReceiverCall, InCall, WaypointsLeft, JudgedAlone
  <2>5. TargetKept'
    BY <1>1, <1>2, <1>3, <2>1, <2>3 DEF TargetKept
  <2>6. NotJudged'
    BY <1>1, <1>3, <1>5, <2>2, <2>3 DEF NotJudged
  <2>7. AnswersHarmless' /\ ParkedStanding'
    BY <1>1, <1>2, <1>3, <2>3 DEF AnswersHarmless, ParkedStanding
  <2>8. QED
    BY <1>4, <2>4, <2>5, <2>6, <2>7
<1>6. CASE t = "receiver"
  <2>1. /\ Busy /\ Doomed
    BY <1>1, <1>6 DEF Busy, Doomed, MayReplace
  <2>2. /\ at'["receiver"] = "dead" /\ at'["camera"] = at["camera"]
        /\ call'["camera"] = call["camera"]
    BY <1>1, <1>6, ReceiverGoes DEF ReceiverPlaces
  <2>3. /\ Busy' /\ Doomed' /\ Starting' = Starting /\ ~Starting /\ ~ToLoad'
        /\ JudgedNext' = JudgedNext
        /\ \A next : About("camera", next)' = About("camera", next)
    BY <1>1, <2>1, <2>2
    DEF Busy, Doomed, Starting, ToLoad, InCall, JudgedNext, About, TargetKept
  <2>4. LinkQuiet' /\ KnownCalls' /\ WaypointsLeft' /\ JudgedAlone'
    BY <1>1, <2>1, <2>2, <2>3
    DEF LinkQuiet, KnownCalls, CameraCall, InCall, WaypointsLeft, JudgedAlone
  <2>5. TargetKept'
    BY <1>1, <1>2, <1>3, <2>1, <2>3 DEF TargetKept
  <2>6. NotJudged'
    BY <1>1, <1>3, <1>6, <2>2, <2>3 DEF NotJudged
  <2>7. AnswersHarmless' /\ ParkedStanding'
    BY <1>1, <1>2, <1>3, <2>3 DEF AnswersHarmless, ParkedStanding
  <2>8. QED
    BY <1>4, <2>4, <2>5, <2>6, <2>7
<1>7. QED
  BY <1>5, <1>6 DEF Threads

(* What a command that is sent leaves on the lines.                        *)
LEMMA SentLine ==
  ASSUME MissionInv, NEW t \in Threads, SendCall(t), MayReplace(call[t].type)
  PROVE  /\ at'[t] = "write" /\ pending' = call[t].type /\ call' = call
         /\ \A u \in Threads : u # t => at'[u] = at[u]
         /\ Len(to_car) \in Nat /\ Len(to_car') = Len(to_car) + 1
         /\ \A i \in 1..Len(to_car) :
              /\ to_car'[i].type = to_car[i].type
              /\ to_car'[i].target = to_car[i].target
              /\ to_car'[i].reason = to_car[i].reason
         /\ to_car'[Len(to_car) + 1].type = call[t].type
         /\ to_car'[Len(to_car) + 1].target = Current
         /\ to_car'[Len(to_car) + 1].reason = call[t].reason
         /\ Len(from_car') = Len(from_car) /\ Len(from_car) \in Nat
         /\ \A i \in 0..Len(from_car) :
              /\ ~Heard(i)'.open /\ Heard(i)'.state = Heard(i).state
              /\ Heard(i)'.result = Heard(i).result
         /\ UNCHANGED <<missionVars, failVars, carVars>>
<1> DEFINE m == Message(call[t])
           s == Closed(to_car)
<1> USE DEF MissionInv, TypeInv, LinesTyped
<1>1. /\ pending' = call[t].type /\ to_car' = Append(s, m)
      /\ from_car' = Closed(from_car) /\ report' = [report EXCEPT !.open = FALSE]
      /\ at' = [at EXCEPT ![t] = "write"] /\ call' = call
      /\ UNCHANGED <<missionVars, failVars, carVars>>
  BY DEF SendCall
<1>2. call[t] \in Call /\ at \in [Threads -> Places]
  BY DEF ThreadsTyped
<1>3. /\ m \in Command /\ m.type = call[t].type /\ m.target = Current
      /\ m.reason = call[t].reason
  BY <1>2, CurrentTyped DEF Message, Command, HostTyped, Call
<1>4. /\ s \in Seq(Command) /\ Len(s) = Len(to_car) /\ Len(to_car) \in Nat
      /\ \A i \in 1..Len(to_car) :
           /\ s[i].type = to_car[i].type /\ s[i].target = to_car[i].target
           /\ s[i].reason = to_car[i].reason
  BY ClosedCommands, LenProperties
<1> HIDE DEF m, s
<1>5. /\ Len(to_car') = Len(to_car) + 1 /\ to_car'[Len(to_car) + 1] = m
      /\ \A i \in 1..Len(to_car) : to_car'[i] = s[i]
  BY <1>1, <1>3, <1>4, AppendProperties
<1>6. /\ Len(from_car') = Len(from_car) /\ Len(from_car) \in Nat
      /\ \A i \in 1..Len(from_car) :
           /\ ~from_car'[i].open /\ from_car'[i].state = from_car[i].state
           /\ from_car'[i].result = from_car[i].result
  BY <1>1, ClosedReports, LenProperties
<1>7. /\ ~report'.open /\ report'.state = report.state
      /\ report'.result = report.result
  BY <1>1, ClosedReport
<1>8. \A i \in 0..Len(from_car) :
        /\ ~Heard(i)'.open /\ Heard(i)'.state = Heard(i).state
        /\ Heard(i)'.result = Heard(i).result
  BY <1>6, <1>7 DEF Heard
<1>9. at'[t] = "write" /\ \A u \in Threads : u # t => at'[u] = at[u]
  BY <1>1, <1>2
<1>10. QED
  BY <1>1, <1>3, <1>4, <1>5, <1>6, <1>8, <1>9

(* What both threads keep of the lines when they send.                     *)
LEMMA SentKeeps ==
  ASSUME MissionInv, LegInv, NEW t \in Threads, SendCall(t),
         MayReplace(call[t].type)
  PROVE  /\ OneCommand' /\ ReportsHeard' /\ pending' # "NONE"
         /\ call[t].type # "WAIT" => pending = "NONE"
         /\ pending = "NONE" => Len(to_car) = 0 /\ to_car'[1].type = call[t].type
         /\ \A type \in {"WAYPOINT", "GO"} :
              Comes(type)' <=> Comes(type) \/ call[t].type = type
<1> USE DEF LegInv
<1>1. call[t].type \in Types \ {"NONE"} /\ pending \in Types
  BY DEF MissionInv, TypeInv, ThreadsTyped, HostTyped, Call, SendCall
<1>2. \/ pending = "NONE"
      \/ pending \in {"WAYPOINT", "GO"} /\ call[t].type = "WAIT"
  BY <1>1 DEF MayReplace, Priority, Types
<1>3. pending' = call[t].type /\ call[t].type # "NONE"
  BY <1>1, SentLine
<1> DEFINE n == Len(to_car)
<1>4. /\ n \in Nat /\ Len(to_car') = n + 1
      /\ \A i \in 1..n : to_car'[i].type = to_car[i].type
      /\ to_car'[n + 1].type = call[t].type
  BY SentLine
<1>5. n = 0 \/ (n = 1 /\ pending # "NONE" /\ to_car[1].type = pending)
  <2>1. /\ n <= 2
        /\ pending = "NONE" => n = 0
        /\ n > 0 => to_car[n].type = pending
        /\ n = 2 => pending = "WAIT"
    BY DEF OneCommand
  <2> HIDE DEF n
  <2>2. n = 0 \/ n = 1 \/ n = 2
    BY <1>4, <2>1
  <2>3. QED
    BY <1>2, <2>1, <2>2
<1>6. n = 0 => to_car'[1].type = call[t].type
  BY <1>4
<1>7. n = 1 => /\ to_car'[1].type = pending /\ pending # "NONE"
               /\ to_car'[2].type = call[t].type
  BY <1>4, <1>5
<1>8. OneCommand'
  BY <1>2, <1>3, <1>4, <1>5, <1>6, <1>7 DEF OneCommand
<1>9. \A type \in {"WAYPOINT", "GO"} :
        Comes(type)' <=> Comes(type) \/ call[t].type = type
  <2>1. CASE n = 0
    BY <1>4, <1>6, <2>1 DEF Comes
  <2>2. CASE n = 1
    BY <1>2, <1>4, <1>5, <1>7, <2>2 DEF Comes
  <2>3. QED
    BY <1>5, <2>1, <2>2
<1>10. pending = "NONE" => n = 0
  BY <1>5
<1>11. ReportsHeard'
  <2>1. /\ Len(from_car') = Len(from_car) /\ car' = car
        /\ \A i \in 0..Len(from_car) :
             /\ ~Heard(i)'.open /\ Heard(i)'.state = Heard(i).state
    BY SentLine DEF carVars
  <2>2. \A i \in 0..Len(from_car) : Right(i)' <=> Right(i)
    BY <2>1 DEF Right
  <2>3. Comes("WAYPOINT")' \/ Comes("GO")' =>
          pending = "NONE" \/ Comes("WAYPOINT") \/ Comes("GO")
    BY <1>2, <1>9
  <2>4. QED
    BY <1>3, <2>1, <2>2, <2>3 DEF ReportsHeard
<1>12. QED
  BY <1>2, <1>3, <1>6, <1>8, <1>9, <1>10, <1>11

LEMMA CameraSendsLeg ==
  ASSUME MissionInv, LegInv, MissionInv', SendCall("camera"),
         MayReplace(call["camera"].type)
  PROVE  LegInv'
<1> DEFINE c == call["camera"]
<1> USE DEF LegInv
<1>1. "camera" \in Threads /\ "receiver" \in Threads
  BY DEF Threads
<1>2. /\ at["camera"] = "send" /\ at'["camera"] = "write"
      /\ at'["receiver"] = at["receiver"]
      /\ call' = call /\ pending' = c.type /\ pending' # "NONE"
      /\ mission' = mission /\ car' = car /\ place' = place
      /\ UNCHANGED failVars
  BY <1>1, SentLine, SentKeeps DEF SendCall, missionVars, carVars
<1>3. CameraCall
  BY <1>2 DEF KnownCalls, InCall
<1>4. Current' = Current /\ Previous' = Previous
  BY <1>2, SameWaypoints
<1>5. /\ Len(to_car) \in Nat /\ Len(to_car') = Len(to_car) + 1
      /\ \A i \in 1..Len(to_car) :
           /\ to_car'[i].type = to_car[i].type
           /\ to_car'[i].target = to_car[i].target
           /\ to_car'[i].reason = to_car[i].reason
      /\ to_car'[Len(to_car) + 1].type = c.type
      /\ to_car'[Len(to_car) + 1].target = Current
      /\ to_car'[Len(to_car) + 1].reason = c.reason
  BY <1>1, SentLine
<1>6. /\ Len(from_car') = Len(from_car) /\ report'.state = report.state
      /\ report'.result = report.result
      /\ \A i \in 0..Len(from_car) : Heard(i)'.result = Heard(i).result
  <2>1. /\ Len(from_car') = Len(from_car) /\ Len(from_car) \in Nat
        /\ \A i \in 0..Len(from_car) :
             Heard(i)'.state = Heard(i).state /\ Heard(i)'.result = Heard(i).result
    BY <1>1, SentLine
  <2>2. Heard(0) = report /\ Heard(0)' = report' /\ 0 \in 0..Len(from_car)
    BY <2>1 DEF Heard
  <2>3. QED
    BY <2>1, <2>2
<1>7. /\ Comes("WAYPOINT")' <=> Comes("WAYPOINT") \/ c.type = "WAYPOINT"
      /\ Comes("GO")' <=> Comes("GO") \/ c.type = "GO"
      /\ c.type # "WAIT" => pending = "NONE"
      /\ OneCommand' /\ ReportsHeard'
  BY <1>1, SentKeeps
<1>8. /\ Busy' = Busy /\ ~Starting' /\ JudgedNext' = JudgedNext
      /\ Starting <=> c.next = "LOADING"
      /\ Doomed => Doomed'
      /\ \A next : About("camera", next)' = About("camera", next)
      /\ ToLoad' <=> at["receiver"] = "send" /\ call["receiver"].next = "LOADING"
      /\ ToLoad' => Doomed'
  BY <1>2
  DEF Busy, Starting, InCall, JudgedNext, About, Doomed, ToLoad
<1>9. LinkQuiet'
  BY <1>2, <1>6 DEF LinkQuiet, failVars
<1>10. KnownCalls'
  BY <1>2, <1>6 DEF KnownCalls, InCall, CameraCall, ReceiverCall
<1>11. WaypointsLeft'
  BY <1>2, <1>8 DEF WaypointsLeft
<1>12. JudgedAlone'
  BY <1>2, <1>8 DEF JudgedAlone, TargetKept, About, InCall
<1>13. TargetKept'
  <2>1. c.type = "WAYPOINT" <=> Starting
    BY <1>3, <1>8 DEF CameraCall
  <2>2. ~Doomed' \/ c.type # "WAIT" => to_car'[Len(to_car) + 1].target = Current
    BY <1>5
  <2>3. \A i \in 1..Len(to_car') : i \in 1..Len(to_car) \/ i = Len(to_car) + 1
    BY <1>5
  <2>4. \A i \in 1..Len(to_car') :
          to_car'[i].type # "WAIT" \/ ~Doomed' => to_car'[i].target = Current
    BY <1>5, <1>8, <2>3 DEF TargetKept
  <2>5. Starting => car.target = Previous /\ ~Busy
    BY DEF TargetKept, ToLoad
  <2>6. ToLoad' => car.target = Previous /\ ~Comes("WAYPOINT")'
    BY <1>7, <1>8, <2>1, <2>5 DEF TargetKept, ToLoad, Busy
  <2>7. car.target = Previous => Doomed' \/ ToLoad' \/ Comes("WAYPOINT")'
    BY <1>7, <1>8, <2>1 DEF TargetKept, ToLoad
  <2>8. QED
    BY <1>2, <1>4, <1>7, <1>8, <2>1, <2>4, <2>5, <2>6, <2>7 DEF TargetKept
<1>14. NotJudged'
  <2>1. Behind' => Behind \/ c.type \in {"WAYPOINT", "GO"}
    BY <1>2, <1>6, <1>7 DEF Behind
  <2>2. CASE c.type = "GO"
    BY <1>2, <1>3, <1>8, <2>2
    DEF NotJudged, JudgedNext, Judging, JudgedAlone, CameraCall, About, InCall
  <2>3. CASE c.type = "WAYPOINT"
    BY <1>2, <1>3, <1>8, <2>3
    DEF NotJudged, JudgedNext, Judging, CameraCall, JudgedAlone, About, InCall
  <2>4. CASE c.type \notin {"WAYPOINT", "GO"}
    BY <1>2, <1>8, <2>1, <2>4 DEF NotJudged
  <2>5. QED
    BY <2>2, <2>3, <2>4
<1>15. AnswersHarmless'
  <2>1. ASSUME c.reason \in Completing
        PROVE  /\ car.target = Current
               /\ c.reason = "FINAL_WAYPOINT_REACHED" => mission.index + 1 = Last
    <3>1. /\ c.next \in {"SWITCHING", "PARKED_CHECK"} /\ InCall("camera")
          /\ c.reason = "FINAL_WAYPOINT_REACHED" => About("camera", "PARKED_CHECK")
      BY <1>2, <1>3, <2>1 DEF CameraCall, Completing, InCall, About
    <3>2. JudgedNext /\ ~Busy /\ ~Starting /\ ~Behind
      BY <1>8, <3>1 DEF JudgedNext, Judging, JudgedAlone, NotJudged
    <3>3. QED
      BY <3>1, <3>2, JudgedHasTarget DEF WaypointsLeft
  <2>2. \A i \in 1..Len(to_car') : i \in 1..Len(to_car) \/ i = Len(to_car) + 1
    BY <1>5
  <2>3. ~Doomed' => ~Doomed
    BY <1>8
  <2>4. QED
    BY <1>2, <1>4, <1>5, <1>6, <2>1, <2>2, <2>3 DEF AnswersHarmless
<1>16. ParkedStanding'
  BY <1>2, <1>4, <1>8 DEF ParkedStanding
<1>17. QED
  BY <1>7, <1>9, <1>10, <1>11, <1>12, <1>13, <1>14, <1>15, <1>16

LEMMA ReceiverSendsLeg ==
  ASSUME MissionInv, LegInv, MissionInv', SendCall("receiver"),
         MayReplace(call["receiver"].type)
  PROVE  LegInv'
<1> DEFINE c == call["receiver"]
<1> USE DEF LegInv
<1>1. "camera" \in Threads /\ "receiver" \in Threads
  BY DEF Threads
<1>2. /\ at["receiver"] = "send" /\ at'["receiver"] = "write"
      /\ at'["camera"] = at["camera"]
      /\ call' = call /\ pending' = c.type /\ pending' # "NONE"
      /\ mission' = mission /\ car' = car /\ place' = place
      /\ UNCHANGED failVars
  BY <1>1, SentLine, SentKeeps DEF SendCall, missionVars, carVars
<1>3. ReceiverCall /\ c.type \in {"WAYPOINT", "GO"} /\ Busy
  BY <1>2 DEF KnownCalls, InCall, ReceiverCall, Busy, MissionInv, TypeInv,
              ThreadsTyped, Threads
<1>4. Current' = Current /\ Previous' = Previous
  BY <1>2, SameWaypoints
<1>5. pending = "NONE" /\ Len(to_car) = 0 /\ ~Doomed
  BY <1>1, <1>2, <1>3, SentKeeps DEF Doomed
<1>6. /\ Len(to_car') = 1 /\ to_car'[1].type = c.type
      /\ to_car'[1].target = Current /\ to_car'[1].reason = c.reason
  BY <1>1, <1>5, SentLine
<1>7. /\ Len(from_car') = Len(from_car) /\ report'.state = report.state
      /\ report'.result = report.result
      /\ \A i \in 0..Len(from_car) : Heard(i)'.result = Heard(i).result
  <2>1. /\ Len(from_car') = Len(from_car) /\ Len(from_car) \in Nat
        /\ \A i \in 0..Len(from_car) :
             Heard(i)'.state = Heard(i).state /\ Heard(i)'.result = Heard(i).result
    BY <1>1, SentLine
  <2>2. Heard(0) = report /\ Heard(0)' = report' /\ 0 \in 0..Len(from_car)
    BY <2>1 DEF Heard
  <2>3. QED
    BY <2>1, <2>2
<1>8. /\ Comes("WAYPOINT")' <=> c.type = "WAYPOINT"
      /\ OneCommand' /\ ReportsHeard'
      /\ ~Comes("WAYPOINT")
  BY <1>1, <1>5, <1>6, SentKeeps DEF Comes
<1>9. /\ Busy' /\ ~Starting /\ ~Starting' /\ ~Doomed' /\ ~ToLoad'
      /\ JudgedNext' = JudgedNext /\ ~JudgedNext
      /\ \A next : About("camera", next)' = About("camera", next)
      /\ ToLoad <=> c.type = "WAYPOINT"
  BY <1>2, <1>3
  DEF Busy, Starting, InCall, JudgedNext, About, Doomed, ToLoad, TargetKept,
      JudgedAlone, ReceiverCall
<1>10. LinkQuiet'
  BY <1>2 DEF LinkQuiet, failVars
<1>11. KnownCalls'
  BY <1>2, <1>7 DEF KnownCalls, InCall, CameraCall, ReceiverCall
<1>12. WaypointsLeft' /\ JudgedAlone'
  BY <1>2, <1>3, <1>9 DEF WaypointsLeft, JudgedAlone
<1>13. TargetKept'
  <2>1. \A i \in 1..Len(to_car') : i = 1
    BY <1>6
  <2>2. QED
    BY <1>2, <1>4, <1>5, <1>6, <1>8, <1>9, <2>1 DEF TargetKept
<1>14. NotJudged'
  BY <1>2, <1>3, <1>9 DEF NotJudged, JudgedAlone
<1>15. AnswersHarmless'
  <2>1. \A i \in 1..Len(to_car') : i = 1
    BY <1>6
  <2>2. c.reason \notin Completing
    BY <1>3 DEF ReceiverCall, Completing
  <2>3. QED
    BY <1>2, <1>5, <1>6, <1>7, <2>1, <2>2 DEF AnswersHarmless
<1>16. ParkedStanding'
  BY <1>2, <1>4, <1>9 DEF ParkedStanding
<1>17. QED
  BY <1>8, <1>10, <1>11, <1>12, <1>13, <1>14, <1>15, <1>16
-----------------------------------------------------------------------------
(* The car handles a command.                                              *)

(* What becomes of the lines.                                              *)
LEMMA CarTakes ==
  ASSUME MissionInv, CarHandles
  PROVE  /\ to_car[1] \in Command /\ Len(to_car) \in Nat /\ Len(to_car) > 0
         /\ Len(to_car') = Len(to_car) - 1
         /\ \A i \in 1..Len(to_car') :
              i + 1 \in 1..Len(to_car) /\ to_car'[i] = to_car[i + 1]
         /\ to_car[1].open => Len(to_car) = 1
         /\ to_car[1].type = "WAYPOINT" => car' = AfterWaypoint(to_car[1])
         /\ to_car[1].type = "GO" => car' = AfterGo(to_car[1])
         /\ to_car[1].type = "WAIT" => car' = AfterWait(to_car[1])
         /\ \A i \in 0..Len(from_car) : Heard(i)' = Heard(i) /\ ~Heard(i).open
         /\ \E new \in Nat :
              /\ Len(from_car') = new
              /\ \A i \in 0..new : i = new \/ i \in 0..Len(from_car)
              /\ Heard(new)'.state = car'.state /\ Heard(new)'.open = to_car[1].open
              /\ to_car[1].type = "WAYPOINT" =>
                   Heard(new)'.result = WaypointResult(to_car[1])
              /\ to_car[1].type = "GO" => Heard(new)'.result = GoResult(to_car[1])
              /\ to_car[1].type = "WAIT" =>
                   Heard(new)'.result = WaitResult(to_car[1])
         /\ UNCHANGED <<mission, pending, at, call, report, place>>
         /\ UNCHANGED failVars
<1> DEFINE m == Head(to_car)
           result == CASE m.type = "WAYPOINT" -> WaypointResult(m)
                       [] m.type = "GO" -> GoResult(m)
                       [] OTHER -> WaitResult(m)
           answer == [state |-> car'.state, target |-> car'.target,
                      result |-> result, open |-> m.open]
           n == Len(from_car)
<1> USE DEF MissionInv, TypeInv, FlowInv, LinesTyped
<1>1. /\ to_car # <<>>
      /\ to_car' = Tail(to_car)
      /\ car' = CASE m.type = "WAYPOINT" -> AfterWaypoint(m)
                  [] m.type = "GO" -> AfterGo(m)
                  [] OTHER -> AfterWait(m)
      /\ from_car' = Append(from_car, answer)
      /\ UNCHANGED <<mission, pending, at, call, report, place>>
      /\ UNCHANGED failVars
  BY DEF CarHandles, missionVars, threadVars
<1>2. /\ m \in Command /\ m = to_car[1]
      /\ Len(to_car') = Len(to_car) - 1
      /\ Len(to_car) \in Nat /\ Len(to_car) > 0
      /\ \A i \in 1..Len(to_car') : to_car'[i] = to_car[i + 1]
  BY <1>1, HeadTailProperties, LenProperties, EmptySeq
<1>3. /\ m.type = "WAYPOINT" => car' = AfterWaypoint(m) /\ result = WaypointResult(m)
      /\ m.type = "GO" => car' = AfterGo(m) /\ result = GoResult(m)
      /\ m.type = "WAIT" => car' = AfterWait(m) /\ result = WaitResult(m)
  BY <1>1
<1>4. answer \in Report /\ answer.open = m.open /\ answer.state = car'.state
      /\ answer.result = result
  <2>1. car' \in CarRecord /\ result \in Results
    BY <1>1, <1>2, CarAnswers
  <2>2. QED
    BY <1>2, <2>1 DEF Report, CarRecord, Command
<1>5. m.open => Len(to_car) = 1
  BY <1>1, <1>2 DEF LastOpen
<1> HIDE DEF m, result, answer
<1>6. /\ from_car' \in Seq(Report) /\ Len(from_car') = n + 1 /\ n \in Nat
      /\ from_car'[n + 1] = answer
      /\ \A i \in 1..n : from_car'[i] = from_car[i]
      /\ DOMAIN from_car = 1..n
  BY <1>1, <1>4, AppendProperties, LenProperties
<1>7. \A i \in 0..n : Heard(i)' = Heard(i) /\ ~Heard(i).open
  <2>1. NothingOpen /\ report' = report
    BY <1>1 DEF LastOpen
  <2>2. QED
    BY <1>6, <2>1 DEF Heard, NothingOpen
<1> PICK new \in Nat : new = n + 1
  BY <1>6
<1>8. /\ Heard(new)' = answer /\ Len(from_car') = new
      /\ \A i \in 0..new : i = new \/ i \in 0..n
  <2>1. \A k \in Nat : /\ k + 1 # 0
                      /\ \A i \in 0..(k + 1) : i = k + 1 \/ i \in 0..k
    OBVIOUS
  <2>2. new # 0 /\ from_car'[new] = answer
    BY <1>6, <2>1
  <2>3. \A i \in 0..new : i = new \/ i \in 0..n
    BY <1>6, <2>1
  <2>4. QED
    BY <1>6, <2>2, <2>3 DEF Heard
<1>9. \A i \in 1..Len(to_car') : i + 1 \in 1..Len(to_car)
  BY <1>2
<1>10. QED
  BY <1>1, <1>2, <1>3, <1>4, <1>5, <1>6, <1>7, <1>8, <1>9

(* What a handled command leaves as it is.                                 *)
LEMMA CarTakesKeeps ==
  ASSUME MissionInv, LegInv, MissionInv', CarHandles
  PROVE  /\ LinkQuiet' /\ OneCommand' /\ KnownCalls' /\ WaypointsLeft' /\ JudgedAlone'
         /\ Current' = Current /\ Previous' = Previous
         /\ Busy' = Busy /\ Doomed' = Doomed /\ ToLoad' = ToLoad
         /\ JudgedNext' = JudgedNext
         /\ About("camera", "DONE")' = About("camera", "DONE")
         /\ pending # "NONE" /\ pending' # "NONE" /\ ~Starting /\ ~Starting'
         /\ ToLoad => Doomed
         /\ ~Comes("WAYPOINT")' /\ ~Comes("GO")'
         /\ to_car[1].type \notin {"WAYPOINT", "GO"} =>
              to_car[1].type = "WAIT" /\ Len(to_car) = 1
<1> USE DEF LegInv
<1>1. /\ UNCHANGED <<mission, pending, at, call, report, place>>
      /\ UNCHANGED failVars
  BY CarTakes
<1>2. /\ Len(to_car) \in Nat /\ Len(to_car) > 0 /\ Len(to_car') = Len(to_car) - 1
      /\ \A i \in 1..Len(to_car') : to_car'[i] = to_car[i + 1]
  BY CarTakes
<1>3. Current' = Current /\ Previous' = Previous
  BY <1>1, SameWaypoints
<1>4. LinkQuiet' /\ KnownCalls' /\ WaypointsLeft' /\ JudgedAlone'
  BY <1>1
  DEF LinkQuiet, KnownCalls, InCall, CameraCall, ReceiverCall, WaypointsLeft, Busy,
      About, JudgedAlone, JudgedNext, failVars
<1>5. /\ Busy' = Busy /\ Doomed' = Doomed /\ ToLoad' = ToLoad
      /\ JudgedNext' = JudgedNext /\ Starting' = Starting
      /\ About("camera", "DONE")' = About("camera", "DONE")
  BY <1>1 DEF Busy, Doomed, ToLoad, Starting, JudgedNext, InCall, About
<1>6. pending # "NONE" /\ pending' = pending
  BY <1>1, <1>2 DEF OneCommand
<1>7. ~Starting
  BY <1>6 DEF TargetKept
<1>8. ToLoad => Doomed
  BY <1>6, <1>7 DEF ToLoad, Doomed
<1> DEFINE n == Len(to_car)
<1>9. /\ n <= 2
      /\ to_car[n].type = pending
      /\ n = 2 => pending = "WAIT" /\ to_car[1].type \in {"WAYPOINT", "GO"}
  BY <1>2 DEF OneCommand
<1>10. Len(to_car') = n - 1 /\ n \in Nat /\ n > 0
       /\ \A i \in 1..(n - 1) : to_car'[i] = to_car[i + 1]
  BY <1>2
<1> HIDE DEF n
<1>11. n = 1 \/ n = 2
  BY <1>9, <1>10
<1>12. n = 2 => Len(to_car') = 1 /\ to_car'[1].type = "WAIT"
  BY <1>9, <1>10
<1>13. n = 1 => Len(to_car') = 0
  BY <1>10
<1>14. OneCommand' /\ ~Comes("WAYPOINT")' /\ ~Comes("GO")'
  <2>1. CASE n = 1
    <3>1. Len(to_car') = 0
      BY <1>13, <2>1
    <3>2. QED
      BY <3>1 DEF OneCommand, Comes
  <2>2. CASE n = 2
    <3>1. Len(to_car') = 1 /\ to_car'[1].type = "WAIT" /\ pending' = "WAIT"
      BY <1>6, <1>9, <1>12, <2>2
    <3>2. QED
      BY <3>1 DEF OneCommand, Comes
  <2>3. QED
    BY <1>11, <2>1, <2>2
<1>15. to_car[1].type \notin {"WAYPOINT", "GO"} => to_car[1].type = "WAIT" /\ n = 1
  <2>1. to_car[1].type \in Types
    BY CarTakes DEF Command
  <2>2. QED
    BY <1>6, <1>9, <1>11, <2>1 DEF Types
<1>16. QED
  BY <1>3, <1>4, <1>5, <1>6, <1>7, <1>8, <1>14, <1>15 DEF n

LEMMA HandlesWaypoint ==
  ASSUME MissionInv, LegInv, MissionInv', CarHandles, to_car[1].type = "WAYPOINT"
  PROVE  LegInv'
<1> DEFINE m == to_car[1]
<1> USE DEF LegInv
<1>1. /\ Comes("WAYPOINT") /\ Behind
      /\ Len(to_car) \in Nat /\ Len(to_car) > 0
      /\ m.target = Current
      /\ car.target = Previous /\ car.state # "MOVING" /\ ~ToLoad
  <2>1. Len(to_car) \in Nat /\ Len(to_car) > 0
    BY CarTakes
  <2>2. Comes("WAYPOINT")
    BY <2>1 DEF Comes
  <2>3. m.target = Current
    BY <2>1 DEF TargetKept
  <2>4. Current # Previous
    BY Waypoints DEF WaypointsLeft, MissionInv, TypeInv, HostTyped
  <2>5. QED
    BY <2>1, <2>2, <2>3, <2>4 DEF TargetKept, Behind
<1>2. /\ LinkQuiet' /\ OneCommand' /\ KnownCalls' /\ WaypointsLeft' /\ JudgedAlone'
      /\ Current' = Current /\ Previous' = Previous
      /\ Busy' = Busy /\ Doomed' = Doomed /\ ToLoad' = ToLoad
      /\ JudgedNext' = JudgedNext
      /\ About("camera", "DONE")' = About("camera", "DONE")
      /\ ~Starting' /\ ~Comes("WAYPOINT")' /\ ~Comes("GO")'
  BY CarTakesKeeps
<1>3. /\ car' = AfterWaypoint(m) /\ mission' = mission /\ place' = place
      /\ car \in CarRecord
  BY CarTakes DEF MissionInv, TypeInv, CarTyped
<1>4. /\ Current.route = mission.route /\ Current.waypoint = mission.index + 1
      /\ Previous.waypoint = mission.index /\ mission.index \in Nat
      /\ Current # Previous /\ Current # NoTarget
      /\ mission.index > 0 => Previous.route = mission.route
      /\ mission.index = 0 => Previous = NoTarget
      /\ mission.route \in Nat /\ mission.index < Last
  BY Waypoints, Numbers DEF WaypointsLeft, MissionInv, TypeInv, HostTyped, MissionRecord
<1>5. ~Doomed => WaypointResult(m) = "ACCEPTED"
  <2>1. car.state \in {"READY", "WAITING"}
    BY <1>1, <1>3 DEF CarRecord, CarStates
  <2>2. ASSUME ~Doomed
        PROVE  RouteFailure(Current) = "NONE"
    <3>1. CASE mission.index = 0
      BY <1>1, <1>4, <3>1 DEF RouteFailure
    <3>2. CASE mission.index > 0
      <4>1. Current.route = car.target.route
        BY <1>1, <1>4, <3>2
      <4>2. car.reason # "FINAL_WAYPOINT_REACHED"
        BY <1>1, <1>4, <2>2 DEF AnswersHarmless
      <4>3. ~(Current.waypoint <= car.target.waypoint)
        BY <1>1, <1>4
      <4>4. ~(Current.route < car.target.route)
        BY <1>4, <4>1
      <4>5. QED
        BY <4>1, <4>2, <4>3, <4>4 DEF RouteFailure
    <3>3. QED
      BY <1>4, <3>1, <3>2
  <2>3. QED
    BY <1>1, <2>1, <2>2 DEF WaypointResult
<1>6. \/ car' = car
      \/ car'.state = "WAITING" /\ car'.target = Current
         /\ car'.reason = "AWAITING_START"
  BY <1>1, <1>3 DEF AfterWaypoint
<1>7. ~Doomed => car'.target = Current /\ car'.reason = "AWAITING_START"
  BY <1>1, <1>3, <1>5 DEF AfterWaypoint
<1>8. car'.state # "MOVING"
  BY <1>1, <1>6
<1>9. ~Behind'
  BY <1>2, <1>8 DEF Behind
<1>10. TargetKept'
  <2>1. \A i \in 1..Len(to_car') :
          to_car'[i].type # "WAIT" \/ ~Doomed => to_car'[i].target = Current
    BY CarTakes DEF TargetKept
  <2>2. car'.target \in {Current, Previous}
    BY <1>1, <1>6
  <2>3. car'.state = "READY" => car'.target = NoTarget
    BY <1>6 DEF TargetKept
  <2>4. car'.target = Previous => Doomed
    BY <1>4, <1>7
  <2>5. QED
    BY <1>1, <1>2, <1>8, <2>1, <2>2, <2>3, <2>4 DEF TargetKept
<1>11. ReportsHeard'
  <2>1. \A i \in 0..Len(from_car) : Right(i) /\ Heard(i)' = Heard(i)
    BY <1>1, CarTakes DEF ReportsHeard
  <2>2. \A i \in 0..Len(from_car) : Right(i)'
    BY <1>1, <1>8, <2>1 DEF Right
  <2>3. \A i \in 0..Len(from_car') : Right(i)'
    BY <2>2, CarTakes DEF Right
  <2>4. QED
    BY <1>8, <2>3 DEF ReportsHeard, Right
<1>12. NotJudged'
  BY <1>9 DEF NotJudged
<1>13. AnswersHarmless'
  <2>1. ASSUME ~Doomed
        PROVE  /\ \A i \in 0..Len(from_car') : Heard(i)'.result \in Harmless
               /\ \A i \in 1..Len(to_car') : to_car'[i].reason \notin Completing
    <3>1. \A i \in 0..Len(from_car) : Heard(i)'.result \in Harmless
      BY <2>1, CarTakes DEF AnswersHarmless
    <3>2. \A i \in 0..Len(from_car') : Heard(i)'.result \in Harmless
      BY <1>5, <2>1, <3>1, CarTakes DEF Harmless
    <3>3. \A i \in 1..Len(to_car') : to_car'[i].reason \notin Completing
      BY <1>1, <1>4, <2>1, CarTakes DEF AnswersHarmless
    <3>4. QED
      BY <3>2, <3>3
  <2>2. ~Doomed => car'.reason # "FINAL_WAYPOINT_REACHED"
    BY <1>7
  <2>3. QED
    BY <1>2, <2>1, <2>2 DEF AnswersHarmless
<1>14. ParkedStanding'
  BY <1>1, <1>2, <1>3 DEF ParkedStanding, NotJudged, About, JudgedNext, Judging
<1>15. QED
  BY <1>2, <1>10, <1>11, <1>12, <1>13, <1>14

LEMMA HandlesGo ==
  ASSUME MissionInv, LegInv, MissionInv', CarHandles, to_car[1].type = "GO"
  PROVE  LegInv'
<1> DEFINE m == to_car[1]
           r == GoResult(m)
<1> USE DEF LegInv
<1>1. /\ Comes("GO") /\ ~Comes("WAYPOINT")
      /\ Len(to_car) \in Nat /\ Len(to_car) > 0
      /\ m.target = Current
      /\ ~Doomed => ~ToLoad /\ car.target = Current
  <2>1. Len(to_car) \in Nat /\ Len(to_car) > 0
    BY CarTakes
  <2>2. Comes("GO") /\ ~Comes("WAYPOINT")
    BY <2>1 DEF Comes
  <2>3. m.target = Current
    BY <2>1 DEF TargetKept
  <2>4. ~Doomed => ~ToLoad
    BY CarTakesKeeps
  <2>5. QED
    BY <2>1, <2>2, <2>3, <2>4 DEF TargetKept
<1>2. /\ LinkQuiet' /\ OneCommand' /\ KnownCalls' /\ WaypointsLeft' /\ JudgedAlone'
      /\ Current' = Current /\ Previous' = Previous
      /\ Busy' = Busy /\ Doomed' = Doomed /\ ToLoad' = ToLoad
      /\ JudgedNext' = JudgedNext
      /\ About("camera", "DONE")' = About("camera", "DONE")
      /\ ~Starting' /\ ~Comes("WAYPOINT")' /\ ~Comes("GO")'
      /\ pending' # "NONE"
  BY CarTakesKeeps
<1>3. /\ car' = AfterGo(m) /\ mission' = mission /\ place' = place
      /\ report' = report /\ at' = at /\ call' = call
      /\ car \in CarRecord
  BY CarTakes DEF MissionInv, TypeInv, CarTyped
<1>4. Current # NoTarget /\ Current # Previous
  BY Waypoints DEF WaypointsLeft, MissionInv, TypeInv, HostTyped
<1>5. ~Doomed => r \in Harmless
  BY <1>1, <1>4 DEF GoResult, Harmless
<1>6. \A i \in 0..Len(from_car) : Right(i) /\ Heard(i)' = Heard(i) /\ ~Heard(i).open
  BY <1>1, CarTakes DEF ReportsHeard
<1>7. report = Heard(0) /\ 0 \in 0..Len(from_car)
  BY CarTakes DEF Heard
<1>8. CASE r # "ACCEPTED"
  <2>1. car' = car
    BY <1>3, <1>8 DEF AfterGo
  <2>2. TargetKept'
    BY <1>1, <1>2, <2>1, CarTakes DEF TargetKept
  <2>3. ReportsHeard'
    <3>1. \A i \in 0..Len(from_car) : Right(i)'
      BY <1>6, <2>1 DEF Right
    <3>2. \A i \in 0..Len(from_car') : Right(i)'
      BY <3>1, CarTakes DEF Right
    <3>3. QED
      BY <3>2 DEF ReportsHeard, Right
  <2>4. ~Behind'
    BY <1>2, <1>3, <1>6, <1>7, <2>1 DEF Behind, Right
  <2>5. ParkedStanding'
    BY <1>2, <1>3, <2>1 DEF ParkedStanding
  <2>6. AnswersHarmless'
    BY <1>2, <1>5, <2>1, CarTakes DEF AnswersHarmless
  <2>7. QED
    BY <1>2, <2>2, <2>3, <2>4, <2>5, <2>6 DEF NotJudged
<1>9. CASE r = "ACCEPTED"
  <2>1. /\ car.state = "WAITING" /\ car.target = Current
        /\ car'.state = "MOVING" /\ car'.target = Current /\ car'.reason = "NONE"
    BY <1>1, <1>3, <1>9 DEF GoResult, AfterGo, CarRecord
  <2>2. Behind
    BY <1>1, <2>1 DEF Behind
  <2>3. TargetKept'
    BY <1>1, <1>2, <1>4, <2>1, CarTakes DEF TargetKept
  <2>4. ReportsHeard'
    <3>1. \A i \in 0..Len(from_car) : Heard(i)'.state # "MOVING" /\ ~Heard(i)'.open
      BY <1>6, <2>1 DEF Right
    <3> PICK new \in Nat :
           /\ Len(from_car') = new /\ Heard(new)'.state = car'.state
           /\ \A i \in 0..new : i = new \/ i \in 0..Len(from_car)
      BY CarTakes
    <3>2. \A i, j \in 0..new : i = new /\ i <= j => j = new
      OBVIOUS
    <3>3. \A i \in 0..new : Heard(i)'.open \/ Heard(i)'.state = "MOVING" => i = new
      BY <3>1
    <3>4. Right(new)' /\ Heard(new)'.state = "MOVING"
      BY <2>1 DEF Right
    <3>5. QED
      BY <1>2, <3>2, <3>3, <3>4 DEF ReportsHeard
  <2>5. NotJudged'
    BY <1>2, <1>3, <2>2 DEF NotJudged
  <2>6. ParkedStanding'
    BY <1>2, <1>3, <2>2 DEF ParkedStanding, NotJudged, About, JudgedNext, Judging
  <2>7. AnswersHarmless'
    BY <1>1, <1>2, <1>5, <2>1, CarTakes DEF AnswersHarmless
  <2>8. QED
    BY <1>2, <2>3, <2>4, <2>5, <2>6, <2>7
<1>10. QED
  BY <1>8, <1>9

LEMMA HandlesWait ==
  ASSUME MissionInv, LegInv, MissionInv', CarHandles,
         to_car[1].type \notin {"WAYPOINT", "GO"}
  PROVE  LegInv'
<1> DEFINE m == to_car[1]
           r == WaitResult(m)
<1> USE DEF LegInv
<1>1. /\ LinkQuiet' /\ OneCommand' /\ KnownCalls' /\ WaypointsLeft' /\ JudgedAlone'
      /\ Current' = Current /\ Previous' = Previous
      /\ Busy' = Busy /\ Doomed' = Doomed /\ ToLoad' = ToLoad
      /\ JudgedNext' = JudgedNext
      /\ About("camera", "DONE")' = About("camera", "DONE")
      /\ ~Starting' /\ ~Comes("WAYPOINT")' /\ ~Comes("GO")'
      /\ pending' # "NONE"
      /\ m.type = "WAIT" /\ Len(to_car) = 1
  BY CarTakesKeeps
<1>2. /\ ~Comes("WAYPOINT") /\ Len(to_car') = 0
      /\ ~Doomed => m.target = Current
  BY <1>1, CarTakes DEF Comes, TargetKept
<1>3. /\ car' = AfterWait(m) /\ mission' = mission /\ place' = place
      /\ car \in CarRecord
  BY <1>1, CarTakes DEF MissionInv, TypeInv, CarTyped
<1>4. Current.waypoint = mission.index + 1
  BY Waypoints DEF WaypointsLeft, MissionInv, TypeInv, HostTyped
<1>5. /\ car'.target = car.target /\ car'.state # "MOVING"
      /\ car.state = "READY" => car' = car
      /\ car.state # "READY" =>
           /\ car'.state = "WAITING"
           /\ car'.reason = IF OtherTarget(m) THEN "REMOTE_WAIT" ELSE m.reason
  BY <1>3 DEF AfterWait, CarRecord
<1>6. ~Doomed => ~OtherTarget(m)
  BY <1>1, <1>2 DEF OtherTarget, AnswersHarmless
<1>7. ~Doomed => r \in Harmless
  BY <1>6 DEF WaitResult, Harmless
<1>8. TargetKept'
  BY <1>1, <1>2, <1>5 DEF TargetKept
<1>9. ReportsHeard'
  <2>1. \A i \in 0..Len(from_car) : ~Heard(i)'.open
    BY CarTakes
  <2> PICK new \in Nat :
         /\ Len(from_car') = new /\ Heard(new)'.state = car'.state
         /\ \A i \in 0..new : i = new \/ i \in 0..Len(from_car)
    BY CarTakes
  <2>2. \A i, j \in 0..new : i = new /\ i <= j => j = new
    OBVIOUS
  <2>3. \A i \in 0..new : Heard(i)'.open => i = new
    BY <2>1
  <2>4. Right(new)'
    BY DEF Right
  <2>5. QED
    BY <1>1, <1>5, <2>2, <2>3, <2>4 DEF ReportsHeard
<1>10. NotJudged'
  BY <1>1, <1>5 DEF NotJudged, Behind
<1>11. AnswersHarmless'
  <2>1. \A i \in 1..Len(to_car') : FALSE
    BY <1>2
  <2>2. ASSUME ~Doomed
        PROVE  \A i \in 0..Len(from_car') : Heard(i)'.result \in Harmless
    BY <1>1, <1>7, <2>2, CarTakes DEF AnswersHarmless
  <2>3. ASSUME ~Doomed, car'.reason = "FINAL_WAYPOINT_REACHED"
        PROVE  car'.target.waypoint = Last
    <3>1. CASE car.state = "READY"
      BY <1>5, <2>3, <3>1 DEF AnswersHarmless
    <3>2. CASE car.state # "READY"
      <4>1. m.reason = "FINAL_WAYPOINT_REACHED"
        BY <1>5, <1>6, <2>3, <3>2
      <4>2. car.target = Current /\ mission.index + 1 = Last
        BY <1>1, <2>3, <4>1 DEF AnswersHarmless, Completing
      <4>3. QED
        BY <1>4, <1>5, <4>2
    <3>3. QED
      BY <3>1, <3>2
  <2>4. QED
    BY <1>1, <2>1, <2>2, <2>3 DEF AnswersHarmless
<1>12. ParkedStanding'
  BY <1>1, <1>3, <1>5 DEF ParkedStanding
<1>13. QED
  BY <1>1, <1>8, <1>9, <1>10, <1>11, <1>12

LEMMA CarHandlesLeg ==
  ASSUME MissionInv, LegInv, MissionInv', CarHandles
  PROVE  LegInv'
<1>1. CASE to_car[1].type = "WAYPOINT"
  BY <1>1, HandlesWaypoint
<1>2. CASE to_car[1].type = "GO"
  BY <1>2, HandlesGo
<1>3. CASE to_car[1].type \notin {"WAYPOINT", "GO"}
  BY <1>3, HandlesWait
<1>4. QED
  BY <1>1, <1>2, <1>3
-----------------------------------------------------------------------------
(* The car reports, and comes to its waypoint.                             *)

LEMMA CarReportsLeg ==
  ASSUME MissionInv, LegInv, MissionInv', CarReports
  PROVE  LegInv'
<1> USE DEF LegInv
<1>1. /\ UNCHANGED <<mission, pending, to_car, at, call, report, car, place>>
      /\ UNCHANGED failVars
  BY DEF CarReports, missionVars, threadVars, carVars
<1>2. Len(from_car) = 0 /\ Len(from_car') = 1
  BY DEF CarReports
<1>3. /\ Heard(0)' = Heard(0)
      /\ Heard(1)'.state = car.state /\ Heard(1)'.result = "NONE" /\ ~Heard(1)'.open
  BY <1>1 DEF CarReports, Heard
<1>4. \A i \in 0..Len(from_car') : i = 0 \/ i = 1
  BY <1>2
<1>5. 0 \in 0..Len(from_car)
  BY <1>2
<1>6. Current' = Current /\ Previous' = Previous
  BY <1>1, SameWaypoints
<1>7. ReportsHeard'
  <2>1. Right(1)' /\ (Right(0)' <=> Right(0))
    BY <1>1, <1>3 DEF Right
  <2>2. \A type : Comes(type)' <=> Comes(type)
    BY <1>1 DEF Comes
  <2>3. \A i, j \in 0..Len(from_car') : i <= j =>
          (i = 0 /\ j = 0) \/ (i = 0 /\ j = 1) \/ (i = 1 /\ j = 1)
    BY <1>2
  <2>4. /\ Heard(0).open => Right(0)
        /\ pending = "NONE" \/ Comes("WAYPOINT") \/ Comes("GO") => Right(0)
    BY <1>5 DEF ReportsHeard
  <2>5. QED
    BY <1>1, <1>3, <1>4, <2>1, <2>2, <2>3, <2>4 DEF ReportsHeard
<1>8. AnswersHarmless'
  <2>1. Doomed' <=> Doomed
    BY <1>1 DEF Doomed
  <2>2. ~Doomed => Heard(0)'.result \in Harmless /\ Heard(1)'.result \in Harmless
    BY <1>3, <1>5 DEF AnswersHarmless, Harmless
  <2>3. ~Doomed => \A i \in 0..Len(from_car') : Heard(i)'.result \in Harmless
    BY <1>4, <2>2
  <2>4. QED
    BY <1>1, <1>6, <2>1, <2>3 DEF AnswersHarmless
<1>9. /\ LinkQuiet' /\ OneCommand' /\ KnownCalls' /\ WaypointsLeft' /\ JudgedAlone'
  BY <1>1
  DEF LinkQuiet, OneCommand, KnownCalls, InCall, CameraCall, ReceiverCall,
      WaypointsLeft, Busy, About, JudgedAlone, JudgedNext, failVars
<1>10. TargetKept'
  BY <1>1, <1>6 DEF TargetKept, Starting, ToLoad, Doomed, Busy, Comes
<1>11. NotJudged' /\ ParkedStanding'
  BY <1>1, <1>6
  DEF NotJudged, Behind, Comes, JudgedNext, InCall, ParkedStanding, About
<1>12. QED
  BY <1>7, <1>8, <1>9, <1>10, <1>11

LEMMA CarComesLeg ==
  ASSUME MissionInv, LegInv, MissionInv', CarArrives \/ CarCloses
  PROVE  LegInv'
<1> USE DEF LegInv
<1>1. /\ UNCHANGED <<mission, pending, to_car, from_car, at, call, report, car>>
      /\ UNCHANGED failVars
      /\ car.state = "MOVING"
  BY DEF CarArrives, CarCloses, missionVars, linkVars, threadVars
<1>2. Current' = Current /\ Previous' = Previous
  BY <1>1, SameWaypoints
<1>3. /\ LinkQuiet' /\ OneCommand' /\ KnownCalls' /\ WaypointsLeft' /\ JudgedAlone'
  BY <1>1
  DEF LinkQuiet, OneCommand, KnownCalls, InCall, CameraCall, ReceiverCall,
      WaypointsLeft, Busy, About, JudgedAlone, JudgedNext, failVars
<1>4. TargetKept'
  BY <1>1, <1>2 DEF TargetKept, Starting, ToLoad, Doomed, Busy, Comes
<1>5. ReportsHeard'
  BY <1>1 DEF ReportsHeard, Heard, Right, Comes
<1>6. NotJudged' /\ AnswersHarmless'
  BY <1>1, <1>2
  DEF NotJudged, Behind, Comes, JudgedNext, InCall, AnswersHarmless, Doomed, Heard
<1>7. ParkedStanding'
  BY <1>1 DEF ParkedStanding, About, InCall
<1>8. QED
  BY <1>3, <1>4, <1>5, <1>6, <1>7
-----------------------------------------------------------------------------
(* While the link has not failed, every step keeps the leg.                *)
Leg == failures = 0 => LegInv

LEMMA LegInit == Init => Leg
<1> SUFFICES ASSUME Init PROVE LegInv
  BY DEF Leg
<1> USE DEF Init
<1>1. mission \in MissionRecord
  BY MissionInvInit DEF MissionInv, TypeInv, HostTyped
<1>2. /\ mission.index = 0 /\ mission.state = "NONE" /\ 0 < Last
      /\ Len(to_car) = 0 /\ Len(from_car) = 0
      /\ at["camera"] = "start" /\ at["receiver"] = "receive"
      /\ ~InCall("camera") /\ ~InCall("receiver") /\ ~Busy /\ ~Doomed
      /\ car.state = "READY" /\ car.target = NoTarget /\ car.reason = "NONE"
      /\ report.state = "READY" /\ report.result = "NONE" /\ ~report.open
  BY Numbers DEF InCall, Busy, Doomed, NoReport
<1>3. /\ ~JudgedNext /\ \A next : ~About("camera", next)
      /\ \A type : ~Comes(type)
  BY <1>2 DEF JudgedNext, About, Comes
<1>4. LinkQuiet /\ OneCommand /\ KnownCalls
  BY <1>2 DEF LinkQuiet, OneCommand, KnownCalls
<1>5. WaypointsLeft /\ JudgedAlone
  BY <1>2, <1>3 DEF WaypointsLeft, JudgedAlone
<1>6. TargetKept
  <2>1. Previous = NoTarget /\ Starting /\ ToLoad
    BY <1>2 DEF Previous, Starting, ToLoad
  <2>2. \A i \in 1..Len(to_car) : FALSE
    BY <1>2
  <2>3. QED
    BY <1>2, <1>3, <2>1, <2>2 DEF TargetKept
<1>7. ReportsHeard
  <2>1. \A i \in 0..Len(from_car) : Heard(i) = report
    BY <1>2 DEF Heard
  <2>2. QED
    BY <1>2, <2>1 DEF ReportsHeard, Right
<1>8. NotJudged /\ ParkedStanding
  BY <1>2, <1>3 DEF NotJudged, ParkedStanding
<1>9. AnswersHarmless
  <2>1. \A i \in 0..Len(from_car) : Heard(i) = report
    BY <1>2 DEF Heard
  <2>2. \A i \in 1..Len(to_car) : FALSE
    BY <1>2
  <2>3. QED
    BY <1>2, <2>1, <2>2 DEF AnswersHarmless, Harmless
<1>10. QED
  BY <1>4, <1>5, <1>6, <1>7, <1>8, <1>9 DEF LegInv

LEMMA CameraStepLeg ==
  ASSUME MissionInv, LegInv, MissionInv', CameraStep
  PROVE  LegInv'
<1>1. CASE StartMission \/ Judge \/ Collide \/ Resume
  BY <1>1, StartMissionLeg, JudgeLeg, CollideLeg, ResumeLeg
<1>2. CASE SendCall("camera")
  BY <1>2, CameraSendsLeg, NotSentLeg DEF Threads
<1>3. CASE WriteState("camera")
  BY <1>3, CameraWritesLeg
<1>4. QED
  BY <1>1, <1>2, <1>3 DEF CameraStep

LEMMA ReceiverStepLeg ==
  ASSUME MissionInv, LegInv, MissionInv', ReceiverStep
  PROVE  LegInv'
<1>1. CASE Receive \/ Consume \/ Rejected \/ VehicleStatus
  BY <1>1, ReceiveLeg, ConsumeLeg, RejectedLeg, VehicleStatusLeg
<1>2. ~Recovered
  BY DEF Recovered, LegInv, LinkQuiet
<1>3. CASE SendCall("receiver")
  BY <1>3, ReceiverSendsLeg, NotSentLeg DEF Threads
<1>4. CASE WriteState("receiver")
  BY <1>4, ReceiverWritesLeg
<1>5. QED
  BY <1>1, <1>2, <1>3, <1>4 DEF ReceiverStep

(* A failure of the link is counted, and stays counted.                    *)
LEMMA FailuresCounted ==
  ASSUME MissionInv, [Next]_vars
  PROVE  failures' = 0 => failures = 0 /\ ~CommFail
<1>1. failures \in Nat
  BY Numbers DEF MissionInv, TypeInv, HostTyped
<1>2. CASE CameraStep
  <2>1. failures' = failures /\ comm_failed' = comm_failed /\ ticker' = ticker
    BY <1>2 DEF CameraStep, StartMission, Judge, Collide, Resume, SendCall, WriteState,
                failVars
  <2>2. QED
    BY <1>1, <2>1 DEF CommFail
<1>3. CASE ReceiverStep
  <2>1. failures' = failures
    BY <1>3 DEF ReceiverStep, Receive, Recovered, Consume, Rejected, VehicleStatus,
                SendCall, WriteState, failVars
  <2>2. QED
    BY <1>1, <2>1 DEF CommFail
<1>4. CASE CommFail
  BY <1>1, <1>4 DEF CommFail
<1>5. CASE ~CommFail /\ (TellFailure \/ MarkLinkLost)
  BY <1>5 DEF TellFailure, MarkLinkLost
<1>6. CASE ~CommFail /\ (CarHandles \/ CarReports \/ CarArrives \/ CarCloses)
  BY <1>6 DEF CarHandles, CarReports, CarArrives, CarCloses, failVars
<1>7. CASE UNCHANGED vars
  BY <1>1, <1>7 DEF vars, failVars, CommFail
<1>8. QED
  BY <1>2, <1>3, <1>4, <1>5, <1>6, <1>7 DEF Next

LEMMA LegStep == MissionInv /\ MissionInv' /\ Leg /\ [Next]_vars => Leg'
<1> SUFFICES ASSUME MissionInv, MissionInv', Leg, [Next]_vars, failures' = 0
             PROVE  LegInv'
  BY DEF Leg
<1>1. LegInv /\ ~CommFail
  BY FailuresCounted DEF Leg
<1>2. CASE CameraStep
  BY <1>1, <1>2, CameraStepLeg
<1>3. CASE ReceiverStep
  BY <1>1, <1>3, ReceiverStepLeg
<1>4. ~TellFailure /\ ~MarkLinkLost
  BY <1>1 DEF TellFailure, MarkLinkLost, LegInv, LinkQuiet
<1>5. CASE CarHandles \/ CarReports \/ CarArrives \/ CarCloses
  BY <1>1, <1>5, CarHandlesLeg, CarReportsLeg, CarComesLeg
<1>6. CASE UNCHANGED vars
  <2> USE DEF LegInv, vars, missionVars, linkVars, threadVars, failVars, carVars
  <2>1. Current' = Current /\ Previous' = Previous
    BY <1>6, SameWaypoints
  <2>2. LinkQuiet' /\ OneCommand' /\ KnownCalls' /\ WaypointsLeft' /\ JudgedAlone'
    BY <1>1, <1>6
    DEF LinkQuiet, OneCommand, KnownCalls, InCall, CameraCall, ReceiverCall,
        WaypointsLeft, Busy, About, JudgedAlone, JudgedNext
  <2>3. TargetKept'
    BY <1>1, <1>6, <2>1 DEF TargetKept, Starting, ToLoad, Doomed, Busy, Comes
  <2>4. ReportsHeard'
    BY <1>1, <1>6 DEF ReportsHeard, Heard, Right, Comes
  <2>5. NotJudged' /\ AnswersHarmless'
    BY <1>1, <1>6, <2>1
    DEF NotJudged, Behind, Comes, JudgedNext, InCall, AnswersHarmless, Doomed, Heard
  <2>6. ParkedStanding'
    BY <1>1, <1>6, <2>1 DEF ParkedStanding, About, InCall
  <2>7. QED
    BY <2>2, <2>3, <2>4, <2>5, <2>6
<1>7. QED
  BY <1>1, <1>2, <1>3, <1>4, <1>5, <1>6 DEF Next

LEMMA LegHolds == Spec => [](MissionInv /\ Leg)
<1>1. Init => MissionInv /\ Leg
  BY MissionInvInit, LegInit
<1>2. MissionInv /\ Leg /\ [Next]_vars => (MissionInv /\ Leg)'
  BY MissionInvStep, LegStep
<1>3. QED
  BY <1>1, <1>2, PTL DEF Spec

(* Without a failure of the link, a car that drives has the target by      *)
(* which the mission is judged (update_pose), and a mission is DONE only   *)
(* when its car stands, and remains, exactly on the FINAL waypoint         *)
(* (_on_parked).                                                           *)
THEOREM MissionMatches == Spec => []MissionMatchesCar
<1>1. MissionInv /\ Leg => MissionMatchesCar
  BY DEF Leg, LegInv, TargetKept, ParkedStanding, MissionMatchesCar, MovingMatches,
         ParkedStands
<1>2. QED
  BY <1>1, LegHolds, PTL

(* Only a command the car handles changes its target.                      *)
LEMMA TargetChanges ==
  ASSUME [Next]_vars
  PROVE  CarHandles \/ car' = car
<1>1. CASE CameraStep
  BY <1>1 DEF CameraStep, StartMission, Judge, Collide, Resume, SendCall, WriteState,
              carVars
<1>2. CASE ReceiverStep
  BY <1>2 DEF ReceiverStep, Receive, Recovered, Consume, Rejected, VehicleStatus,
              SendCall, WriteState, carVars
<1>3. CASE CommFail \/ TellFailure \/ MarkLinkLost
  BY <1>3 DEF CommFail, TellFailure, MarkLinkLost, carVars
<1>4. CASE CarReports \/ CarArrives \/ CarCloses
  BY <1>4 DEF CarReports, CarArrives, CarCloses, carVars
<1>5. CASE UNCHANGED vars
  BY <1>5 DEF vars, carVars
<1>6. QED
  BY <1>1, <1>2, <1>3, <1>4, <1>5 DEF Next

LEMMA TargetFollows ==
  ASSUME MissionInv, LegInv, MissionInv', CarHandles, car'.target # car.target
  PROVE  /\ car'.target.route = mission.route
         /\ car'.target.waypoint = car.target.waypoint + 1
<1> DEFINE m == to_car[1]
<1> USE DEF LegInv
<1>1. car \in CarRecord
  BY DEF MissionInv, TypeInv, CarTyped
<1>2. m.type = "WAYPOINT"
  <2>1. CASE m.type = "GO"
    BY <1>1, <2>1, CarTakes DEF AfterGo, CarRecord
  <2>2. CASE m.type = "WAIT"
    BY <1>1, <2>2, CarTakes DEF AfterWait, CarRecord
  <2>3. QED
    BY <2>1, <2>2, CarTakesKeeps
<1>3. car'.target = m.target
  BY <1>2, CarTakes DEF AfterWaypoint
<1>4. m.target = Current /\ car.target = Previous
  <2>1. Len(to_car) \in Nat /\ Len(to_car) > 0
    BY CarTakes
  <2>2. QED
    BY <1>2, <2>1 DEF TargetKept, Comes
<1>5. /\ Current.route = mission.route /\ Current.waypoint = mission.index + 1
      /\ Previous.waypoint = mission.index
  BY Waypoints DEF WaypointsLeft, MissionInv, TypeInv, HostTyped
<1>6. QED
  BY <1>3, <1>4, <1>5

(* Without a failure of the link, the car takes the waypoints of the       *)
(* mission's route one after the other: on_vehicle_status goes on to the   *)
(* next waypoint only after the car has taken the one before.              *)
THEOREM InOrderHolds == Spec => InOrder
<1> DEFINE Follows ==
      failures' = 0 /\ car'.target # car.target =>
        /\ car'.target.route = mission.route
        /\ car'.target.waypoint = car.target.waypoint + 1
<1>1. MissionInv /\ Leg /\ [Next]_vars => [Follows]_vars
  <2> SUFFICES ASSUME MissionInv, Leg, [Next]_vars, failures' = 0,
                      car'.target # car.target
               PROVE  /\ car'.target.route = mission.route
                      /\ car'.target.waypoint = car.target.waypoint + 1
    OBVIOUS
  <2>1. LegInv
    BY FailuresCounted DEF Leg
  <2>2. CarHandles
    BY TargetChanges
  <2>3. MissionInv'
    BY MissionInvStep
  <2>4. QED
    BY <2>1, <2>2, <2>3, TargetFollows
<1>2. QED
  BY <1>1, LegHolds, PTL DEF InOrder, Spec
================================================================================
