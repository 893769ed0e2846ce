--------------------------- MODULE HostControlProofs ---------------------------
(***************************************************************************)
(* Proofs about driving from the host, for any number of schedulers and    *)
(* manual loops, any mission and any number of failures of the link, where *)
(* the mode is changed by one hand-over at a time (Orderly).               *)
(***************************************************************************)
EXTENDS HostControl, FiniteSetTheorems, TLAPS

(* Where a thread is in a hand-over.                                       *)
HandingOver == {"push", "join manual", "zeroed", "disarm auto", "arm auto",
                "auto armed"}
PastJoin == {"zeroed", "disarm auto", "arm auto", "auto armed"}
TakingOver == {"zero", "join scheduler", "disarm manual", "arm manual", "loop",
               "manual armed"}
Taken == {"disarm manual", "arm manual", "loop", "manual armed"}
Apart == {"idle", "assign", "pose", "check", "dead"}
GuiPlaces == {"idle", "auto", "release", "hold"} \cup HandingOver \cup TakingOver
CameraPlaces == {"auto", "start", "started"} \cup Apart \cup HandingOver
At(t) == thread[t].at

(* No tick of a manual loop or of a hand-over judges an arrival.           *)
PlacesKept ==
  /\ At("gui") \in GuiPlaces /\ At("camera") \in CameraPlaces
  /\ \A s \in Schedulers : At(s) \in {"off", "born", "idle", "act", "push"}
  /\ \A l \in ManualLoops : At(l) \in {"off", "idle", "push"}

(* One hand-over at a time, with no thread yet to begin.                   *)
OneHandOver ==
  /\ At("gui") = "idle" \/ At("camera") \in Apart
  /\ At("gui") # "idle" => \A s \in Schedulers : At(s) # "born"

(* A hand-over goes from the mode it began in, and has told the loop that  *)
(* it waits for to end.                                                    *)
FromMode ==
  /\ \A t \in {"gui", "camera"} :
       /\ At(t) \in HandingOver => mode = "MANUAL_WASD"
       /\ At(t) = "join manual" => manual_stop
  /\ At("gui") \in TakingOver => mode # "MANUAL_WASD"
  /\ At("gui") = "join scheduler" => sched_stop[scheduler]
  /\ At("camera") \in {"start", "started"} => mode = "AUTO_PENDING"

ManualAlive ==
  \A l \in ManualLoops : Alive(l) =>
    /\ l = manual_thread
    /\ mode = "MANUAL_WASD" \/ At("gui") = "manual armed"
    /\ At("gui") \notin PastJoin /\ At("camera") \notin PastJoin

SchedulerAlive ==
  \A s \in Schedulers : Alive(s) =>
    /\ s = scheduler
    /\ mode = "AUTO_HOST" \/ (mode = "AUTO_PENDING" /\ At("camera") = "started")
    /\ At("gui") \notin Taken

(* The automatic driver has the authority only when the mode says so, or   *)
(* is about to.                                                            *)
AutoOwner ==
  authority = "AUTO_HOST" =>
    /\ mode # "MANUAL_WASD" \/ "auto armed" \in {At("gui"), At("camera")}
    /\ At("gui") \notin {"arm manual", "loop", "manual armed"}

HandOverInv ==
  /\ PlacesKept /\ OneHandOver /\ FromMode
  /\ ManualAlive /\ SchedulerAlive /\ AutoOwner
-----------------------------------------------------------------------------
(* Types.                                                                  *)

(* Two schedulers and a manual loop there are, apart from the other        *)
(* threads.                                                                *)
LEMMA Actors ==
  /\ {"gui", "camera"} \subseteq Threads /\ Loops \subseteq Threads
  /\ Schedulers \subseteq Loops /\ ManualLoops \subseteq Loops
  /\ \A l \in Loops : l # "gui" /\ l # "camera" /\ l # NoLoop
  /\ \A s \in Schedulers, l \in ManualLoops : s # l
  /\ \E s \in Schedulers : TRUE
  /\ \E l \in ManualLoops : TRUE
<1>1. \E s \in Schedulers : TRUE
  <2>1. CASE Schedulers = {}
    <3>1. Cardinality(Schedulers) = 0
      BY <2>1, FS_EmptySet
    <3>2. QED
      BY <3>1, HostAssumption
  <2>2. QED
    BY <2>1
<1>2. QED
  BY <1>1, HostAssumption DEF Threads, Loops, NoLoop

LEMMA OffTyped == Off \in Thread
  BY DEF Off, Thread, Places, Values, Outcomes

(* A thread that goes on leaves the others where they are.                 *)
LEMMA GoToTyped ==
  ASSUME thread \in [Threads -> Thread], NEW t \in Threads, NEW p \in Places,
         GoTo(t, p)
  PROVE  /\ thread' \in [Threads -> Thread]
         /\ At(t)' = p /\ thread'[t].outcome = thread[t].outcome
         /\ \A u \in Threads : u # t => thread'[u] = thread[u]
  BY DEF GoTo, Thread, At

(* The operator's window or the camera sets off a loop.                    *)
LEMMA TwoGo ==
  ASSUME TypeOK, NEW l \in Loops, NEW t \in {"gui", "camera"}, NEW p, NEW q,
         thread' = [thread EXCEPT ![l].at = p, ![t].at = q]
  PROVE  /\ At(l)' = p /\ At(t)' = q
         /\ \A u \in Threads : u \notin {l, t} => thread'[u] = thread[u]
<1>1. l # t /\ l \in Threads /\ t \in Threads
  BY Actors
<1>2. thread[l] \in Thread /\ thread[t] \in Thread
  BY <1>1 DEF TypeOK
<1>3. /\ thread'[l] = [thread[l] EXCEPT !.at = p]
      /\ thread'[t] = [thread[t] EXCEPT !.at = q]
      /\ \A u \in Threads : u \notin {l, t} => thread'[u] = thread[u]
  BY <1>1 DEF TypeOK
<1>4. QED
  BY <1>2, <1>3 DEF Thread, At

LEMMA DecisionTyped ==
  ASSUME NEW input \in {"zero", "manual"}, NEW d \in Decisions(input)
  PROVE  d.cmd \in Values /\ d.outcome \in Outcomes
  BY DEF Decisions, ManualProduced, AutoProduced, Decision, Stale, Computed,
         Values, Outcomes

(* A tick that reads goes on to judge only on behalf of the automatic      *)
(* driver.                                                                 *)
LEMMA TickReadTyped ==
  ASSUME thread \in [Threads -> Thread], NEW t \in Threads,
         NEW input \in {"zero", "manual"}, TickRead(t, input)
  PROVE  /\ thread' \in [Threads -> Thread]
         /\ At(t)' \in {"push", "act"}
         /\ authority # "AUTO_HOST" /\ authority \in Authorities => At(t)' = "push"
         /\ \A u \in Threads : u # t => thread'[u] = thread[u]
<1>1. PICK d \in Decisions(input) :
        thread' = [thread EXCEPT ![t].cmd = d.cmd, ![t].outcome = d.outcome,
                     ![t].at = IF d.outcome = "none" THEN "push" ELSE "act"]
  BY DEF TickRead
<1>2. authority # "AUTO_HOST" /\ authority \in Authorities => d.outcome = "none"
  BY DEF Decisions, Halted, ManualProduced, Decision, Authorities
<1>3. d.cmd \in Values /\ d.outcome \in Outcomes
  BY DecisionTyped
<1>4. \A u \in Threads : u # t => thread'[u] = thread[u]
  BY <1>1
<1>5. /\ thread'[t].cmd = d.cmd /\ thread'[t].outcome = d.outcome
      /\ thread'[t].at = IF d.outcome = "none" THEN "push" ELSE "act"
      /\ thread'[t] \in Thread
  <2>1. thread[t] \in Thread
    OBVIOUS
  <2>2. thread'[t] = [thread[t] EXCEPT !.cmd = d.cmd, !.outcome = d.outcome,
                       !.at = IF d.outcome = "none" THEN "push" ELSE "act"]
    BY <1>1
  <2>3. (IF d.outcome = "none" THEN "push" ELSE "act") \in Places
    BY DEF Places
  <2>4. QED
    BY <1>3, <2>1, <2>2, <2>3 DEF Thread
<1>6. DOMAIN thread' = Threads /\ thread' = [u \in Threads |-> thread'[u]]
  BY <1>1
<1>7. thread' \in [Threads -> Thread]
  BY <1>4, <1>5, <1>6
<1>8. QED
  BY <1>2, <1>4, <1>5, <1>7 DEF At

(* The variables a step of a hand-over or a loop leaves alone.             *)
LEMMA InitTyped == Init => TypeOK
<1> SUFFICES ASSUME Init PROVE TypeOK
  OBVIOUS
<1>1. scheduler \in Schedulers /\ manual_thread \in ManualLoops
  BY Actors DEF Init
<1>2. thread \in [Threads -> Thread]
  <2>1. [Off EXCEPT !.at = "idle"] \in Thread
    BY OffTyped DEF Thread, Places
  <2>2. QED
    BY <2>1, OffTyped, Zenon DEF Init
<1>3. mission \in [status : {"EMPTY", "RUNNING", "REPLAN_REQUIRED", "DONE"},
                   index : 0..(Last - 1)] /\ failures \in 0..MaxFailures
  BY HostAssumption DEF Init
<1>4. QED
  BY <1>1, <1>2, <1>3 DEF Init, TypeOK, Authorities, Modes, Values

LEMMA TickActTyped ==
  ASSUME TypeOK, NEW t \in Threads, TickAct(t)
  PROVE  TypeOK'
<1>1. thread' \in [Threads -> Thread]
  BY GoToTyped DEF TypeOK, TickAct, Places
<1>2. authority' \in Authorities
  BY DEF TypeOK, TickAct, Fault, Authorities
<1>3. mission' \in [status : {"EMPTY", "RUNNING", "REPLAN_REQUIRED", "DONE"},
                    index : 0..(Last - 1)]
  <2>1. AfterArrival \in [status : {"EMPTY", "RUNNING", "REPLAN_REQUIRED", "DONE"},
                          index : 0..(Last - 1)]
    BY HostAssumption DEF TypeOK, AfterArrival
  <2>2. QED
    BY <2>1 DEF TypeOK, TickAct
<1>4. QED
  BY <1>1, <1>2, <1>3
  DEF TypeOK, TickAct, muxVars, outsideVars, failVars, carVars

LEMMA TickPushTyped ==
  ASSUME TypeOK, NEW t \in Threads, TickPush(t)
  PROVE  TypeOK'
<1>1. thread' \in [Threads -> Thread]
  <2>1. thread[t] \in Thread
    BY DEF TypeOK
  <2>2. [Off EXCEPT !.at = IF t \in Loops THEN "idle" ELSE "join manual",
                    !.hold = thread[t].hold] \in Thread
    BY <2>1, OffTyped DEF Thread, Places
  <2>3. QED
    BY <2>2 DEF TypeOK, TickPush
<1>2. stream' \in [value : Values, new : BOOLEAN]
  BY DEF TypeOK, TickPush, Push, Thread
<1>3. manual_stop' \in BOOLEAN
  BY Zenon DEF TickPush
<1>4. QED
  BY <1>1, <1>2, <1>3
  DEF TypeOK, TickPush, hostVars, outsideVars, failVars

LEMMA LoopTyped ==
  ASSUME TypeOK, NEW l \in Loops, LoopStep(l)
  PROVE  TypeOK'
<1> USE Actors DEF hostVars, muxVars, outsideVars, failVars, carVars
<1>1. CASE Begin(l)
  <2>1. thread' \in [Threads -> Thread]
    BY <1>1, GoToTyped DEF TypeOK, Begin, Places
  <2>2. QED
    BY <1>1, <2>1 DEF TypeOK, Begin
<1>2. CASE Loop(l)
  <2>1. CASE thread' = [thread EXCEPT ![l] = Off]
    BY <1>2, <2>1, OffTyped DEF TypeOK, Loop
  <2>2. CASE TickRead(l, IF l \in Schedulers THEN "zero" ELSE manual)
    BY <1>2, <2>2, TickReadTyped DEF TypeOK, Loop
  <2>3. QED
    BY <1>2, <2>1, <2>2 DEF Loop
<1>3. QED
  BY <1>1, <1>2, TickActTyped, TickPushTyped DEF LoopStep

LEMMA ToAutoTyped ==
  ASSUME TypeOK, NEW t \in {"gui", "camera"}, ToAuto(t)
  PROVE  TypeOK'
<1> USE Actors DEF hostVars, muxVars, outsideVars, failVars, carVars
<1> t \in Threads
  OBVIOUS
<1>1. CASE AutoNeutral(t)
  <2>1. thread' \in [Threads -> Thread]
    BY <1>1, GoToTyped, TickReadTyped DEF TypeOK, AutoNeutral, Places
  <2>2. QED
    BY <1>1, <2>1 DEF TypeOK, AutoNeutral
<1>2. CASE AutoJoin(t)
  BY <1>2, GoToTyped DEF TypeOK, AutoJoin, Places
<1>3. CASE AutoZero(t)
  BY <1>3, GoToTyped DEF TypeOK, AutoZero, Places, Push, Values
<1>4. CASE AutoDisarm(t) \/ AutoArm(t)
  <2>1. thread' \in [Threads -> Thread]
    BY <1>4, GoToTyped
    DEF TypeOK, AutoDisarm, AutoArm, Disarm, Arm, Raise, Places
  <2>2. authority' \in Authorities
    BY <1>4 DEF TypeOK, AutoDisarm, AutoArm, Disarm, Arm, Authorities
  <2>3. QED
    BY <1>4, <2>1, <2>2 DEF TypeOK, AutoDisarm, AutoArm
<1>5. CASE AutoPending(t)
  BY <1>5, GoToTyped DEF TypeOK, AutoPending, Places, Modes
<1>6. QED
  BY <1>1, <1>2, <1>3, <1>4, <1>5, TickActTyped, TickPushTyped DEF ToAuto

LEMMA ToManualTyped ==
  ASSUME TypeOK, ToManual
  PROVE  TypeOK'
<1> USE Actors DEF hostVars, muxVars, outsideVars, failVars, carVars
<1>1. CASE ManualZero
  BY <1>1, GoToTyped DEF TypeOK, ManualZero, Places, Push, Values
<1>2. CASE ManualJoin
  BY <1>2, GoToTyped DEF TypeOK, ManualJoin, Places
<1>3. CASE ManualDisarm \/ ManualArm
  <2>1. thread' \in [Threads -> Thread]
    BY <1>3, GoToTyped
    DEF TypeOK, ManualDisarm, ManualArm, Disarm, Arm, Raise, Places
  <2>2. authority' \in Authorities
    BY <1>3 DEF TypeOK, ManualDisarm, ManualArm, Disarm, Arm, Authorities
  <2>3. QED
    BY <1>3, <2>1, <2>2 DEF TypeOK, ManualDisarm, ManualArm
<1>4. CASE ManualLoop
  <2>1. PICK l \in ManualLoops :
          /\ ~Alive(l) /\ manual_thread' = l
          /\ thread' = [thread EXCEPT ![l].at = "idle", !["gui"].at = "manual armed"]
    BY <1>4 DEF ManualLoop
  <2>2. l # "gui" /\ l \in Threads
    OBVIOUS
  <2>3. /\ [thread[l] EXCEPT !.at = "idle"] \in Thread
        /\ [thread["gui"] EXCEPT !.at = "manual armed"] \in Thread
    <3>1. thread[l] \in Thread /\ thread["gui"] \in Thread
      BY <2>2 DEF TypeOK
    <3>2. QED
      BY <3>1 DEF Thread, Places
  <2>4. thread' \in [Threads -> Thread]
    BY <2>1, <2>2, <2>3 DEF TypeOK
  <2>5. QED
    BY <1>4, <2>1, <2>4 DEF TypeOK, ManualLoop, InputAtStart
<1>5. CASE ManualMode
  BY <1>5, GoToTyped DEF TypeOK, ManualMode, Places, Modes
<1>6. CASE HoldRelease
  BY <1>6, GoToTyped DEF TypeOK, HoldRelease, Places, SetManual
<1>7. CASE HoldZero
  BY <1>7, GoToTyped DEF TypeOK, HoldZero, Places, Push, Values
<1>8. QED
  BY <1>1, <1>2, <1>3, <1>4, <1>5, <1>6, <1>7 DEF ToManual

LEMMA CameraTyped ==
  ASSUME TypeOK, Frame \/ CameraStep
  PROVE  TypeOK'
<1> USE Actors DEF hostVars, muxVars, outsideVars, failVars, carVars
<1>1. CASE Frame \/ NotAssigned
  BY <1>1, GoToTyped DEF TypeOK, Frame, NotAssigned, Places
<1>2. CASE Assign
  <2>1. LoadedMission \in
          [status : {"EMPTY", "RUNNING", "REPLAN_REQUIRED", "DONE"},
           index : 0..(Last - 1)]
    BY HostAssumption DEF LoadedMission
  <2>2. QED
    BY <1>2, <2>1, GoToTyped DEF TypeOK, Assign, Places
<1>3. CASE Observe
  BY <1>3, GoToTyped DEF TypeOK, Observe, Places
<1>4. CASE CheckPending
  <2>1. thread' \in [Threads -> Thread]
    BY <1>4, GoToTyped DEF TypeOK, CheckPending, Places
  <2>2. scheduler' \in Schedulers /\ sched_stop' \in [Schedulers -> BOOLEAN]
    BY <1>4 DEF TypeOK, CheckPending, NewScheduler
  <2>3. QED
    BY <1>4, <2>1, <2>2 DEF TypeOK, CheckPending
<1>5. CASE StartScheduler
  <2>1. /\ scheduler \in Threads /\ scheduler # "camera"
        /\ thread \in [Threads -> Thread]
    BY DEF TypeOK
  <2>2. /\ [thread[scheduler] EXCEPT !.at = "born"] \in Thread
        /\ [thread["camera"] EXCEPT !.at = "started"] \in Thread
    BY <2>1 DEF Thread, Places
  <2>3. thread' \in [Threads -> Thread]
    BY <1>5, <2>1, <2>2 DEF StartScheduler
  <2>4. QED
    BY <1>5, <2>3 DEF TypeOK, StartScheduler
<1>6. CASE StartedMode
  BY <1>6, GoToTyped DEF TypeOK, StartedMode, ModeOnceStarted, Places, Modes
<1>7. QED
  BY <1>1, <1>2, <1>3, <1>4, <1>5, <1>6, ToAutoTyped DEF CameraStep

(* Each step keeps every variable in its type.                             *)
LEMMA TypeStep == TypeOK /\ [Next]_vars => TypeOK'
<1> SUFFICES ASSUME TypeOK, [Next]_vars PROVE TypeOK'
  OBVIOUS
<1> USE Actors DEF hostVars, muxVars, outsideVars, failVars, carVars
<1>1. ASSUME NEW pressed \in SUBSET Keys, Key(pressed) PROVE TypeOK'
  BY <1>1 DEF TypeOK, Key, Intent, SetManual
<1>2. ASSUME NEW place \in Places, NEW hold \in BOOLEAN, Request(place, hold)
      PROVE  TypeOK'
  <2>1. [thread["gui"] EXCEPT !.at = place, !.hold = hold] \in Thread
    BY <1>2 DEF TypeOK, Thread
  <2>2. thread' \in [Threads -> Thread]
    BY <1>2, <2>1 DEF TypeOK, Request
  <2>3. QED
    BY <1>2, <2>2 DEF TypeOK, Request, LetGo, SetManual
<1>3. CASE PressManual \/ PressAuto \/ PressHold
  BY <1>2, <1>3 DEF PressManual, PressAuto, PressHold, Places
<1>4. CASE PoseAges
  BY <1>4 DEF TypeOK, PoseAges
<1>5. CASE CommFail
  BY <1>5, HostAssumption DEF TypeOK, CommFail, Fault, Authorities
<1>6. CASE CommFailZero
  BY <1>6 DEF TypeOK, CommFailZero, Push, Values
<1>7. CASE CarApplies \/ CarDeadman
  BY <1>7 DEF TypeOK, CarApplies, CarDeadman, Values
<1>8. CASE UNCHANGED vars
  BY <1>8 DEF TypeOK, vars
<1>9. QED
  BY <1>1, <1>3, <1>4, <1>5, <1>6, <1>7, <1>8, LoopTyped, ToAutoTyped,
     ToManualTyped, CameraTyped
  DEF Next

(* Every variable of the host keeps its type, in whatever order the        *)
(* operator, the camera and the loops act.                                 *)
THEOREM TypeCorrect == Spec => []TypeOK
  BY InitTyped, TypeStep, PTL DEF Spec
-----------------------------------------------------------------------------
(* One hand-over at a time.                                                *)

LEMMA InitHandOver == Init => HandOverInv
<1> SUFFICES ASSUME Init PROVE HandOverInv
  OBVIOUS
<1>1. manual_thread \in ManualLoops
  BY Actors DEF Init
<1>2. /\ At("gui") = "idle" /\ At("camera") = "idle"
      /\ \A s \in Schedulers : At(s) = "off"
      /\ \A l \in ManualLoops : At(l) = IF l = manual_thread THEN "idle" ELSE "off"
  BY <1>1, Actors DEF Init, Off, At
<1>3. mode = "MANUAL_WASD" /\ authority = "MANUAL"
  BY DEF Init
<1>4. QED
  BY <1>2, <1>3
  DEF HandOverInv, PlacesKept, OneHandOver, FromMode, ManualAlive, SchedulerAlive,
      AutoOwner, At, Alive, GuiPlaces, CameraPlaces, HandingOver, PastJoin,
      TakingOver, Taken, Apart

(* Only a scheduler judges an arrival.                                     *)
LEMMA JudgeIsScheduler ==
  ASSUME HandOverInv, NEW t \in Threads, At(t) = "act"
  PROVE  t \in Schedulers
  BY DEF HandOverInv, PlacesKept, Threads, Loops, GuiPlaces, CameraPlaces,
     HandingOver, TakingOver, Apart

LEMMA TickHandOver ==
  ASSUME TypeOK, HandOverInv, NEW t \in Threads, TickAct(t) \/ TickPush(t)
  PROVE  HandOverInv'
<1> USE Actors
    DEF HandOverInv, PlacesKept, OneHandOver, FromMode, ManualAlive,
        SchedulerAlive, AutoOwner, Alive, GuiPlaces, CameraPlaces, HandingOver,
        PastJoin, TakingOver, Taken, Apart, muxVars
<1>1. CASE TickAct(t)
  <2>1. t \in Schedulers
    BY <1>1, JudgeIsScheduler DEF TickAct, At
  <2>2. At(t)' = "push" /\ \A u \in Threads : u # t => thread'[u] = thread[u]
    BY <1>1, GoToTyped DEF TypeOK, TickAct, Places
  <2>3. authority' = "AUTO_HOST" => authority = "AUTO_HOST"
    BY <1>1 DEF TickAct, Fault
  <2>4. QED
    BY <1>1, <2>1, <2>2, <2>3 DEF TickAct, At
<1>2. CASE TickPush(t)
  <2>1. At(t)' = IF t \in Loops THEN "idle" ELSE "join manual"
    BY <1>2 DEF TypeOK, TickPush, Off, At
  <2>2. \A u \in Threads : u # t => thread'[u] = thread[u]
    BY <1>2 DEF TypeOK, TickPush
  <2>3. manual_stop' = (manual_stop \/ t \notin Loops) /\ At(t) = "push"
    BY <1>2 DEF TickPush, At
  <2>4. UNCHANGED <<authority, mode, manual_thread, scheduler, sched_stop>>
    BY <1>2 DEF TickPush, hostVars
  <2>5. CASE t \in Schedulers
    BY <2>1, <2>2, <2>3, <2>4, <2>5 DEF At
  <2>6. CASE t \in ManualLoops
    BY <2>1, <2>2, <2>3, <2>4, <2>6 DEF At
  <2>7. CASE t = "gui"
    BY <2>1, <2>2, <2>3, <2>4, <2>7 DEF At
  <2>8. CASE t = "camera"
    BY <2>1, <2>2, <2>3, <2>4, <2>8 DEF At
  <2>9. QED
    BY <2>5, <2>6, <2>7, <2>8 DEF Threads, Loops
<1>3. QED
  BY <1>1, <1>2

LEMMA LoopHandOver ==
  ASSUME TypeOK, HandOverInv, NEW l \in Loops, LoopStep(l)
  PROVE  HandOverInv'
<1> USE Actors
    DEF HandOverInv, PlacesKept, OneHandOver, FromMode, ManualAlive,
        SchedulerAlive, AutoOwner, Alive, GuiPlaces, CameraPlaces, HandingOver,
        PastJoin, TakingOver, Taken, Apart, hostVars, muxVars
<1>1. CASE Begin(l)
  <2>1. At(l)' = "idle" /\ \A u \in Threads : u # l => thread'[u] = thread[u]
    BY <1>1, GoToTyped DEF TypeOK, Begin, Places
  <2>2. At(l) = "born" /\ At("gui") = "idle"
    BY <1>1 DEF Begin, At
  <2>3. QED
    BY <1>1, <2>1, <2>2 DEF Begin, At
<1>2. CASE Loop(l)
  <2>1. UNCHANGED <<authority, muxVars>> /\ At(l) = "idle"
    BY <1>2 DEF Loop, At
  <2>2. CASE thread' = [thread EXCEPT ![l] = Off]
    <3>1. At(l)' = "off" /\ \A u \in Threads : u # l => thread'[u] = thread[u]
      BY <2>2 DEF TypeOK, Off, At
    <3>2. QED
      BY <2>1, <3>1 DEF At
  <2>3. CASE TickRead(l, IF l \in Schedulers THEN "zero" ELSE manual)
    <3>0. PICK input \in {"zero", "manual"} : TickRead(l, input)
      BY <2>3 DEF TypeOK
    <3>1. /\ At(l)' \in {"push", "act"}
          /\ authority # "AUTO_HOST" => At(l)' = "push"
          /\ \A u \in Threads : u # l => thread'[u] = thread[u]
      <4>1. /\ thread \in [Threads -> Thread] /\ l \in Threads
            /\ authority \in Authorities
        BY DEF TypeOK
      <4>2. QED
        BY ONLY <3>0, <4>1, TickReadTyped
    <3>2. CASE l \in Schedulers
      BY <2>1, <3>1, <3>2 DEF At
    <3>3. CASE l \in ManualLoops
      <4>1. authority # "AUTO_HOST"
        BY <2>1, <3>3 DEF At
      <4>2. QED
        BY <2>1, <3>1, <3>3, <4>1 DEF At
    <3>4. QED
      BY <3>2, <3>3 DEF Loops
  <2>4. QED
    BY <1>2, <2>2, <2>3 DEF Loop
<1>3. QED
  BY <1>1, <1>2, TickHandOver DEF LoopStep

LEMMA ToAutoHandOver ==
  ASSUME TypeOK, HandOverInv, NEW t \in {"gui", "camera"}, ToAuto(t)
  PROVE  HandOverInv'
<1> USE Actors
    DEF HandOverInv, PlacesKept, OneHandOver, FromMode, ManualAlive,
        SchedulerAlive, AutoOwner, Alive, GuiPlaces, CameraPlaces, HandingOver,
        PastJoin, TakingOver, Taken, Apart, hostVars, muxVars
<1> t \in Threads
  OBVIOUS
<1>1. CASE AutoNeutral(t)
  <2>1. CASE mode = "MANUAL_WASD" /\ TickRead(t, "zero")
    <3>1. authority # "AUTO_HOST"
      BY <1>1, <2>1 DEF AutoNeutral, At
    <3>2. At(t)' = "push" /\ \A u \in Threads : u # t => thread'[u] = thread[u]
      BY <2>1, <3>1, TickReadTyped DEF TypeOK
    <3>3. QED
      BY <1>1, <2>1, <3>2 DEF AutoNeutral, At
  <2>2. CASE GoTo(t, IF t = "camera" THEN "pose" ELSE "idle")
    <3>1. /\ At(t)' = IF t = "camera" THEN "pose" ELSE "idle"
          /\ \A u \in Threads : u # t => thread'[u] = thread[u]
      BY <2>2, GoToTyped DEF TypeOK, Places
    <3>2. QED
      BY <1>1, <3>1 DEF AutoNeutral, At
  <2>3. QED
    BY <1>1, <2>1, <2>2 DEF AutoNeutral
<1>2. CASE AutoJoin(t)
  <2>1. At(t)' = "zeroed" /\ \A u \in Threads : u # t => thread'[u] = thread[u]
    BY <1>2, GoToTyped DEF TypeOK, AutoJoin, Places
  <2>2. \A l \in ManualLoops : ~Alive(l)
    BY <1>2 DEF AutoJoin, At
  <2>3. QED
    BY <1>2, <2>1, <2>2 DEF AutoJoin, At
<1>3. CASE AutoZero(t)
  <2>1. At(t)' = "disarm auto" /\ \A u \in Threads : u # t => thread'[u] = thread[u]
    BY <1>3, GoToTyped DEF TypeOK, AutoZero, Places
  <2>2. QED
    BY <1>3, <2>1 DEF AutoZero, At
<1>4. CASE AutoDisarm(t)
  <2>1. /\ At(t)' \in {"arm auto", "idle", "dead"}
        /\ t = "camera" => At(t)' # "idle"
        /\ t = "gui" => At(t)' # "dead"
        /\ \A u \in Threads : u # t => thread'[u] = thread[u]
    BY <1>4, GoToTyped DEF TypeOK, AutoDisarm, Disarm, Raise, Places
  <2>2. authority' \in {"FAULTED", "DISARMED"} /\ At(t) = "disarm auto"
    BY <1>4 DEF AutoDisarm, Disarm, At
  <2>3. QED
    BY <1>4, <2>1, <2>2 DEF AutoDisarm, At
<1>5. CASE AutoArm(t)
  <2>1. /\ At(t)' \in {"auto armed", "idle", "dead"}
        /\ t = "camera" => At(t)' # "idle"
        /\ t = "gui" => At(t)' # "dead"
        /\ \A u \in Threads : u # t => thread'[u] = thread[u]
    BY <1>5, GoToTyped DEF TypeOK, AutoArm, Arm, Raise, Places
  <2>2. At(t) = "arm auto" /\ authority # "AUTO_HOST"
    BY <1>5 DEF AutoArm, At
  <2>3. authority' = "AUTO_HOST" => At(t)' = "auto armed"
    BY <1>5, <2>2, GoToTyped DEF TypeOK, AutoArm, Arm, Places
  <2>4. QED
    BY <1>5, <2>1, <2>2, <2>3 DEF AutoArm, At
<1>6. CASE AutoPending(t)
  <2>1. /\ At(t)' = IF t = "camera" THEN "pose" ELSE "idle"
        /\ \A u \in Threads : u # t => thread'[u] = thread[u]
    BY <1>6, GoToTyped DEF TypeOK, AutoPending, Places
  <2>2. QED
    BY <1>6, <2>1 DEF AutoPending, At
<1>7. QED
  BY <1>1, <1>2, <1>3, <1>4, <1>5, <1>6, TickHandOver DEF ToAuto

LEMMA ToManualHandOver ==
  ASSUME TypeOK, HandOverInv, ToManual
  PROVE  HandOverInv'
<1> USE Actors
    DEF HandOverInv, PlacesKept, OneHandOver, FromMode, ManualAlive,
        SchedulerAlive, AutoOwner, Alive, GuiPlaces, CameraPlaces, HandingOver,
        PastJoin, TakingOver, Taken, Apart, hostVars, muxVars
<1>1. CASE ManualZero
  <2>1. At("gui")' = "join scheduler"
        /\ \A u \in Threads : u # "gui" => thread'[u] = thread[u]
    BY <1>1, GoToTyped DEF TypeOK, ManualZero, Places
  <2>2. sched_stop'[scheduler]
    BY <1>1 DEF TypeOK, ManualZero
  <2>3. QED
    BY <1>1, <2>1, <2>2 DEF ManualZero, At
<1>2. CASE ManualJoin
  <2>1. At("gui")' = "disarm manual"
        /\ \A u \in Threads : u # "gui" => thread'[u] = thread[u]
    BY <1>2, GoToTyped DEF TypeOK, ManualJoin, Places
  <2>2. \A s \in Schedulers : ~Alive(s)
    BY <1>2 DEF ManualJoin, Joined, At
  <2>3. QED
    BY <1>2, <2>1, <2>2 DEF ManualJoin, At
<1>3. CASE ManualDisarm
  <2>1. /\ At("gui")' \in {"arm manual", "idle"}
        /\ \A u \in Threads : u # "gui" => thread'[u] = thread[u]
    BY <1>3, GoToTyped DEF TypeOK, ManualDisarm, Disarm, Raise, Places
  <2>2. authority' \in {"FAULTED", "DISARMED"} /\ At("gui") = "disarm manual"
    BY <1>3 DEF ManualDisarm, Disarm, At
  <2>3. QED
    BY <1>3, <2>1, <2>2 DEF ManualDisarm, At
<1>4. CASE ManualArm
  <2>1. /\ At("gui")' \in {"loop", "idle"}
        /\ \A u \in Threads : u # "gui" => thread'[u] = thread[u]
    BY <1>4, GoToTyped DEF TypeOK, ManualArm, Arm, Raise, Places
  <2>2. authority' # "AUTO_HOST" /\ At("gui") = "arm manual"
    BY <1>4 DEF ManualArm, Arm, At
  <2>3. QED
    BY <1>4, <2>1, <2>2 DEF ManualArm, At
<1>5. CASE ManualLoop
  <2>1. PICK l \in ManualLoops :
          /\ manual_thread' = l
          /\ thread' = [thread EXCEPT ![l].at = "idle", !["gui"].at = "manual armed"]
    BY <1>5 DEF ManualLoop
  <2>2. /\ At(l)' = "idle" /\ At("gui")' = "manual armed"
        /\ \A u \in Threads : u \notin {l, "gui"} => thread'[u] = thread[u]
    BY <2>1, TwoGo
  <2>3. \A k \in ManualLoops : ~Alive(k)
    BY <1>5 DEF ManualLoop, At
  <2>4. /\ At("gui") = "loop" /\ At("camera") \in Apart
        /\ \A k \in Schedulers : At(k) = "off"
        /\ mode # "MANUAL_WASD" /\ authority # "AUTO_HOST"
    BY <1>5 DEF ManualLoop, At
  <2>5. UNCHANGED <<authority, mode, scheduler, sched_stop>>
    BY <1>5 DEF ManualLoop
  <2>6. PlacesKept' /\ OneHandOver' /\ FromMode'
    BY <2>2, <2>3, <2>4, <2>5 DEF At
  <2>7. ManualAlive'
    BY <2>1, <2>2, <2>3, <2>4, <2>5 DEF At
  <2>8. SchedulerAlive' /\ AutoOwner'
    BY <2>2, <2>4, <2>5 DEF At
  <2>9. QED
    BY <2>6, <2>7, <2>8
<1>6. CASE ManualMode
  <2>1. /\ At("gui")' = IF thread["gui"].hold THEN "release" ELSE "idle"
        /\ \A u \in Threads : u # "gui" => thread'[u] = thread[u]
    BY <1>6, GoToTyped DEF TypeOK, ManualMode, Places
  <2>2. QED
    BY <1>6, <2>1 DEF ManualMode, At
<1>7. CASE HoldRelease
  <2>1. At("gui")' = "hold"
        /\ \A u \in Threads : u # "gui" => thread'[u] = thread[u]
    BY <1>7, GoToTyped DEF TypeOK, HoldRelease, Places
  <2>2. QED
    BY <1>7, <2>1 DEF HoldRelease, At
<1>8. CASE HoldZero
  <2>1. At("gui")' = "idle"
        /\ \A u \in Threads : u # "gui" => thread'[u] = thread[u]
    BY <1>8, GoToTyped DEF TypeOK, HoldZero, Places
  <2>2. QED
    BY <1>8, <2>1 DEF HoldZero, At
<1>9. QED
  BY <1>1, <1>2, <1>3, <1>4, <1>5, <1>6, <1>7, <1>8 DEF ToManual

LEMMA CameraHandOver ==
  ASSUME Orderly, TypeOK, HandOverInv, Frame \/ CameraStep
  PROVE  HandOverInv'
<1> USE Actors
    DEF HandOverInv, PlacesKept, OneHandOver, FromMode, ManualAlive,
        SchedulerAlive, AutoOwner, Alive, GuiPlaces, CameraPlaces, HandingOver,
        PastJoin, TakingOver, Taken, Apart, hostVars, muxVars
<1>1. CASE Frame
  <2>1. At("camera")' = "assign"
        /\ \A u \in Threads : u # "camera" => thread'[u] = thread[u]
    BY <1>1, GoToTyped DEF TypeOK, Frame, Places
  <2>2. QED
    BY <1>1, <2>1 DEF Frame, At
<1>2. CASE NotAssigned
  <2>1. At("camera")' = "pose"
        /\ \A u \in Threads : u # "camera" => thread'[u] = thread[u]
    BY <1>2, GoToTyped DEF TypeOK, NotAssigned, Places
  <2>2. QED
    BY <1>2, <2>1 DEF NotAssigned, At
<1>3. CASE Assign
  <2>1. At("camera")' = "auto"
        /\ \A u \in Threads : u # "camera" => thread'[u] = thread[u]
    BY <1>3, GoToTyped DEF TypeOK, Assign, Places
  <2>2. QED
    BY <1>3, <2>1 DEF Assign, At, Resting, Serial
<1>4. CASE Observe
  <2>1. At("camera")' = "check"
        /\ \A u \in Threads : u # "camera" => thread'[u] = thread[u]
    BY <1>4, GoToTyped DEF TypeOK, Observe, Places
  <2>2. QED
    BY <1>4, <2>1 DEF Observe, At
<1>5. CASE CheckPending
  <2>1. CASE mode # "AUTO_PENDING"
    <3>1. At("camera")' = "idle"
          /\ \A u \in Threads : u # "camera" => thread'[u] = thread[u]
      BY <1>5, <2>1, GoToTyped DEF TypeOK, CheckPending, Places
    <3>2. QED
      BY <1>5, <2>1, <3>1 DEF CheckPending, At
  <2>2. CASE mode = "AUTO_PENDING"
    <3>1. At("camera")' = "start" /\ At("camera") = "check"
          /\ \A u \in Threads : u # "camera" => thread'[u] = thread[u]
      BY <1>5, <2>2, GoToTyped DEF TypeOK, CheckPending, Places, At
    <3>2. At("gui") = "idle" /\ \A s \in Schedulers : ~Alive(s)
      BY <1>5, <2>2, <3>1 DEF CheckPending, Resting, At
    <3>3. QED
      BY <1>5, <2>2, <3>1, <3>2 DEF CheckPending, At
  <2>3. QED
    BY <2>1, <2>2
<1>6. CASE StartScheduler
  <2> PICK l \in Loops : l = scheduler
    BY DEF TypeOK
  <2>1. /\ At(l)' = "born" /\ At("camera")' = "started"
        /\ \A u \in Threads : u \notin {l, "camera"} => thread'[u] = thread[u]
    <3>1. thread' = [thread EXCEPT ![l].at = "born", !["camera"].at = "started"]
      BY <1>6 DEF StartScheduler
    <3>2. QED
      BY <3>1, TwoGo
  <2>2. At("camera") = "start" /\ At("gui") = "idle" /\ scheduler \in Schedulers
    BY <1>6 DEF TypeOK, StartScheduler, At
  <2>3. UNCHANGED <<authority, mode, scheduler, manual_thread, sched_stop,
                    manual_stop>>
    BY <1>6 DEF StartScheduler
  <2>4. PlacesKept' /\ OneHandOver' /\ FromMode'
    BY <2>1, <2>2, <2>3 DEF At
  <2>5. ManualAlive'
    BY <2>1, <2>2, <2>3 DEF At
  <2>6. SchedulerAlive'
    BY <2>1, <2>2, <2>3 DEF At
  <2>7. AutoOwner'
    BY <2>1, <2>2, <2>3 DEF At
  <2>8. QED
    BY <2>4, <2>5, <2>6, <2>7
<1>7. CASE StartedMode
  <2>1. At("camera")' = "idle" /\ At("camera") = "started"
        /\ \A u \in Threads : u # "camera" => thread'[u] = thread[u]
    BY <1>7, GoToTyped DEF TypeOK, StartedMode, Places, At
  <2>2. mode' = "AUTO_HOST" /\ UNCHANGED <<authority, manual_stop, manual_thread,
                                          scheduler, sched_stop>>
    BY <1>7 DEF StartedMode, ModeOnceStarted
  <2>3. QED
    BY <2>1, <2>2 DEF At
<1>8. QED
  BY <1>1, <1>2, <1>3, <1>4, <1>5, <1>6, <1>7, ToAutoHandOver DEF CameraStep

LEMMA HandOverStep ==
  ASSUME Orderly
  PROVE  TypeOK /\ HandOverInv /\ [Next]_vars => HandOverInv'
<1> SUFFICES ASSUME TypeOK, HandOverInv, [Next]_vars PROVE HandOverInv'
  OBVIOUS
<1> USE Actors
    DEF HandOverInv, PlacesKept, OneHandOver, FromMode, ManualAlive,
        SchedulerAlive, AutoOwner, Alive, GuiPlaces, CameraPlaces, HandingOver,
        PastJoin, TakingOver, Taken, Apart, hostVars, muxVars
<1>1. CASE UNCHANGED <<authority, mode, manual_stop, manual_thread, scheduler,
                       sched_stop, thread>>
  BY <1>1 DEF At
<1>2. ASSUME NEW pressed, Key(pressed) PROVE HandOverInv'
  BY <1>1, <1>2 DEF Key
<1>3. ASSUME NEW place \in Places, NEW hold, Request(place, hold),
             \/ place = "auto"
             \/ place = "zero" /\ mode # "MANUAL_WASD"
             \/ place = "release"
      PROVE  HandOverInv'
  <2>0. thread["gui"] \in Thread
    BY DEF TypeOK
  <2>1. At("gui")' = place /\ \A u \in Threads : u # "gui" => thread'[u] = thread[u]
    BY <1>3, <2>0 DEF TypeOK, Thread, Request, At
  <2>2. /\ At("gui") = "idle" /\ At("camera") \in {"idle", "dead"}
        /\ \A s \in Schedulers : At(s) # "born"
    BY <1>3 DEF Request, Resting, Serial, Loops, At
  <2>3. QED
    BY <1>3, <2>1, <2>2 DEF Request, At
<1>4. CASE PressManual \/ PressAuto \/ PressHold
  BY <1>3, <1>4 DEF PressManual, PressAuto, PressHold, Places
<1>5. CASE CommFail
  BY <1>5 DEF CommFail, Fault, At
<1>6. CASE PoseAges \/ CommFailZero \/ CarApplies \/ CarDeadman \/ UNCHANGED vars
  BY <1>1, <1>6 DEF PoseAges, CommFailZero, CarApplies, CarDeadman, vars
<1>7. QED
  BY <1>2, <1>4, <1>5, <1>6, LoopHandOver, ToAutoHandOver, ToManualHandOver,
     CameraHandOver
  DEF Next

(* The hand-over's own invariant, of every behaviour in which the operator *)
(* and the camera change the mode one at a time.                           *)
LEMMA HandOverKept == ASSUME Orderly PROVE Spec => [](TypeOK /\ HandOverInv)
<1>1. TypeOK /\ HandOverInv /\ [Next]_vars => HandOverInv'
  BY HandOverStep
<1>2. QED
  BY <1>1, InitTyped, TypeStep, InitHandOver, PTL DEF Spec

(* The two drivers never tick the controller at the same time, there is    *)
(* never a second scheduler, and none ticks while the hand-over to         *)
(* automatic still waits for a pose: a hand-over joins the old loop before *)
(* it arms the new owner (hybrid_control.py).                              *)
THEOREM OneDriverHolds ==
  ASSUME Orderly
  PROVE  Spec => []OneDriver
<1>1. TypeOK /\ HandOverInv => OneDriver
  <2> SUFFICES ASSUME TypeOK, HandOverInv PROVE OneDriver
    OBVIOUS
  <2>1. OneProducer
    BY DEF HandOverInv, ManualAlive, SchedulerAlive, OneProducer, Loops, At,
           Taken
  <2>2. PendingIsStill
    BY DEF HandOverInv, SchedulerAlive, PendingIsStill, At
  <2>3. QED
    BY <2>1, <2>2 DEF OneDriver
<1>2. QED
  BY <1>1, HandOverKept, PTL

(* While the operator drives, the mission does not move on: only a         *)
(* scheduler judges an arrival, and the last one has been joined before    *)
(* the mode says that the operator drives (switch_to_manual).              *)
THEOREM ManualKeepsMissionHolds ==
  ASSUME Orderly
  PROVE  Spec => ManualKeepsMission
<1>1. TypeOK /\ HandOverInv /\ [Next]_vars =>
        [mode = "MANUAL_WASD" /\ mission' # mission => assigned' # assigned]_vars
  <2> SUFFICES ASSUME TypeOK, HandOverInv, Next, mode = "MANUAL_WASD",
                      mission' # mission
               PROVE  assigned' # assigned
    OBVIOUS
  <2> USE Actors
  <2>1. ASSUME NEW t \in Threads, TickAct(t) PROVE FALSE
    <3>1. t \in Schedulers /\ Alive(t)
      BY <2>1, JudgeIsScheduler DEF TickAct, At, Alive
    <3>2. QED
      BY <3>1 DEF HandOverInv, SchedulerAlive
  <2>2. ASSUME NEW l \in Loops, LoopStep(l) PROVE FALSE
    BY <2>1, <2>2 DEF LoopStep, Begin, Loop, TickPush, hostVars
  <2>3. ASSUME NEW t \in {"gui", "camera"}, ToAuto(t) PROVE FALSE
    BY <2>1, <2>3 DEF ToAuto, AutoNeutral, AutoJoin, AutoZero, AutoDisarm, AutoArm,
       AutoPending, TickPush, hostVars
  <2>4. CASE ToManual
    BY <2>4 DEF ToManual, ManualZero, ManualJoin, ManualDisarm, ManualArm,
       ManualLoop, ManualMode, HoldRelease, HoldZero, hostVars
  <2>5. CASE Frame \/ CameraStep
    <3>1. CASE Assign
      BY <3>1 DEF Assign, TypeOK
    <3>2. QED
      BY <2>3, <2>5, <3>1 DEF CameraStep, Frame, NotAssigned, Observe, CheckPending,
         StartScheduler, StartedMode, hostVars
  <2>6. ASSUME NEW pressed, Key(pressed) PROVE FALSE
    BY <2>6 DEF Key, hostVars
  <2>7. CASE PressManual \/ PressAuto \/ PressHold
    BY <2>7 DEF PressManual, PressAuto, PressHold, Request, hostVars
  <2>8. CASE PoseAges \/ CommFail \/ CommFailZero \/ CarApplies \/ CarDeadman
    BY <2>8 DEF PoseAges, CommFail, CommFailZero, CarApplies, CarDeadman, hostVars
  <2>9. QED
    BY <2>2, <2>3, <2>4, <2>5, <2>6, <2>7, <2>8 DEF Next
<1>2. QED
  BY <1>1, HandOverKept, PTL DEF Spec, ManualKeepsMission
================================================================================
