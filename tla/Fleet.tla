------------------------------- MODULE Fleet -------------------------------
(* Several cars under one camera (pipeline/runner.py, rl/bridge.py,        *)
(* parking/safety.py) in waypoint mode: which track is which car, which    *)
(* slot it gets, and which of two cars waits.  The camera thread takes a   *)
(* frame in steps; between them a handshake thread resynchronises a car    *)
(* and the receiving threads report failures, recoveries and parking.      *)
(*                                                                         *)
(* A mission's LOADING, SWITCHING, RESUMING and PARKED_CHECK are DRIVING   *)
(* here: what counts is whether the car may move (Mission has the rest).   *)
EXTENDS Naturals, Sequences, FiniteSets, SequencesExt

CONSTANTS
  Cars, Slots,
  MaxTracks,    \* bound: tracks the tracker makes
  MaxSyncs,     \* bound: handshakes
  MaxFailures   \* bound: failures of a link

ASSUME FleetAssumption ==
  /\ Cars # {} /\ IsFiniteSet(Cars) /\ "none" \notin Cars
  /\ Slots # {} /\ {"none", "unknown"} \cap Slots = {}
  /\ {MaxTracks, MaxSyncs, MaxFailures} \subseteq Nat

VARIABLES
  place,      \* where each car is
  seen,       \* the track the tracker has each car under, 0 for none
  owner,      \* history: the car each track was made for
  view,       \* pipeline.views, NoView when a track has none
  pending,    \* _pending_cars
  track_of,   \* track_of_car, 0 for none
  mission,    \* orchestrator.missions
  assigned,   \* the allocator's vehicles: their slot, None, or "unknown"
  taken,      \* slot_statuses: the slots that are not free
  held, lost, \* _collision_held, _comm_lost
  cam,        \* the camera thread
  sync,       \* each car's handshake thread
  syncs, failures,
  revived,    \* history: cars whose mission was started after their resync
  disturbed   \* history: the order of HELLOs and of arrivals was broken

tracking == <<seen, owner>>
binding == <<view, pending, track_of>>
allocator == <<assigned, taken>>
vars == <<place, tracking, binding, mission, allocator, held, lost, cam, sync,
          syncs, failures, revived, disturbed>>

None == "none"
Tracks == 1..MaxTracks
NoView == [known |-> FALSE, car |-> None, slot |-> None, node |-> None]
NoMission == [state |-> None, slot |-> None]
Waiting == [at |-> "frame", todo |-> {}, track |-> 0, car |-> None,
            events |-> {}, risks |-> {}, frame |-> {}]

Init ==
  /\ place = [c \in Cars |-> "away"]
  /\ seen = [c \in Cars |-> 0] /\ owner = <<>>
  /\ view = [t \in Tracks |-> NoView]
  /\ pending = <<>> /\ track_of = [c \in Cars |-> 0]
  /\ mission = [c \in Cars |-> NoMission]
  /\ assigned = [t \in Tracks |-> "unknown"] /\ taken = {}
  /\ held = {} /\ lost = {}
  /\ cam = Waiting /\ sync = [c \in Cars |-> "off"]
  /\ syncs = 0 /\ failures = 0 /\ revived = {} /\ disturbed = FALSE

-----------------------------------------------------------------------------
(* The cars and the tracker.                                               *)

CameraIdle == cam.at = "frame"

(* A car is put at the entrance, in the order of the HELLOs or not.        *)
Arrives(c) ==
  /\ CameraIdle /\ place[c] = "away"
  /\ place' = [place EXCEPT ![c] = "entrance"]
  /\ disturbed' = (disturbed \/ pending = <<>> \/ pending[1] # c)
  /\ UNCHANGED <<tracking, binding, mission, allocator, held, lost, cam, sync,
                 syncs, failures, revived>>

(* From the entrance into the lot, where it can reach its slot.            *)
Drives(c) ==
  /\ CameraIdle /\ mission[c].state = "DRIVING" /\ place[c] = "entrance"
  /\ place' = [place EXCEPT ![c] = "lot"]
  /\ UNCHANGED <<tracking, binding, mission, allocator, held, lost, cam, sync,
                 syncs, failures, revived, disturbed>>

Found(c) ==
  /\ CameraIdle /\ place[c] # "away" /\ seen[c] = 0 /\ Len(owner) < MaxTracks
  /\ seen' = [seen EXCEPT ![c] = Len(owner) + 1]
  /\ owner' = Append(owner, c)
  /\ UNCHANGED <<place, binding, mission, allocator, held, lost, cam, sync,
                 syncs, failures, revived, disturbed>>

(* The tracker loses a car; it comes back as another track.                *)
Lost(c) ==
  /\ CameraIdle /\ seen[c] # 0
  /\ seen' = [seen EXCEPT ![c] = 0]
  /\ disturbed' = (disturbed \/ place[c] = "entrance")
  /\ UNCHANGED <<place, owner, binding, mission, allocator, held, lost, cam,
                 sync, syncs, failures, revived>>

-----------------------------------------------------------------------------
(* The camera thread.                                                      *)

CamOnly(x) == cam' = x
World == UNCHANGED <<place, tracking, sync, syncs, failures, revived, disturbed>>

(* position_to_node: of the nodes only the entrance counts here.           *)
Node(c) == IF place[c] = "entrance" THEN "entrance" ELSE None

(* on_frame: every detection updates its view and the allocator.           *)
UpdateViews ==
  /\ cam.at = "frame"
  /\ LET frame == {seen[c] : c \in Cars} \ {0} IN
     /\ frame # {}
     /\ view' = [t \in Tracks |->
                   IF t \in frame
                   THEN [view[t] EXCEPT !.known = TRUE,
                                        !.node = Node(owner[t])]
                   ELSE view[t]]
     /\ assigned' = [t \in Tracks |->
                       IF t \in frame /\ assigned[t] = "unknown" THEN None
                       ELSE assigned[t]]
     /\ CamOnly([Waiting EXCEPT !.at = "bind", !.todo = frame,
                                !.frame = frame])
  /\ UNCHANGED <<pending, track_of, mission, taken, held, lost>> /\ World

(* Mutant: the car whose HELLO came last is bound first.                   *)
LastReady == Len(pending)

FirstReady == 1

(* The first half of _ensure_mission: views in some order.                 *)
Passed(t) == [cam EXCEPT !.todo = @ \ {t}]
ToStart(t, c) == IF mission[c] # NoMission THEN Passed(t)
                 ELSE [Passed(t) EXCEPT !.at = "start", !.track = t, !.car = c]
AtEntry(t) == view[t].slot = None /\ view[t].node = "entrance"

(* _bind_car: a track without a car takes the first that is ready.         *)
Bind(t, c) ==
  /\ pending' = RemoveAt(pending, FirstReady)
  /\ view' = [view EXCEPT ![t].car = c]
  /\ track_of' = [track_of EXCEPT ![c] = t]

BindCar(t) ==
  /\ cam.at = "bind" /\ t \in cam.todo
  /\ \/ ~AtEntry(t) /\ CamOnly(Passed(t)) /\ UNCHANGED binding
     \/ /\ AtEntry(t) /\ view[t].car # None
        /\ CamOnly(ToStart(t, view[t].car)) /\ UNCHANGED binding
     \/ /\ AtEntry(t) /\ view[t].car = None /\ pending = <<>>
        /\ CamOnly(Passed(t)) /\ UNCHANGED binding
     \/ /\ AtEntry(t) /\ view[t].car = None /\ pending # <<>>
        /\ Bind(t, pending[FirstReady])
        /\ CamOnly(ToStart(t, pending[FirstReady]))
  /\ UNCHANGED <<mission, allocator, held, lost>> /\ World

(* Mutant: a slot is marked only when a car has parked in it.              *)
MarkedLater(slot) == taken

Marked(slot) == taken \cup {slot}

(* _build_masks: a free slot or WAIT.                                      *)
Masks == (Slots \ taken) \cup {None}

(* _valid_slots, and select_action: the trained policy and the rules take  *)
(* a slot of the mask.  Some wait only for want of one, V3 also before.    *)
ValidSlots == Masks \ {None}
SelectAction == ValidSlots \cup {None}

(* allocate: the slot the track already has, or what the policy takes.     *)
Allocate(t) ==
  \/ /\ assigned[t] \in Slots
     /\ CamOnly([cam EXCEPT !.at = "mission"]) /\ UNCHANGED allocator
  \/ /\ assigned[t] = None
     /\ \E action \in SelectAction :
          /\ assigned' = [assigned EXCEPT ![t] = action]
          /\ taken' = IF action = None THEN taken ELSE Marked(action)
          /\ CamOnly(IF action = None
                     THEN [cam EXCEPT !.at = "bind", !.track = 0, !.car = None]
                     ELSE [cam EXCEPT !.at = "mission"])

StartAllocation ==
  /\ cam.at = "start"
  /\ Allocate(cam.track)
  /\ UNCHANGED <<binding, mission, held, lost>> /\ World

(* start_mission registers the mission and sends; a refused send leaves it *)
(* IDLE and the view without a slot.                                       *)
StartMission ==
  /\ cam.at = "mission"
  /\ LET slot == assigned[cam.track] IN
     \/ /\ mission' = [mission EXCEPT ![cam.car] =
                         [state |-> "DRIVING", slot |-> slot]]
        /\ view' = [view EXCEPT ![cam.track].slot = slot]
     \/ /\ mission' = [mission EXCEPT ![cam.car] =
                         [state |-> "IDLE", slot |-> slot]]
        /\ UNCHANGED view
  /\ revived' = IF sync[cam.car] = "unbind" \/ view[cam.track].car # cam.car
                THEN revived \cup {cam.car} ELSE revived
  /\ CamOnly([cam EXCEPT !.at = "bind", !.track = 0, !.car = None])
  /\ UNCHANGED <<place, tracking, pending, track_of, allocator, held, lost,
                 sync, syncs, failures, disturbed>>

(* _check_collisions, CollisionMonitor.check on the cars of the frame.     *)
Poses == {view[t].car : t \in cam.frame} \ {None}
Rated == {c \in Poses : mission[c] # NoMission}
MayMove(c) == mission[c].state \notin {"HELD", "DONE"}
Pairs == {{a, b} : a, b \in Rated} \ {{c} : c \in Rated}

(* Who must wait for whom, in the pairs near and in those whose ways cross.*)
(* Of two that move, progress decides: here, either.                       *)
Events(near, crossing) ==
  {e \in [stop : Rated, keep : Rated] :
     /\ {e.stop, e.keep} \in near \cup crossing /\ MayMove(e.stop)
     /\ {e.stop, e.keep} \in crossing \ near => MayMove(e.keep)}
OneEach(events) ==
  {es \in SUBSET events :
     \A e \in events : Cardinality({x \in es : {x.stop, x.keep} = {e.stop, e.keep}}) = 1}

CheckCollisions ==
  /\ cam.at = "bind" /\ cam.todo = {}
  /\ \E near \in SUBSET Pairs, crossing \in SUBSET Pairs :
       \E events \in OneEach(Events(near, crossing)) :
         CamOnly([cam EXCEPT !.at = "events", !.events = events,
                             !.risks = events])
  /\ UNCHANGED <<binding, mission, allocator, held, lost>> /\ World

(* hold, unless the car it is to wait for stands itself.                   *)
HoldCar ==
  /\ cam.at = "events"
  /\ \E e \in cam.events :
       /\ CamOnly([cam EXCEPT !.events = @ \ {e}])
       /\ IF /\ mission[e.stop].state \notin {None, "HELD"}
             /\ e.stop \notin lost /\ mission[e.keep].state # "HELD"
          THEN /\ held' = held \cup {e.stop}
               /\ mission' = [mission EXCEPT ![e.stop].state =
                                IF @ \in {"DONE", "IDLE"} THEN @ ELSE "HELD"]
          ELSE UNCHANGED <<held, mission>>
  /\ UNCHANGED <<binding, allocator, lost>> /\ World

(* _resume_cleared: who is not named in this frame goes on.                *)
ResumeCleared ==
  /\ cam.at = "events" /\ cam.events = {}
  /\ LET at_risk == {e.stop : e \in cam.risks}
         cleared == (held \ at_risk) \ lost IN
     /\ held' = held \ cleared
     /\ mission' = [c \in Cars |->
                      IF c \in cleared /\ mission[c].state = "HELD"
                      THEN [mission[c] EXCEPT !.state = "DRIVING"]
                      ELSE mission[c]]
  /\ CamOnly([cam EXCEPT !.at = "forget", !.risks = {}])
  /\ UNCHANGED <<binding, allocator, lost>> /\ World

(* _forget_stale: the slot of a forgotten track stays taken.               *)
ForgetStale ==
  /\ cam.at = "forget"
  /\ \E old \in SUBSET {t \in Tracks \ cam.frame :
                          view[t].known /\ view[t].car = None} :
       /\ view' = [t \in Tracks |-> IF t \in old THEN NoView ELSE view[t]]
       /\ assigned' = [t \in Tracks |->
                         IF t \in old THEN "unknown" ELSE assigned[t]]
  /\ CamOnly(Waiting)
  /\ UNCHANGED <<pending, track_of, mission, taken, held, lost>> /\ World

-----------------------------------------------------------------------------
(* The handshake thread: a new session of car c.                           *)

Threads == UNCHANGED <<place, tracking, allocator, held, cam, revived>>

Handshake(c) ==
  /\ sync[c] \in {"off", "up"} /\ syncs < MaxSyncs
  /\ syncs' = syncs + 1
  /\ sync' = [sync EXCEPT ![c] = "resync"]
  /\ disturbed' = (disturbed \/ track_of[c] # 0 \/ cam.car = c)
  /\ UNCHANGED <<binding, mission, lost, failures>> /\ Threads

(* _on_resync drops the mission, then, under the lock, the binding.        *)
ResyncMission(c) ==
  /\ sync[c] = "resync"
  /\ mission' = [mission EXCEPT ![c] = NoMission]
  /\ revived' = revived \ {c}
  /\ sync' = [sync EXCEPT ![c] = "unbind"]
  /\ UNCHANGED <<place, tracking, binding, allocator, held, lost, cam, syncs,
                 failures, disturbed>>

(* Mutant: the view keeps its car.                                         *)
ViewKept(c) == view

Unbound(c) ==
  [t \in Tracks |-> IF t = track_of[c]
                    THEN [view[t] EXCEPT !.car = None, !.slot = None]
                    ELSE view[t]]

ResyncBinding(c) ==
  /\ sync[c] = "unbind"
  /\ lost' = lost \ {c}
  /\ view' = Unbound(c)
  /\ track_of' = [track_of EXCEPT ![c] = 0]
  /\ sync' = [sync EXCEPT ![c] = "ready"]
  /\ disturbed' = (disturbed \/ track_of[c] # 0)
  /\ UNCHANGED <<pending, mission, syncs, failures>> /\ Threads

Queued(c) == Contains(pending, c)

(* _on_vehicle_ready.                                                      *)
VehicleReady(c) ==
  /\ sync[c] = "ready"
  /\ pending' = IF track_of[c] = 0 /\ ~Queued(c)
                THEN Append(pending, c) ELSE pending
  /\ sync' = [sync EXCEPT ![c] = "up"]
  /\ UNCHANGED <<view, track_of, mission, lost, syncs, failures, disturbed>>
  /\ Threads

-----------------------------------------------------------------------------
(* The receiving threads.                                                  *)

Parks(c) ==
  /\ mission[c].state = "DRIVING" /\ place[c] = "lot" /\ seen[c] # 0
  /\ track_of[c] # 0
  /\ mission' = [mission EXCEPT ![c].state = "DONE"]
  /\ taken' = taken \cup {mission[c].slot}
  /\ UNCHANGED <<place, tracking, binding, assigned, held, lost, cam, sync,
                 syncs, failures, revived, disturbed>>

(* Mutant: a car without a mission is stopped too.                         *)
AllButEnded(state) == state \notin {"DONE", "IDLE"}

(* mark_link_lost stops a mission that is under way.                       *)
UnderWay(state) == state \notin {"DONE", "IDLE", None}

CommFails(c) ==
  /\ sync[c] = "up" /\ c \notin lost /\ failures < MaxFailures
  /\ failures' = failures + 1
  /\ lost' = lost \cup {c}
  /\ mission' = [mission EXCEPT ![c].state =
                   IF UnderWay(@) THEN "HELD" ELSE @]
  /\ UNCHANGED <<binding, sync, syncs, disturbed>> /\ Threads

(* _on_replan_required: whatever state the mission is in.                  *)
CommRecovers(c) ==
  /\ c \in lost
  /\ lost' = lost \ {c}
  /\ mission' = IF /\ track_of[c] # 0 /\ view[track_of[c]].known
                   /\ mission[c] # NoMission
                THEN [mission EXCEPT ![c].state = "DRIVING"]
                ELSE mission
  /\ UNCHANGED <<binding, sync, syncs, failures, disturbed>> /\ Threads

-----------------------------------------------------------------------------
Camera == \/ UpdateViews \/ (\E t \in Tracks : BindCar(t)) \/ StartAllocation
          \/ StartMission \/ CheckCollisions \/ HoldCar \/ ResumeCleared
          \/ ForgetStale

Environment == \E c \in Cars : Arrives(c) \/ Drives(c) \/ Found(c) \/ Lost(c)

Host == \E c \in Cars : \/ Handshake(c) \/ ResyncMission(c) \/ ResyncBinding(c)
                        \/ VehicleReady(c) \/ Parks(c) \/ CommFails(c)
                        \/ CommRecovers(c)

Next == Camera \/ Environment \/ Host

Spec == Init /\ [][Next]_vars

-----------------------------------------------------------------------------
TypeOK ==
  /\ place \in [Cars -> {"away", "entrance", "lot"}]
  /\ seen \in [Cars -> 0..Len(owner)] /\ owner \in Seq(Cars)
  /\ \A t \in Tracks : view[t].car \in Cars \cup {None}
                       /\ view[t].slot \in Slots \cup {None}
  /\ pending \in Seq(Cars) /\ Len(pending) <= Cardinality(Cars)
  /\ track_of \in [Cars -> 0..MaxTracks]
  /\ \A c \in Cars :
       /\ mission[c].state \in {None, "IDLE", "DRIVING", "HELD", "DONE"}
       /\ mission[c].slot \in Slots \cup {None}
       /\ mission[c].state = None <=> mission[c].slot = None
  /\ assigned \in [Tracks -> Slots \cup {None, "unknown"}]
  /\ taken \subseteq Slots /\ held \cup lost \cup revived \subseteq Cars

(* A car has at most one track and a track at most one car, both sides     *)
(* agree, and a car that has one is not queued for another; and where no   *)
(* car came out of turn, reconnected after its binding or was lost at the  *)
(* entrance, the track a car has is its own.                               *)
BindingsAgree ==
  /\ \A t \in Tracks, c \in Cars : view[t].car = c <=> track_of[c] = t
  /\ \A c \in Cars : track_of[c] # 0 => ~Contains(pending, c)
  /\ ~disturbed => \A t \in Tracks : view[t].car \in {None} \cup
                                       {owner[u] : u \in {t} \cap DOMAIN owner}

(* No two missions go to one slot, whatever the tracker loses, the cars'   *)
(* reconnections leave behind and the allocator is asked again             *)
(* (docs/implementation_status.md:86: double assignment is excluded).      *)
(* A mission that the camera thread starts after the resync of its car has *)
(* dropped it is excepted: its track is free for the next car in the queue *)
(* and keeps its slot.                                                     *)
SlotGivenOnce ==
  \A c, d \in Cars \ revived : c # d /\ mission[c].slot # None =>
                                 mission[c].slot # mission[d].slot

=============================================================================
