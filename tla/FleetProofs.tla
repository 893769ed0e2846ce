---------------------------- MODULE FleetProofs ----------------------------
(* Proofs about Fleet: the state keeps its types, tracks and cars are      *)
(* paired one to one, and no slot is given to two missions, for any number *)
(* of cars, slots and tracks and however often the cars reconnect.         *)
EXTENDS Fleet, SequenceTheorems, FiniteSetTheorems, TLAPS

-----------------------------------------------------------------------------
(* The inductive invariant.                                                *)

MissionStates == {None, "IDLE", "DRIVING", "HELD", "DONE"}
Missions == [state : MissionStates, slot : Slots \cup {None}]
Event == [stop : Cars, keep : Cars]
Views == [known : BOOLEAN, car : Cars \cup {None}, slot : Slots \cup {None},
          node : {"entrance", None}]
Cameras ==
  [at : {"frame", "bind", "start", "mission", "events", "forget"},
   todo : SUBSET Tracks, track : 0..MaxTracks, car : Cars \cup {None},
   events : SUBSET Event, risks : SUBSET Event, frame : SUBSET Tracks]

(* Every variable has its type.                                            *)
FleetTyped ==
  /\ place \in [Cars -> {"away", "entrance", "lot"}]
  /\ owner \in Seq(Cars) /\ Len(owner) <= MaxTracks
  /\ seen \in [Cars -> 0..Len(owner)]
  /\ view \in [Tracks -> Views]
  /\ pending \in Seq(Cars)
  /\ track_of \in [Cars -> 0..MaxTracks]
  /\ mission \in [Cars -> Missions]
  /\ assigned \in [Tracks -> Slots \cup {None, "unknown"}] /\ taken \subseteq Slots
  /\ held \subseteq Cars /\ lost \subseteq Cars /\ revived \subseteq Cars
  /\ cam \in Cameras
  /\ sync \in [Cars -> {"off", "resync", "unbind", "ready", "up"}]
  /\ disturbed \in BOOLEAN

(* A mission has a state and a slot, or neither.                           *)
MissionWhole ==
  \A c \in Cars : mission[c].state = None <=> mission[c].slot = None

(* A car waits in the queue once.                                          *)
QueuedOnce ==
  \A i, j \in 1..Len(pending) : pending[i] = pending[j] => i = j

(* Views and track_of_car agree; a car with a track does not wait.         *)
Paired ==
  /\ \A t \in Tracks, c \in Cars : view[t].car = c <=> track_of[c] = t
  /\ \A c \in Cars : track_of[c] # 0 => ~Contains(pending, c)

(* What the camera thread carries from step to step stays true: the slot   *)
(* it is about to give, and during a frame which tracks are seen and where.*)
CamKept ==
  /\ cam.at \in {"start", "mission"} => cam.track \in Tracks /\ cam.car \in Cars
  /\ cam.at = "mission" => assigned[cam.track] \in Slots
  /\ cam.todo \subseteq cam.frame
  /\ cam.at # "frame" =>
       \A t \in cam.frame : /\ t \in DOMAIN owner /\ seen[owner[t]] = t
                            /\ view[t].node = Node(owner[t])

(* The slot of a track is taken and no other track has it.                 *)
SlotOfTrack ==
  /\ \A t \in Tracks : assigned[t] \in Slots => assigned[t] \in taken
  /\ \A t, u \in Tracks :
       assigned[t] \in Slots /\ assigned[t] = assigned[u] => t = u

(* The slot of a mission is that of its car's track.                       *)
SlotOfMission ==
  \A c \in Cars \ revived :
     mission[c].slot # None => /\ sync[c] # "unbind" /\ track_of[c] # 0
                               /\ assigned[track_of[c]] = mission[c].slot

(* The track a car is seen under is its own, and the car is there.         *)
SeenIsOwn ==
  \A c \in Cars : seen[c] # 0 => owner[seen[c]] = c /\ place[c] # "away"

(* While nothing came out of turn: a car that has not driven in has at most*)
(* the track it is seen under, a car at the entrance without a track is    *)
(* the first that waits, and every pair is right.                          *)
InTurn ==
  ~disturbed =>
    /\ \A c \in Cars, t \in DOMAIN owner :
         place[c] # "lot" /\ owner[t] = c => seen[c] = t
    /\ \A c \in Cars : place[c] = "entrance" /\ track_of[c] = 0 =>
                         pending # <<>> /\ pending[1] = c
    /\ \A t \in Tracks : view[t].car # None =>
                           t \in DOMAIN owner /\ owner[t] = view[t].car

FleetInv ==
  /\ FleetTyped /\ MissionWhole /\ QueuedOnce /\ Paired /\ CamKept
  /\ SlotOfTrack /\ SlotOfMission /\ SeenIsOwn /\ InTurn

-----------------------------------------------------------------------------
(* Facts about the queue.                                                  *)

LEMMA WithoutFirst ==
  ASSUME NEW S, NEW s \in Seq(S), s # <<>>
  PROVE  /\ RemoveAt(s, 1) \in Seq(S)
         /\ Len(RemoveAt(s, 1)) = Len(s) - 1
         /\ \A i \in 1..(Len(s) - 1) : RemoveAt(s, 1)[i] = s[i + 1]
<1>1. Len(s) \in Nat /\ Len(s) >= 1
  BY EmptySeq, LenProperties
<1>2. SubSeq(s, 1, 0) = <<>>
  BY <1>1, SubSeqEmpty
<1>3. /\ SubSeq(s, 2, Len(s)) \in Seq(S) /\ Len(SubSeq(s, 2, Len(s))) = Len(s) - 1
      /\ \A i \in 1..(Len(s) - 1) : SubSeq(s, 2, Len(s))[i] = s[i + 1]
  <2>1. \A i \in 2..Len(s) : s[i] \in S
    BY <1>1, ElementOfSeq
  <2>2. /\ SubSeq(s, 2, Len(s)) \in Seq(S)
        /\ Len(SubSeq(s, 2, Len(s))) = IF 2 <= Len(s) THEN Len(s) - 2 + 1 ELSE 0
        /\ \A i \in 1..(Len(s) - 2 + 1) : SubSeq(s, 2, Len(s))[i] = s[2 + i - 1]
    BY <1>1, <2>1, SubSeqProperties
  <2>3. Len(SubSeq(s, 2, Len(s))) = Len(s) - 1
    <3> DEFINE n == Len(s)
               m == Len(SubSeq(s, 2, Len(s)))
    <3>1. n \in Nat /\ n >= 1 /\ m = IF 2 <= n THEN n - 2 + 1 ELSE 0
      BY <1>1, <2>2
    <3> HIDE DEF n, m
    <3>2. m = n - 1 BY <3>1
    <3> QED BY <3>2 DEF n, m
  <2>4. ASSUME NEW i \in 1..(Len(s) - 1)
        PROVE  SubSeq(s, 2, Len(s))[i] = s[i + 1]
    <3>1. i \in 1..(Len(s) - 2 + 1) /\ 2 + i - 1 = i + 1
      BY <1>1
    <3> QED BY <2>2, <3>1
  <2> QED BY <2>2, <2>3, <2>4
<1>4. RemoveAt(s, 1) = <<>> \o SubSeq(s, 2, Len(s))
  BY <1>1, <1>2, 1 - 1 = 0, 1 + 1 = 2 DEF RemoveAt
<1> QED BY <1>1, <1>3, <1>4, ConcatEmptySeq

(* The queue without its first car: who is in it was in it before, and the *)
(* first is gone.                                                          *)
LEMMA FirstLeaves ==
  ASSUME FleetTyped, QueuedOnce, pending # <<>>
  PROVE  /\ pending[1] \in Cars
         /\ RemoveAt(pending, 1) \in Seq(Cars)
         /\ \A i, j \in 1..Len(RemoveAt(pending, 1)) :
              RemoveAt(pending, 1)[i] = RemoveAt(pending, 1)[j] => i = j
         /\ \A c \in Cars : Contains(RemoveAt(pending, 1), c) =>
                              Contains(pending, c) /\ c # pending[1]
<1> DEFINE rest == RemoveAt(pending, 1)
<1>1. pending \in Seq(Cars) BY DEF FleetTyped
<1>2. Len(pending) \in Nat /\ Len(pending) >= 1
  BY <1>1, EmptySeq, LenProperties
<1>3. /\ rest \in Seq(Cars) /\ Len(rest) = Len(pending) - 1
      /\ \A i \in 1..(Len(pending) - 1) : rest[i] = pending[i + 1]
  BY <1>1, WithoutFirst
<1>4. pending[1] \in Cars BY <1>1, <1>2, ElementOfSeq
<1> HIDE DEF rest
<1>5. \A i, j \in 1..Len(rest) : rest[i] = rest[j] => i = j
  BY <1>2, <1>3 DEF QueuedOnce
<1>6. \A c \in Cars : Contains(rest, c) => Contains(pending, c) /\ c # pending[1]
  BY <1>2, <1>3 DEF QueuedOnce, Contains
<1> QED BY <1>3, <1>4, <1>5, <1>6 DEF rest

(* The queue with one more car, which was not in it.                       *)
LEMMA LastJoins ==
  ASSUME FleetTyped, QueuedOnce, NEW c \in Cars, ~Contains(pending, c)
  PROVE  /\ Append(pending, c) \in Seq(Cars)
         /\ \A i, j \in 1..Len(Append(pending, c)) :
              Append(pending, c)[i] = Append(pending, c)[j] => i = j
         /\ \A d \in Cars : Contains(Append(pending, c), d) =>
                              Contains(pending, d) \/ d = c
         /\ pending # <<>> => /\ Append(pending, c) # <<>>
                              /\ Append(pending, c)[1] = pending[1]
<1> DEFINE more == Append(pending, c)
<1>1. pending \in Seq(Cars) BY DEF FleetTyped
<1>2. Len(pending) \in Nat BY <1>1, LenProperties
<1>3. /\ more \in Seq(Cars) /\ more # <<>> /\ Len(more) = Len(pending) + 1
      /\ \A i \in 1..Len(pending) : more[i] = pending[i]
      /\ more[Len(pending) + 1] = c
  BY <1>1, AppendProperties
<1> HIDE DEF more
<1>4. \A i, j \in 1..Len(more) : more[i] = more[j] => i = j
  BY <1>2, <1>3 DEF QueuedOnce, Contains
<1>5. \A d \in Cars : Contains(more, d) => Contains(pending, d) \/ d = c
  BY <1>2, <1>3 DEF Contains
<1>6. pending # <<>> => more[1] = pending[1]
  BY <1>1, <1>2, <1>3, EmptySeq
<1> QED BY <1>3, <1>4, <1>5, <1>6 DEF more

LEMMA Bounds ==
  MaxTracks \in Nat /\ 0 \in 0..MaxTracks /\ Tracks = (0..MaxTracks) \ {0}
<1>1. MaxTracks \in Nat BY FleetAssumption
<1> QED BY <1>1 DEF Tracks

(* The track under which a car is seen exists and is the car's.            *)
LEMMA SeenTrack ==
  ASSUME FleetTyped, SeenIsOwn, NEW c \in Cars, seen[c] # 0
  PROVE  seen[c] \in DOMAIN owner /\ seen[c] \in Tracks /\ owner[seen[c]] = c
<1>1. Len(owner) \in Nat /\ DOMAIN owner = 1..Len(owner) /\ MaxTracks \in Nat
  BY LenProperties, FleetAssumption DEF FleetTyped
<1>2. seen[c] \in 0..Len(owner) /\ Len(owner) <= MaxTracks BY DEF FleetTyped
<1> QED BY <1>1, <1>2 DEF SeenIsOwn, Tracks

-----------------------------------------------------------------------------
(* The cars and the tracker: no step of theirs falls into a frame.         *)

LEMMA ArrivesKeeps ==
  ASSUME FleetInv, NEW c \in Cars, Arrives(c)
  PROVE  FleetInv'
<1> USE DEF FleetInv, Arrives, CameraIdle, tracking, binding, allocator
<1>1. FleetTyped' BY DEF FleetTyped
<1>2. CamKept' BY DEF CamKept
<1>3. InTurn'
  <2>1. place \in [Cars -> {"away", "entrance", "lot"}] BY DEF FleetTyped
  <2>2. ASSUME ~disturbed' PROVE ~disturbed /\ pending # <<>> /\ pending[1] = c
    BY <2>2
  <2> QED BY <2>1, <2>2 DEF InTurn
<1>4. SeenIsOwn' BY DEF SeenIsOwn, FleetTyped
<1> QED BY <1>1, <1>2, <1>3, <1>4
      DEF MissionWhole, QueuedOnce, Paired, SlotOfTrack, SlotOfMission

LEMMA DrivesKeeps ==
  ASSUME FleetInv, NEW c \in Cars, Drives(c)
  PROVE  FleetInv'
<1> USE DEF FleetInv, Drives, CameraIdle, tracking, binding, allocator
<1>1. FleetTyped' BY DEF FleetTyped
<1>2. CamKept' BY DEF CamKept
<1>3. place \in [Cars -> {"away", "entrance", "lot"}] BY DEF FleetTyped
<1>4. InTurn' BY <1>3 DEF InTurn
<1>5. SeenIsOwn' BY <1>3 DEF SeenIsOwn
<1> QED BY <1>1, <1>2, <1>4, <1>5
      DEF MissionWhole, QueuedOnce, Paired, SlotOfTrack, SlotOfMission

LEMMA FoundKeeps ==
  ASSUME FleetInv, NEW c \in Cars, Found(c)
  PROVE  FleetInv'
<1> USE DEF FleetInv, Found, CameraIdle, binding, allocator
<1> DEFINE new == Len(owner) + 1
<1>1. Len(owner) \in Nat /\ MaxTracks \in Nat /\ new <= MaxTracks
  BY LenProperties, FleetAssumption DEF FleetTyped
<1>2. /\ owner' \in Seq(Cars) /\ Len(owner') = new /\ owner'[new] = c
      /\ \A t \in 1..Len(owner) : owner'[t] = owner[t]
  BY AppendProperties DEF FleetTyped
<1>3. DOMAIN owner = 1..Len(owner) /\ DOMAIN owner' = 1..new
  BY <1>2, LenProperties DEF FleetTyped
<1>4. seen \in [Cars -> 0..Len(owner)] /\ seen[c] = 0 BY DEF FleetTyped
<1>5. FleetTyped'
  <2>1. seen' \in [Cars -> 0..Len(owner')]
    BY <1>1, <1>2, <1>4
  <2> QED BY <1>1, <1>2, <2>1 DEF FleetTyped
<1>6. CamKept' BY DEF CamKept
<1>7. SeenIsOwn'
  BY <1>1, <1>2, <1>4 DEF SeenIsOwn
<1>8. InTurn'
  <2>1. ASSUME ~disturbed, NEW d \in Cars, NEW t \in DOMAIN owner',
               place[d] # "lot", owner'[t] = d
        PROVE  seen'[d] = t
    <3>1. CASE t = new BY <1>1, <1>2, <1>4, <2>1, <3>1
    <3>2. CASE t \in DOMAIN owner
      BY <1>1, <1>2, <1>3, <1>4, <2>1, <3>2 DEF InTurn
    <3> QED BY <1>1, <1>3, <3>1, <3>2
  <2>2. ASSUME ~disturbed, NEW t \in Tracks, view[t].car # None
        PROVE  t \in DOMAIN owner' /\ owner'[t] = view[t].car
    BY <1>1, <1>2, <1>3, <2>2 DEF InTurn
  <2> QED BY <2>1, <2>2 DEF InTurn
<1> QED BY <1>5, <1>6, <1>7, <1>8
      DEF MissionWhole, QueuedOnce, Paired, SlotOfTrack, SlotOfMission

LEMMA LostKeeps ==
  ASSUME FleetInv, NEW c \in Cars, Lost(c)
  PROVE  FleetInv'
<1> USE DEF FleetInv, Lost, CameraIdle, binding, allocator
<1>1. Len(owner) \in Nat BY LenProperties DEF FleetTyped
<1>2. seen \in [Cars -> 0..Len(owner)] /\ 0 \in 0..Len(owner)
  BY <1>1 DEF FleetTyped
<1>3. FleetTyped' BY <1>2 DEF FleetTyped
<1>4. CamKept' BY DEF CamKept
<1>5. SeenIsOwn' BY <1>2 DEF SeenIsOwn
<1>6. InTurn'
  <2>1. place[c] # "away" /\ place[c] \in {"away", "entrance", "lot"}
    BY DEF SeenIsOwn, FleetTyped
  <2> QED BY <1>2, <2>1 DEF InTurn
<1> QED BY <1>3, <1>4, <1>5, <1>6
      DEF MissionWhole, QueuedOnce, Paired, SlotOfTrack, SlotOfMission

-----------------------------------------------------------------------------
(* The camera thread.                                                      *)

LEMMA UpdateViewsKeeps ==
  ASSUME FleetInv, UpdateViews
  PROVE  FleetInv'
<1> USE DEF FleetInv, UpdateViews, World, CamOnly, tracking
<1> DEFINE frame == {seen[c] : c \in Cars} \ {0}
<1>1. ASSUME NEW t \in frame
      PROVE  /\ t \in DOMAIN owner /\ t \in Tracks /\ owner[t] \in Cars
             /\ seen[owner[t]] = t
  <2>1. PICK c \in Cars : seen[c] = t /\ t # 0 BY <1>1
  <2> QED BY <2>1, SeenTrack
<1>2. \A t \in Tracks :
        /\ view'[t] \in Views /\ view'[t].car = view[t].car
        /\ view'[t].slot = view[t].slot
        /\ t \in frame => view'[t].node = Node(owner[t])
  <2> TAKE t \in Tracks
  <2>1. view[t] \in Views /\ Node(owner[t]) \in {"entrance", None}
    BY DEF FleetTyped, Node
  <2>2. view'[t] = IF t \in frame
                   THEN [view[t] EXCEPT !.known = TRUE, !.node = Node(owner[t])]
                   ELSE view[t]
    OBVIOUS
  <2> QED BY <2>1, <2>2 DEF Views
<1>3. view' \in [Tracks -> Views]
  <2>1. view' = [t \in Tracks |-> view'[t]] OBVIOUS
  <2> QED BY <1>2, <2>1
<1>4. /\ assigned' \in [Tracks -> Slots \cup {None, "unknown"}]
      /\ \A t \in Tracks : assigned[t] \in Slots \/ assigned'[t] \in Slots =>
                              assigned'[t] = assigned[t]
  BY FleetAssumption DEF FleetTyped, None
<1>5. cam' = [Waiting EXCEPT !.at = "bind", !.todo = frame, !.frame = frame]
  OBVIOUS
<1>6. /\ cam' \in Cameras /\ cam'.at = "bind" /\ cam'.todo = frame
      /\ cam'.frame = frame
  <2>1. frame \in SUBSET Tracks BY <1>1
  <2>2. 0 \in 0..MaxTracks BY Bounds
  <2> HIDE DEF frame
  <2> QED BY <1>5, <2>1, <2>2 DEF Waiting, Cameras
<1>u. UNCHANGED <<place, seen, owner, pending, track_of, mission, taken, held,
                  lost, sync, revived, disturbed>>
  OBVIOUS
<1> HIDE DEF frame, UpdateViews, World, CamOnly, tracking
<1>7. FleetTyped' BY <1>3, <1>4, <1>6, <1>u DEF FleetTyped
<1>8. MissionWhole' /\ QueuedOnce' /\ SeenIsOwn'
  BY <1>u DEF MissionWhole, QueuedOnce, SeenIsOwn
<1>9. Paired' BY <1>2, <1>u DEF Paired, Contains
<1>10. CamKept'
  <2>1. ASSUME NEW t \in frame
        PROVE  /\ t \in DOMAIN owner' /\ seen'[owner'[t]] = t
               /\ view'[t].node = Node(owner[t])'
    BY <1>1, <1>2, <1>u, <2>1 DEF Node
  <2> QED BY <1>6, <2>1 DEF CamKept
<1>11. SlotOfTrack' BY <1>4, <1>u DEF SlotOfTrack
<1>12. SlotOfMission'
  <2> SUFFICES ASSUME NEW c \in Cars \ revived, mission[c].slot # None
               PROVE  /\ sync[c] # "unbind" /\ track_of[c] # 0
                      /\ assigned'[track_of[c]] = mission[c].slot
    BY <1>u DEF SlotOfMission
  <2>1. /\ sync[c] # "unbind" /\ track_of[c] # 0
        /\ assigned[track_of[c]] = mission[c].slot
    BY DEF SlotOfMission
  <2>2. mission[c].slot \in Slots /\ track_of[c] \in Tracks
    BY <2>1, Bounds DEF FleetTyped, Missions
  <2> QED BY <1>4, <2>1, <2>2
<1>13. InTurn' BY <1>2, <1>u DEF InTurn
<1> QED BY <1>7, <1>8, <1>9, <1>10, <1>11, <1>12, <1>13

LEMMA PassedOn ==
  ASSUME FleetTyped, NEW t \in Tracks, cam.at = "bind"
  PROVE  /\ Passed(t) \in Cameras /\ Passed(t).at = "bind"
         /\ Passed(t).todo \subseteq cam.todo /\ Passed(t).frame = cam.frame
<1>1. cam \in Cameras BY DEF FleetTyped
<1>2. cam.todo \ {t} \in SUBSET Tracks BY <1>1 DEF Cameras
<1> QED BY <1>1, <1>2 DEF Passed, Cameras

LEMMA StartsWith ==
  ASSUME FleetTyped, NEW t \in Tracks, NEW c \in Cars, cam.at = "bind"
  PROVE  /\ ToStart(t, c) \in Cameras /\ ToStart(t, c).at \in {"bind", "start"}
         /\ ToStart(t, c).at = "start" => /\ ToStart(t, c).track = t
                                          /\ ToStart(t, c).car = c
         /\ ToStart(t, c).todo \subseteq cam.todo
         /\ ToStart(t, c).frame = cam.frame
<1>1. /\ Passed(t) \in Cameras /\ Passed(t).at = "bind"
      /\ Passed(t).todo \subseteq cam.todo /\ Passed(t).frame = cam.frame
  BY PassedOn
<1>2. CASE mission[c] # NoMission
  BY <1>1, <1>2 DEF ToStart
<1>3. CASE mission[c] = NoMission
  <2>1. ToStart(t, c) = [Passed(t) EXCEPT !.at = "start", !.track = t, !.car = c]
    BY <1>3 DEF ToStart
  <2>2. t \in 0..MaxTracks BY Bounds
  <2> QED BY <1>1, <2>1, <2>2 DEF Cameras
<1> QED BY <1>2, <1>3

(* A step that changes states of missions, but no slot of one, holds, lost *)
(* links and the place of the camera thread keeps the invariant.           *)
LEMMA SlotsStay ==
  ASSUME FleetInv, cam' \in Cameras,
         cam'.at # "frame" => cam.at # "frame",
         cam'.todo \subseteq cam.todo, cam'.frame = cam.frame,
         cam'.at \in {"start", "mission"} =>
           cam'.track \in Tracks /\ cam'.car \in Cars,
         cam'.at = "mission" => assigned[cam'.track] \in Slots,
         mission' \in [Cars -> Missions],
         \A c \in Cars : /\ mission'[c].slot = mission[c].slot
                         /\ mission'[c].state = None <=> mission[c].state = None,
         held' \subseteq Cars, lost' \subseteq Cars,
         taken \subseteq taken', taken' \subseteq Slots,
         UNCHANGED <<place, seen, owner, view, pending, track_of, assigned,
                     sync, revived, disturbed>>
  PROVE  FleetInv'
<1> USE DEF FleetInv
<1>1. FleetTyped' BY DEF FleetTyped
<1>2. CamKept' BY DEF CamKept, Node
<1>3. MissionWhole' /\ QueuedOnce' /\ SeenIsOwn'
  BY DEF MissionWhole, QueuedOnce, SeenIsOwn
<1>4. Paired' BY DEF Paired, Contains
<1>5. SlotOfTrack' /\ SlotOfMission' BY DEF SlotOfTrack, SlotOfMission
<1>6. InTurn' BY DEF InTurn
<1> QED BY <1>1, <1>2, <1>3, <1>4, <1>5, <1>6

(* A step of the camera thread that leaves all but its own place alone.    *)
LEMMA OnlyCameraMoves ==
  ASSUME FleetInv, cam' \in Cameras, cam'.at # "frame", cam.at # "frame",
         cam'.todo \subseteq cam.todo, cam'.frame = cam.frame,
         cam'.at \in {"start", "mission"} =>
           cam'.track \in Tracks /\ cam'.car \in Cars,
         cam'.at = "mission" => assigned[cam'.track] \in Slots,
         UNCHANGED <<place, seen, owner, view, pending, track_of, mission,
                     assigned, taken, held, lost, sync, revived, disturbed>>
  PROVE  FleetInv'
<1>1. /\ mission' \in [Cars -> Missions] /\ held' \subseteq Cars
      /\ lost' \subseteq Cars /\ taken' \subseteq Slots
  BY DEF FleetInv, FleetTyped
<1> QED BY <1>1, SlotsStay

(* A step of the receiving threads, likewise.                              *)
LEMMA OnlyStatesMove ==
  ASSUME FleetInv, mission' \in [Cars -> Missions],
         \A c \in Cars : /\ mission'[c].slot = mission[c].slot
                         /\ mission'[c].state = None <=> mission[c].state = None,
         lost' \subseteq Cars, taken \subseteq taken', taken' \subseteq Slots,
         UNCHANGED <<place, seen, owner, view, pending, track_of, assigned, held,
                     cam, sync, revived, disturbed>>
  PROVE  FleetInv'
<1>1. cam' \in Cameras /\ held' \subseteq Cars BY DEF FleetInv, FleetTyped
<1>2. /\ cam.at \in {"start", "mission"} => cam.track \in Tracks /\ cam.car \in Cars
      /\ cam.at = "mission" => assigned[cam.track] \in Slots
  BY DEF FleetInv, CamKept
<1> QED BY <1>1, <1>2, SlotsStay

LEMMA BindCarKeeps ==
  ASSUME FleetInv, NEW t \in Tracks, BindCar(t)
  PROVE  FleetInv'
<1>u. /\ cam.at = "bind" /\ t \in cam.todo
      /\ UNCHANGED <<place, seen, owner, mission, assigned, taken, held, lost,
                     sync, revived, disturbed>>
  BY DEF BindCar, World, allocator, tracking
<1>t. FleetTyped BY DEF FleetInv
<1>1. CASE CamOnly(Passed(t)) /\ UNCHANGED binding
  <2>1. cam' = Passed(t) /\ UNCHANGED <<view, pending, track_of>>
    BY <1>1 DEF CamOnly, binding
  <2> QED BY <1>u, <1>t, <2>1, PassedOn, OnlyCameraMoves
<1>2. CASE /\ view[t].car # None
           /\ CamOnly(ToStart(t, view[t].car)) /\ UNCHANGED binding
  <2>1. cam' = ToStart(t, view[t].car) /\ UNCHANGED <<view, pending, track_of>>
    BY <1>2 DEF CamOnly, binding
  <2>2. view[t].car \in Cars BY <1>2, <1>t DEF FleetTyped, Views
  <2> QED BY <1>u, <1>t, <2>1, <2>2, StartsWith, OnlyCameraMoves
<1>3. CASE /\ AtEntry(t) /\ view[t].car = None /\ pending # <<>>
           /\ Bind(t, pending[FirstReady])
           /\ CamOnly(ToStart(t, pending[FirstReady]))
  <2> DEFINE c == pending[1]
  <2>1. /\ c \in Cars /\ RemoveAt(pending, 1) \in Seq(Cars)
        /\ \A i, j \in 1..Len(RemoveAt(pending, 1)) :
             RemoveAt(pending, 1)[i] = RemoveAt(pending, 1)[j] => i = j
        /\ \A d \in Cars : Contains(RemoveAt(pending, 1), d) =>
                              Contains(pending, d) /\ d # c
    BY <1>3, <1>t, FirstLeaves DEF FleetInv
  <2>2. Contains(pending, c)
    BY <1>3, <1>t, EmptySeq, LenProperties DEF FleetTyped, Contains
  <2>3. track_of[c] = 0 BY <2>1, <2>2 DEF FleetInv, Paired
  <2>4. /\ pending' = RemoveAt(pending, 1)
        /\ view' = [view EXCEPT ![t].car = c]
        /\ track_of' = [track_of EXCEPT ![c] = t]
        /\ cam' = ToStart(t, c)
    BY <1>3 DEF Bind, CamOnly, FirstReady
  <2>5. /\ cam' \in Cameras /\ cam'.at \in {"bind", "start"}
        /\ cam'.at = "start" => cam'.track = t /\ cam'.car = c
        /\ cam'.todo \subseteq cam.todo /\ cam'.frame = cam.frame
    BY <1>u, <1>t, <2>1, <2>4, StartsWith
  <2>6. /\ view \in [Tracks -> Views] /\ track_of \in [Cars -> 0..MaxTracks]
        /\ t \in 0..MaxTracks /\ t # 0
    BY <1>t, Bounds DEF FleetTyped
  <2>7. /\ view'[t] = [view[t] EXCEPT !.car = c]
        /\ \A u \in Tracks \ {t} : view'[u] = view[u]
        /\ track_of'[c] = t
        /\ \A d \in Cars \ {c} : track_of'[d] = track_of[d]
    BY <2>1, <2>4, <2>6
  <2>8. /\ view'[t] \in Views /\ view'[t].car = c /\ view'[t].node = view[t].node
    <3>1. view[t] \in Views /\ c \in Cars \cup {None} BY <2>1, <2>6
    <3> HIDE DEF c
    <3> QED BY <2>7, <3>1 DEF Views
  <2> HIDE DEF c
  <2>9. view' \in [Tracks -> Views] /\ track_of' \in [Cars -> 0..MaxTracks]
    BY <2>1, <2>4, <2>6, <2>7, <2>8
  <2>10. FleetTyped' BY <1>t, <1>u, <2>1, <2>4, <2>5, <2>9 DEF FleetTyped
  <2>11. MissionWhole' /\ SeenIsOwn'
    BY <1>u DEF FleetInv, MissionWhole, SeenIsOwn
  <2>12. QueuedOnce' BY <2>1, <2>4 DEF QueuedOnce
  <2>13. Paired'
    <3>1. ASSUME NEW u \in Tracks, NEW d \in Cars
          PROVE  view'[u].car = d <=> track_of'[d] = u
      <4>1. view[u].car = d <=> track_of[d] = u BY DEF FleetInv, Paired
      <4>2. c # None BY <2>1, FleetAssumption DEF None
      <4>3. view[t].car = None BY <1>3
      <4>4. d # None BY FleetAssumption DEF None
      <4>5. CASE u = t
        BY <2>7, <2>8, <4>1, <4>3, <4>4, <4>5
      <4>6. CASE u # t /\ d = c
        BY <2>3, <2>6, <2>7, <4>1, <4>6, Bounds
      <4>7. CASE u # t /\ d # c
        BY <2>7, <4>1, <4>7
      <4> QED BY <4>5, <4>6, <4>7
    <3>2. ASSUME NEW d \in Cars, track_of'[d] # 0
          PROVE  ~Contains(pending', d)
      BY <2>1, <2>4, <2>7, <3>2 DEF FleetInv, Paired
    <3> QED BY <3>1, <3>2 DEF Paired, Contains
  <2>14. CamKept'
    <3>1. ASSUME NEW u \in cam.frame
          PROVE  u \in Tracks /\ view'[u].node = view[u].node
      BY <1>t, <2>7, <2>8 DEF FleetTyped, Cameras
    <3> QED BY <1>u, <2>1, <2>5, <3>1 DEF FleetInv, CamKept, Node
  <2>15. SlotOfTrack' BY <1>u DEF FleetInv, SlotOfTrack
  <2>16. SlotOfMission'
    BY <1>u, <2>3, <2>7 DEF FleetInv, SlotOfMission
  <2>17. InTurn'
    <3> SUFFICES ASSUME ~disturbed PROVE InTurn' BY <1>u DEF InTurn
    <3>1. /\ t \in DOMAIN owner /\ seen[owner[t]] = t /\ owner[t] \in Cars
          /\ place[owner[t]] = "entrance"
      <4>1. /\ t \in DOMAIN owner /\ seen[owner[t]] = t
            /\ view[t].node = Node(owner[t])
        BY <1>u DEF FleetInv, CamKept
      <4>2. owner[t] \in Cars
        BY <1>t, <4>1, ElementOfSeq, LenProperties DEF FleetTyped
      <4>3. view[t].node = "entrance" BY <1>3 DEF AtEntry
      <4> QED BY <4>1, <4>2, <4>3 DEF Node, None
    <3>2. track_of[owner[t]] = 0
      <4> SUFFICES ASSUME track_of[owner[t]] # 0 PROVE FALSE OBVIOUS
      <4> DEFINE u == track_of[owner[t]]
      <4>1. u \in Tracks BY <2>6, <3>1, Bounds
      <4>2. view[u].car = owner[t] BY <3>1, <4>1 DEF FleetInv, Paired
      <4>3. owner[t] # None BY <3>1, FleetAssumption DEF None
      <4>4. u \in DOMAIN owner /\ owner[u] = owner[t]
        BY <4>1, <4>2, <4>3 DEF FleetInv, InTurn
      <4>5. u = t BY <3>1, <4>4 DEF FleetInv, InTurn
      <4> QED BY <1>3, <4>2, <4>3, <4>5
    <3>3. owner[t] = c BY <3>1, <3>2 DEF FleetInv, InTurn, c
    <3>4. ASSUME NEW d \in Cars, place[d] = "entrance", track_of'[d] = 0
          PROVE  FALSE
      <4>1. d # c BY <2>6, <2>7, <3>4
      <4>2. track_of[d] = 0 BY <2>7, <3>4, <4>1
      <4>3. pending[1] = d BY <3>4, <4>2 DEF FleetInv, InTurn
      <4> QED BY <4>1, <4>3 DEF c
    <3>5. ASSUME NEW u \in Tracks, view'[u].car # None
          PROVE  u \in DOMAIN owner /\ owner[u] = view'[u].car
      BY <2>7, <2>8, <3>1, <3>3, <3>5 DEF FleetInv, InTurn
    <3> QED BY <1>u, <3>4, <3>5 DEF FleetInv, InTurn
  <2> QED BY <2>10, <2>11, <2>12, <2>13, <2>14, <2>15, <2>16, <2>17 DEF FleetInv
<1> QED BY <1>1, <1>2, <1>3 DEF BindCar

LEMMA StartAllocationKeeps ==
  ASSUME FleetInv, StartAllocation
  PROVE  FleetInv'
<1> DEFINE t == cam.track
<1>u. /\ cam.at = "start" /\ Allocate(t)
      /\ UNCHANGED <<place, seen, owner, view, pending, track_of, mission, held,
                     lost, sync, revived, disturbed>>
  BY DEF StartAllocation, World, binding, tracking
<1>t. FleetTyped BY DEF FleetInv
<1>c. cam \in Cameras /\ 0 \in 0..MaxTracks BY <1>t, Bounds DEF FleetTyped
<1>k. t \in Tracks /\ cam.car \in Cars BY <1>u DEF FleetInv, CamKept
<1>a. assigned \in [Tracks -> Slots \cup {None, "unknown"}] BY <1>t DEF FleetTyped
<1> DEFINE toMission == [cam EXCEPT !.at = "mission"]
           toBind == [cam EXCEPT !.at = "bind", !.track = 0, !.car = None]
<1>m. /\ toMission \in Cameras /\ toMission.at = "mission"
      /\ toMission.track = t /\ toMission.car = cam.car
      /\ toMission.todo = cam.todo /\ toMission.frame = cam.frame
  BY <1>c DEF Cameras
<1>b. /\ toBind \in Cameras /\ toBind.at = "bind"
      /\ toBind.todo = cam.todo /\ toBind.frame = cam.frame
  BY <1>c DEF Cameras
<1>1. CASE assigned[t] \in Slots /\ cam' = toMission /\ UNCHANGED allocator
  <2>1. UNCHANGED <<assigned, taken>> BY <1>1 DEF allocator
  <2> HIDE DEF toMission, toBind, t
  <2> QED BY <1>u, <1>k, <1>m, <1>1, <2>1, OnlyCameraMoves DEF t
<1>2. CASE /\ assigned[t] = None /\ assigned' = [assigned EXCEPT ![t] = None]
           /\ taken' = taken /\ cam' = toBind
  <2>1. assigned' = assigned BY <1>a, <1>k, <1>2
  <2> HIDE DEF toMission, toBind, t
  <2> QED BY <1>u, <1>b, <1>2, <2>1, OnlyCameraMoves
<1>3. ASSUME NEW slot \in Slots \ taken, assigned[t] = None,
             assigned' = [assigned EXCEPT ![t] = slot],
             taken' = taken \cup {slot}, cam' = toMission
      PROVE  FleetInv'
  <2>1. /\ assigned' \in [Tracks -> Slots \cup {None, "unknown"}]
        /\ assigned'[t] = slot
        /\ \A u \in Tracks \ {t} : assigned'[u] = assigned[u]
    BY <1>a, <1>k, <1>3
  <2> HIDE DEF toMission, toBind, t
  <2>2. FleetTyped' BY <1>u, <1>t, <1>m, <1>3, <2>1 DEF FleetTyped
  <2>3. MissionWhole' /\ QueuedOnce' /\ SeenIsOwn'
    BY <1>u DEF FleetInv, MissionWhole, QueuedOnce, SeenIsOwn
  <2>4. Paired' BY <1>u DEF FleetInv, Paired, Contains
  <2>5. CamKept' BY <1>u, <1>k, <1>m, <1>3, <2>1 DEF FleetInv, CamKept, Node
  <2>6. SlotOfTrack' BY <1>3, <2>1 DEF FleetInv, SlotOfTrack
  <2>7. SlotOfMission'
    <3> SUFFICES ASSUME NEW c \in Cars \ revived, mission[c].slot # None
                 PROVE  /\ sync[c] # "unbind" /\ track_of[c] # 0
                        /\ assigned'[track_of[c]] = mission[c].slot
      BY <1>u DEF SlotOfMission
    <3>1. /\ sync[c] # "unbind" /\ track_of[c] # 0
          /\ assigned[track_of[c]] = mission[c].slot
      BY DEF FleetInv, SlotOfMission
    <3>2. track_of[c] \in Tracks BY <1>t, <3>1, Bounds DEF FleetTyped
    <3>3. track_of[c] # t BY <1>3, <3>1
    <3> QED BY <2>1, <3>1, <3>2, <3>3
  <2>8. InTurn' BY <1>u DEF FleetInv, InTurn
  <2> QED BY <2>2, <2>3, <2>4, <2>5, <2>6, <2>7, <2>8 DEF FleetInv
<1>4. SelectAction = (Slots \ taken) \cup {None}
  BY FleetAssumption DEF SelectAction, ValidSlots, Masks, None
<1>5. CASE /\ assigned[t] = None
           /\ \E action \in SelectAction :
                /\ assigned' = [assigned EXCEPT ![t] = action]
                /\ taken' = IF action = None THEN taken ELSE Marked(action)
                /\ CamOnly(IF action = None THEN toBind ELSE toMission)
  <2>1. PICK action \in SelectAction :
               /\ assigned' = [assigned EXCEPT ![t] = action]
               /\ taken' = IF action = None THEN taken ELSE Marked(action)
               /\ CamOnly(IF action = None THEN toBind ELSE toMission)
    BY <1>5
  <2>2. CASE action = None BY <1>2, <1>5, <2>1, <2>2 DEF CamOnly
  <2>3. CASE action # None
    BY <1>3, <1>4, <1>5, <2>1, <2>3 DEF CamOnly, Marked
  <2> QED BY <2>2, <2>3
<1> QED BY <1>u, <1>1, <1>5 DEF Allocate, CamOnly

LEMMA StartMissionKeeps ==
  ASSUME FleetInv, StartMission
  PROVE  FleetInv'
<1> DEFINE t == cam.track
           c == cam.car
           slot == assigned[t]
           after == [cam EXCEPT !.at = "bind", !.track = 0, !.car = None]
<1>u. /\ cam.at = "mission" /\ cam' = after
      /\ revived' = IF sync[c] = "unbind" \/ view[t].car # c
                    THEN revived \cup {c} ELSE revived
      /\ UNCHANGED <<place, seen, owner, pending, track_of, assigned, taken,
                     held, lost, sync, disturbed>>
  BY DEF StartMission, CamOnly, allocator, tracking
<1>t. FleetTyped BY DEF FleetInv
<1>k. /\ t \in Tracks /\ c \in Cars /\ slot \in Slots
  BY <1>u DEF FleetInv, CamKept
<1>c. cam \in Cameras /\ 0 \in 0..MaxTracks BY <1>t, Bounds DEF FleetTyped
<1>b. /\ after \in Cameras /\ after.at = "bind"
      /\ after.todo = cam.todo /\ after.frame = cam.frame
  BY <1>c DEF Cameras
<1>s. PICK state \in {"DRIVING", "IDLE"} :
        mission' = [mission EXCEPT ![c] = [state |-> state, slot |-> slot]]
  BY DEF StartMission
<1>v. view' = [view EXCEPT ![t].slot = slot] \/ view' = view
  BY DEF StartMission
<1> HIDE DEF t, c, slot, after
<1>1. /\ mission' \in [Cars -> Missions]
      /\ mission'[c].state = state /\ mission'[c].slot = slot
      /\ \A d \in Cars \ {c} : mission'[d] = mission[d]
  <2>1. mission \in [Cars -> Missions] BY <1>t DEF FleetTyped
  <2>2. [state |-> state, slot |-> slot] \in Missions
    BY <1>k DEF Missions, MissionStates
  <2> QED BY <1>k, <1>s, <2>1, <2>2
<1>2. /\ view' \in [Tracks -> Views]
      /\ \A u \in Tracks : view'[u].car = view[u].car /\ view'[u].node = view[u].node
  <2>1. view \in [Tracks -> Views] BY <1>t DEF FleetTyped
  <2>2. CASE view' = [view EXCEPT ![t].slot = slot]
    <3>1. view'[t] = [view[t] EXCEPT !.slot = slot]
      BY <1>k, <2>1, <2>2
    <3>2. view[t] \in Views /\ slot \in Slots \cup {None} BY <1>k, <2>1
    <3>3. /\ view'[t] \in Views /\ view'[t].car = view[t].car
          /\ view'[t].node = view[t].node
      BY <3>1, <3>2 DEF Views
    <3> QED BY <1>k, <2>1, <2>2, <3>3
  <2> QED BY <1>v, <2>1, <2>2
<1>3. /\ revived \subseteq revived' /\ revived' \subseteq Cars
      /\ c \notin revived' => sync[c] # "unbind" /\ view[t].car = c
  BY <1>u, <1>k, <1>t DEF FleetTyped
<1>4. FleetTyped' BY <1>u, <1>t, <1>b, <1>1, <1>2, <1>3 DEF FleetTyped
<1>5. MissionWhole'
  <2>1. slot # None /\ state # None BY <1>k, FleetAssumption DEF None
  <2> QED BY <1>1, <2>1 DEF FleetInv, MissionWhole
<1>6. QueuedOnce' /\ SeenIsOwn' BY <1>u DEF FleetInv, QueuedOnce, SeenIsOwn
<1>7. Paired' BY <1>u, <1>2 DEF FleetInv, Paired, Contains
<1>8. CamKept'
  <2>1. cam.frame \subseteq Tracks BY <1>c DEF Cameras
  <2> QED BY <1>u, <1>b, <1>2, <2>1 DEF FleetInv, CamKept, Node
<1>9. SlotOfTrack' BY <1>u DEF FleetInv, SlotOfTrack
<1>10. SlotOfMission'
  <2> SUFFICES ASSUME NEW d \in Cars \ revived', mission'[d].slot # None
               PROVE  /\ sync[d] # "unbind" /\ track_of[d] # 0
                      /\ assigned[track_of[d]] = mission'[d].slot
    BY <1>u DEF SlotOfMission
  <2>1. CASE d = c
    <3>1. sync[c] # "unbind" /\ view[t].car = c BY <1>3, <2>1
    <3>2. track_of[c] = t BY <1>k, <3>1 DEF FleetInv, Paired
    <3>3. t # 0 BY <1>k, Bounds
    <3> QED BY <1>1, <2>1, <3>1, <3>2, <3>3 DEF slot
  <2>2. CASE d # c BY <1>1, <1>3, <2>2 DEF FleetInv, SlotOfMission
  <2> QED BY <2>1, <2>2
<1>11. InTurn' BY <1>u, <1>2 DEF FleetInv, InTurn
<1> QED BY <1>4, <1>5, <1>6, <1>7, <1>8, <1>9, <1>10, <1>11 DEF FleetInv

LEMMA CheckCollisionsKeeps ==
  ASSUME FleetInv, CheckCollisions
  PROVE  FleetInv'
<1>u. /\ cam.at = "bind"
      /\ UNCHANGED <<place, seen, owner, view, pending, track_of, mission,
                     assigned, taken, held, lost, sync, revived, disturbed>>
  BY DEF CheckCollisions, World, binding, allocator, tracking
<1>1. PICK near \in SUBSET Pairs, crossing \in SUBSET Pairs :
        \E events \in OneEach(Events(near, crossing)) :
          CamOnly([cam EXCEPT !.at = "events", !.events = events, !.risks = events])
  BY DEF CheckCollisions
<1>2. PICK events \in OneEach(Events(near, crossing)) :
        CamOnly([cam EXCEPT !.at = "events", !.events = events, !.risks = events])
  BY <1>1
<1>3. cam \in Cameras /\ view \in [Tracks -> Views] BY DEF FleetInv, FleetTyped
<1>4. Rated \subseteq Cars
  <2>1. cam.frame \subseteq Tracks BY <1>3 DEF Cameras
  <2>2. ASSUME NEW t \in cam.frame PROVE view[t].car \in Cars \cup {None}
    BY <1>3, <2>1 DEF Views
  <2> QED BY <2>2 DEF Rated, Poses
<1>5. events \in SUBSET Event
  <2>1. events \subseteq Events(near, crossing) BY DEF OneEach
  <2>2. Events(near, crossing) \subseteq [stop : Rated, keep : Rated] BY DEF Events
  <2>3. [stop : Rated, keep : Rated] \subseteq Event BY <1>4 DEF Event
  <2> QED BY <2>1, <2>2, <2>3
<1> DEFINE next == [cam EXCEPT !.at = "events", !.events = events, !.risks = events]
<1>6. /\ next \in Cameras /\ next.at = "events" /\ next.todo = cam.todo
      /\ next.frame = cam.frame
  BY <1>3, <1>5 DEF Cameras
<1>7. cam' = next BY <1>2 DEF CamOnly
<1> HIDE DEF next
<1> QED BY <1>u, <1>6, <1>7, OnlyCameraMoves

LEMMA HoldCarKeeps ==
  ASSUME FleetInv, HoldCar
  PROVE  FleetInv'
<1>u. /\ cam.at = "events"
      /\ UNCHANGED <<place, seen, owner, view, pending, track_of, assigned, taken,
                     lost, sync, revived, disturbed>>
  BY DEF HoldCar, World, binding, allocator, tracking
<1>t. FleetTyped BY DEF FleetInv
<1>1. PICK e \in cam.events :
        /\ CamOnly([cam EXCEPT !.events = @ \ {e}])
        /\ \/ /\ mission[e.stop].state \notin {None, "HELD"}
              /\ held' = held \cup {e.stop}
              /\ mission' = [mission EXCEPT ![e.stop].state =
                               IF @ \in {"DONE", "IDLE"} THEN @ ELSE "HELD"]
           \/ UNCHANGED <<held, mission>>
  BY DEF HoldCar
<1>2. cam \in Cameras /\ mission \in [Cars -> Missions] /\ held \subseteq Cars
  BY <1>t DEF FleetTyped
<1>3. e.stop \in Cars BY <1>2 DEF Cameras, Event
<1> DEFINE next == [cam EXCEPT !.events = @ \ {e}]
<1>4. /\ next \in Cameras /\ next.at = "events" /\ next.todo = cam.todo
      /\ next.frame = cam.frame /\ cam' = next
  <2>1. cam.events \ {e} \in SUBSET Event BY <1>2 DEF Cameras
  <2> QED BY <1>u, <1>1, <1>2, <2>1 DEF Cameras, CamOnly
<1> HIDE DEF next
<1>5. CASE UNCHANGED <<held, mission>>
  BY <1>u, <1>4, <1>5, OnlyCameraMoves
<1>6. CASE /\ mission[e.stop].state \notin {None, "HELD"}
           /\ held' = held \cup {e.stop}
           /\ mission' = [mission EXCEPT ![e.stop].state =
                            IF @ \in {"DONE", "IDLE"} THEN @ ELSE "HELD"]
  <2>1. PICK state \in {"DONE", "IDLE", "HELD"} :
          mission' = [mission EXCEPT ![e.stop].state = state]
    BY <1>6
  <2>2. mission[e.stop] \in Missions BY <1>2, <1>3
  <2>3. /\ mission'[e.stop] = [mission[e.stop] EXCEPT !.state = state]
        /\ \A c \in Cars \ {e.stop} : mission'[c] = mission[c]
    BY <1>2, <1>3, <2>1
  <2>4. /\ mission'[e.stop] \in Missions /\ mission'[e.stop].state # None
        /\ mission'[e.stop].slot = mission[e.stop].slot
    BY <2>2, <2>3 DEF Missions, MissionStates, None
  <2>5. mission' \in [Cars -> Missions] BY <1>2, <1>3, <2>1, <2>3, <2>4
  <2>6. held' \subseteq Cars BY <1>2, <1>3, <1>6
  <2>7. \A c \in Cars : /\ mission'[c].slot = mission[c].slot
                        /\ mission'[c].state = None <=> mission[c].state = None
    BY <1>6, <2>3, <2>4
  <2>8. lost' \subseteq Cars /\ taken' \subseteq Slots /\ taken \subseteq taken'
    BY <1>u, <1>t DEF FleetTyped
  <2> QED BY <1>u, <1>4, <2>5, <2>6, <2>7, <2>8, SlotsStay
<1> QED BY <1>1, <1>5, <1>6

LEMMA ResumeClearedKeeps ==
  ASSUME FleetInv, ResumeCleared
  PROVE  FleetInv'
<1> DEFINE at_risk == {e.stop : e \in cam.risks}
           cleared == (held \ at_risk) \ lost
           next == [cam EXCEPT !.at = "forget", !.risks = {}]
<1>u. /\ cam.at = "events" /\ cam' = next /\ held' = held \ cleared
      /\ mission' = [c \in Cars |->
                       IF c \in cleared /\ mission[c].state = "HELD"
                       THEN [mission[c] EXCEPT !.state = "DRIVING"]
                       ELSE mission[c]]
      /\ UNCHANGED <<place, seen, owner, view, pending, track_of, assigned, taken,
                     lost, sync, revived, disturbed>>
  BY DEF ResumeCleared, CamOnly, World, binding, allocator, tracking
<1>t. FleetTyped BY DEF FleetInv
<1>1. /\ next \in Cameras /\ next.at = "forget" /\ next.todo = cam.todo
      /\ next.frame = cam.frame
  <2>1. cam \in Cameras /\ {} \in SUBSET Event BY <1>t DEF FleetTyped
  <2> QED BY <2>1 DEF Cameras
<1> HIDE DEF next, cleared
<1>2. \A c \in Cars : /\ mission'[c] \in Missions
                      /\ mission'[c].slot = mission[c].slot
                      /\ mission'[c].state = None <=> mission[c].state = None
  <2> TAKE c \in Cars
  <2>1. mission[c] \in Missions BY <1>t DEF FleetTyped
  <2>2. CASE c \in cleared /\ mission[c].state = "HELD"
    <3>1. mission'[c] = [mission[c] EXCEPT !.state = "DRIVING"] BY <1>u, <2>2
    <3> QED BY <2>1, <2>2, <3>1 DEF Missions, MissionStates, None
  <2>3. CASE ~(c \in cleared /\ mission[c].state = "HELD")
    BY <1>u, <2>1, <2>3
  <2> QED BY <2>2, <2>3
<1>3. mission' \in [Cars -> Missions]
  <2>1. mission' = [c \in Cars |-> mission'[c]] BY <1>u
  <2> QED BY <1>2, <2>1
<1>4. /\ held' \subseteq Cars /\ lost' \subseteq Cars
      /\ taken \subseteq taken' /\ taken' \subseteq Slots
  BY <1>u, <1>t DEF FleetTyped
<1> QED BY <1>u, <1>1, <1>2, <1>3, <1>4, SlotsStay

LEMMA ForgetStaleKeeps ==
  ASSUME FleetInv, ForgetStale
  PROVE  FleetInv'
<1>u. /\ cam' = Waiting
      /\ UNCHANGED <<place, seen, owner, pending, track_of, mission, taken, held,
                     lost, sync, revived, disturbed>>
  BY DEF ForgetStale, CamOnly, World, tracking
<1>t. FleetTyped BY DEF FleetInv
<1>1. PICK old \in SUBSET {t \in Tracks \ cam.frame :
                           view[t].known /\ view[t].car = None} :
        /\ view' = [t \in Tracks |-> IF t \in old THEN NoView ELSE view[t]]
        /\ assigned' = [t \in Tracks |->
                          IF t \in old THEN "unknown" ELSE assigned[t]]
  BY DEF ForgetStale
<1>2. /\ view \in [Tracks -> Views]
      /\ assigned \in [Tracks -> Slots \cup {None, "unknown"}]
  BY <1>t DEF FleetTyped
<1>3. NoView \in Views /\ NoView.car = None BY DEF NoView, Views, None
<1>4. Waiting \in Cameras /\ Waiting.at = "frame" /\ Waiting.todo = {}
  BY Bounds DEF Waiting, Cameras, None
<1>5. view' \in [Tracks -> Views] /\ \A t \in Tracks : view'[t].car = view[t].car
  BY <1>1, <1>2, <1>3
<1>6. /\ assigned' \in [Tracks -> Slots \cup {None, "unknown"}]
      /\ \A t \in Tracks : assigned'[t] \in Slots \/ t \notin old =>
                              assigned'[t] = assigned[t]
  BY <1>1, <1>2, FleetAssumption
<1>7. FleetTyped' BY <1>u, <1>t, <1>4, <1>5, <1>6 DEF FleetTyped
<1>8. MissionWhole' /\ QueuedOnce' /\ SeenIsOwn'
  BY <1>u DEF FleetInv, MissionWhole, QueuedOnce, SeenIsOwn
<1>9. Paired' BY <1>u, <1>5 DEF FleetInv, Paired, Contains
<1>10. CamKept' BY <1>u, <1>4 DEF CamKept
<1>11. SlotOfTrack' BY <1>u, <1>6 DEF FleetInv, SlotOfTrack
<1>12. SlotOfMission'
  <2> SUFFICES ASSUME NEW c \in Cars \ revived, mission[c].slot # None
               PROVE  /\ sync[c] # "unbind" /\ track_of[c] # 0
                      /\ assigned'[track_of[c]] = mission[c].slot
    BY <1>u DEF SlotOfMission
  <2>1. /\ sync[c] # "unbind" /\ track_of[c] # 0
        /\ assigned[track_of[c]] = mission[c].slot
    BY DEF FleetInv, SlotOfMission
  <2>2. track_of[c] \in Tracks BY <1>t, <2>1, Bounds DEF FleetTyped
  <2>3. view[track_of[c]].car = c BY <2>2 DEF FleetInv, Paired
  <2>4. track_of[c] \notin old BY <1>1, <2>3, FleetAssumption DEF None
  <2> QED BY <1>6, <2>1, <2>2, <2>4
<1>13. InTurn' BY <1>u, <1>5 DEF FleetInv, InTurn
<1> QED BY <1>7, <1>8, <1>9, <1>10, <1>11, <1>12, <1>13 DEF FleetInv

-----------------------------------------------------------------------------
(* The handshake thread.                                                   *)

LEMMA HandshakeKeeps ==
  ASSUME FleetInv, NEW c \in Cars, Handshake(c)
  PROVE  FleetInv'
<1>u. /\ sync' = [sync EXCEPT ![c] = "resync"]
      /\ disturbed' = (disturbed \/ track_of[c] # 0 \/ cam.car = c)
      /\ UNCHANGED <<place, seen, owner, view, pending, track_of, mission,
                     assigned, taken, held, lost, cam, revived>>
  BY DEF Handshake, Threads, binding, allocator, tracking
<1>t. FleetTyped BY DEF FleetInv
<1>1. /\ sync' \in [Cars -> {"off", "resync", "unbind", "ready", "up"}]
      /\ \A d \in Cars : sync'[d] = "unbind" => sync[d] = "unbind"
  BY <1>u, <1>t DEF FleetTyped
<1>2. disturbed' \in BOOLEAN /\ (~disturbed' => ~disturbed) BY <1>u
<1>3. FleetTyped' BY <1>u, <1>t, <1>1, <1>2 DEF FleetTyped
<1>4. MissionWhole' /\ QueuedOnce' /\ SeenIsOwn'
  BY <1>u DEF FleetInv, MissionWhole, QueuedOnce, SeenIsOwn
<1>5. Paired' BY <1>u DEF FleetInv, Paired, Contains
<1>6. CamKept' BY <1>u DEF FleetInv, CamKept, Node
<1>7. SlotOfTrack' BY <1>u DEF FleetInv, SlotOfTrack
<1>8. SlotOfMission' BY <1>u, <1>1 DEF FleetInv, SlotOfMission
<1>9. InTurn' BY <1>u, <1>2 DEF FleetInv, InTurn
<1> QED BY <1>3, <1>4, <1>5, <1>6, <1>7, <1>8, <1>9 DEF FleetInv

LEMMA ResyncMissionKeeps ==
  ASSUME FleetInv, NEW c \in Cars, ResyncMission(c)
  PROVE  FleetInv'
<1>u. /\ mission' = [mission EXCEPT ![c] = NoMission]
      /\ revived' = revived \ {c} /\ sync' = [sync EXCEPT ![c] = "unbind"]
      /\ UNCHANGED <<place, seen, owner, view, pending, track_of, assigned, taken,
                     held, lost, cam, disturbed>>
  BY DEF ResyncMission, binding, allocator, tracking
<1>t. FleetTyped BY DEF FleetInv
<1>1. /\ sync' \in [Cars -> {"off", "resync", "unbind", "ready", "up"}]
      /\ \A d \in Cars \ {c} : sync'[d] = sync[d]
  BY <1>u, <1>t DEF FleetTyped
<1>2. /\ NoMission \in Missions /\ NoMission.state = None /\ NoMission.slot = None
  BY DEF NoMission, Missions, MissionStates, None
<1>3. /\ mission' \in [Cars -> Missions] /\ mission'[c] = NoMission
      /\ \A d \in Cars \ {c} : mission'[d] = mission[d]
  BY <1>u, <1>t, <1>2 DEF FleetTyped
<1>4. FleetTyped' BY <1>u, <1>t, <1>1, <1>3 DEF FleetTyped
<1>5. MissionWhole' BY <1>2, <1>3 DEF FleetInv, MissionWhole
<1>6. QueuedOnce' /\ SeenIsOwn' BY <1>u DEF FleetInv, QueuedOnce, SeenIsOwn
<1>7. Paired' BY <1>u DEF FleetInv, Paired, Contains
<1>8. CamKept' BY <1>u DEF FleetInv, CamKept, Node
<1>9. SlotOfTrack' BY <1>u DEF FleetInv, SlotOfTrack
<1>10. SlotOfMission' BY <1>u, <1>1, <1>2, <1>3 DEF FleetInv, SlotOfMission
<1>11. InTurn' BY <1>u DEF FleetInv, InTurn
<1> QED BY <1>4, <1>5, <1>6, <1>7, <1>8, <1>9, <1>10, <1>11 DEF FleetInv

LEMMA ResyncBindingKeeps ==
  ASSUME FleetInv, NEW c \in Cars, ResyncBinding(c)
  PROVE  FleetInv'
<1> DEFINE t == track_of[c]
<1>u. /\ sync[c] = "unbind" /\ lost' = lost \ {c} /\ view' = Unbound(c)
      /\ track_of' = [track_of EXCEPT ![c] = 0]
      /\ sync' = [sync EXCEPT ![c] = "ready"]
      /\ disturbed' = (disturbed \/ t # 0)
      /\ UNCHANGED <<place, seen, owner, pending, mission, assigned, taken, held,
                     cam, revived>>
  BY DEF ResyncBinding, Threads, allocator, tracking
<1>t. FleetTyped BY DEF FleetInv
<1>1. /\ sync' \in [Cars -> {"off", "resync", "unbind", "ready", "up"}]
      /\ \A d \in Cars \ {c} : sync'[d] = sync[d]
  BY <1>u, <1>t DEF FleetTyped
<1>2. /\ track_of' \in [Cars -> 0..MaxTracks] /\ track_of'[c] = 0
      /\ \A d \in Cars \ {c} : track_of'[d] = track_of[d]
  BY <1>u, <1>t, Bounds DEF FleetTyped
<1>3. view \in [Tracks -> Views] BY <1>t DEF FleetTyped
<1>4. \A u \in Tracks :
        /\ view'[u] \in Views /\ view'[u].node = view[u].node
        /\ view'[u].car = IF u = t THEN None ELSE view[u].car
  <2> TAKE u \in Tracks
  <2>1. view'[u] = IF u = t THEN [view[u] EXCEPT !.car = None, !.slot = None]
                   ELSE view[u]
    BY <1>u DEF Unbound
  <2>2. view[u] \in Views BY <1>3
  <2> HIDE DEF t
  <2> QED BY <2>1, <2>2 DEF Views
<1>5. view' \in [Tracks -> Views]
  <2>1. view' = [u \in Tracks |-> view'[u]] BY <1>u DEF Unbound
  <2> QED BY <1>4, <2>1
<1>6. disturbed' \in BOOLEAN /\ (~disturbed' => ~disturbed /\ t = 0) BY <1>u
<1>7. FleetTyped' BY <1>u, <1>t, <1>1, <1>2, <1>5, <1>6 DEF FleetTyped
<1>8. MissionWhole' /\ QueuedOnce' /\ SeenIsOwn'
  BY <1>u DEF FleetInv, MissionWhole, QueuedOnce, SeenIsOwn
<1>9. Paired'
  <2>1. ASSUME NEW u \in Tracks, NEW d \in Cars
        PROVE  view'[u].car = d <=> track_of'[d] = u
    <3>1. /\ view[u].car = d <=> track_of[d] = u
          /\ view[u].car = c <=> track_of[c] = u
      BY DEF FleetInv, Paired
    <3>2. d # None /\ u # 0 BY FleetAssumption, Bounds DEF None
    <3> QED BY <1>2, <1>4, <3>1, <3>2
  <2>2. ASSUME NEW d \in Cars, track_of'[d] # 0 PROVE ~Contains(pending, d)
    BY <1>2, <2>2 DEF FleetInv, Paired
  <2> QED BY <1>u, <2>1, <2>2 DEF Paired, Contains
<1>10. CamKept'
  <2>1. cam.frame \subseteq Tracks BY <1>t DEF FleetTyped, Cameras
  <2> QED BY <1>u, <1>4, <2>1 DEF FleetInv, CamKept, Node
<1>11. SlotOfTrack' BY <1>u DEF FleetInv, SlotOfTrack
<1>12. SlotOfMission'
  <2> SUFFICES ASSUME NEW d \in Cars \ revived, mission[d].slot # None
               PROVE  /\ sync'[d] # "unbind" /\ track_of'[d] # 0
                      /\ assigned[track_of'[d]] = mission[d].slot
    BY <1>u DEF SlotOfMission
  <2>1. /\ sync[d] # "unbind" /\ track_of[d] # 0
        /\ assigned[track_of[d]] = mission[d].slot
    BY DEF FleetInv, SlotOfMission
  <2>2. d # c BY <1>u, <2>1
  <2> QED BY <1>1, <1>2, <2>1, <2>2
<1>13. InTurn'
  <2> SUFFICES ASSUME ~disturbed' PROVE InTurn' BY DEF InTurn
  <2>1. ~disturbed /\ t = 0 BY <1>6
  <2>2. \A u \in Tracks : view'[u].car = view[u].car BY <1>4, <2>1, Bounds
  <2>3. \A d \in Cars : track_of'[d] = track_of[d] BY <1>2, <2>1
  <2> QED BY <1>u, <2>1, <2>2, <2>3 DEF FleetInv, InTurn
<1> QED BY <1>7, <1>8, <1>9, <1>10, <1>11, <1>12, <1>13 DEF FleetInv

LEMMA VehicleReadyKeeps ==
  ASSUME FleetInv, NEW c \in Cars, VehicleReady(c)
  PROVE  FleetInv'
<1>u. /\ pending' = IF track_of[c] = 0 /\ ~Contains(pending, c)
                    THEN Append(pending, c) ELSE pending
      /\ sync' = [sync EXCEPT ![c] = "up"]
      /\ UNCHANGED <<place, seen, owner, view, track_of, mission, assigned, taken,
                     held, lost, cam, revived, disturbed>>
  BY DEF VehicleReady, Queued, Threads, allocator, tracking
<1>t. FleetTyped /\ QueuedOnce BY DEF FleetInv
<1>1. /\ sync' \in [Cars -> {"off", "resync", "unbind", "ready", "up"}]
      /\ \A d \in Cars : sync'[d] = "unbind" => sync[d] = "unbind"
  BY <1>u, <1>t DEF FleetTyped
<1>2. /\ pending' \in Seq(Cars)
      /\ \A i, j \in 1..Len(pending') : pending'[i] = pending'[j] => i = j
      /\ \A d \in Cars : Contains(pending', d) =>
                            Contains(pending, d) \/ (d = c /\ track_of[c] = 0)
      /\ pending # <<>> => pending' # <<>> /\ pending'[1] = pending[1]
  <2>1. CASE track_of[c] = 0 /\ ~Contains(pending, c)
    <3>1. pending' = Append(pending, c) BY <1>u, <2>1
    <3> QED BY <1>t, <2>1, <3>1, LastJoins
  <2>2. CASE ~(track_of[c] = 0 /\ ~Contains(pending, c))
    <3>1. pending' = pending BY <1>u, <2>2
    <3> QED BY <1>t, <3>1 DEF FleetTyped, QueuedOnce
  <2> QED BY <2>1, <2>2
<1>3. FleetTyped' BY <1>u, <1>t, <1>1, <1>2 DEF FleetTyped
<1>4. MissionWhole' /\ SeenIsOwn' BY <1>u DEF FleetInv, MissionWhole, SeenIsOwn
<1>5. QueuedOnce' BY <1>2 DEF QueuedOnce
<1>6. Paired'
  <2>1. \A d \in Cars : track_of[d] # 0 => ~Contains(pending', d)
    BY <1>2 DEF FleetInv, Paired
  <2> QED BY <1>u, <2>1 DEF FleetInv, Paired, Contains
<1>7. CamKept' BY <1>u DEF FleetInv, CamKept, Node
<1>8. SlotOfTrack' BY <1>u DEF FleetInv, SlotOfTrack
<1>9. SlotOfMission' BY <1>u, <1>1 DEF FleetInv, SlotOfMission
<1>10. InTurn' BY <1>u, <1>2 DEF FleetInv, InTurn
<1> QED BY <1>3, <1>4, <1>5, <1>6, <1>7, <1>8, <1>9, <1>10 DEF FleetInv

-----------------------------------------------------------------------------
(* The receiving threads: they change the state of one mission.            *)

LEMMA OneState ==
  ASSUME FleetTyped, NEW c \in Cars, NEW state \in MissionStates,
         state = None <=> mission[c].state = None,
         mission' = [mission EXCEPT ![c].state = state]
  PROVE  /\ mission' \in [Cars -> Missions]
         /\ \A d \in Cars : /\ mission'[d].slot = mission[d].slot
                            /\ mission'[d].state = None <=> mission[d].state = None
<1>1. mission \in [Cars -> Missions] BY DEF FleetTyped
<1>2. /\ mission'[c] = [mission[c] EXCEPT !.state = state]
      /\ \A d \in Cars \ {c} : mission'[d] = mission[d]
  BY <1>1
<1>3. mission[c] \in Missions BY <1>1
<1>4. /\ mission'[c] \in Missions /\ mission'[c].slot = mission[c].slot
      /\ mission'[c].state = state
  BY <1>2, <1>3 DEF Missions
<1> QED BY <1>1, <1>2, <1>4

LEMMA ParksKeeps ==
  ASSUME FleetInv, NEW c \in Cars, Parks(c)
  PROVE  FleetInv'
<1>u. /\ mission[c].state = "DRIVING"
      /\ mission' = [mission EXCEPT ![c].state = "DONE"]
      /\ taken' = taken \cup {mission[c].slot}
      /\ UNCHANGED <<place, seen, owner, view, pending, track_of, assigned, held,
                     lost, cam, sync, revived, disturbed>>
  BY DEF Parks, binding, tracking
<1>t. FleetTyped /\ MissionWhole BY DEF FleetInv
<1>1. mission[c].slot \in Slots
  BY <1>u, <1>t DEF FleetTyped, MissionWhole, Missions, None
<1>2. /\ mission' \in [Cars -> Missions]
      /\ \A d \in Cars : /\ mission'[d].slot = mission[d].slot
                         /\ mission'[d].state = None <=> mission[d].state = None
  <2>1. "DONE" \in MissionStates /\ ("DONE" = None <=> mission[c].state = None)
    BY <1>u DEF MissionStates, None
  <2> QED BY <1>u, <1>t, <2>1, OneState
<1>3. taken \subseteq taken' /\ taken' \subseteq Slots /\ lost' \subseteq Cars
  BY <1>u, <1>t, <1>1 DEF FleetTyped
<1> QED BY <1>u, <1>2, <1>3, OnlyStatesMove

LEMMA CommFailsKeeps ==
  ASSUME FleetInv, NEW c \in Cars, CommFails(c)
  PROVE  FleetInv'
<1>u. /\ lost' = lost \cup {c}
      /\ mission' = [mission EXCEPT ![c].state = IF UnderWay(@) THEN "HELD" ELSE @]
      /\ UNCHANGED <<place, seen, owner, view, pending, track_of, assigned, taken,
                     held, cam, sync, revived, disturbed>>
  BY DEF CommFails, Threads, binding, allocator, tracking
<1>t. FleetTyped BY DEF FleetInv
<1> DEFINE state == IF UnderWay(mission[c].state) THEN "HELD" ELSE mission[c].state
<1>1. /\ state \in MissionStates /\ (state = None <=> mission[c].state = None)
      /\ mission' = [mission EXCEPT ![c].state = state]
  <2>1. mission[c] \in Missions BY <1>t DEF FleetTyped
  <2> QED BY <1>u, <2>1 DEF Missions, MissionStates, UnderWay, None
<1> HIDE DEF state
<1>2. /\ mission' \in [Cars -> Missions]
      /\ \A d \in Cars : /\ mission'[d].slot = mission[d].slot
                         /\ mission'[d].state = None <=> mission[d].state = None
  BY <1>t, <1>1, OneState
<1>3. taken \subseteq taken' /\ taken' \subseteq Slots /\ lost' \subseteq Cars
  BY <1>u, <1>t DEF FleetTyped
<1> QED BY <1>u, <1>2, <1>3, OnlyStatesMove

LEMMA CommRecoversKeeps ==
  ASSUME FleetInv, NEW c \in Cars, CommRecovers(c)
  PROVE  FleetInv'
<1>u. /\ lost' = lost \ {c}
      /\ \/ /\ mission[c] # NoMission
            /\ mission' = [mission EXCEPT ![c].state = "DRIVING"]
         \/ mission' = mission
      /\ UNCHANGED <<place, seen, owner, view, pending, track_of, assigned, taken,
                     held, cam, sync, revived, disturbed>>
  BY DEF CommRecovers, Threads, binding, allocator, tracking
<1>t. FleetTyped /\ MissionWhole BY DEF FleetInv
<1>1. /\ mission' \in [Cars -> Missions]
      /\ \A d \in Cars : /\ mission'[d].slot = mission[d].slot
                         /\ mission'[d].state = None <=> mission[d].state = None
  <2>1. CASE mission' = mission BY <1>t, <2>1 DEF FleetTyped
  <2>2. CASE /\ mission[c] # NoMission
             /\ mission' = [mission EXCEPT ![c].state = "DRIVING"]
    <3>1. mission[c].state # None
      <4>1. mission[c] \in Missions BY <1>t DEF FleetTyped
      <4> QED BY <1>t, <2>2, <4>1 DEF MissionWhole, Missions, NoMission
    <3>2. "DRIVING" \in MissionStates /\ ("DRIVING" = None <=> mission[c].state = None)
      BY <3>1 DEF MissionStates, None
    <3> QED BY <1>t, <2>2, <3>2, OneState
  <2> QED BY <1>u, <2>1, <2>2
<1>2. taken \subseteq taken' /\ taken' \subseteq Slots /\ lost' \subseteq Cars
  BY <1>u, <1>t DEF FleetTyped
<1> QED BY <1>u, <1>1, <1>2, OnlyStatesMove

-----------------------------------------------------------------------------
LEMMA InitKeeps == Init => FleetInv
<1> SUFFICES ASSUME Init PROVE FleetInv OBVIOUS
<1> USE DEF Init
<1>1. owner = <<>> /\ pending = <<>> /\ Len(owner) = 0 /\ Len(pending) = 0
  OBVIOUS
<1>2. owner \in Seq(Cars) /\ pending \in Seq(Cars) BY EmptySeq
<1>3. NoView \in Views /\ NoView.car = None BY DEF NoView, Views, None
<1>4. Waiting \in Cameras /\ Waiting.at = "frame" /\ Waiting.todo = {}
  BY Bounds DEF Waiting, Cameras, None
<1>5. /\ NoMission \in Missions /\ NoMission.state = None /\ NoMission.slot = None
  BY DEF NoMission, Missions, MissionStates, None
<1>6. FleetTyped
  <2>1. seen \in [Cars -> 0..Len(owner)] /\ Len(owner) <= MaxTracks
    BY <1>1, Bounds
  <2>2. view \in [Tracks -> Views] /\ mission \in [Cars -> Missions] /\ cam \in Cameras
    BY <1>3, <1>4, <1>5
  <2>3. /\ place \in [Cars -> {"away", "entrance", "lot"}]
        /\ sync \in [Cars -> {"off", "resync", "unbind", "ready", "up"}]
        /\ assigned \in [Tracks -> Slots \cup {None, "unknown"}]
        /\ track_of \in [Cars -> 0..MaxTracks]
    BY Bounds
  <2> QED BY <1>2, <2>1, <2>2, <2>3 DEF FleetTyped
<1>7. MissionWhole /\ QueuedOnce /\ SeenIsOwn
  BY <1>1, <1>5 DEF MissionWhole, QueuedOnce, SeenIsOwn
<1>8. Paired BY <1>1, <1>3, Bounds, FleetAssumption DEF Paired, Contains, None
<1>9. CamKept BY <1>4 DEF CamKept
<1>10. SlotOfTrack BY FleetAssumption DEF SlotOfTrack
<1>11. SlotOfMission BY <1>5 DEF SlotOfMission
<1>12. InTurn BY <1>1, <1>3 DEF InTurn
<1> QED BY <1>6, <1>7, <1>8, <1>9, <1>10, <1>11, <1>12 DEF FleetInv

LEMMA StepKeeps == FleetInv /\ [Next]_vars => FleetInv'
<1> SUFFICES ASSUME FleetInv, [Next]_vars PROVE FleetInv' OBVIOUS
<1>1. CASE UNCHANGED vars
  <2>1. UNCHANGED <<place, seen, owner, view, pending, track_of, mission, assigned,
                    taken, held, lost, cam, sync, revived, disturbed>>
    BY <1>1 DEF vars, tracking, binding, allocator
  <2>2. mission' \in [Cars -> Missions] /\ lost' \subseteq Cars /\ taken' \subseteq Slots
    BY <2>1 DEF FleetInv, FleetTyped
  <2> QED BY <2>1, <2>2, OnlyStatesMove
<1>2. CASE Camera
  BY <1>2, UpdateViewsKeeps, BindCarKeeps, StartAllocationKeeps, StartMissionKeeps,
     CheckCollisionsKeeps, HoldCarKeeps, ResumeClearedKeeps, ForgetStaleKeeps
     DEF Camera
<1>3. CASE Environment
  BY <1>3, ArrivesKeeps, DrivesKeeps, FoundKeeps, LostKeeps DEF Environment
<1>4. CASE Host
  BY <1>4, HandshakeKeeps, ResyncMissionKeeps, ResyncBindingKeeps,
     VehicleReadyKeeps, ParksKeeps, CommFailsKeeps, CommRecoversKeeps DEF Host
<1> QED BY <1>1, <1>2, <1>3, <1>4 DEF Next

LEMMA Inductive == Spec => []FleetInv
  BY InitKeeps, StepKeeps, PTL DEF Spec

-----------------------------------------------------------------------------
(* The queue of ready cars is never longer than there are cars.            *)
LEMMA QueueBound ==
  ASSUME FleetTyped, QueuedOnce
  PROVE  Len(pending) <= Cardinality(Cars)
<1> DEFINE n == Len(pending)
<1>1. n \in Nat /\ pending \in [1..n -> Cars]
  BY LenProperties DEF FleetTyped
<1>2. pending \in Injection(1..n, Cars)
  BY <1>1 DEF QueuedOnce, Injection, IsInjective
<1>3. Cardinality(1..n) <= Cardinality(Cars)
  BY <1>2, FleetAssumption, FS_Injection
<1>4. Cardinality(1..n) = n
  BY <1>1, FS_Interval
<1> QED BY <1>3, <1>4

(* Every variable of the runner keeps its type: a mission has both a state *)
(* and a slot or neither, though handshake threads, receiving threads and  *)
(* the camera thread write it in any order, and _pending_cars never holds  *)
(* more than there are cars.                                               *)
THEOREM TypeCorrect == Spec => []TypeOK
<1>1. ASSUME FleetInv PROVE TypeOK
  <2>1. FleetTyped /\ MissionWhole /\ QueuedOnce BY <1>1 DEF FleetInv
  <2>2. Len(pending) <= Cardinality(Cars) BY <2>1, QueueBound
  <2>3. \A t \in Tracks : /\ view[t].car \in Cars \cup {None}
                          /\ view[t].slot \in Slots \cup {None}
    <3> TAKE t \in Tracks
    <3>1. view[t] \in Views BY <2>1 DEF FleetTyped
    <3> QED BY <3>1 DEF Views
  <2>4. \A c \in Cars : /\ mission[c].state \in MissionStates
                        /\ mission[c].slot \in Slots \cup {None}
    <3> TAKE c \in Cars
    <3>1. mission[c] \in Missions BY <2>1 DEF FleetTyped
    <3> QED BY <3>1 DEF Missions
  <2> QED BY <2>1, <2>2, <2>3, <2>4
        DEF TypeOK, FleetTyped, MissionWhole, MissionStates
<1> QED BY <1>1, Inductive, PTL

(* The camera's view of which track is which car and track_of_car agree at *)
(* every moment, although _bind_car, _on_resync and _forget_stale change   *)
(* them from two threads; a car with a track is not in the queue; and where*)
(* nothing came out of turn, every pair is right.                          *)
THEOREM BindingsHold == Spec => []BindingsAgree
<1>1. ASSUME FleetInv PROVE BindingsAgree
  <2>1. ASSUME ~disturbed, NEW t \in Tracks
        PROVE  view[t].car \in {None} \cup {owner[u] : u \in {t} \cap DOMAIN owner}
    BY <1>1, <2>1 DEF FleetInv, InTurn
  <2> QED BY <1>1, <2>1 DEF FleetInv, Paired, BindingsAgree
<1> QED BY <1>1, Inductive, PTL

(* The allocator gives a slot to one mission, for any number of cars and   *)
(* slots and whatever tracks are lost, found and forgotten: the only       *)
(* missions that may share one are those the camera thread started after   *)
(* the resync of their car had dropped it.                                 *)
THEOREM SlotGivenOnceHolds == Spec => []SlotGivenOnce
<1>1. ASSUME FleetInv PROVE SlotGivenOnce
  <2> SUFFICES ASSUME NEW c \in Cars \ revived, NEW d \in Cars \ revived, c # d,
                      mission[c].slot # None, mission[c].slot = mission[d].slot
               PROVE  FALSE
    BY DEF SlotGivenOnce
  <2>1. /\ track_of[c] # 0 /\ assigned[track_of[c]] = mission[c].slot
        /\ track_of[d] # 0 /\ assigned[track_of[d]] = mission[c].slot
    BY <1>1 DEF FleetInv, SlotOfMission
  <2>2. mission[c].slot \in Slots /\ track_of[c] \in Tracks /\ track_of[d] \in Tracks
    <3>1. mission[c] \in Missions BY <1>1 DEF FleetInv, FleetTyped
    <3> QED BY <1>1, <2>1, <3>1, Bounds DEF FleetInv, FleetTyped, Missions
  <2>3. track_of[c] = track_of[d]
    BY <1>1, <2>1, <2>2 DEF FleetInv, SlotOfTrack
  <2>4. view[track_of[c]].car = c /\ view[track_of[c]].car = d
    BY <1>1, <2>2, <2>3 DEF FleetInv, Paired
  <2> QED BY <2>4
<1> QED BY <1>1, Inductive, PTL

=============================================================================
