------------------------------- MODULE ParkingEnv -------------------------------
(***************************************************************************)
(* The slot allocation environment (integrated/host/rl/parking_env.py,     *)
(* ParkingRoutingEnv): cars are sent one by one through a shared lane to   *)
(* a slot, stay, and drive out through the same lane.  A table of          *)
(* reservations says who occupies which waypoint when; the Safety Shield   *)
(* refuses an assignment, and puts off a departure, whose route would come *)
(* closer than SAFETY_MARGIN to one of them.                               *)
(*                                                                         *)
(* Times are kept relative to the clock, as the code compares them with    *)
(* nothing else, and an interval that ended longer than the margin ago is  *)
(* clipped to the point -SafetyMargin: no route that begins now or later   *)
(* can meet it.  The code numbers cars for ever; here a car is known by    *)
(* its slot and the least number no list and no reservation still uses.    *)
(* Steps are not counted: an episode may reach MAX_STEPS, and be reset,    *)
(* after any of them, and the other end of an episode, every slot TAKEN    *)
(* with no departure planned, cannot be (SlotHasOneOwner).                 *)
(* Rewards, observations and statistics are left out.                      *)
(***************************************************************************)
EXTENDS Integers, Sequences, FiniteSets, SequencesExt, FiniteSetsExt

CONSTANTS
  Rows,               \* the two rows of slots
  Columns,            \* columns of slots; column 1 is nearest to the junction
  NodeTravelTime, SafetyMargin, WaitTime,
  ArrivalTimes,       \* the inter-arrival times _sample_iat may draw
  ParkDurations,      \* the stays step and reset may draw
  InitialOccupancyMax,
  MaxConsecutiveWaits

ASSUME EnvAssumption ==
  /\ Columns \in Nat \ {0} /\ NodeTravelTime \in Nat \ {0}
  /\ SafetyMargin \in Nat /\ WaitTime \in Nat \ {0}
  /\ Rows # {} /\ "lane" \notin Rows
  /\ ArrivalTimes \subseteq Nat /\ ArrivalTimes # {}
  /\ ParkDurations \subseteq Nat
  /\ \E d \in ParkDurations : \A e \in ParkDurations : e <= d
  /\ InitialOccupancyMax \in 0 .. 2 * Columns
  /\ MaxConsecutiveWaits \in Nat

(* The lot: two rows of slots along one lane.  A waypoint is a pair, as is *)
(* a slot, whose waypoint is its front.                                    *)
Slots == Rows \X (1 .. Columns)
Entrance == <<"entrance", 0>>
Junction == <<"junction", 0>>
LotExit == <<"exit", 0>>
LanePoint(i) == <<"lane", i>>
Nodes == {Entrance, Junction, LotExit} \cup Slots
           \cup {LanePoint(i) : i \in 1 .. Columns}
WaitAction == <<"wait", 0>>
Actions == Slots \cup {WaitAction}

SlotRoute(s) ==
  <<Entrance, Junction>> \o [i \in 1 .. s[2] |-> LanePoint(i)] \o <<s>>
ExitRoute(s) ==
  <<s>> \o [i \in 1 .. s[2] |-> LanePoint(s[2] + 1 - i)] \o <<Junction, LotExit>>

VARIABLES
  taken,         \* _slot_statuses: the slots that are TAKEN
  active,        \* _active_vehicles, each with the time its route began
  parked,        \* _parked_vehicles, with the time to departure, in order
  reservations,  \* the reservation table
  waits          \* _consecutive_waits, up to the limit

envVars == <<taken, active, parked, reservations, waits>>

(***************************************************************************)
(* The traffic as one record, for the operations that change all of it.    *)
(***************************************************************************)
Lot == [taken |-> taken, active |-> active, parked |-> parked,
        table |-> reservations]

RouteOf(v) == IF v.status = "exiting" THEN ExitRoute(v.slot) ELSE SlotRoute(v.slot)

(* _build_intervals: when node i of a route that begins at t is occupied.  *)
NodeStart(i, t) == t + (i - 1) * NodeTravelTime
RouteEnd(route, t) == t + Len(route) * NodeTravelTime

(* _register_reservation *)
Booked(route, t, id) ==
  {[node |-> route[i], id |-> id, start |-> NodeStart(i, t),
    end |-> NodeStart(i, t) + NodeTravelTime] : i \in DOMAIN route}

(* _check_conflict, and _check_conflict_excluding for a departing car *)
(* Mutant: the margin is dropped.                                          *)
NoPadding == 0

Padding == SafetyMargin

Conflict(route, table, excluded) ==
  \E i \in DOMAIN route : \E r \in table :
    /\ r.node = route[i] /\ r.id # excluded
    /\ NodeStart(i, 0) - Padding < r.end
    /\ r.start < NodeStart(i, 0) + NodeTravelTime + Padding
Nobody == <<LotExit, 0>>

Purged(table, id) == {r \in table : r.id # id}      \* _remove_reservations_for_vehicle

Ids(lot) == {v.id : v \in lot.active} \cup {p.id : p \in ToSet(lot.parked)}
              \cup {r.id : r \in lot.table}
FreshId(lot, s) ==
  <<s, Min({n \in 1 .. Cardinality(Ids(lot)) + 1 : <<s, n>> \notin Ids(lot)})>>

(***************************************************************************)
(* advance_time.                                                           *)
(***************************************************************************)
(* Mutant: a departure put off keeps counting below zero.                  *)
NoFloor(x, least) == x

Floor(x, least) == IF x < least THEN least ELSE x

Clip(x) == Floor(x, -SafetyMargin)
CarLater(v, dt) == [v EXCEPT !.start = @ - dt]
StayLater(p, dt) == [p EXCEPT !.depart = Floor(@ - dt, 0)]
EntryLater(r, dt) == [r EXCEPT !.start = Clip(@ - dt), !.end = Clip(@ - dt)]
Elapsed(lot, dt) ==
  [lot EXCEPT
     !.active = {CarLater(v, dt) : v \in @},
     !.parked = [k \in DOMAIN @ |-> StayLater(@[k], dt)],
     !.table = {EntryLater(r, dt) : r \in @}]

(* Cars at the end of their route leave the simulator; one that has left   *)
(* the lot takes its reservations with it.                                 *)
Arrived(v) == RouteEnd(RouteOf(v), v.start) <= 0

(* Mutant: a car that has left stays in the table.                         *)
StaysInTable(v) == FALSE

LeavesTable(v) == v.status = "exiting"

Moved(lot) ==
  LET gone == {v.id : v \in {w \in lot.active : Arrived(w) /\ LeavesTable(w)}}
  IN [lot EXCEPT !.active = {v \in @ : ~Arrived(v)},
                 !.table = {r \in @ : r.id \notin gone}]

(* _process_departures for one parked car: it drives out when its time has *)
(* come and the way is free, else it stays in the list.                    *)
Deferred(lot, p) == Conflict(ExitRoute(p.slot), lot.table, p.id)

(* Mutant: the slot is freed before the shield is asked.                   *)
FreedEarly(lot, p) ==
  IF p.depart > 0 THEN {} ELSE {p.slot}

FreedSlots(lot, p) ==
  IF p.depart > 0 \/ Deferred(lot, p) THEN {} ELSE {p.slot}

Departed(lot, p) ==
  IF p.depart > 0 \/ Deferred(lot, p)
  THEN [lot EXCEPT !.parked = Append(@, p), !.taken = @ \ FreedSlots(lot, p)]
  ELSE [lot EXCEPT
          !.taken = @ \ FreedSlots(lot, p),
          !.table = Purged(@, p.id) \cup Booked(ExitRoute(p.slot), 0, p.id),
          !.active = @ \cup {[id |-> p.id, slot |-> p.slot,
                              status |-> "exiting", start |-> 0]}]

(* The parked cars are gone through in order, into a new list.             *)
DepartedUpTo(lot) ==
  LET upTo[n \in 0 .. Len(lot.parked)] ==
        IF n = 0 THEN [lot EXCEPT !.parked = <<>>]
        ELSE Departed(upTo[n - 1], lot.parked[n])
  IN upTo
Departures(lot) == DepartedUpTo(lot)[Len(lot.parked)]

AdvanceTime(lot, dt) == Departures(Moved(Elapsed(lot, dt)))

(***************************************************************************)
(* action_masks.  It may move the clock: when no action is left it runs on *)
(* to the next departure (_ensure_free_slot), and as a last resort offers  *)
(* the nearest free slot although its route is in conflict.                *)
(***************************************************************************)
FreeSlots(lot) == Slots \ lot.taken
OpenSlots(lot) == {s \in FreeSlots(lot) : ~Conflict(SlotRoute(s), lot.table, Nobody)}
WaitMask == IF waits < MaxConsecutiveWaits THEN {WaitAction} ELSE {}

(* Mutant: the clock runs on by one WAIT, not to the next departure.       *)
OneMoreWait(lot) ==
  IF FreeSlots(lot) # {} \/ lot.parked = <<>> THEN lot ELSE AdvanceTime(lot, WaitTime)

EnsureFreeSlot(lot) ==
  IF FreeSlots(lot) # {} \/ lot.parked = <<>> THEN lot
  ELSE AdvanceTime(lot, Min({p.depart : p \in ToSet(lot.parked)}))

Nearest(free) == {s \in free : \A t \in free : s[2] <= t[2]}

LotBecomes(lot) ==
  /\ taken' = lot.taken /\ active' = lot.active
  /\ parked' = lot.parked /\ reservations' = lot.table

AllowedAtOnce == OpenSlots(Lot) \cup WaitMask
Shown == IF AllowedAtOnce = {} THEN EnsureFreeSlot(Lot) ELSE Lot
Allowed ==
  IF AllowedAtOnce # {} THEN AllowedAtOnce
  ELSE IF OpenSlots(Shown) # {} THEN OpenSlots(Shown) ELSE Nearest(FreeSlots(Shown))

(* Asking for the mask is a step of its own only where it moves the clock. *)
ActionMasks ==
  /\ AllowedAtOnce = {}
  /\ LotBecomes(Shown)
  /\ UNCHANGED waits

(***************************************************************************)
(* step.  A trained policy picks from the mask; the benchmark of the       *)
(* vectorised environments (train_sb3.py:115) picks any action.            *)
(***************************************************************************)
Finish(lot, dt) == LotBecomes(AdvanceTime(lot, dt))

StepWait ==
  /\ waits' = IF waits < MaxConsecutiveWaits THEN waits + 1 ELSE waits
  /\ Finish(Lot, WaitTime)

(* A slot that is taken, or whose route is in conflict: nothing but time.  *)
StepRefused(s) ==
  /\ s \in taken \/ Conflict(SlotRoute(s), reservations, Nobody)
  /\ waits' = 0
  /\ \E iat \in ArrivalTimes : Finish(Lot, iat)

(* The reservations of the way in, and of the stay; the departure is       *)
(* planned at once.                                                        *)
Assigned(s, id, stay) ==
  LET arrival == RouteEnd(SlotRoute(s), 0) IN
  [taken  |-> taken \cup {s},
   active |-> active \cup {[id |-> id, slot |-> s, status |-> "moving", start |-> 0]},
   parked |-> Append(parked, [id |-> id, slot |-> s, depart |-> arrival + stay]),
   table  |-> reservations \cup Booked(SlotRoute(s), 0, id)
                \cup {[node |-> s, id |-> id, start |-> arrival, end |-> arrival + stay]}]

StepAssign(s) ==
  /\ s \notin taken /\ ~Conflict(SlotRoute(s), reservations, Nobody)
  /\ waits' = 0
  /\ \E stay \in ParkDurations, iat \in ArrivalTimes :
       Finish(Assigned(s, FreshId(Lot, s), stay), iat)

(***************************************************************************)
(* reset: some slots are already taken by cars that will leave.            *)
(***************************************************************************)
PreParked == {[id |-> <<s, 1>>, slot |-> s, depart |-> d] : s \in Slots, d \in ParkDurations}
FreshEpisodes ==
  UNION {{p \in [1 .. n -> PreParked] :
            \A j, k \in 1 .. n : j # k => p[j].slot # p[k].slot}
         : n \in 0 .. InitialOccupancyMax}

Reset ==
  /\ \E p \in FreshEpisodes :
       LotBecomes([taken |-> {q.slot : q \in ToSet(p)}, active |-> {}, parked |-> p,
                   table |-> {[node |-> q.slot, id |-> q.id, start |-> 0,
                               end |-> q.depart] : q \in ToSet(p)}])
  /\ waits' = 0

EnvInit ==
  /\ parked \in FreshEpisodes
  /\ taken = {q.slot : q \in ToSet(parked)}
  /\ active = {}
  /\ reservations = {[node |-> q.slot, id |-> q.id, start |-> 0, end |-> q.depart]
                       : q \in ToSet(parked)}
  /\ waits = 0

EnvNext ==
  \/ ActionMasks \/ StepWait \/ Reset
  \/ \E s \in Slots : StepAssign(s) \/ StepRefused(s)

EnvSpec == EnvInit /\ [][EnvNext]_envVars

(***************************************************************************)
(* Properties.                                                             *)
(***************************************************************************)
Times == -((Columns + 4) * NodeTravelTime + SafetyMargin) ..
           ((Columns + 4) * NodeTravelTime + Max(ParkDurations))

(* Type correctness: statuses, lists, table and counters have the shape the *)
(* environment gives them, and times stay within a route and a stay of now. *)
EnvTypeOK ==
  /\ taken \subseteq Slots
  /\ \A v \in active : /\ v.slot \in Slots /\ v.status \in {"moving", "exiting"}
                       /\ v.id \in Slots \X Nat /\ v.start \in Times
  /\ \A k \in DOMAIN parked : /\ parked[k].slot \in Slots
                              /\ parked[k].depart \in Times \cap Nat
  /\ \A r \in reservations : /\ r.node \in Nodes
                             /\ r.start \in Times /\ r.end \in Times
  /\ waits \in 0 .. MaxConsecutiveWaits

(* What the Safety Shield is for: two cars under way never hold the same   *)
(* waypoint less than SAFETY_MARGIN apart, whichever way they go and       *)
(* whether they come or leave; in particular they never swap waypoints     *)
(* head on.  It ranges over whole routes, the part still ahead included.   *)
Apart(v, w) ==
  \A i \in DOMAIN RouteOf(v), j \in DOMAIN RouteOf(w) :
    RouteOf(v)[i] = RouteOf(w)[j] =>
      LET a == NodeStart(i, v.start)
          b == NodeStart(j, w.start)
      IN \/ b - a >= NodeTravelTime + SafetyMargin
         \/ a - b >= NodeTravelTime + SafetyMargin
ShieldHolds == \A v, w \in active : v # w => Apart(v, w)

(* A slot is TAKEN exactly while one car holds it, from the decision that  *)
(* sent the car there until the car pulls out; a car on its way in is the  *)
(* one that holds its slot, so a slot reused while its last car is still   *)
(* driving out has one owner (_slot_statuses against _parked_vehicles).    *)
SlotHasOneOwner ==
  /\ taken = {p.slot : p \in ToSet(parked)}
  /\ \A j, k \in DOMAIN parked : j # k => /\ parked[j].slot # parked[k].slot
                                          /\ parked[j].id # parked[k].id
  /\ \A v \in active : v.status = "moving" =>
       \E p \in ToSet(parked) : p.id = v.id /\ p.slot = v.slot

(* No ghost reservations (_remove_reservations_for_vehicle): every entry   *)
(* of the table is of a car that is still here, and a car that is driving  *)
(* out has none left of its way in or of its stay.                         *)
NoGhostReservation ==
  \A r \in reservations :
    \/ \E p \in ToSet(parked) : p.id = r.id
    \/ \E v \in active : /\ v.id = r.id /\ v.status = "exiting"
                         /\ \E i \in DOMAIN RouteOf(v) :
                              /\ RouteOf(v)[i] = r.node
                              /\ r.end = Clip(NodeStart(i + 1, v.start))

(* What the environment remembers is what is there, and nothing besides.   *)
BooksMatchLot == SlotHasOneOwner /\ NoGhostReservation

(* The promise of action_masks to the policy: while the episode runs, some *)
(* action is always allowed.  The fast-forward goes to one departure only, *)
(* and that departure may be refused by the shield; it is not, because the *)
(* waits that used up the WAIT action took longer than any way in.         *)
MaskNeverEmpty == Allowed # {}

(* ... as long as this holds of the constants.                             *)
WaitsOutlastWayIn ==
  \A iat \in ArrivalTimes :
    MaxConsecutiveWaits * WaitTime + iat >= (Columns + 1) * NodeTravelTime + SafetyMargin
================================================================================
