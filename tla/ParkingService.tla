--------------------------- MODULE ParkingService ---------------------------
(* The parking service (src/integrated/host/parking): entries, exits and   *)
(* route requests of concurrent HTTP workers on one database.  Entry and   *)
(* exit are transactions of several statements; the operators' views are   *)
(* single statements of their own.                                         *)
(*                                                                         *)
(* config/settings.py takes SQLite or PostgreSQL.  A transaction's writes  *)
(* are visible to the others at its commit.  PostgreSQL locks the rows it  *)
(* writes; SQLite has one writer, refuses a second one at once, and lets   *)
(* it commit when nobody reads.                                            *)
EXTENDS Naturals, Sequences, FiniteSets

CONSTANTS
  Databases,        \* the databases of the settings: "sqlite", "postgresql"
  Workers,          \* threads that serve requests
  Plates,           \* license plates
  VehicleTypes,
  SpotTypes,        \* the spots' types, the nearest to the entrance first
  Preferences,      \* SPOT_PREFERENCE_BY_VEHICLE
  MaxRecords,       \* bound: entries ever made
  MaxHands          \* bound: what operators do by hand

NumSpots == Len(SpotTypes)
Spots == 1..NumSpots

ASSUME ServiceAssumption ==
  /\ Databases # {} /\ Databases \subseteq {"sqlite", "postgresql"}
  /\ Preferences \in [VehicleTypes -> Seq({SpotTypes[s] : s \in Spots})]
  /\ "none" \notin Plates \cup VehicleTypes
  /\ IsFiniteSet(Workers) /\ {NumSpots, MaxRecords, MaxHands} \subseteq Nat

VARIABLES
  db,
  vehicle,  \* each plate's row: its type, or None
  status,   \* each spot's status, "gone" when its row is deleted
  records,  \* EntryExit rows in the order of their keys, each with the
            \* ParkingAssignment row of the same entry
  route,    \* the target of each plate's newest RoutePlan, 0 for none
  worker,   \* the request each worker serves
  hands,    \* how often operators intervened
  touched,  \* history: spots set by hand, or left by a deleted vehicle
  astray    \* history: plates with a route request that named a target or
            \* was under way when the car came in

rows == <<vehicle, status, records, route>>
vars == <<db, rows, worker, hands, touched, astray>>

None == "none"
Statuses == {"vacant", "occupied", "reserved"}
NoRecord == [plate |-> None, spot |-> 0, active |-> FALSE, assignment |-> None]
Idle == [op |-> None, at |-> None, plate |-> None, type |-> None,
         saved |-> FALSE, lost |-> FALSE, spot |-> 0, record |-> 0]

(* The seed leaves the lot empty.                                          *)
Init ==
  /\ db \in Databases
  /\ vehicle = [p \in Plates |-> None]
  /\ status = [s \in Spots |-> "vacant"]
  /\ records = <<>>
  /\ route = [p \in Plates |-> 0]
  /\ worker = [w \in Workers |-> Idle]
  /\ hands = 0 /\ touched = {} /\ astray = {}

-----------------------------------------------------------------------------
(* The database.                                                           *)

InTransaction(w) == worker[w].op \in {"entry", "exit"} /\ worker[w].at # "begin"

Wrote(w) ==
  /\ InTransaction(w)
  /\ \/ worker[w].saved \/ worker[w].record # 0
     \/ worker[w].at \in {"occupy", "commit"}

(* Row locks.                                                              *)
HoldsVehicle(w, p) == /\ worker[w].op = "entry" /\ worker[w].plate = p
                      /\ worker[w].saved
HoldsRecord(w, i) == worker[w].op = "exit" /\ worker[w].record = i
HoldsSpot(w, s) == worker[w].at = "commit" /\ worker[w].spot = s

HoldersOfVehicle(p) == {w \in Workers : HoldsVehicle(w, p)}
HoldersOfRecord(i) == {w \in Workers : HoldsRecord(w, i)}
HoldersOfSpot(s) == {w \in Workers : HoldsSpot(w, s)}

(* Worker w may write a row that these workers hold.                       *)
MayWrite(w, holders) ==
  IF db = "sqlite" THEN \A v \in Workers \ {w} : ~Wrote(v)
  ELSE holders \subseteq {w}
Busy(w) == db = "sqlite" /\ \E v \in Workers \ {w} : Wrote(v)

(* SQLite: a commit waits for the readers and keeps new ones out.          *)
Committing(w) == worker[w].at = "commit"
MayRead == db = "sqlite" => \A v \in Workers : ~Committing(v)
MayCommit(w) ==
  db = "sqlite" => \A v \in Workers \ {w} : ~InTransaction(v)

(* A statement outside a transaction.                                      *)
MayUpdate(holders) ==
  IF db = "sqlite" THEN \A v \in Workers : ~InTransaction(v)
  ELSE holders = {}

Ends(w) == worker' = [worker EXCEPT ![w] = Idle]
Goes(w, fields) == worker' = [worker EXCEPT ![w] = fields]

(* A refusal, "database is locked" and any other exception roll back.      *)
Fails(w) == Ends(w) /\ UNCHANGED <<rows, astray>>

Reads == UNCHANGED <<rows, astray>>
Aside == UNCHANGED <<db, hands, touched>>

-----------------------------------------------------------------------------
(* What the rows say.                                                      *)

ActiveOf(p) == {i \in DOMAIN records : records[i].plate = p /\ records[i].active}
ActiveOn(s) == {i \in DOMAIN records : records[i].spot = s /\ records[i].active}

(* Mutant: everything that is not reserved may be recommended.             *)
NotReserved == {s \in Spots : status[s] \notin {"reserved", "gone"}}

Candidates == {s \in Spots : status[s] = "vacant"}

Rank(type, s) ==
  LET wanted == Preferences[type]
      places == {i \in DOMAIN wanted : wanted[i] = SpotTypes[s]}
  IN IF places = {} THEN Len(wanted) + 1 ELSE CHOOSE i \in places : TRUE

(* The best rank, then the nearest, then the lowest key.                   *)
Better(type, s, t) == \/ Rank(type, s) < Rank(type, t)
                      \/ Rank(type, s) = Rank(type, t) /\ s <= t
Recommended(type) ==
  CHOOSE s \in Candidates : \A t \in Candidates : Better(type, s, t)

(* Mutant: route plans come oldest first.                                  *)
Oldest(old, new) == IF old = 0 THEN new ELSE old

Newest(old, new) == new

Planned(p, s) == [route EXCEPT ![p] = Newest(@, s)]

-----------------------------------------------------------------------------
(* process_entry.                                                          *)

Room == Len(records) + Cardinality({w \in Workers : worker[w].op = "entry"})
          < MaxRecords

Request(w, op, p, type) ==
  Goes(w, [Idle EXCEPT !.op = op, !.at = "begin", !.plate = p, !.type = type])

EntryAsked(w) ==
  /\ worker[w] = Idle /\ Room
  /\ \E p \in Plates, type \in VehicleTypes : Request(w, "entry", p, type)
  /\ Reads /\ Aside

(* get_or_create: a row another worker is inserting makes it wait.         *)
EntryVehicle(w) ==
  LET r == worker[w] IN
  /\ r.op = "entry" /\ r.at = "begin" /\ MayRead
  /\ IF vehicle[r.plate] # None
     THEN Goes(w, [r EXCEPT !.at = "type"])
     ELSE \/ /\ MayWrite(w, HoldersOfVehicle(r.plate))
             /\ Goes(w, [r EXCEPT !.at = "active", !.saved = TRUE])
          \/ Busy(w) /\ Ends(w)
  /\ Reads /\ Aside

(* The update of a changed type locks the row as an insert does.           *)
EntryType(w) ==
  LET r == worker[w] IN
  /\ r.op = "entry" /\ r.at = "type"
  /\ IF r.lost THEN Ends(w)
     ELSE IF vehicle[r.plate] = r.type THEN Goes(w, [r EXCEPT !.at = "active"])
     ELSE \/ /\ MayWrite(w, HoldersOfVehicle(r.plate))
             /\ Goes(w, [r EXCEPT !.at = "active", !.saved = TRUE])
          \/ Busy(w) /\ Ends(w)
  /\ Reads /\ Aside

(* Mutant: a car that is inside may come in again.                         *)
NeverIn(p) == FALSE

AlreadyIn(p) == ActiveOf(p) # {}

EntryCheck(w) ==
  LET r == worker[w] IN
  /\ r.op = "entry" /\ r.at = "active"
  /\ IF AlreadyIn(r.plate) /\ ~r.lost THEN Ends(w)
     ELSE Goes(w, [r EXCEPT !.at = "spot"])
  /\ Reads /\ Aside

(* recommend_spot reads the vacant spots and writes its log.               *)
EntrySpot(w) ==
  LET r == worker[w] IN
  /\ r.op = "entry" /\ r.at = "spot"
  /\ IF Candidates = {} \/ Busy(w) THEN Ends(w)
     ELSE Goes(w, [r EXCEPT !.at = "occupy", !.spot = Recommended(r.type)])
  /\ Reads /\ Aside

EntryOccupy(w) ==
  LET r == worker[w] IN
  /\ r.op = "entry" /\ r.at = "occupy"
  /\ MayWrite(w, HoldersOfSpot(r.spot))
  /\ IF status[r.spot] = "gone" THEN Ends(w)
     ELSE Goes(w, [r EXCEPT !.at = "commit"])
  /\ Reads /\ Aside

(* The rows of the transaction appear together.                            *)
EntryCommit(w) ==
  LET r == worker[w] IN
  /\ r.op = "entry" /\ r.at = "commit" /\ MayCommit(w)
  /\ IF r.lost THEN Fails(w)
     ELSE /\ vehicle' = [vehicle EXCEPT ![r.plate] =
                           IF r.saved THEN r.type ELSE @]
          /\ status' = [status EXCEPT ![r.spot] = "occupied"]
          /\ records' = Append(records, [plate |-> r.plate, spot |-> r.spot,
                                         active |-> TRUE,
                                         assignment |-> "occupied"])
          /\ route' = Planned(r.plate, r.spot)
          /\ astray' = IF \E v \in Workers : /\ worker[v].op = "route"
                                             /\ worker[v].plate = r.plate
                       THEN astray \cup {r.plate} ELSE astray \ {r.plate}
          /\ Ends(w)
  /\ Aside

-----------------------------------------------------------------------------
(* process_exit.                                                           *)

ExitAsked(w) ==
  /\ worker[w] = Idle
  /\ \E p \in Plates : Request(w, "exit", p, None)
  /\ Reads /\ Aside

ExitVehicle(w) ==
  LET r == worker[w] IN
  /\ r.op = "exit" /\ r.at = "begin" /\ MayRead
  /\ IF vehicle[r.plate] = None THEN Ends(w)
     ELSE Goes(w, [r EXCEPT !.at = "record"])
  /\ Reads /\ Aside

(* select_for_update().get(): no row and more than one raise.              *)
ExitRecord(w) ==
  LET r == worker[w]
      mine == IF r.lost THEN {} ELSE ActiveOf(r.plate)
  IN
  /\ r.op = "exit" /\ r.at = "record"
  /\ IF Cardinality(mine) # 1 \/ Busy(w) THEN Ends(w)
     ELSE \E i \in mine :
            /\ MayWrite(w, HoldersOfRecord(i))
            /\ Goes(w, [r EXCEPT !.at = "vacate", !.record = i,
                                 !.spot = records[i].spot])
  /\ Reads /\ Aside

ExitVacate(w) ==
  LET r == worker[w] IN
  /\ r.op = "exit" /\ r.at = "vacate"
  /\ MayWrite(w, HoldersOfSpot(r.spot))
  /\ Goes(w, [r EXCEPT !.at = "commit"])
  /\ Reads /\ Aside

(* Mutant: every assignment of the spot is completed, whosever it is.      *)
AnyOnSpot(x, r) == x.spot = r.spot /\ x.assignment = "occupied"

Completes(x, r) ==
  x.plate = r.plate /\ x.spot = r.spot /\ x.assignment = "occupied"

(* Mutant: the spot gets the status of the assignment.                     *)
FreedAsAssignment == "completed"

Freed == "vacant"

ExitCommit(w) ==
  LET r == worker[w] IN
  /\ r.op = "exit" /\ r.at = "commit" /\ MayCommit(w)
  /\ status' = [status EXCEPT ![r.spot] = Freed]
  /\ records' = [i \in DOMAIN records |->
                   [records[i] EXCEPT
                      !.active = @ /\ i # r.record,
                      !.assignment = IF Completes(records[i], r)
                                     THEN "completed" ELSE @]]
  /\ Ends(w)
  /\ UNCHANGED <<vehicle, route, astray>> /\ Aside

-----------------------------------------------------------------------------
(* The route view: each of its statements stands alone.                    *)

(* Spot 0 asks for no particular target.                                   *)
RouteAsked(w) ==
  /\ worker[w] = Idle
  /\ \E p \in Plates, s \in Spots \cup {0} :
       /\ vehicle[p] # None /\ (s # 0 => status[s] # "gone")
       /\ worker' = [worker EXCEPT ![w] =
                       [Idle EXCEPT !.op = "route", !.plate = p, !.spot = s,
                          !.at = IF s = 0 THEN "plan" ELSE "store"]]
       /\ astray' = IF s # 0 THEN astray \cup {p} ELSE astray
  /\ UNCHANGED rows /\ Aside

(* A stored plan is the answer, whatever visit it was made for.            *)
RoutePlan(w) ==
  LET r == worker[w] IN
  /\ r.op = "route" /\ r.at = "plan" /\ MayRead
  /\ IF r.lost \/ route[r.plate] # 0 THEN Ends(w)
     ELSE Goes(w, [r EXCEPT !.at = "target"])
  /\ Reads /\ Aside

RouteTarget(w) ==
  LET r == worker[w]
      mine == IF r.lost THEN {} ELSE ActiveOf(r.plate)
  IN
  /\ r.op = "route" /\ r.at = "target" /\ MayRead
  /\ \/ \E i \in mine : Goes(w, [r EXCEPT !.at = "store",
                                          !.spot = records[i].spot])
     \/ /\ mine = {} /\ Candidates # {} /\ ~r.lost
        /\ Goes(w, [r EXCEPT !.at = "store",
                             !.spot = Recommended(vehicle[r.plate])])
     \/ mine = {} /\ (Candidates = {} \/ r.lost) /\ Ends(w)
  /\ Reads /\ Aside

RouteStore(w) ==
  LET r == worker[w] IN
  /\ r.op = "route" /\ r.at = "store"
  /\ MayUpdate({})
  /\ route' = IF r.lost \/ status[r.spot] = "gone" THEN route
              ELSE Planned(r.plate, r.spot)
  /\ Ends(w)
  /\ UNCHANGED <<vehicle, status, records, astray>> /\ Aside

-----------------------------------------------------------------------------
(* Operators.                                                              *)

ByHand == hands < MaxHands /\ hands' = hands + 1

SetStatus ==
  /\ ByHand
  /\ \E s \in Spots, x \in Statuses :
       /\ status[s] \notin {"gone", x}
       /\ MayUpdate(HoldersOfSpot(s))
       /\ status' = [status EXCEPT ![s] = x]
       /\ touched' = touched \cup {s}
  /\ UNCHANGED <<db, vehicle, records, route, worker, astray>>

(* Registration and change of a vehicle.                                   *)
SaveVehicle ==
  /\ ByHand
  /\ \E p \in Plates, type \in VehicleTypes :
       /\ vehicle[p] # type
       /\ MayUpdate(HoldersOfVehicle(p))
       /\ vehicle' = [vehicle EXCEPT ![p] = type]
  /\ UNCHANGED <<db, status, records, route, worker, touched, astray>>

(* Deleting a vehicle takes its records, assignments and plans with it,    *)
(* and leaves its spot as it is.  Requests that know the row find it gone. *)
DeleteVehicle ==
  /\ ByHand
  /\ \E p \in Plates :
       /\ vehicle[p] # None
       /\ MayUpdate({v \in Workers :
                       /\ worker[v].plate = p
                       /\ \/ HoldsVehicle(v, p) \/ Committing(v)
                          \/ worker[v].record # 0})
       /\ vehicle' = [vehicle EXCEPT ![p] = None]
       /\ records' = [i \in DOMAIN records |->
                        IF records[i].plate = p THEN NoRecord ELSE records[i]]
       /\ route' = [route EXCEPT ![p] = 0]
       /\ worker' = [w \in Workers |->
                       IF worker[w].plate = p /\ worker[w].at # "begin"
                       THEN [worker[w] EXCEPT !.lost = TRUE] ELSE worker[w]]
       /\ touched' = touched \cup {records[i].spot : i \in ActiveOf(p)}
  /\ UNCHANGED <<db, status, astray>>

(* A spot with a record is protected; its plans go with it.                *)
DeleteSpot ==
  /\ ByHand
  /\ \E s \in Spots :
       /\ status[s] # "gone"
       /\ \A i \in DOMAIN records : records[i].spot # s
       /\ MayUpdate(HoldersOfSpot(s))
       /\ status' = [status EXCEPT ![s] = "gone"]
       /\ route' = [p \in Plates |-> IF route[p] = s THEN 0 ELSE route[p]]
  /\ UNCHANGED <<db, vehicle, records, worker, touched, astray>>

-----------------------------------------------------------------------------
Entry(w) == \/ EntryAsked(w) \/ EntryVehicle(w) \/ EntryType(w)
            \/ EntryCheck(w) \/ EntrySpot(w) \/ EntryOccupy(w)
            \/ EntryCommit(w)
Exit(w) == \/ ExitAsked(w) \/ ExitVehicle(w) \/ ExitRecord(w)
           \/ ExitVacate(w) \/ ExitCommit(w)
Route(w) == RouteAsked(w) \/ RoutePlan(w) \/ RouteTarget(w) \/ RouteStore(w)
Operator == SetStatus \/ SaveVehicle \/ DeleteVehicle \/ DeleteSpot

Next == (\E w \in Workers : Entry(w) \/ Exit(w) \/ Route(w)) \/ Operator

Spec == Init /\ [][Next]_vars

-----------------------------------------------------------------------------
TypeOK ==
  /\ db \in Databases
  /\ vehicle \in [Plates -> VehicleTypes \cup {None}]
  /\ status \in [Spots -> Statuses \cup {"gone"}]
  /\ records \in Seq([plate : Plates \cup {None}, spot : 0..NumSpots,
                      active : BOOLEAN,
                      assignment : {None, "occupied", "completed"}])
  /\ Len(records) <= MaxRecords
  /\ route \in [Plates -> 0..NumSpots]
  /\ \A w \in Workers :
       /\ worker[w].spot \in 0..NumSpots /\ worker[w].record \in 0..MaxRecords
       /\ worker[w].at = "commit" => status[worker[w].spot] # "gone"
  /\ touched \subseteq Spots /\ astray \subseteq Plates

(* On SQLite a plate has one visit at a time, however its requests         *)
(* interleave (tests: a duplicate entry is rejected).                      *)
OneVisit == db = "sqlite" => \A p \in Plates : Cardinality(ActiveOf(p)) <= 1

(* On SQLite a spot nobody set by hand is occupied exactly when one car is *)
(* in it: no double booking, and no spot that stays taken after an exit.   *)
SpotMatches ==
  db = "sqlite" =>
    \A s \in Spots \ touched :
      Cardinality(ActiveOn(s)) = IF status[s] = "occupied" THEN 1 ELSE 0

(* An assignment ends with its visit, and on SQLite with no other: also    *)
(* when an operator's hand has brought two cars to one spot.               *)
AssignmentsFollow ==
  \A i \in DOMAIN records :
    /\ records[i].assignment = "occupied" => records[i].active
    /\ db = "sqlite" /\ records[i].active => records[i].assignment = "occupied"

(* The visits, the spots and the assignments tell one story.               *)
VisitsMatch == OneVisit /\ SpotMatches /\ AssignmentsFollow

(* The route a car inside is given leads to a spot of its own, unless      *)
(* somebody asked for another or asked while it was coming in.             *)
RouteIsOwn ==
  \A p \in Plates \ astray :
    ActiveOf(p) # {} => route[p] \in {records[i].spot : i \in ActiveOf(p)}

=============================================================================
