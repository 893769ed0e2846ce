----------------------------- MODULE ParkingProofs -----------------------------
(***************************************************************************)
(* Proofs about the two programs that hand out parking spots.              *)
(*                                                                         *)
(* The parking service on both databases, for any number of workers,       *)
(* plates, spots and records: on SQLite visits, spots and assignments tell *)
(* one story, and on both a car's route leads to a spot of its own.        *)
(*                                                                         *)
(* The allocation environment, for any lot and any travel time, margin,    *)
(* wait, arrival times and stays: the shield keeps cars apart, the books   *)
(* match the lot, and while waiting outlasts the longest way in the mask   *)
(* always offers an action.                                                *)
(***************************************************************************)
EXTENDS ParkingService, ParkingEnv, SequenceTheorems, FiniteSetTheorems,
        WellFoundedInduction, TLAPS

-----------------------------------------------------------------------------
(* The inductive invariant of the parking service.                         *)

Record == [plate : Plates \cup {None}, spot : 0..NumSpots, active : BOOLEAN,
           assignment : {None, "occupied", "completed"}]

(* What a worker may carry at each statement of its request.               *)
EntryRequest ==
  [op : {"entry"}, at : {"begin", "type", "active", "spot"}, plate : Plates,
   type : VehicleTypes, saved : BOOLEAN, lost : BOOLEAN, spot : {0}, record : {0}]
EntryChosen ==
  [op : {"entry"}, at : {"occupy", "commit"}, plate : Plates,
   type : VehicleTypes, saved : BOOLEAN, lost : BOOLEAN, spot : Spots, record : {0}]
ExitRequest ==
  [op : {"exit"}, at : {"begin", "record"}, plate : Plates, type : {None},
   saved : {FALSE}, lost : BOOLEAN, spot : {0}, record : {0}]
ExitChosen ==
  [op : {"exit"}, at : {"vacate", "commit"}, plate : Plates, type : {None},
   saved : {FALSE}, lost : {FALSE}, spot : Spots, record : DOMAIN records]
RouteRequest ==
  [op : {"route"}, at : {"plan", "target", "store"}, plate : Plates,
   type : {None}, saved : {FALSE}, lost : BOOLEAN, spot : 0..NumSpots,
   record : {0}]
Requests == {Idle} \cup EntryRequest \cup EntryChosen \cup ExitRequest
              \cup ExitChosen \cup RouteRequest

ServiceTyped ==
  /\ db \in Databases
  /\ vehicle \in [Plates -> VehicleTypes \cup {None}]
  /\ status \in [Spots -> Statuses \cup {"gone"}]
  /\ records \in Seq(Record)
  /\ route \in [Plates -> 0..NumSpots]
  /\ worker \in [Workers -> Requests]
  /\ touched \subseteq Spots /\ astray \subseteq Plates

(* Every entry under way has room for its record.                          *)
Entering == {w \in Workers : worker[w].op = "entry"}
RoomKept == Len(records) + Cardinality(Entering) <= MaxRecords

(* The spot of a record is there, and so is the spot a worker is about to  *)
(* commit.  Only a car that is inside has an occupied assignment.          *)
RecordsWhole ==
  \A i \in DOMAIN records :
    /\ records[i].active => records[i].plate \in Plates /\ records[i].spot \in Spots
    /\ records[i].spot # 0 => status[records[i].spot] # "gone"
    /\ records[i].assignment = "occupied" => records[i].active
SpotsStay ==
  \A w \in Workers : worker[w].at = "commit" => status[worker[w].spot] # "gone"

(* An exit has the record of a car that is inside to itself, and what came *)
(* in since has a later key.                                               *)
ExitHolds(w) ==
  LET r == worker[w] IN
  r.op = "exit" /\ r.record # 0 =>
    /\ records[r.record].plate = r.plate /\ records[r.record].spot = r.spot
    /\ records[r.record].active
    /\ \A i \in ActiveOf(r.plate) : i >= r.record
    /\ \A v \in Workers \ {w} : worker[v].record # r.record
ExitsHold == \A w \in Workers : ExitHolds(w)

(* SQLite: what a transaction has read holds until it ends.                *)
ReadHolds(w) ==
  LET r == worker[w] IN
  db = "sqlite" /\ r.op = "entry" =>
    /\ ~r.lost
    /\ r.at \in {"spot", "occupy", "commit"} => ActiveOf(r.plate) = {}
    /\ r.at \in {"occupy", "commit"} => status[r.spot] = "vacant"
ReadsHold == \A w \in Workers : ReadHolds(w)

(* SQLite: one visit of a plate, one car in a spot nobody touched.         *)
VisitsApart ==
  db = "sqlite" =>
    /\ \A p \in Plates : \A i, j \in ActiveOf(p) : i = j
    /\ \A s \in Spots \ touched :
         IF status[s] = "occupied" THEN \E i \in DOMAIN records : ActiveOn(s) = {i}
         ELSE ActiveOn(s) = {}
    /\ \A i \in DOMAIN records :
         records[i].active => records[i].assignment = "occupied"

(* A request that computes a route for a known car knows its type; and the *)
(* route of a car inside is that of its last visit, with no request about  *)
(* to store another.                                                       *)
RouteKnows ==
  \A w \in Workers : worker[w].op = "route" /\ ~worker[w].lost =>
                       vehicle[worker[w].plate] \in VehicleTypes
LastVisit(p) == \E i \in ActiveOf(p) : /\ route[p] = records[i].spot
                                       /\ \A j \in ActiveOf(p) : j <= i
RoutesLead ==
  \A p \in Plates \ astray : ActiveOf(p) # {} =>
    /\ LastVisit(p)
    /\ \A w \in Workers : worker[w].op = "route" /\ worker[w].plate = p =>
                            worker[w].at = "plan"

ServiceInv ==
  /\ ServiceTyped /\ RoomKept /\ RecordsWhole /\ SpotsStay /\ ExitsHold
  /\ ReadsHold /\ VisitsApart /\ RouteKnows /\ RoutesLead

-----------------------------------------------------------------------------
LEMMA Bounds ==
  /\ NumSpots \in Nat /\ MaxRecords \in Nat /\ IsFiniteSet(Workers)
  /\ Spots = (0..NumSpots) \ {0} /\ Spots \subseteq Nat
  /\ \A type \in VehicleTypes :
       Preferences[type] \in Seq({SpotTypes[s] : s \in Spots})
<1>1. NumSpots \in Nat /\ MaxRecords \in Nat /\ IsFiniteSet(Workers)
  BY ServiceAssumption
<1>2. QED
  BY <1>1, ServiceAssumption DEF Spots

(* The recommendation.                                                     *)

LEMMA Least ==
  ASSUME NEW T \in SUBSET Nat, T # {}
  PROVE  \E x \in T : \A y \in T : x <= y
<1>1. PICK x \in T : \A y \in T : <<y, x>> \notin OpToRel(<, Nat)
  BY NatLessThanWellFounded, WFMin
<1>2. \A y \in T : ~(y < x)
  BY <1>1 DEF OpToRel
<1>3. QED
  BY <1>2

LEMMA RankTyped ==
  ASSUME NEW type \in VehicleTypes, NEW s \in Spots
  PROVE  Rank(type, s) \in Nat
<1> DEFINE wanted == Preferences[type]
           places == {i \in DOMAIN wanted : wanted[i] = SpotTypes[s]}
<1>1. Len(wanted) \in Nat /\ DOMAIN wanted \subseteq Nat
  BY Bounds, LenProperties
<1>2. places # {} => (CHOOSE i \in places : TRUE) \in places
  OBVIOUS
<1>3. QED
  BY <1>1, <1>2 DEF Rank

(* recommend_spot takes one of the vacant spots.                           *)
LEMMA RecommendedVacant ==
  ASSUME NEW type \in VehicleTypes, Candidates # {}
  PROVE  /\ Recommended(type) \in Spots
         /\ status[Recommended(type)] = "vacant"
<1> DEFINE R == {Rank(type, s) : s \in Candidates}
<1>1. Candidates \subseteq Spots /\ Candidates \subseteq Nat
  BY Bounds DEF Candidates
<1>2. R \in SUBSET Nat /\ R # {}
  BY <1>1, RankTyped
<1>3. PICK r \in R : \A q \in R : r <= q
  BY <1>2, Least
<1> DEFINE B == {s \in Candidates : Rank(type, s) = r}
<1>4. B \in SUBSET Nat /\ B # {}
  BY <1>1
<1>5. PICK b \in B : \A c \in B : b <= c
  BY <1>4, Least
<1>6. \A t \in Candidates : Better(type, b, t)
  <2> TAKE t \in Candidates
  <2>1. Rank(type, b) = r /\ r <= Rank(type, t) /\ r \in Nat
        /\ Rank(type, t) \in Nat
    BY <1>1, <1>2, <1>3, RankTyped
  <2>2. Rank(type, t) = r => b <= t
    BY <1>5
  <2>3. QED
    BY <2>1, <2>2 DEF Better
<1>7. Recommended(type) \in Candidates
  BY <1>5, <1>6 DEF Recommended
<1>8. QED
  BY <1>7 DEF Candidates

-----------------------------------------------------------------------------
(* What a write does to the records.                                       *)

LEMMA RecordsAre ==
  ASSUME ServiceTyped
  PROVE  /\ Len(records) \in Nat /\ DOMAIN records = 1..Len(records)
         /\ \A i \in DOMAIN records : records[i] \in Record
BY LenProperties, ElementOfSeq DEF ServiceTyped

LEMMA SameLength ==
  ASSUME NEW m \in Nat, NEW n \in Nat, 1..m = 1..n
  PROVE  m = n
<1>1. (m # 0 => m \in 1..n) /\ (n # 0 => n \in 1..m)
  OBVIOUS
<1>2. QED
  BY <1>1

LEMMA FiniteVisits ==
  ASSUME ServiceTyped, NEW p
  PROVE  IsFiniteSet(ActiveOf(p))
<1>1. IsFiniteSet(1..Len(records))
  BY RecordsAre, FS_Interval
<1>2. ActiveOf(p) \subseteq 1..Len(records)
  BY RecordsAre DEF ActiveOf
<1>3. QED
  BY <1>1, <1>2, FS_Subset

(* An entry adds a visit of its plate in its spot.                         *)
LEMMA Appended ==
  ASSUME ServiceTyped, NEW p \in Plates, NEW s \in Spots,
         records' = Append(records, [plate |-> p, spot |-> s, active |-> TRUE,
                                     assignment |-> "occupied"])
  PROVE  /\ records' \in Seq(Record)' /\ Len(records)' = Len(records) + 1
         /\ DOMAIN records' = DOMAIN records \cup {Len(records) + 1}
         /\ \A i \in DOMAIN records : records'[i] = records[i]
         /\ records'[Len(records) + 1] = [plate |-> p, spot |-> s, active |-> TRUE,
                                          assignment |-> "occupied"]
         /\ \A q : ActiveOf(q)' = IF q = p THEN ActiveOf(q) \cup {Len(records) + 1}
                                  ELSE ActiveOf(q)
         /\ \A t : ActiveOn(t)' = IF t = s THEN ActiveOn(t) \cup {Len(records) + 1}
                                  ELSE ActiveOn(t)
<1> DEFINE x == [plate |-> p, spot |-> s, active |-> TRUE, assignment |-> "occupied"]
<1>1. x \in Record /\ records \in Seq(Record) /\ Record' = Record
  BY Bounds DEF Record, ServiceTyped
<1>2. /\ records' \in Seq(Record)' /\ Len(records)' = Len(records) + 1
      /\ \A i \in 1..Len(records) : records'[i] = records[i]
      /\ records'[Len(records) + 1] = x
  BY <1>1, AppendProperties
<1>3. Len(records) \in Nat /\ DOMAIN records = 1..Len(records)
  BY RecordsAre
<1>4. DOMAIN records' = 1..(Len(records) + 1)
  BY <1>1, <1>2, LenProperties
<1>5. DOMAIN records' = DOMAIN records \cup {Len(records) + 1}
  BY <1>3, <1>4
<1> HIDE DEF x
<1>6. x.plate = p /\ x.spot = s /\ x.active
  BY DEF x
<1>7. \A q : ActiveOf(q)' = IF q = p THEN ActiveOf(q) \cup {Len(records) + 1}
                            ELSE ActiveOf(q)
  BY <1>2, <1>3, <1>5, <1>6 DEF ActiveOf
<1>8. \A t : ActiveOn(t)' = IF t = s THEN ActiveOn(t) \cup {Len(records) + 1}
                            ELSE ActiveOn(t)
  BY <1>2, <1>3, <1>5, <1>6 DEF ActiveOn
<1>9. QED
  BY <1>2, <1>3, <1>5, <1>7, <1>8 DEF x

(* An exit ends the visit it holds, and completes assignments only.        *)
LEMMA Exited ==
  ASSUME ServiceTyped, NEW r, NEW k \in DOMAIN records,
         records' = [i \in DOMAIN records |->
                       [records[i] EXCEPT
                          !.active = @ /\ i # k,
                          !.assignment = IF Completes(records[i], r)
                                         THEN "completed" ELSE @]]
  PROVE  /\ records' \in Seq(Record)' /\ Len(records)' = Len(records)
         /\ DOMAIN records' = DOMAIN records
         /\ \A i \in DOMAIN records :
              /\ records'[i].plate = records[i].plate
              /\ records'[i].spot = records[i].spot
              /\ records'[i].active <=> records[i].active /\ i # k
              /\ records'[i].assignment = IF Completes(records[i], r)
                                          THEN "completed" ELSE records[i].assignment
         /\ \A q : ActiveOf(q)' = ActiveOf(q) \ {k}
         /\ \A t : ActiveOn(t)' = ActiveOn(t) \ {k}
<1>1. Len(records) \in Nat /\ DOMAIN records = 1..Len(records)
  BY RecordsAre
<1>2. \A i \in DOMAIN records :
         /\ records'[i] \in Record
         /\ records'[i].plate = records[i].plate
         /\ records'[i].spot = records[i].spot
         /\ records'[i].active <=> records[i].active /\ i # k
         /\ records'[i].assignment = IF Completes(records[i], r)
                                     THEN "completed" ELSE records[i].assignment
  <2> TAKE i \in DOMAIN records
  <2>1. records[i] \in Record
    BY RecordsAre
  <2>2. records'[i] = [records[i] EXCEPT
                         !.active = @ /\ i # k,
                         !.assignment = IF Completes(records[i], r)
                                        THEN "completed" ELSE @]
    OBVIOUS
  <2>3. (records[i].active /\ i # k) \in BOOLEAN
    OBVIOUS
  <2>4. QED
    BY <2>1, <2>2, <2>3 DEF Record
<1>3. DOMAIN records' = DOMAIN records
  OBVIOUS
<1>4. records' \in [1..Len(records) -> Record]
  BY <1>1, <1>2
<1>5. records' \in Seq(Record)
  BY <1>1, <1>4, SeqDef
<1>6. Len(records)' = Len(records)
  <2>1. Len(records)' \in Nat /\ 1..Len(records)' = 1..Len(records)
    BY <1>1, <1>3, <1>5, LenProperties
  <2>2. QED
    BY <1>1, <2>1, SameLength
<1>7. \A q : ActiveOf(q)' = ActiveOf(q) \ {k}
  BY <1>2, <1>3 DEF ActiveOf
<1>8. \A t : ActiveOn(t)' = ActiveOn(t) \ {k}
  BY <1>2, <1>3 DEF ActiveOn
<1>9. QED
  BY <1>2, <1>3, <1>5, <1>6, <1>7, <1>8 DEF Record

(* Deleting a vehicle ends all its visits.                                 *)
LEMMA Deleted ==
  ASSUME ServiceTyped, NEW p \in Plates,
         records' = [i \in DOMAIN records |->
                       IF records[i].plate = p THEN NoRecord ELSE records[i]]
  PROVE  /\ records' \in Seq(Record)' /\ Len(records)' = Len(records)
         /\ DOMAIN records' = DOMAIN records
         /\ \A i \in DOMAIN records :
              records'[i] = IF records[i].plate = p THEN NoRecord ELSE records[i]
         /\ \A q : ActiveOf(q)' = IF q = p THEN {} ELSE ActiveOf(q)
         /\ \A t : ActiveOn(t)' = ActiveOn(t) \ ActiveOf(p)
<1>1. Len(records) \in Nat /\ DOMAIN records = 1..Len(records)
  BY RecordsAre
<1>2. NoRecord \in Record /\ ~NoRecord.active
  BY Bounds DEF NoRecord, Record
<1>3. \A i \in DOMAIN records :
         records'[i] = IF records[i].plate = p THEN NoRecord ELSE records[i]
  OBVIOUS
<1>4. \A i \in DOMAIN records : records'[i] \in Record
  BY <1>2, <1>3, RecordsAre
<1>5. DOMAIN records' = DOMAIN records
  OBVIOUS
<1>6. records' \in [1..Len(records) -> Record]
  BY <1>1, <1>4
<1>7. records' \in Seq(Record)
  BY <1>1, <1>6, SeqDef
<1>8. Len(records)' = Len(records)
  BY <1>1, <1>5, <1>7, LenProperties
<1>9. \A q : ActiveOf(q)' = IF q = p THEN {} ELSE ActiveOf(q)
  BY <1>2, <1>3, <1>5 DEF ActiveOf, NoRecord
<1>10. \A t : ActiveOn(t)' = ActiveOn(t) \ ActiveOf(p)
  BY <1>2, <1>3, <1>5 DEF ActiveOn, ActiveOf
<1>11. QED
  BY <1>3, <1>5, <1>7, <1>8, <1>9, <1>10 DEF Record

-----------------------------------------------------------------------------
(* Statements that change nothing but their worker.                        *)

Untouched == UNCHANGED <<db, vehicle, status, records, route, touched>>

LEMMA RequestCases ==
  ASSUME NEW r \in Requests
  PROVE  /\ r.record # 0 => r \in ExitChosen
         /\ r.op = "entry" => r \in EntryRequest \cup EntryChosen
         /\ r.op = "exit" => r \in ExitRequest \cup ExitChosen
         /\ r.op = "route" => r \in RouteRequest
         /\ r.at = "commit" => r \in EntryChosen \cup ExitChosen
         /\ r.op = None => r = Idle
<1> USE DEF Idle, EntryRequest, EntryChosen, ExitRequest, ExitChosen,
            RouteRequest, None
<1>1. CASE r = Idle
  BY <1>1
<1>2. CASE r \in EntryRequest
  BY <1>2
<1>3. CASE r \in EntryChosen
  BY <1>3
<1>4. CASE r \in ExitRequest
  BY <1>4
<1>5. CASE r \in ExitChosen
  BY <1>5
<1>6. CASE r \in RouteRequest
  BY <1>6
<1>7. QED
  BY <1>1, <1>2, <1>3, <1>4, <1>5, <1>6 DEF Requests

LEMMA WorkerStep ==
  ASSUME ServiceInv, NEW w \in Workers, NEW x \in Requests,
         Untouched, worker' = [worker EXCEPT ![w] = x],
         astray \subseteq astray', astray' \subseteq Plates,
         RoomKept',
         x.at = "commit" => status[x.spot] # "gone",
         ExitHolds(w)', ReadHolds(w)',
         x.op = "route" =>
           /\ ~x.lost => vehicle[x.plate] \in VehicleTypes
           /\ x.at = "plan" \/ x.plate \in astray' \/ ActiveOf(x.plate) = {}
  PROVE  ServiceInv'
<1> USE DEF Untouched
<1>1. worker'[w] = x /\ \A v \in Workers \ {w} : worker'[v] = worker[v]
  BY DEF ServiceInv, ServiceTyped
<1>2. ServiceTyped'
  <2>1. Requests' = Requests /\ Record' = Record
    BY DEF Requests, Record, ExitChosen, EntryChosen, EntryRequest, ExitRequest,
           RouteRequest
  <2>2. worker' \in [Workers -> Requests']
    BY <2>1 DEF ServiceInv, ServiceTyped
  <2>3. QED
    BY <2>1, <2>2 DEF ServiceInv, ServiceTyped
<1>3. RecordsWhole'
  BY DEF ServiceInv, RecordsWhole
<1>4. SpotsStay'
  BY <1>1 DEF ServiceInv, SpotsStay
<1>5. \A q : ActiveOf(q)' = ActiveOf(q)
  BY DEF ActiveOf
<1>6. ExitsHold'
  <2> SUFFICES ASSUME NEW v \in Workers \ {w} PROVE ExitHolds(v)'
    BY DEF ExitsHold
  <2>1. ExitHolds(v) /\ worker'[v] = worker[v]
    BY <1>1 DEF ServiceInv, ExitsHold
  <2>2. worker[v].record # 0 => x.record # worker[v].record
    <3> SUFFICES ASSUME worker[v].record # 0, x.record = worker[v].record
                 PROVE  FALSE
      OBVIOUS
    <3>1. x \in ExitChosen
      BY RequestCases
    <3>2. x.op = "exit"
      BY <3>1 DEF ExitChosen
    <3>3. QED
      BY <1>1, <3>2 DEF ExitHolds
  <2>3. QED
    BY <1>1, <1>5, <2>1, <2>2 DEF ExitHolds
<1>7. ReadsHold'
  <2> SUFFICES ASSUME NEW v \in Workers \ {w} PROVE ReadHolds(v)'
    BY DEF ReadsHold
  <2>1. ReadHolds(v) /\ worker'[v] = worker[v]
    BY <1>1 DEF ServiceInv, ReadsHold
  <2>2. QED
    BY <1>5, <2>1 DEF ReadHolds
<1>8. VisitsApart'
  BY DEF ServiceInv, VisitsApart, ActiveOf, ActiveOn
<1>9. RouteKnows'
  BY <1>1 DEF ServiceInv, RouteKnows
<1>10. RoutesLead'
  <2> SUFFICES ASSUME NEW p \in Plates \ astray', ActiveOf(p) # {}
               PROVE  /\ LastVisit(p)
                      /\ \A v \in Workers : worker'[v].op = "route" /\ worker'[v].plate = p =>
                                              worker'[v].at = "plan"
    BY <1>5 DEF RoutesLead, LastVisit
  <2>1. /\ LastVisit(p)
        /\ \A v \in Workers : worker[v].op = "route" /\ worker[v].plate = p =>
                                worker[v].at = "plan"
    BY DEF ServiceInv, RoutesLead
  <2>2. QED
    BY <1>1, <2>1
<1>11. QED
  BY <1>2, <1>3, <1>4, <1>6, <1>7, <1>8, <1>9, <1>10 DEF ServiceInv

(* Who goes on with the request it serves needs no more room.              *)
LEMMA RoomStays ==
  ASSUME ServiceTyped, RoomKept, Entering' \subseteq Entering, UNCHANGED records
  PROVE  RoomKept'
<1>1. IsFiniteSet(Entering)
  BY Bounds, FS_Subset DEF Entering
<1>2. /\ Cardinality(Entering') <= Cardinality(Entering)
      /\ Cardinality(Entering') \in Nat /\ Cardinality(Entering) \in Nat
  BY <1>1, FS_Subset, FS_CardinalityType
<1>3. Len(records) \in Nat
  BY RecordsAre
<1>4. Cardinality(Entering)' = Cardinality(Entering')
  OBVIOUS
<1>5. QED
  BY <1>2, <1>3, <1>4, Bounds DEF RoomKept

LEMMA GoesRoom ==
  ASSUME ServiceTyped, RoomKept, NEW w \in Workers, NEW x,
         worker' = [worker EXCEPT ![w] = x], UNCHANGED records,
         x.op = "entry" => worker[w].op = "entry"
  PROVE  RoomKept'
<1>1. \A v \in Workers : worker'[v] = IF v = w THEN x ELSE worker[v]
  BY DEF ServiceTyped
<1>2. Entering' \subseteq Entering
  BY <1>1 DEF Entering
<1>3. QED
  BY <1>2, RoomStays

(* A request that ends without a write.                                    *)
LEMMA EndStep ==
  ASSUME ServiceInv, NEW w \in Workers, Untouched, UNCHANGED astray, Ends(w)
  PROVE  ServiceInv'
<1>1. Idle \in Requests /\ Idle.op = None /\ Idle.at = None
  BY DEF Requests, Idle
<1>2. worker' = [worker EXCEPT ![w] = Idle]
  BY DEF Ends
<1>3. worker'[w] = Idle
  BY <1>2 DEF ServiceInv, ServiceTyped
<1>4. RoomKept'
  BY <1>1, <1>2, GoesRoom DEF ServiceInv, Untouched, None
<1>5. ExitHolds(w)' /\ ReadHolds(w)'
  BY <1>1, <1>3 DEF ExitHolds, ReadHolds, None
<1>6. QED
  BY <1>1, <1>2, <1>4, <1>5, WorkerStep DEF ServiceInv, ServiceTyped, None

(* An entry that goes on, with what it has read on SQLite.                 *)
LEMMA EntryStep ==
  ASSUME ServiceInv, NEW w \in Workers, NEW x \in EntryRequest \cup EntryChosen,
         worker[w].op = "entry", Untouched, UNCHANGED astray, Goes(w, x),
         x.at = "commit" => status[x.spot] # "gone",
         db = "sqlite" =>
           /\ ~x.lost
           /\ x.at \in {"spot", "occupy", "commit"} => ActiveOf(x.plate) = {}
           /\ x.at \in {"occupy", "commit"} => status[x.spot] = "vacant"
  PROVE  ServiceInv'
<1>1. x \in Requests /\ x.op = "entry"
  BY DEF Requests, EntryRequest, EntryChosen
<1>2. worker' = [worker EXCEPT ![w] = x]
  BY DEF Goes
<1>3. worker'[w] = x
  BY <1>2 DEF ServiceInv, ServiceTyped
<1>4. RoomKept'
  BY <1>2, GoesRoom DEF ServiceInv, Untouched
<1>5. ExitHolds(w)'
  BY <1>1, <1>3 DEF ExitHolds
<1>6. ReadHolds(w)'
  BY <1>3 DEF ReadHolds, ActiveOf, Untouched
<1>7. QED
  BY <1>1, <1>2, <1>4, <1>5, <1>6, WorkerStep DEF ServiceInv, ServiceTyped

LEMMA OnlyReads == Reads /\ Aside => Untouched /\ UNCHANGED astray
BY DEF Reads, Aside, rows, Untouched

LEMMA EntryKnows ==
  ASSUME ServiceInv, NEW w \in Workers, worker[w].op = "entry"
  PROVE  /\ worker[w] \in EntryRequest \cup EntryChosen
         /\ db = "sqlite" =>
              /\ ~worker[w].lost
              /\ worker[w].at \in {"spot", "occupy", "commit"} =>
                   ActiveOf(worker[w].plate) = {}
              /\ worker[w].at \in {"occupy", "commit"} =>
                   status[worker[w].spot] = "vacant"
<1>1. worker[w] \in Requests
  BY DEF ServiceInv, ServiceTyped
<1>2. worker[w] \in EntryRequest \cup EntryChosen
  BY <1>1, RequestCases
<1>3. QED
  BY <1>2 DEF ServiceInv, ReadsHold, ReadHolds

LEMMA EntryVehicleKept ==
  ASSUME ServiceInv, NEW w \in Workers, EntryVehicle(w)
  PROVE  ServiceInv'
<1>1. PICK r : r = worker[w]
  OBVIOUS
<1>2. Untouched /\ UNCHANGED astray
  BY OnlyReads DEF EntryVehicle
<1>3. r.op = "entry" /\ r.at = "begin"
  BY <1>1 DEF EntryVehicle
<1>4. r \in EntryRequest /\ (db = "sqlite" => ~r.lost)
  BY <1>1, <1>3, EntryKnows DEF EntryChosen
<1>5. CASE Ends(w)
  BY <1>2, <1>5, EndStep
<1>6. CASE Goes(w, [r EXCEPT !.at = "type"])
  <2>1. [r EXCEPT !.at = "type"] \in EntryRequest
    BY <1>4 DEF EntryRequest
  <2>2. QED
    BY <1>1, <1>2, <1>3, <1>4, <1>6, <2>1, EntryStep DEF EntryRequest
<1>7. CASE Goes(w, [r EXCEPT !.at = "active", !.saved = TRUE])
  <2>1. [r EXCEPT !.at = "active", !.saved = TRUE] \in EntryRequest
    BY <1>4 DEF EntryRequest
  <2>2. QED
    BY <1>1, <1>2, <1>3, <1>4, <1>7, <2>1, EntryStep DEF EntryRequest
<1>8. QED
  BY <1>1, <1>5, <1>6, <1>7 DEF EntryVehicle

LEMMA EntryTypeKept ==
  ASSUME ServiceInv, NEW w \in Workers, EntryType(w)
  PROVE  ServiceInv'
<1>1. PICK r : r = worker[w]
  OBVIOUS
<1>2. Untouched /\ UNCHANGED astray
  BY OnlyReads DEF EntryType
<1>3. r.op = "entry" /\ r.at = "type"
  BY <1>1 DEF EntryType
<1>4. r \in EntryRequest /\ (db = "sqlite" => ~r.lost)
  BY <1>1, <1>3, EntryKnows DEF EntryChosen
<1>5. CASE Ends(w)
  BY <1>2, <1>5, EndStep
<1>6. CASE Goes(w, [r EXCEPT !.at = "active"])
  <2>1. [r EXCEPT !.at = "active"] \in EntryRequest
    BY <1>4 DEF EntryRequest
  <2>2. QED
    BY <1>1, <1>2, <1>3, <1>4, <1>6, <2>1, EntryStep DEF EntryRequest
<1>7. CASE Goes(w, [r EXCEPT !.at = "active", !.saved = TRUE])
  <2>1. [r EXCEPT !.at = "active", !.saved = TRUE] \in EntryRequest
    BY <1>4 DEF EntryRequest
  <2>2. QED
    BY <1>1, <1>2, <1>3, <1>4, <1>7, <2>1, EntryStep DEF EntryRequest
<1>8. QED
  BY <1>1, <1>5, <1>6, <1>7 DEF EntryType

LEMMA EntryCheckKept ==
  ASSUME ServiceInv, NEW w \in Workers, EntryCheck(w)
  PROVE  ServiceInv'
<1>1. PICK r : r = worker[w]
  OBVIOUS
<1>2. Untouched /\ UNCHANGED astray
  BY OnlyReads DEF EntryCheck
<1>3. r.op = "entry" /\ r.at = "active"
  BY <1>1 DEF EntryCheck
<1>4. r \in EntryRequest /\ (db = "sqlite" => ~r.lost)
  BY <1>1, <1>3, EntryKnows DEF EntryChosen
<1>5. CASE AlreadyIn(r.plate) /\ ~r.lost
  BY <1>1, <1>2, <1>5, EndStep DEF EntryCheck
<1>6. CASE ~(AlreadyIn(r.plate) /\ ~r.lost)
  <2>1. Goes(w, [r EXCEPT !.at = "spot"])
    BY <1>1, <1>6 DEF EntryCheck
  <2>2. [r EXCEPT !.at = "spot"] \in EntryRequest
    BY <1>4 DEF EntryRequest
  <2>3. db = "sqlite" => ActiveOf(r.plate) = {}
    BY <1>4, <1>6 DEF AlreadyIn
  <2>4. QED
    BY <1>1, <1>2, <1>3, <1>4, <2>1, <2>2, <2>3, EntryStep DEF EntryRequest
<1>7. QED
  BY <1>5, <1>6

LEMMA EntrySpotKept ==
  ASSUME ServiceInv, NEW w \in Workers, EntrySpot(w)
  PROVE  ServiceInv'
<1>1. PICK r : r = worker[w]
  OBVIOUS
<1>2. Untouched /\ UNCHANGED astray
  BY OnlyReads DEF EntrySpot
<1>3. r.op = "entry" /\ r.at = "spot"
  BY <1>1 DEF EntrySpot
<1>4. r \in EntryRequest /\ (db = "sqlite" => ~r.lost /\ ActiveOf(r.plate) = {})
  BY <1>1, <1>3, EntryKnows DEF EntryChosen
<1>5. CASE Candidates = {} \/ Busy(w)
  BY <1>1, <1>2, <1>5, EndStep DEF EntrySpot
<1>6. CASE ~(Candidates = {} \/ Busy(w))
  <2>1. PICK s : s = Recommended(r.type)
    OBVIOUS
  <2>2. Goes(w, [r EXCEPT !.at = "occupy", !.spot = s])
    BY <1>1, <1>6, <2>1 DEF EntrySpot
  <2>3. s \in Spots /\ status[s] = "vacant"
    BY <1>4, <1>6, <2>1, RecommendedVacant DEF EntryRequest
  <2>4. [r EXCEPT !.at = "occupy", !.spot = s] \in EntryChosen
    BY <1>4, <2>3 DEF EntryRequest, EntryChosen
  <2>5. QED
    BY <1>1, <1>2, <1>3, <1>4, <2>2, <2>3, <2>4, EntryStep DEF EntryRequest
<1>7. QED
  BY <1>5, <1>6

LEMMA EntryOccupyKept ==
  ASSUME ServiceInv, NEW w \in Workers, EntryOccupy(w)
  PROVE  ServiceInv'
<1>1. PICK r : r = worker[w]
  OBVIOUS
<1>2. Untouched /\ UNCHANGED astray
  BY OnlyReads DEF EntryOccupy
<1>3. r.op = "entry" /\ r.at = "occupy"
  BY <1>1 DEF EntryOccupy
<1>4. /\ r \in EntryChosen
      /\ db = "sqlite" =>
           ~r.lost /\ ActiveOf(r.plate) = {} /\ status[r.spot] = "vacant"
  BY <1>1, <1>3, EntryKnows DEF EntryRequest
<1>5. CASE status[r.spot] = "gone"
  BY <1>1, <1>2, <1>5, EndStep DEF EntryOccupy
<1>6. CASE status[r.spot] # "gone"
  <2>1. Goes(w, [r EXCEPT !.at = "commit"])
    BY <1>1, <1>6 DEF EntryOccupy
  <2>2. [r EXCEPT !.at = "commit"] \in EntryChosen
    BY <1>4 DEF EntryChosen
  <2>3. QED
    BY <1>1, <1>2, <1>3, <1>4, <1>6, <2>1, <2>2, EntryStep DEF EntryChosen
<1>7. QED
  BY <1>5, <1>6

(* A worker takes a new request.                                           *)
LEMMA EntryAskedKept ==
  ASSUME ServiceInv, NEW w \in Workers, EntryAsked(w)
  PROVE  ServiceInv'
<1>1. PICK p \in Plates, type \in VehicleTypes : Request(w, "entry", p, type)
  BY DEF EntryAsked
<1>2. PICK x : x = [Idle EXCEPT !.op = "entry", !.at = "begin", !.plate = p,
                                !.type = type]
  OBVIOUS
<1>3. Untouched /\ UNCHANGED astray /\ worker[w] = Idle
  BY OnlyReads DEF EntryAsked
<1>4. worker' = [worker EXCEPT ![w] = x]
  BY <1>1, <1>2 DEF Request, Goes
<1>5. x \in EntryRequest /\ x.at = "begin" /\ ~x.lost /\ x.op = "entry"
  BY <1>2 DEF EntryRequest, Idle
<1>6. x \in Requests
  BY <1>5 DEF Requests
<1>7. \A v \in Workers : worker'[v] = IF v = w THEN x ELSE worker[v]
  BY <1>4 DEF ServiceInv, ServiceTyped
<1>8. RoomKept'
  <2>1. Entering' = Entering \cup {w} /\ w \notin Entering
    BY <1>3, <1>5, <1>7 DEF Entering, Idle, None
  <2>2. IsFiniteSet(Entering) /\ Cardinality(Entering) \in Nat
    BY Bounds, FS_Subset, FS_CardinalityType DEF Entering
  <2>3. Cardinality(Entering') = Cardinality(Entering) + 1
    BY <2>1, <2>2, FS_AddElement
  <2>4. Len(records) + Cardinality(Entering) < MaxRecords
    BY DEF EntryAsked, Room, Entering
  <2>5. Len(records) \in Nat /\ Len(records)' = Len(records)
    BY <1>3, RecordsAre DEF ServiceInv, Untouched
  <2>6. Cardinality(Entering)' = Cardinality(Entering')
    OBVIOUS
  <2>7. QED
    BY <2>2, <2>3, <2>4, <2>5, <2>6, Bounds DEF RoomKept
<1>9. ExitHolds(w)' /\ ReadHolds(w)'
  BY <1>5, <1>7 DEF ExitHolds, ReadHolds
<1>10. QED
  BY <1>3, <1>4, <1>5, <1>6, <1>8, <1>9, WorkerStep DEF ServiceInv, ServiceTyped

-----------------------------------------------------------------------------
(* Exits and route requests until they write.                              *)

LEMMA OtherStep ==
  ASSUME ServiceInv, NEW w \in Workers, NEW x \in Requests, x.op # "entry",
         Untouched, worker' = [worker EXCEPT ![w] = x],
         astray \subseteq astray', astray' \subseteq Plates,
         x.at = "commit" => status[x.spot] # "gone",
         ExitHolds(w)',
         x.op = "route" =>
           /\ ~x.lost => vehicle[x.plate] \in VehicleTypes
           /\ x.at = "plan" \/ x.plate \in astray' \/ ActiveOf(x.plate) = {}
  PROVE  ServiceInv'
<1>1. worker'[w] = x
  BY DEF ServiceInv, ServiceTyped
<1>2. RoomKept'
  BY GoesRoom DEF ServiceInv, Untouched
<1>3. ReadHolds(w)'
  BY <1>1 DEF ReadHolds
<1>4. QED
  BY <1>2, <1>3, WorkerStep DEF ServiceInv, ServiceTyped

LEMMA RequestIs ==
  ASSUME ServiceInv, NEW w \in Workers
  PROVE  worker[w] \in Requests /\ ExitHolds(w)
BY DEF ServiceInv, ServiceTyped, ExitsHold

LEMMA ExitAskedKept ==
  ASSUME ServiceInv, NEW w \in Workers, ExitAsked(w)
  PROVE  ServiceInv'
<1>1. PICK p \in Plates : Request(w, "exit", p, None)
  BY DEF ExitAsked
<1>2. PICK x : x = [Idle EXCEPT !.op = "exit", !.at = "begin", !.plate = p,
                                !.type = None]
  OBVIOUS
<1>3. Untouched /\ UNCHANGED astray
  BY OnlyReads DEF ExitAsked
<1>4. worker' = [worker EXCEPT ![w] = x]
  BY <1>1, <1>2 DEF Request, Goes
<1>5. x \in ExitRequest /\ x.at = "begin" /\ x.op = "exit" /\ x.record = 0
  BY <1>2 DEF ExitRequest, Idle
<1>6. x \in Requests
  BY <1>5 DEF Requests
<1>7. ExitHolds(w)'
  BY <1>4, <1>5 DEF ExitHolds, ServiceInv, ServiceTyped
<1>8. QED
  BY <1>3, <1>4, <1>5, <1>6, <1>7, OtherStep DEF ServiceInv, ServiceTyped

LEMMA ExitVehicleKept ==
  ASSUME ServiceInv, NEW w \in Workers, ExitVehicle(w)
  PROVE  ServiceInv'
<1>1. PICK r : r = worker[w]
  OBVIOUS
<1>2. Untouched /\ UNCHANGED astray
  BY OnlyReads DEF ExitVehicle
<1>3. r \in ExitRequest
  BY <1>1, RequestIs, RequestCases DEF ExitVehicle, ExitChosen
<1>4. CASE Ends(w)
  BY <1>2, <1>4, EndStep
<1>5. CASE Goes(w, [r EXCEPT !.at = "record"])
  <2>1. PICK x : x = [r EXCEPT !.at = "record"]
    OBVIOUS
  <2>2. /\ x \in Requests /\ x.op = "exit" /\ x.at = "record" /\ x.record = 0
    BY <1>3, <2>1 DEF ExitRequest, Requests
  <2>3. worker' = [worker EXCEPT ![w] = x]
    BY <1>5, <2>1 DEF Goes
  <2>4. ExitHolds(w)'
    BY <2>2, <2>3 DEF ExitHolds, ServiceInv, ServiceTyped
  <2>5. QED
    BY <1>2, <2>2, <2>3, <2>4, OtherStep DEF ServiceInv, ServiceTyped
<1>6. QED
  BY <1>1, <1>4, <1>5 DEF ExitVehicle

(* The record an exit takes is the only visit of its plate, and no other   *)
(* exit has it.                                                            *)
LEMMA ExitRecordKept ==
  ASSUME ServiceInv, NEW w \in Workers, ExitRecord(w)
  PROVE  ServiceInv'
<1>1. PICK r : r = worker[w]
  OBVIOUS
<1>2. Untouched /\ UNCHANGED astray
  BY OnlyReads DEF ExitRecord
<1>3. r \in ExitRequest
  BY <1>1, RequestIs, RequestCases DEF ExitRecord, ExitChosen
<1> DEFINE mine == IF r.lost THEN {} ELSE ActiveOf(r.plate)
<1>4. CASE Cardinality(mine) # 1 \/ Busy(w)
  BY <1>1, <1>2, <1>4, EndStep DEF ExitRecord
<1>5. CASE ~(Cardinality(mine) # 1 \/ Busy(w))
  <2>1. PICK i \in mine : /\ MayWrite(w, HoldersOfRecord(i))
                          /\ Goes(w, [r EXCEPT !.at = "vacate", !.record = i,
                                               !.spot = records[i].spot])
    BY <1>1, <1>5 DEF ExitRecord
  <2>2. ~r.lost /\ ActiveOf(r.plate) = {i}
    <3>1. mine = ActiveOf(r.plate) /\ ~r.lost
      BY <2>1
    <3>2. IsFiniteSet(mine)
      BY <3>1, FiniteVisits DEF ServiceInv
    <3>3. PICK j : mine = {j}
      BY <1>5, <3>2, FS_Singleton
    <3>4. QED
      BY <2>1, <3>1, <3>3
  <2>3. PICK s : s = records[i].spot
    OBVIOUS
  <2>4. PICK x : x = [r EXCEPT !.at = "vacate", !.record = i, !.spot = s]
    OBVIOUS
  <2>5. worker' = [worker EXCEPT ![w] = x]
    BY <2>1, <2>3, <2>4 DEF Goes
  <2>6. /\ i \in DOMAIN records /\ records[i].plate = r.plate /\ records[i].active
        /\ s \in Spots
    BY <2>2, <2>3 DEF ActiveOf, ServiceInv, RecordsWhole
  <2>7. /\ x \in ExitChosen /\ x.op = "exit" /\ x.at = "vacate"
        /\ x.record = i /\ x.spot = s /\ x.plate = r.plate
    BY <1>3, <2>2, <2>4, <2>6 DEF ExitRequest, ExitChosen
  <2>8. x \in Requests
    BY <2>7 DEF Requests
  <2>9. i # 0
    BY <2>6, RecordsAre DEF ServiceInv
  <2>10. \A v \in Workers \ {w} : worker[v].record # i
    <3> SUFFICES ASSUME NEW v \in Workers \ {w}, worker[v].record = i PROVE FALSE
      OBVIOUS
    <3>1. worker[v] \in ExitChosen
      BY <2>9, RequestIs, RequestCases
    <3>2. worker[v].op = "exit" /\ worker[v].at # "begin" /\ worker[v].record # 0
      BY <2>9, <3>1 DEF ExitChosen
    <3>3. Wrote(v)
      BY <3>2 DEF Wrote, InTransaction
    <3>4. v \in HoldersOfRecord(i)
      BY <3>2 DEF HoldersOfRecord, HoldsRecord
    <3>5. QED
      BY <2>1, <3>3, <3>4 DEF MayWrite
  <2>11. i >= i
    BY <2>6, RecordsAre DEF ServiceInv
  <2>12. \A v \in Workers : worker'[v] = IF v = w THEN x ELSE worker[v]
    BY <2>5 DEF ServiceInv, ServiceTyped
  <2>13. ActiveOf(r.plate)' = ActiveOf(r.plate)
    BY <1>2 DEF ActiveOf, Untouched
  <2>14. ExitHolds(w)'
    BY <1>2, <2>2, <2>3, <2>6, <2>7, <2>10, <2>11, <2>12, <2>13
    DEF ExitHolds, Untouched
  <2>15. QED
    BY <1>2, <2>5, <2>7, <2>8, <2>14, OtherStep DEF ServiceInv, ServiceTyped
<1>6. QED
  BY <1>4, <1>5

LEMMA ExitVacateKept ==
  ASSUME ServiceInv, NEW w \in Workers, ExitVacate(w)
  PROVE  ServiceInv'
<1>1. PICK r : r = worker[w]
  OBVIOUS
<1>2. Untouched /\ UNCHANGED astray
  BY OnlyReads DEF ExitVacate
<1>3. r \in ExitChosen
  BY <1>1, RequestIs, RequestCases DEF ExitVacate, ExitRequest
<1>4. PICK x : x = [r EXCEPT !.at = "commit"]
  OBVIOUS
<1>5. /\ x \in ExitChosen /\ x.op = "exit" /\ x.record = r.record /\ x.spot = r.spot
      /\ x.plate = r.plate
  BY <1>3, <1>4 DEF ExitChosen
<1>6. x \in Requests
  BY <1>5 DEF Requests
<1>7. worker' = [worker EXCEPT ![w] = x]
  BY <1>1, <1>4 DEF ExitVacate, Goes
<1>8. \A v \in Workers : worker'[v] = IF v = w THEN x ELSE worker[v]
  BY <1>7 DEF ServiceInv, ServiceTyped
<1>9. r.op = "exit" /\ r.record # 0 /\ r.record \in DOMAIN records /\ r.spot \in Spots
  BY <1>3, RecordsAre DEF ServiceInv, ExitChosen
<1>10. ExitHolds(w)
  BY RequestIs
<1>11. ActiveOf(r.plate)' = ActiveOf(r.plate)
  BY <1>2 DEF ActiveOf, Untouched
<1>12. ExitHolds(w)'
  BY <1>1, <1>2, <1>5, <1>8, <1>9, <1>10, <1>11 DEF ExitHolds, Untouched
<1>13. status[x.spot] # "gone"
  <2>1. records[r.record].spot = r.spot
    BY <1>1, <1>9, <1>10 DEF ExitHolds
  <2>2. QED
    BY <1>5, <1>9, <2>1, Bounds DEF ServiceInv, RecordsWhole
<1>14. QED
  BY <1>2, <1>5, <1>6, <1>7, <1>12, <1>13, OtherStep DEF ServiceInv, ServiceTyped

LEMMA RouteAskedKept ==
  ASSUME ServiceInv, NEW w \in Workers, RouteAsked(w)
  PROVE  ServiceInv'
<1>1. PICK p \in Plates, s \in Spots \cup {0} :
        /\ vehicle[p] # None
        /\ worker' = [worker EXCEPT ![w] =
                        [Idle EXCEPT !.op = "route", !.plate = p, !.spot = s,
                           !.at = IF s = 0 THEN "plan" ELSE "store"]]
        /\ astray' = IF s # 0 THEN astray \cup {p} ELSE astray
  BY DEF RouteAsked
<1>2. PICK x : x = [Idle EXCEPT !.op = "route", !.plate = p, !.spot = s,
                           !.at = IF s = 0 THEN "plan" ELSE "store"]
  OBVIOUS
<1>3. Untouched
  BY DEF RouteAsked, Aside, rows, Untouched
<1>4. worker' = [worker EXCEPT ![w] = x]
  BY <1>1, <1>2
<1>5. /\ x \in RouteRequest /\ x.op = "route" /\ x.plate = p
      /\ x.at = (IF s = 0 THEN "plan" ELSE "store")
  <2>1. PICK at : at = IF s = 0 THEN "plan" ELSE "store"
    OBVIOUS
  <2>2. s \in 0..NumSpots /\ at \in {"plan", "store"}
    BY <2>1, Bounds
  <2>3. x = [op |-> "route", at |-> at, plate |-> p, type |-> None,
             saved |-> FALSE, lost |-> FALSE, spot |-> s, record |-> 0]
    BY <1>2, <2>1 DEF Idle
  <2>4. QED
    BY <2>1, <2>2, <2>3 DEF RouteRequest
<1>6. x \in Requests
  BY <1>5 DEF Requests
<1>7. ExitHolds(w)'
  BY <1>4, <1>5 DEF ExitHolds, ServiceInv, ServiceTyped
<1>8. vehicle[p] \in VehicleTypes
  BY <1>1 DEF ServiceInv, ServiceTyped
<1>9. x.at = "plan" \/ x.plate \in astray'
  BY <1>1, <1>5
<1>10. astray \subseteq astray' /\ astray' \subseteq Plates
  BY <1>1 DEF ServiceInv, ServiceTyped
<1>11. QED
  BY <1>3, <1>4, <1>5, <1>6, <1>7, <1>8, <1>9, <1>10, OtherStep

(* Only a car without a visit, or astray, is computed a route.             *)
LEMMA RouteStep ==
  ASSUME ServiceInv, NEW w \in Workers, NEW x \in RouteRequest,
         Untouched, UNCHANGED astray, Goes(w, x),
         ~x.lost => vehicle[x.plate] \in VehicleTypes,
         x.plate \in astray \/ ActiveOf(x.plate) = {}
  PROVE  ServiceInv'
<1>1. x \in Requests /\ x.op = "route" /\ x.at # "commit" /\ x.record = 0
  BY DEF Requests, RouteRequest
<1>2. worker' = [worker EXCEPT ![w] = x]
  BY DEF Goes
<1>3. ExitHolds(w)'
  BY <1>1, <1>2 DEF ExitHolds, ServiceInv, ServiceTyped
<1>4. QED
  BY <1>1, <1>2, <1>3, OtherStep DEF ServiceInv, ServiceTyped

LEMMA RoutePlanKept ==
  ASSUME ServiceInv, NEW w \in Workers, RoutePlan(w)
  PROVE  ServiceInv'
<1>1. PICK r : r = worker[w]
  OBVIOUS
<1>2. Untouched /\ UNCHANGED astray
  BY OnlyReads DEF RoutePlan
<1>3. r \in RouteRequest /\ r.op = "route"
  BY <1>1, RequestIs, RequestCases DEF RoutePlan
<1>4. CASE r.lost \/ route[r.plate] # 0
  BY <1>1, <1>2, <1>4, EndStep DEF RoutePlan
<1>5. CASE ~(r.lost \/ route[r.plate] # 0)
  <2>1. PICK x : x = [r EXCEPT !.at = "target"]
    OBVIOUS
  <2>2. Goes(w, x)
    BY <1>1, <1>5, <2>1 DEF RoutePlan
  <2>3. x \in RouteRequest /\ x.plate = r.plate /\ x.lost = r.lost
        /\ r.plate \in Plates
    BY <1>3, <2>1 DEF RouteRequest
  <2>4. r.plate \in astray \/ ActiveOf(r.plate) = {}
    <3> SUFFICES ASSUME r.plate \notin astray, ActiveOf(r.plate) # {} PROVE FALSE
      OBVIOUS
    <3>1. PICK i \in ActiveOf(r.plate) : route[r.plate] = records[i].spot
      BY <2>3 DEF ServiceInv, RoutesLead, LastVisit
    <3>2. records[i].spot \in Spots
      BY <3>1 DEF ActiveOf, ServiceInv, RecordsWhole
    <3>3. QED
      BY <1>5, <3>1, <3>2, Bounds
  <2>5. vehicle[r.plate] \in VehicleTypes
    BY <1>1, <1>3, <1>5 DEF ServiceInv, RouteKnows
  <2>6. QED
    BY <1>2, <2>2, <2>3, <2>4, <2>5, RouteStep
<1>6. QED
  BY <1>4, <1>5

LEMMA RouteTargetKept ==
  ASSUME ServiceInv, NEW w \in Workers, RouteTarget(w)
  PROVE  ServiceInv'
<1>1. PICK r : r = worker[w]
  OBVIOUS
<1>2. Untouched /\ UNCHANGED astray
  BY OnlyReads DEF RouteTarget
<1>3. r \in RouteRequest /\ r.op = "route" /\ r.at = "target" /\ r.plate \in Plates
  BY <1>1, RequestIs, RequestCases DEF RouteTarget, RouteRequest
<1>4. r.plate \in astray \/ ActiveOf(r.plate) = {}
  BY <1>1, <1>3 DEF ServiceInv, RoutesLead
<1>5. ~r.lost => vehicle[r.plate] \in VehicleTypes
  BY <1>1, <1>3 DEF ServiceInv, RouteKnows
<1>6. ASSUME NEW s \in 0..NumSpots, Goes(w, [r EXCEPT !.at = "store", !.spot = s])
      PROVE  ServiceInv'
  <2>1. PICK x : x = [r EXCEPT !.at = "store", !.spot = s]
    OBVIOUS
  <2>2. x \in RouteRequest /\ x.plate = r.plate /\ x.lost = r.lost
    BY <1>3, <2>1 DEF RouteRequest
  <2>3. QED
    BY <1>2, <1>4, <1>5, <1>6, <2>1, <2>2, RouteStep
<1> DEFINE mine == IF r.lost THEN {} ELSE ActiveOf(r.plate)
<1>7. CASE \E i \in mine : Goes(w, [r EXCEPT !.at = "store", !.spot = records[i].spot])
  <2>1. PICK i \in mine : Goes(w, [r EXCEPT !.at = "store", !.spot = records[i].spot])
    BY <1>7
  <2>2. i \in DOMAIN records
    BY <2>1 DEF ActiveOf
  <2>3. records[i].spot \in 0..NumSpots
    BY <2>2, RecordsAre DEF ServiceInv, Record
  <2>4. QED
    BY <1>6, <2>1, <2>3
<1>8. CASE /\ Candidates # {} /\ ~r.lost
           /\ Goes(w, [r EXCEPT !.at = "store", !.spot = Recommended(vehicle[r.plate])])
  <2>1. Recommended(vehicle[r.plate]) \in 0..NumSpots
    BY <1>5, <1>8, RecommendedVacant, Bounds
  <2>2. QED
    BY <1>6, <1>8, <2>1
<1>9. CASE Ends(w)
  BY <1>2, <1>9, EndStep
<1>10. QED
  BY <1>1, <1>7, <1>8, <1>9 DEF RouteTarget

-----------------------------------------------------------------------------
(* Commits.                                                                *)

(* SQLite commits when no other transaction is open.                       *)
LEMMA AloneOnSqlite ==
  ASSUME ServiceInv, db = "sqlite", NEW v \in Workers, ~InTransaction(v)
  PROVE  /\ worker[v].record = 0 /\ worker[v].at # "commit"
         /\ worker[v].op = "entry" => worker[v].at = "begin"
<1>1. worker[v] \in Requests
  BY RequestIs
<1>2. worker[v] \notin ExitChosen /\ worker[v] \notin EntryChosen
  BY DEF InTransaction, ExitChosen, EntryChosen
<1>3. QED
  BY <1>1, <1>2, RequestCases DEF InTransaction

LEMMA EntryCommitKept ==
  ASSUME ServiceInv, NEW w \in Workers, EntryCommit(w)
  PROVE  ServiceInv'
<1>1. PICK r : r = worker[w]
  OBVIOUS
<1>2. r.op = "entry" /\ r.at = "commit" /\ r \in EntryChosen
  BY <1>1, EntryKnows DEF EntryCommit, EntryRequest
<1>3. CASE r.lost
  <2>1. Ends(w) /\ Untouched /\ UNCHANGED astray
    BY <1>1, <1>3 DEF EntryCommit, Fails, Aside, rows, Untouched
  <2>2. QED
    BY <2>1, EndStep
<1>4. CASE ~r.lost
  <2>1. PICK p, s : p = r.plate /\ s = r.spot
    OBVIOUS
  <2>2. p \in Plates /\ s \in Spots /\ r.type \in VehicleTypes
    BY <1>2, <2>1 DEF EntryChosen
  <2>3. /\ vehicle' = [vehicle EXCEPT ![p] = IF r.saved THEN r.type ELSE @]
        /\ status' = [status EXCEPT ![s] = "occupied"]
        /\ records' = Append(records, [plate |-> p, spot |-> s, active |-> TRUE,
                                       assignment |-> "occupied"])
        /\ route' = [route EXCEPT ![p] = s]
        /\ astray' = IF \E v \in Workers : worker[v].op = "route" /\ worker[v].plate = p
                     THEN astray \cup {p} ELSE astray \ {p}
        /\ worker' = [worker EXCEPT ![w] = Idle]
        /\ db' = db /\ touched' = touched
    BY <1>1, <1>4, <2>1 DEF EntryCommit, Ends, Aside, Planned, Newest
  <2>4. PICK n : n = Len(records) + 1
    OBVIOUS
  <2>5. /\ records' \in Seq(Record)' /\ Len(records)' = n
        /\ DOMAIN records' = DOMAIN records \cup {n}
        /\ \A i \in DOMAIN records : records'[i] = records[i]
        /\ records'[n] = [plate |-> p, spot |-> s, active |-> TRUE,
                          assignment |-> "occupied"]
        /\ \A q : ActiveOf(q)' = IF q = p THEN ActiveOf(q) \cup {n} ELSE ActiveOf(q)
        /\ \A t : ActiveOn(t)' = IF t = s THEN ActiveOn(t) \cup {n} ELSE ActiveOn(t)
    BY <2>2, <2>3, <2>4, Appended DEF ServiceInv
  <2>6. /\ n \in Nat /\ Len(records) \in Nat /\ DOMAIN records = 1..(n - 1)
        /\ n \notin DOMAIN records /\ \A i \in DOMAIN records : i \in Nat /\ i <= n
    BY <2>4, RecordsAre DEF ServiceInv
  <2>7. /\ records'[n].plate = p /\ records'[n].spot = s /\ records'[n].active
        /\ records'[n].assignment = "occupied"
    BY <2>5
  <2>8. /\ worker'[w] = Idle /\ \A v \in Workers \ {w} : worker'[v] = worker[v]
        /\ Idle.op = None /\ Idle.at = None /\ Idle.record = 0
    BY <2>3 DEF ServiceInv, ServiceTyped, Idle
  <2>9. \A t \in Spots : status'[t] = IF t = s THEN "occupied" ELSE status[t]
    BY <2>2, <2>3 DEF ServiceInv, ServiceTyped
  <2>10. db = "sqlite" => \A v \in Workers \ {w} : ~InTransaction(v)
    BY DEF EntryCommit, MayCommit
  <2>11. /\ vehicle' \in [Plates -> VehicleTypes \cup {None}]
         /\ \A q \in Plates : vehicle[q] \in VehicleTypes => vehicle'[q] \in VehicleTypes
    BY <2>2, <2>3 DEF ServiceInv, ServiceTyped
  <2>12. route' \in [Plates -> 0..NumSpots]
    BY <2>2, <2>3, Bounds DEF ServiceInv, ServiceTyped
  <2>13. route'[p] = s /\ \A q \in Plates \ {p} : route'[q] = route[q]
    BY <2>2, <2>3 DEF ServiceInv, ServiceTyped
  <2>14. ServiceTyped'
    <3>1. Requests \subseteq Requests' /\ Idle \in Requests'
      BY <2>5 DEF Requests, ExitChosen, EntryChosen, EntryRequest, ExitRequest,
                  RouteRequest
    <3>2. worker' \in [Workers -> Requests']
      BY <2>3, <3>1 DEF ServiceInv, ServiceTyped
    <3>3. status' \in [Spots -> Statuses \cup {"gone"}]
      BY <2>3 DEF ServiceInv, ServiceTyped, Statuses
    <3>4. astray' \subseteq Plates
      BY <2>2, <2>3 DEF ServiceInv, ServiceTyped
    <3>5. QED
      BY <2>3, <2>5, <2>11, <2>12, <3>2, <3>3, <3>4 DEF ServiceInv, ServiceTyped
  <2>15. RoomKept'
    <3>1. Entering' = Entering \ {w} /\ w \in Entering
      BY <1>1, <1>2, <2>8 DEF Entering, None
    <3>2. IsFiniteSet(Entering) /\ Cardinality(Entering) \in Nat
      BY Bounds, FS_Subset, FS_CardinalityType DEF Entering
    <3>3. Cardinality(Entering') = Cardinality(Entering) - 1
      BY <3>1, <3>2, FS_RemoveElement
    <3>4. Cardinality(Entering)' = Cardinality(Entering')
      OBVIOUS
    <3>5. Len(records) + Cardinality(Entering) <= MaxRecords
      BY DEF ServiceInv, RoomKept
    <3>6. QED
      BY <2>4, <2>5, <2>6, <3>2, <3>3, <3>4, <3>5, Bounds DEF RoomKept
  <2>16. RecordsWhole'
    <3> SUFFICES ASSUME NEW i \in DOMAIN records'
                 PROVE  /\ records'[i].active =>
                             records'[i].plate \in Plates /\ records'[i].spot \in Spots
                        /\ records'[i].spot # 0 => status'[records'[i].spot] # "gone"
                        /\ records'[i].assignment = "occupied" => records'[i].active
      BY DEF RecordsWhole
    <3>1. CASE i = n
      BY <2>2, <2>7, <2>9, <3>1
    <3>2. CASE i \in DOMAIN records
      <4>1. records'[i] = records[i] /\ records[i] \in Record
        BY <2>5, <3>2, RecordsAre DEF ServiceInv
      <4>2. records[i].spot # 0 => records[i].spot \in Spots
        BY <4>1, Bounds DEF Record
      <4>3. QED
        BY <2>9, <3>2, <4>1, <4>2 DEF ServiceInv, RecordsWhole
    <3>3. QED
      BY <2>5, <3>1, <3>2
  <2>17. SpotsStay'
    <3> SUFFICES ASSUME NEW v \in Workers, worker'[v].at = "commit"
                 PROVE  status'[worker'[v].spot] # "gone"
      BY DEF SpotsStay
    <3>1. v # w /\ worker'[v] = worker[v]
      BY <2>8 DEF None
    <3>2. worker[v] \in EntryChosen \cup ExitChosen
      BY <3>1, RequestIs, RequestCases
    <3>3. worker[v].spot \in Spots
      BY <3>2 DEF EntryChosen, ExitChosen
    <3>4. QED
      BY <2>9, <3>1, <3>3 DEF ServiceInv, SpotsStay
  <2>18. ExitsHold'
    <3> SUFFICES ASSUME NEW v \in Workers, worker'[v].op = "exit", worker'[v].record # 0
                 PROVE  ExitHolds(v)'
      BY DEF ExitsHold, ExitHolds
    <3>1. v # w /\ worker'[v] = worker[v]
      BY <2>8
    <3>2. worker[v] \in ExitChosen /\ ExitHolds(v)
      BY <3>1, RequestIs, RequestCases
    <3>3. worker[v].record \in DOMAIN records
      BY <3>2 DEF ExitChosen
    <3>4. \A i \in ActiveOf(worker[v].plate)' : i >= worker[v].record
      BY <2>5, <2>6, <3>1, <3>2, <3>3 DEF ExitHolds
    <3>5. QED
      BY <2>5, <2>8, <3>1, <3>2, <3>3, <3>4 DEF ExitHolds
  <2>19. ReadsHold'
    <3> SUFFICES ASSUME NEW v \in Workers, db = "sqlite", worker'[v].op = "entry"
                 PROVE  ReadHolds(v)'
      BY <2>3 DEF ReadsHold, ReadHolds
    <3>1. v # w /\ worker'[v] = worker[v]
      BY <2>8 DEF None
    <3>2. worker[v].at = "begin" /\ ~worker[v].lost
      BY <2>10, <3>1, AloneOnSqlite, EntryKnows
    <3>3. QED
      BY <3>1, <3>2 DEF ReadHolds
  <2>20. VisitsApart'
    <3> SUFFICES ASSUME db = "sqlite" PROVE VisitsApart'
      BY <2>3 DEF VisitsApart
    <3>1. ActiveOf(p) = {} /\ status[s] = "vacant"
      BY <1>1, <1>2, <2>1, EntryKnows
    <3>2. \A q \in Plates : \A i, j \in ActiveOf(q)' : i = j
      BY <2>5, <3>1 DEF ServiceInv, VisitsApart
    <3>3. \A t \in Spots \ touched' :
            IF status'[t] = "occupied" THEN \E i \in DOMAIN records' : ActiveOn(t)' = {i}
            ELSE ActiveOn(t)' = {}
      <4> TAKE t \in Spots \ touched'
      <4>1. IF status[t] = "occupied" THEN \E i \in DOMAIN records : ActiveOn(t) = {i}
            ELSE ActiveOn(t) = {}
        BY <2>3 DEF ServiceInv, VisitsApart
      <4>2. CASE t = s
        BY <2>5, <2>9, <3>1, <4>1, <4>2
      <4>3. CASE t # s
        BY <2>5, <2>9, <4>1, <4>3
      <4>4. QED
        BY <4>2, <4>3
    <3>4. \A i \in DOMAIN records' :
            records'[i].active => records'[i].assignment = "occupied"
      BY <2>5, <2>7 DEF ServiceInv, VisitsApart
    <3>5. QED
      BY <3>2, <3>3, <3>4 DEF VisitsApart
  <2>21. RouteKnows'
    <3> SUFFICES ASSUME NEW v \in Workers, worker'[v].op = "route", ~worker'[v].lost
                 PROVE  vehicle'[worker'[v].plate] \in VehicleTypes
      BY DEF RouteKnows
    <3>1. v # w /\ worker'[v] = worker[v]
      BY <2>8 DEF None
    <3>2. worker[v] \in RouteRequest
      BY <3>1, RequestIs, RequestCases
    <3>3. worker[v].plate \in Plates
      BY <3>2 DEF RouteRequest
    <3>4. QED
      BY <2>11, <3>1, <3>3 DEF ServiceInv, RouteKnows
  <2>22. RoutesLead'
    <3> SUFFICES ASSUME NEW q \in Plates, q \notin astray', ActiveOf(q)' # {}
                 PROVE  /\ LastVisit(q)'
                        /\ \A v \in Workers : worker'[v].op = "route" /\ worker'[v].plate = q =>
                                                worker'[v].at = "plan"
      BY DEF RoutesLead
    <3>1. CASE q = p
      <4>1. ~ \E v \in Workers : worker[v].op = "route" /\ worker[v].plate = p
        BY <2>3, <3>1
      <4>2. n \in ActiveOf(p)' /\ \A j \in ActiveOf(p)' : j <= n
        BY <2>5, <2>6 DEF ActiveOf
      <4>3. LastVisit(p)'
        BY <2>7, <2>13, <4>2 DEF LastVisit
      <4>4. QED
        BY <2>8, <3>1, <4>1, <4>3 DEF None
    <3>2. CASE q # p
      <4>1. q \notin astray /\ ActiveOf(q)' = ActiveOf(q) /\ route'[q] = route[q]
        BY <2>3, <2>5, <2>13, <3>2
      <4>2. /\ LastVisit(q)
            /\ \A v \in Workers : worker[v].op = "route" /\ worker[v].plate = q =>
                                    worker[v].at = "plan"
        BY <4>1 DEF ServiceInv, RoutesLead
      <4>3. ActiveOf(q) \subseteq DOMAIN records
        BY DEF ActiveOf
      <4>4. LastVisit(q)'
        BY <2>5, <4>1, <4>2, <4>3 DEF LastVisit
      <4>5. QED
        BY <2>8, <4>2, <4>4 DEF None
    <3>3. QED
      BY <3>1, <3>2
  <2>23. QED
    BY <2>14, <2>15, <2>16, <2>17, <2>18, <2>19, <2>20, <2>21, <2>22 DEF ServiceInv
<1>5. QED
  BY <1>3, <1>4

LEMMA ExitCommitKept ==
  ASSUME ServiceInv, NEW w \in Workers, ExitCommit(w)
  PROVE  ServiceInv'
<1>1. PICK r : r = worker[w]
  OBVIOUS
<1>2. r.op = "exit" /\ r.at = "commit" /\ r \in ExitChosen
  BY <1>1, RequestIs, RequestCases DEF ExitCommit, ExitRequest
<1>3. PICK p, s, k : p = r.plate /\ s = r.spot /\ k = r.record
  OBVIOUS
<1>4. p \in Plates /\ s \in Spots /\ k \in DOMAIN records
  BY <1>2, <1>3 DEF ExitChosen
<1>5. k # 0 /\ k \in Nat /\ \A i \in DOMAIN records : i \in Nat
  BY <1>4, RecordsAre DEF ServiceInv
<1>6. /\ records[k].plate = p /\ records[k].spot = s /\ records[k].active
      /\ \A i \in ActiveOf(p) : i >= k
      /\ \A v \in Workers \ {w} : worker[v].record # k
  BY <1>1, <1>2, <1>3, <1>5, RequestIs DEF ExitHolds
<1>7. /\ status' = [status EXCEPT ![s] = "vacant"]
      /\ worker' = [worker EXCEPT ![w] = Idle]
      /\ UNCHANGED <<vehicle, route, astray, db, touched>>
  BY <1>1, <1>3 DEF ExitCommit, Ends, Aside, Freed
<1>8. /\ records' \in Seq(Record)' /\ Len(records)' = Len(records)
      /\ DOMAIN records' = DOMAIN records
      /\ \A i \in DOMAIN records :
           /\ records'[i].plate = records[i].plate
           /\ records'[i].spot = records[i].spot
           /\ records'[i].active <=> records[i].active /\ i # k
           /\ records'[i].assignment = IF Completes(records[i], r)
                                       THEN "completed" ELSE records[i].assignment
      /\ \A q : ActiveOf(q)' = ActiveOf(q) \ {k}
      /\ \A t : ActiveOn(t)' = ActiveOn(t) \ {k}
  <2>1. records' = [i \in DOMAIN records |->
                      [records[i] EXCEPT
                         !.active = @ /\ i # k,
                         !.assignment = IF Completes(records[i], r)
                                        THEN "completed" ELSE @]]
    BY <1>1, <1>3 DEF ExitCommit
  <2>2. QED
    BY <1>4, <2>1, Exited DEF ServiceInv
<1>9. /\ worker'[w] = Idle /\ \A v \in Workers \ {w} : worker'[v] = worker[v]
      /\ Idle.op = None /\ Idle.at = None /\ Idle.record = 0
  BY <1>7 DEF ServiceInv, ServiceTyped, Idle
<1>10. \A t \in Spots : status'[t] = IF t = s THEN "vacant" ELSE status[t]
  BY <1>4, <1>7 DEF ServiceInv, ServiceTyped
<1>11. db = "sqlite" => \A v \in Workers \ {w} : ~InTransaction(v)
  BY DEF ExitCommit, MayCommit
<1>12. ServiceTyped'
  <2>1. Requests' = Requests /\ Idle \in Requests
    BY <1>8 DEF Requests, ExitChosen, EntryChosen, EntryRequest, ExitRequest,
                RouteRequest
  <2>2. worker' \in [Workers -> Requests']
    BY <1>7, <2>1 DEF ServiceInv, ServiceTyped
  <2>3. status' \in [Spots -> Statuses \cup {"gone"}]
    BY <1>7 DEF ServiceInv, ServiceTyped, Statuses
  <2>4. QED
    BY <1>7, <1>8, <2>2, <2>3 DEF ServiceInv, ServiceTyped
<1>13. RoomKept'
  <2>1. Entering' \subseteq Entering
    BY <1>9 DEF Entering, None
  <2>2. IsFiniteSet(Entering)
    BY Bounds, FS_Subset DEF Entering
  <2>3. /\ Cardinality(Entering') <= Cardinality(Entering)
        /\ Cardinality(Entering') \in Nat /\ Cardinality(Entering) \in Nat
    BY <2>1, <2>2, FS_Subset, FS_CardinalityType
  <2>4. Cardinality(Entering)' = Cardinality(Entering')
    OBVIOUS
  <2>5. Len(records) \in Nat /\ Len(records) + Cardinality(Entering) <= MaxRecords
    BY RecordsAre DEF ServiceInv, RoomKept
  <2>6. QED
    BY <1>8, <2>3, <2>4, <2>5, Bounds DEF RoomKept
<1>14. RecordsWhole'
  <2> SUFFICES ASSUME NEW i \in DOMAIN records
               PROVE  /\ records'[i].active =>
                           records'[i].plate \in Plates /\ records'[i].spot \in Spots
                      /\ records'[i].spot # 0 => status'[records'[i].spot] # "gone"
                      /\ records'[i].assignment = "occupied" => records'[i].active
    BY <1>8 DEF RecordsWhole
  <2>1. /\ records[i].active => records[i].plate \in Plates /\ records[i].spot \in Spots
        /\ records[i].spot # 0 => status[records[i].spot] # "gone"
        /\ records[i].assignment = "occupied" => records[i].active
    BY DEF ServiceInv, RecordsWhole
  <2>2. records[i].spot # 0 => records[i].spot \in Spots
    BY RecordsAre, Bounds DEF ServiceInv, Record
  <2>3. records'[i].spot # 0 => status'[records'[i].spot] # "gone"
    BY <1>8, <1>10, <2>1, <2>2
  <2>4. records'[i].assignment = "occupied" => records'[i].active
    <3>1. CASE i = k /\ records[k].assignment = "occupied"
      <4>1. Completes(records[k], r)
        BY <1>3, <1>6, <3>1 DEF Completes
      <4>2. records'[k].assignment = "completed"
        BY <1>4, <1>8, <4>1
      <4>3. QED
        BY <3>1, <4>2
    <3>2. CASE ~(i = k /\ records[k].assignment = "occupied")
      BY <1>8, <2>1, <3>2
    <3>3. QED
      BY <3>1, <3>2
  <2>5. QED
    BY <1>8, <2>1, <2>3, <2>4
<1>15. SpotsStay'
  <2> SUFFICES ASSUME NEW v \in Workers, worker'[v].at = "commit"
               PROVE  status'[worker'[v].spot] # "gone"
    BY DEF SpotsStay
  <2>1. v # w /\ worker'[v] = worker[v]
    BY <1>9 DEF None
  <2>2. worker[v] \in EntryChosen \cup ExitChosen
    BY <2>1, RequestIs, RequestCases
  <2>3. worker[v].spot \in Spots
    BY <2>2 DEF EntryChosen, ExitChosen
  <2>4. QED
    BY <1>10, <2>1, <2>3 DEF ServiceInv, SpotsStay
<1>16. ExitsHold'
  <2> SUFFICES ASSUME NEW v \in Workers, worker'[v].op = "exit", worker'[v].record # 0
               PROVE  ExitHolds(v)'
    BY DEF ExitsHold, ExitHolds
  <2>1. v # w /\ worker'[v] = worker[v]
    BY <1>9
  <2>2. worker[v] \in ExitChosen /\ ExitHolds(v)
    BY <2>1, RequestIs, RequestCases
  <2>3. worker[v].record \in DOMAIN records /\ worker[v].record # k
    BY <1>6, <2>1, <2>2 DEF ExitChosen
  <2>4. QED
    BY <1>8, <1>9, <2>1, <2>2, <2>3 DEF ExitHolds
<1>17. ReadsHold'
  <2> SUFFICES ASSUME NEW v \in Workers, db = "sqlite", worker'[v].op = "entry"
               PROVE  ReadHolds(v)'
    BY <1>7 DEF ReadsHold, ReadHolds
  <2>1. v # w /\ worker'[v] = worker[v]
    BY <1>9 DEF None
  <2>2. worker[v].at = "begin" /\ ~worker[v].lost
    BY <1>11, <2>1, AloneOnSqlite, EntryKnows
  <2>3. QED
    BY <2>1, <2>2 DEF ReadHolds
<1>18. VisitsApart'
  <2> SUFFICES ASSUME db = "sqlite" PROVE VisitsApart'
    BY <1>7 DEF VisitsApart
  <2>1. /\ \A q \in Plates : \A i, j \in ActiveOf(q) : i = j
        /\ \A i \in DOMAIN records :
             records[i].active => records[i].assignment = "occupied"
    BY DEF ServiceInv, VisitsApart
  <2>2. \A q \in Plates : \A i, j \in ActiveOf(q)' : i = j
    BY <1>8, <2>1
  <2>3. \A t \in Spots \ touched' :
          IF status'[t] = "occupied" THEN \E i \in DOMAIN records' : ActiveOn(t)' = {i}
          ELSE ActiveOn(t)' = {}
    <3> TAKE t \in Spots \ touched'
    <3>1. IF status[t] = "occupied" THEN \E i \in DOMAIN records : ActiveOn(t) = {i}
          ELSE ActiveOn(t) = {}
      BY <1>7 DEF ServiceInv, VisitsApart
    <3>2. CASE t = s
      <4>1. k \in ActiveOn(s)
        BY <1>4, <1>6 DEF ActiveOn
      <4>2. ActiveOn(s) = {k}
        BY <3>1, <3>2, <4>1
      <4>3. QED
        BY <1>8, <1>10, <3>2, <4>2
    <3>3. CASE t # s
      <4>1. k \notin ActiveOn(t)
        BY <1>6, <3>3 DEF ActiveOn
      <4>2. ActiveOn(t)' = ActiveOn(t)
        BY <1>8, <4>1
      <4>3. QED
        BY <1>8, <1>10, <3>1, <3>3, <4>2
    <3>4. QED
      BY <3>2, <3>3
  <2>4. ASSUME NEW i \in DOMAIN records, records'[i].active
        PROVE  records'[i].assignment = "occupied"
    <3>1. records[i].active /\ i # k /\ records[i].assignment = "occupied"
      BY <1>8, <2>1, <2>4
    <3>2. records[i].plate # p
      <4> SUFFICES ASSUME records[i].plate = p PROVE FALSE
        OBVIOUS
      <4>1. i \in ActiveOf(p) /\ k \in ActiveOf(p)
        BY <1>4, <1>6, <3>1 DEF ActiveOf
      <4>2. QED
        BY <1>4, <2>1, <3>1, <4>1
    <3>3. ~Completes(records[i], r)
      BY <1>3, <3>2 DEF Completes
    <3>4. QED
      BY <1>8, <3>1, <3>3
  <2>5. QED
    BY <1>8, <2>2, <2>3, <2>4 DEF VisitsApart
<1>19. RouteKnows'
  BY <1>7, <1>9 DEF ServiceInv, RouteKnows, None
<1>20. RoutesLead'
  <2> SUFFICES ASSUME NEW q \in Plates, q \notin astray, ActiveOf(q)' # {}
               PROVE  /\ LastVisit(q)'
                      /\ \A v \in Workers : worker'[v].op = "route" /\ worker'[v].plate = q =>
                                              worker'[v].at = "plan"
    BY <1>7 DEF RoutesLead
  <2>1. ActiveOf(q) # {} /\ ActiveOf(q)' = ActiveOf(q) \ {k}
    BY <1>8
  <2>2. /\ LastVisit(q)
        /\ \A v \in Workers : worker[v].op = "route" /\ worker[v].plate = q =>
                                worker[v].at = "plan"
    BY <2>1 DEF ServiceInv, RoutesLead
  <2>3. PICK i \in ActiveOf(q) : /\ route[q] = records[i].spot
                                 /\ \A j \in ActiveOf(q) : j <= i
    BY <2>2 DEF LastVisit
  <2>4. i # k
    <3> SUFFICES ASSUME i = k PROVE FALSE
      OBVIOUS
    <3>1. q = p
      BY <1>6, <2>3 DEF ActiveOf
    <3>2. PICK j \in ActiveOf(q) : j # k
      BY <2>1
    <3>3. j \in DOMAIN records /\ j <= k /\ j >= k
      BY <1>6, <2>3, <3>1, <3>2 DEF ActiveOf
    <3>4. QED
      BY <1>5, <3>2, <3>3
  <2>5. i \in ActiveOf(q)' /\ i \in DOMAIN records /\ \A j \in ActiveOf(q)' : j <= i
    BY <2>1, <2>3, <2>4 DEF ActiveOf
  <2>6. records'[i].spot = records[i].spot /\ route'[q] = route[q]
    BY <1>7, <1>8, <2>5
  <2>7. LastVisit(q)'
    BY <2>3, <2>5, <2>6 DEF LastVisit
  <2>8. QED
    BY <1>9, <2>2, <2>7 DEF None
<1>21. QED
  BY <1>12, <1>13, <1>14, <1>15, <1>16, <1>17, <1>18, <1>19, <1>20 DEF ServiceInv

(* A computed route is stored for a car without a visit, or astray.        *)
LEMMA RouteStoreKept ==
  ASSUME ServiceInv, NEW w \in Workers, RouteStore(w)
  PROVE  ServiceInv'
<1>1. PICK r : r = worker[w]
  OBVIOUS
<1>2. r \in RouteRequest /\ r.op = "route" /\ r.at = "store" /\ r.plate \in Plates
      /\ r.spot \in 0..NumSpots
  BY <1>1, RequestIs, RequestCases DEF RouteStore, RouteRequest
<1>3. /\ worker' = [worker EXCEPT ![w] = Idle]
      /\ UNCHANGED <<vehicle, status, records, astray, db, touched>>
      /\ route' = route \/ route' = [route EXCEPT ![r.plate] = r.spot]
  BY <1>1 DEF RouteStore, Ends, Aside, Planned, Newest
<1>4. route' \in [Plates -> 0..NumSpots]
  BY <1>2, <1>3 DEF ServiceInv, ServiceTyped
<1>5. \A q \in Plates \ {r.plate} : route'[q] = route[q]
  BY <1>3 DEF ServiceInv, ServiceTyped
<1>6. r.plate \in astray \/ ActiveOf(r.plate) = {}
  BY <1>1, <1>2 DEF ServiceInv, RoutesLead
<1>7. /\ worker'[w] = Idle /\ \A v \in Workers \ {w} : worker'[v] = worker[v]
      /\ Idle.op = None /\ Idle.at = None /\ Idle.record = 0
  BY <1>3 DEF ServiceInv, ServiceTyped, Idle
<1>8. ServiceTyped'
  <2>1. Requests' = Requests /\ Record' = Record /\ Idle \in Requests
    BY <1>3 DEF Requests, ExitChosen, EntryChosen, EntryRequest, ExitRequest,
                RouteRequest, Record
  <2>2. worker' \in [Workers -> Requests']
    BY <1>3, <2>1 DEF ServiceInv, ServiceTyped
  <2>3. QED
    BY <1>3, <1>4, <2>1, <2>2 DEF ServiceInv, ServiceTyped
<1>9. RoomKept'
  BY <1>3, <1>7, GoesRoom DEF ServiceInv, None
<1>10. \A q : ActiveOf(q)' = ActiveOf(q)
  BY <1>3 DEF ActiveOf
<1>11. RecordsWhole' /\ VisitsApart'
  BY <1>3 DEF ServiceInv, RecordsWhole, VisitsApart, ActiveOf, ActiveOn
<1>12. SpotsStay' /\ RouteKnows'
  BY <1>3, <1>7 DEF ServiceInv, SpotsStay, RouteKnows, None
<1>13. ExitsHold'
  <2> SUFFICES ASSUME NEW v \in Workers, worker'[v].record # 0 PROVE ExitHolds(v)'
    BY DEF ExitsHold, ExitHolds
  <2>1. v # w /\ worker'[v] = worker[v] /\ ExitHolds(v)
    BY <1>7, RequestIs
  <2>2. QED
    BY <1>3, <1>7, <1>10, <2>1 DEF ExitHolds
<1>14. ReadsHold'
  <2> SUFFICES ASSUME NEW v \in Workers, worker'[v].op = "entry" PROVE ReadHolds(v)'
    BY DEF ReadsHold, ReadHolds
  <2>1. v # w /\ worker'[v] = worker[v] /\ ReadHolds(v)
    BY <1>7 DEF None, ServiceInv, ReadsHold
  <2>2. QED
    BY <1>3, <1>10, <2>1 DEF ReadHolds
<1>15. RoutesLead'
  <2> SUFFICES ASSUME NEW q \in Plates, q \notin astray, ActiveOf(q) # {}
               PROVE  /\ LastVisit(q)'
                      /\ \A v \in Workers : worker'[v].op = "route" /\ worker'[v].plate = q =>
                                              worker'[v].at = "plan"
    BY <1>3, <1>10 DEF RoutesLead
  <2>1. route'[q] = route[q]
    BY <1>5, <1>6
  <2>2. /\ LastVisit(q)
        /\ \A v \in Workers : worker[v].op = "route" /\ worker[v].plate = q =>
                                worker[v].at = "plan"
    BY DEF ServiceInv, RoutesLead
  <2>3. LastVisit(q)'
    BY <1>3, <1>10, <2>1, <2>2 DEF LastVisit
  <2>4. QED
    BY <1>7, <2>2, <2>3 DEF None
<1>16. QED
  BY <1>8, <1>9, <1>11, <1>12, <1>13, <1>14, <1>15 DEF ServiceInv

-----------------------------------------------------------------------------
(* Operators.                                                              *)

(* A statement outside a transaction meets no transaction on SQLite, and   *)
(* nobody who holds the row elsewhere.                                     *)
LEMMA UpdateAlone ==
  ASSUME ServiceInv, NEW holders, MayUpdate(holders), NEW v \in Workers
  PROVE  /\ db = "sqlite" => /\ worker[v].record = 0 /\ worker[v].at # "commit"
                             /\ worker[v].op = "entry" => worker[v].at = "begin"
         /\ db # "sqlite" => v \notin holders
<1>1. db = "sqlite" => ~InTransaction(v)
  BY DEF MayUpdate
<1>2. QED
  BY <1>1, AloneOnSqlite DEF MayUpdate

(* No statement of an operator disturbs the reads of an open transaction.  *)
LEMMA ReadsUndisturbed ==
  ASSUME ServiceInv, NEW holders, MayUpdate(holders), UNCHANGED <<db, worker>>
  PROVE  ReadsHold'
<1> SUFFICES ASSUME NEW v \in Workers, db = "sqlite", worker[v].op = "entry"
             PROVE  ReadHolds(v)'
  BY DEF ReadsHold, ReadHolds
<1>1. worker[v].at = "begin" /\ ~worker[v].lost
  BY UpdateAlone, EntryKnows
<1>2. QED
  BY <1>1 DEF ReadHolds

LEMMA SaveVehicleKept ==
  ASSUME ServiceInv, SaveVehicle
  PROVE  ServiceInv'
<1>1. PICK p \in Plates, type \in VehicleTypes :
        MayUpdate(HoldersOfVehicle(p)) /\ vehicle' = [vehicle EXCEPT ![p] = type]
  BY DEF SaveVehicle
<1>2. UNCHANGED <<db, status, records, route, worker, touched, astray>>
  BY DEF SaveVehicle
<1>3. ServiceTyped'
  <2>1. Requests' = Requests /\ Record' = Record
    BY <1>2 DEF Requests, ExitChosen, EntryChosen, EntryRequest, ExitRequest,
                RouteRequest, Record
  <2>2. QED
    BY <1>1, <1>2, <2>1 DEF ServiceInv, ServiceTyped
<1>4. RoomKept'
  BY <1>2, RoomStays DEF ServiceInv, Entering
<1>5. RecordsWhole' /\ VisitsApart' /\ SpotsStay' /\ ExitsHold'
  BY <1>2 DEF ServiceInv, RecordsWhole, VisitsApart, ActiveOf, ActiveOn,
              SpotsStay, ExitsHold, ExitHolds
<1>6. ReadsHold'
  BY <1>1, <1>2, ReadsUndisturbed
<1>7. RouteKnows'
  <2>1. \A q \in Plates : vehicle[q] \in VehicleTypes => vehicle'[q] \in VehicleTypes
    BY <1>1 DEF ServiceInv, ServiceTyped
  <2>2. \A v \in Workers : worker[v].op = "route" => worker[v].plate \in Plates
    BY RequestIs, RequestCases DEF RouteRequest
  <2>3. QED
    BY <1>2, <2>1, <2>2 DEF ServiceInv, RouteKnows
<1>8. RoutesLead'
  BY <1>2 DEF ServiceInv, RoutesLead, LastVisit, ActiveOf
<1>9. QED
  BY <1>3, <1>4, <1>5, <1>6, <1>7, <1>8 DEF ServiceInv

(* A spot set by hand is touched: nothing is said of it any more.          *)
LEMMA SetStatusKept ==
  ASSUME ServiceInv, SetStatus
  PROVE  ServiceInv'
<1>1. PICK s \in Spots, x \in Statuses :
        /\ status[s] # "gone" /\ MayUpdate(HoldersOfSpot(s))
        /\ status' = [status EXCEPT ![s] = x] /\ touched' = touched \cup {s}
  BY DEF SetStatus
<1>2. UNCHANGED <<db, vehicle, records, route, worker, astray>>
  BY DEF SetStatus
<1>3. /\ \A t \in Spots : status'[t] = IF t = s THEN x ELSE status[t]
      /\ x # "gone"
  BY <1>1 DEF ServiceInv, ServiceTyped, Statuses
<1>4. ServiceTyped'
  <2>1. Requests' = Requests /\ Record' = Record
    BY <1>2 DEF Requests, ExitChosen, EntryChosen, EntryRequest, ExitRequest,
                RouteRequest, Record
  <2>2. status' \in [Spots -> Statuses \cup {"gone"}] /\ touched' \subseteq Spots
    BY <1>1 DEF ServiceInv, ServiceTyped
  <2>3. QED
    BY <1>2, <2>1, <2>2 DEF ServiceInv, ServiceTyped
<1>5. RoomKept'
  BY <1>2, RoomStays DEF ServiceInv, Entering
<1>6. RecordsWhole'
  <2>1. \A i \in DOMAIN records : records[i].spot # 0 => records[i].spot \in Spots
    BY RecordsAre, Bounds DEF ServiceInv, Record
  <2>2. QED
    BY <1>2, <1>3, <2>1 DEF ServiceInv, RecordsWhole
<1>7. SpotsStay'
  <2>1. \A v \in Workers : worker[v].at = "commit" => worker[v].spot \in Spots
    BY RequestIs, RequestCases DEF EntryChosen, ExitChosen
  <2>2. QED
    BY <1>2, <1>3, <2>1 DEF ServiceInv, SpotsStay
<1>8. ExitsHold' /\ RouteKnows'
  BY <1>2 DEF ServiceInv, ExitsHold, ExitHolds, ActiveOf, RouteKnows
<1>9. ReadsHold'
  BY <1>1, <1>2, ReadsUndisturbed
<1>10. VisitsApart'
  <2> SUFFICES ASSUME db = "sqlite" PROVE VisitsApart'
    BY <1>2 DEF VisitsApart
  <2>1. /\ \A q : ActiveOf(q)' = ActiveOf(q)
        /\ \A t : ActiveOn(t)' = ActiveOn(t)
    BY <1>2 DEF ActiveOf, ActiveOn
  <2>2. \A t \in Spots \ touched' : status'[t] = status[t] /\ t \in Spots \ touched
    BY <1>1, <1>3
  <2>3. QED
    BY <1>2, <2>1, <2>2 DEF ServiceInv, VisitsApart
<1>11. RoutesLead'
  BY <1>2 DEF ServiceInv, RoutesLead, LastVisit, ActiveOf
<1>12. QED
  BY <1>4, <1>5, <1>6, <1>7, <1>8, <1>9, <1>10, <1>11 DEF ServiceInv

(* A spot without records can be deleted, if nobody is about to take it.   *)
LEMMA DeleteSpotKept ==
  ASSUME ServiceInv, DeleteSpot
  PROVE  ServiceInv'
<1>1. PICK s \in Spots :
        /\ \A i \in DOMAIN records : records[i].spot # s
        /\ MayUpdate(HoldersOfSpot(s))
        /\ status' = [status EXCEPT ![s] = "gone"]
        /\ route' = [p \in Plates |-> IF route[p] = s THEN 0 ELSE route[p]]
  BY DEF DeleteSpot
<1>2. UNCHANGED <<db, vehicle, records, worker, touched, astray>>
  BY DEF DeleteSpot
<1>3. \A t \in Spots : status'[t] = IF t = s THEN "gone" ELSE status[t]
  BY <1>1 DEF ServiceInv, ServiceTyped
<1>4. ServiceTyped'
  <2>1. Requests' = Requests /\ Record' = Record
    BY <1>2 DEF Requests, ExitChosen, EntryChosen, EntryRequest, ExitRequest,
                RouteRequest, Record
  <2>2. status' \in [Spots -> Statuses \cup {"gone"}]
    BY <1>1 DEF ServiceInv, ServiceTyped
  <2>3. route' \in [Plates -> 0..NumSpots]
    BY <1>1, Bounds DEF ServiceInv, ServiceTyped
  <2>4. QED
    BY <1>2, <2>1, <2>2, <2>3 DEF ServiceInv, ServiceTyped
<1>5. RoomKept'
  BY <1>2, RoomStays DEF ServiceInv, Entering
<1>6. RecordsWhole'
  <2>1. \A i \in DOMAIN records : records[i].spot # 0 => records[i].spot \in Spots
    BY RecordsAre, Bounds DEF ServiceInv, Record
  <2>2. QED
    BY <1>1, <1>2, <1>3, <2>1 DEF ServiceInv, RecordsWhole
<1>7. SpotsStay'
  <2> SUFFICES ASSUME NEW v \in Workers, worker[v].at = "commit"
               PROVE  status'[worker[v].spot] # "gone"
    BY <1>2 DEF SpotsStay
  <2>1. worker[v].spot \in Spots
    BY RequestIs, RequestCases DEF EntryChosen, ExitChosen
  <2>2. worker[v].spot # s
    BY <1>1, UpdateAlone DEF HoldersOfSpot, HoldsSpot
  <2>3. QED
    BY <1>3, <2>1, <2>2 DEF ServiceInv, SpotsStay
<1>8. ExitsHold' /\ RouteKnows'
  BY <1>2 DEF ServiceInv, ExitsHold, ExitHolds, ActiveOf, RouteKnows
<1>9. ReadsHold'
  BY <1>1, <1>2, ReadsUndisturbed
<1>10. VisitsApart'
  <2> SUFFICES ASSUME db = "sqlite" PROVE VisitsApart'
    BY <1>2 DEF VisitsApart
  <2>1. /\ \A q : ActiveOf(q)' = ActiveOf(q)
        /\ \A t : ActiveOn(t)' = ActiveOn(t)
    BY <1>2 DEF ActiveOf, ActiveOn
  <2>2. ActiveOn(s) = {} /\ "gone" # "occupied"
    BY <1>1 DEF ActiveOn
  <2>3. QED
    BY <1>2, <1>3, <2>1, <2>2 DEF ServiceInv, VisitsApart
<1>11. RoutesLead'
  <2> SUFFICES ASSUME NEW q \in Plates, q \notin astray, ActiveOf(q) # {}
               PROVE  /\ LastVisit(q)'
                      /\ \A v \in Workers : worker[v].op = "route" /\ worker[v].plate = q =>
                                              worker[v].at = "plan"
    BY <1>2 DEF RoutesLead, ActiveOf
  <2>1. PICK i \in ActiveOf(q) : /\ route[q] = records[i].spot
                                 /\ \A j \in ActiveOf(q) : j <= i
    BY DEF ServiceInv, RoutesLead, LastVisit
  <2>2. route'[q] = route[q]
    BY <1>1, <2>1 DEF ActiveOf
  <2>3. LastVisit(q)'
    BY <1>2, <2>1, <2>2 DEF LastVisit, ActiveOf
  <2>4. QED
    BY <2>3 DEF ServiceInv, RoutesLead
<1>12. QED
  BY <1>4, <1>5, <1>6, <1>7, <1>8, <1>9, <1>10, <1>11 DEF ServiceInv

(* Deleting a vehicle ends its visits; no exit holds one of them.          *)
LEMMA DeleteVehicleKept ==
  ASSUME ServiceInv, DeleteVehicle
  PROVE  ServiceInv'
<1>1. PICK p \in Plates :
        /\ MayUpdate({v \in Workers :
                        /\ worker[v].plate = p
                        /\ \/ HoldsVehicle(v, p) \/ Committing(v)
                           \/ worker[v].record # 0})
        /\ vehicle' = [vehicle EXCEPT ![p] = None]
        /\ records' = [i \in DOMAIN records |->
                         IF records[i].plate = p THEN NoRecord ELSE records[i]]
        /\ route' = [route EXCEPT ![p] = 0]
        /\ worker' = [w \in Workers |->
                        IF worker[w].plate = p /\ worker[w].at # "begin"
                        THEN [worker[w] EXCEPT !.lost = TRUE] ELSE worker[w]]
        /\ touched' = touched \cup {records[i].spot : i \in ActiveOf(p)}
  BY DEF DeleteVehicle
<1>2. UNCHANGED <<db, status, astray>>
  BY DEF DeleteVehicle
<1>3. /\ records' \in Seq(Record)' /\ Len(records)' = Len(records)
      /\ DOMAIN records' = DOMAIN records
      /\ \A i \in DOMAIN records :
           records'[i] = IF records[i].plate = p THEN NoRecord ELSE records[i]
      /\ \A q : ActiveOf(q)' = IF q = p THEN {} ELSE ActiveOf(q)
      /\ \A t : ActiveOn(t)' = ActiveOn(t) \ ActiveOf(p)
  BY <1>1, Deleted DEF ServiceInv
<1>4. \A v \in Workers : worker[v].plate = p => worker[v].record = 0
  BY <1>1, UpdateAlone
<1>5. \A v \in Workers : db = "sqlite" /\ worker[v].op = "entry" => worker[v].at = "begin"
  BY <1>1, UpdateAlone
<1>6. \A v \in Workers :
        /\ worker'[v].op = worker[v].op /\ worker'[v].at = worker[v].at
        /\ worker'[v].plate = worker[v].plate /\ worker'[v].spot = worker[v].spot
        /\ worker'[v].record = worker[v].record
        /\ worker[v].plate # p \/ worker[v].at = "begin" => worker'[v] = worker[v]
        /\ worker[v].plate = p /\ worker[v].at # "begin" => worker'[v].lost
        /\ worker'[v] \in Requests
  <2> TAKE v \in Workers
  <2>1. PICK r : r = worker[v]
    OBVIOUS
  <2>2. r \in Requests
    BY <2>1, RequestIs
  <2>3. CASE ~(r.plate = p /\ r.at # "begin")
    BY <1>1, <2>1, <2>2, <2>3
  <2>4. CASE r.plate = p /\ r.at # "begin"
    <3>1. PICK x : x = [r EXCEPT !.lost = TRUE]
      OBVIOUS
    <3>2. worker'[v] = x /\ r.record = 0
      BY <1>1, <1>4, <2>1, <2>4, <3>1
    <3>3. r # Idle
      BY <2>4, ServiceAssumption DEF Idle, None
    <3>4. r \notin ExitChosen
      <4>1. 0 \notin DOMAIN records
        BY RecordsAre DEF ServiceInv
      <4>2. QED
        BY <3>2, <4>1 DEF ExitChosen
    <3>5. r \in EntryRequest \cup EntryChosen \cup ExitRequest \cup RouteRequest
      BY <2>2, <3>3, <3>4 DEF Requests
    <3>6. /\ x.op = r.op /\ x.at = r.at /\ x.plate = r.plate /\ x.spot = r.spot
          /\ x.record = r.record /\ x.lost
          /\ x \in EntryRequest \cup EntryChosen \cup ExitRequest \cup RouteRequest
      BY <3>1, <3>5 DEF EntryRequest, EntryChosen, ExitRequest, RouteRequest
    <3>7. QED
      BY <2>1, <2>4, <3>2, <3>6 DEF Requests
  <2>5. QED
    BY <2>3, <2>4
<1>7. ServiceTyped'
  <2>1. Requests' = Requests
    BY <1>3 DEF Requests, ExitChosen, EntryChosen, EntryRequest, ExitRequest,
                RouteRequest
  <2>2. worker' \in [Workers -> Requests]
    BY <1>1, <1>6
  <2>3. touched' \subseteq Spots
    BY <1>1 DEF ActiveOf, ServiceInv, ServiceTyped, RecordsWhole
  <2>4. route' \in [Plates -> 0..NumSpots]
    BY <1>1, Bounds DEF ServiceInv, ServiceTyped
  <2>5. vehicle' \in [Plates -> VehicleTypes \cup {None}]
    BY <1>1 DEF ServiceInv, ServiceTyped
  <2>6. QED
    BY <1>2, <1>3, <2>1, <2>2, <2>3, <2>4, <2>5 DEF ServiceInv, ServiceTyped
<1>8. RoomKept'
  <2>1. Entering' = Entering
    BY <1>6 DEF Entering
  <2>2. Cardinality(Entering)' = Cardinality(Entering)
    BY <2>1
  <2>3. QED
    BY <1>3, <2>2 DEF ServiceInv, RoomKept
<1>9. /\ ~NoRecord.active /\ NoRecord.spot = 0 /\ NoRecord.assignment = None
  BY DEF NoRecord
<1>10. RecordsWhole'
  BY <1>2, <1>3, <1>9 DEF ServiceInv, RecordsWhole, None
<1>11. SpotsStay'
  BY <1>2, <1>6 DEF ServiceInv, SpotsStay
<1>12. ExitsHold'
  <2> SUFFICES ASSUME NEW v \in Workers, worker'[v].op = "exit", worker'[v].record # 0
               PROVE  ExitHolds(v)'
    BY DEF ExitsHold, ExitHolds
  <2>1. worker[v].op = "exit" /\ worker[v].record # 0
    BY <1>6
  <2>2. worker[v] \in ExitChosen /\ ExitHolds(v) /\ worker[v].plate # p
    BY <1>4, <2>1, RequestIs, RequestCases
  <2>3. worker[v].record \in DOMAIN records
    BY <2>2 DEF ExitChosen
  <2>4. records'[worker[v].record] = records[worker[v].record]
    BY <1>3, <2>1, <2>2, <2>3 DEF ExitHolds
  <2>5. QED
    BY <1>3, <1>6, <2>1, <2>2, <2>4 DEF ExitHolds
<1>13. ReadsHold'
  <2> SUFFICES ASSUME NEW v \in Workers, db = "sqlite", worker'[v].op = "entry"
               PROVE  ReadHolds(v)'
    BY <1>2 DEF ReadsHold, ReadHolds
  <2>1. worker[v].at = "begin" /\ worker'[v] = worker[v] /\ ~worker[v].lost
    BY <1>5, <1>6, EntryKnows
  <2>2. QED
    BY <2>1 DEF ReadHolds
<1>14. VisitsApart'
  <2> SUFFICES ASSUME db = "sqlite" PROVE VisitsApart'
    BY <1>2 DEF VisitsApart
  <2>1. \A q \in Plates : \A i, j \in ActiveOf(q)' : i = j
    BY <1>3 DEF ServiceInv, VisitsApart
  <2>2. \A i \in DOMAIN records' :
          records'[i].active => records'[i].assignment = "occupied"
    BY <1>3, <1>9 DEF ServiceInv, VisitsApart
  <2>3. \A t \in Spots \ touched' :
          IF status'[t] = "occupied" THEN \E i \in DOMAIN records' : ActiveOn(t)' = {i}
          ELSE ActiveOn(t)' = {}
    <3> TAKE t \in Spots \ touched'
    <3>1. t \in Spots \ touched /\ \A i \in ActiveOf(p) : records[i].spot # t
      BY <1>1
    <3>2. ActiveOn(t) \cap ActiveOf(p) = {}
      BY <3>1 DEF ActiveOn
    <3>3. ActiveOn(t)' = ActiveOn(t)
      BY <1>3, <3>2
    <3>4. QED
      BY <1>2, <1>3, <3>1, <3>3 DEF ServiceInv, VisitsApart
  <2>4. QED
    BY <2>1, <2>2, <2>3 DEF VisitsApart
<1>15. RouteKnows'
  <2> SUFFICES ASSUME NEW v \in Workers, worker'[v].op = "route", ~worker'[v].lost
               PROVE  vehicle'[worker'[v].plate] \in VehicleTypes
    BY DEF RouteKnows
  <2>1. worker[v] \in RouteRequest /\ worker[v].op = "route"
    BY <1>6, RequestIs, RequestCases
  <2>2. worker[v].at # "begin" /\ worker[v].plate \in Plates
    BY <2>1 DEF RouteRequest
  <2>3. worker[v].plate # p /\ worker'[v] = worker[v]
    BY <1>6, <2>2
  <2>4. vehicle'[worker[v].plate] = vehicle[worker[v].plate]
    BY <1>1, <2>2, <2>3 DEF ServiceInv, ServiceTyped
  <2>5. QED
    BY <2>1, <2>3, <2>4 DEF ServiceInv, RouteKnows
<1>16. RoutesLead'
  <2> SUFFICES ASSUME NEW q \in Plates, q \notin astray, ActiveOf(q)' # {}
               PROVE  /\ LastVisit(q)'
                      /\ \A v \in Workers : worker'[v].op = "route" /\ worker'[v].plate = q =>
                                              worker'[v].at = "plan"
    BY <1>2 DEF RoutesLead
  <2>1. q # p /\ ActiveOf(q)' = ActiveOf(q)
    BY <1>3
  <2>2. /\ LastVisit(q)
        /\ \A v \in Workers : worker[v].op = "route" /\ worker[v].plate = q =>
                                worker[v].at = "plan"
    BY <2>1 DEF ServiceInv, RoutesLead
  <2>3. route'[q] = route[q]
    BY <1>1, <2>1 DEF ServiceInv, ServiceTyped
  <2>4. \A i \in ActiveOf(q) : records'[i] = records[i]
    BY <1>3, <2>1 DEF ActiveOf
  <2>5. LastVisit(q)'
    BY <2>1, <2>2, <2>3, <2>4 DEF LastVisit
  <2>6. QED
    BY <1>6, <2>2, <2>5
<1>17. QED
  BY <1>7, <1>8, <1>10, <1>11, <1>12, <1>13, <1>14, <1>15, <1>16 DEF ServiceInv

-----------------------------------------------------------------------------
(* The theorems.                                                           *)

LEMMA InitService == Init => ServiceInv
<1> SUFFICES ASSUME Init PROVE ServiceInv
  OBVIOUS
<1> USE DEF Init
<1>1. /\ records \in Seq(Record) /\ Len(records) = 0 /\ DOMAIN records = {}
  <2>1. <<>> \in Seq(Record) /\ Len(<<>>) = 0
    BY EmptySeq
  <2>2. DOMAIN records = 1..0
    BY <2>1, LenProperties
  <2>3. QED
    BY <2>1, <2>2
<1>2. /\ Idle \in Requests /\ Idle.op = None /\ Idle.at = None /\ Idle.record = 0
  BY DEF Idle, Requests
<1>3. \A w \in Workers : worker[w] = Idle
  OBVIOUS
<1>4. ServiceTyped
  BY <1>1, <1>2, Bounds DEF ServiceTyped, Statuses
<1>5. RoomKept
  <2>1. Entering = {}
    BY <1>2, <1>3 DEF Entering, None
  <2>2. Cardinality(Entering) = 0
    BY <2>1, FS_EmptySet
  <2>3. QED
    BY <1>1, <2>2, Bounds DEF RoomKept
<1>6. RecordsWhole
  BY <1>1 DEF RecordsWhole
<1>7. SpotsStay /\ ExitsHold /\ ReadsHold /\ RouteKnows
  BY <1>2, <1>3 DEF SpotsStay, ExitsHold, ExitHolds, ReadsHold, ReadHolds,
                    RouteKnows, None
<1>8. \A q : ActiveOf(q) = {} /\ ActiveOn(q) = {}
  BY <1>1 DEF ActiveOf, ActiveOn
<1>9. VisitsApart
  BY <1>1, <1>8 DEF VisitsApart
<1>10. RoutesLead
  BY <1>8 DEF RoutesLead
<1>11. QED
  BY <1>4, <1>5, <1>6, <1>7, <1>9, <1>10 DEF ServiceInv

LEMMA NextService == ServiceInv /\ [Next]_vars => ServiceInv'
<1> SUFFICES ASSUME ServiceInv, [Next]_vars PROVE ServiceInv'
  OBVIOUS
<1>1. ASSUME NEW w \in Workers, Entry(w) PROVE ServiceInv'
  BY <1>1, EntryAskedKept, EntryVehicleKept, EntryTypeKept, EntryCheckKept,
     EntrySpotKept, EntryOccupyKept, EntryCommitKept DEF Entry
<1>2. ASSUME NEW w \in Workers, Exit(w) PROVE ServiceInv'
  BY <1>2, ExitAskedKept, ExitVehicleKept, ExitRecordKept, ExitVacateKept,
     ExitCommitKept DEF Exit
<1>3. ASSUME NEW w \in Workers, Route(w) PROVE ServiceInv'
  BY <1>3, RouteAskedKept, RoutePlanKept, RouteTargetKept, RouteStoreKept DEF Route
<1>4. CASE Operator
  BY <1>4, SetStatusKept, SaveVehicleKept, DeleteVehicleKept, DeleteSpotKept
  DEF Operator
<1>5. CASE UNCHANGED vars
  <2>1. Untouched /\ UNCHANGED <<worker, astray>>
    BY <1>5 DEF vars, rows, Untouched
  <2>2. Requests' = Requests /\ Record' = Record
    BY <2>1 DEF Requests, ExitChosen, EntryChosen, EntryRequest, ExitRequest,
                RouteRequest, Record, Untouched
  <2>3. ServiceTyped'
    BY <2>1, <2>2 DEF ServiceInv, ServiceTyped, Untouched
  <2>4. RoomKept'
    BY <2>1, RoomStays DEF ServiceInv, Entering, Untouched
  <2>5. \A q : ActiveOf(q)' = ActiveOf(q) /\ ActiveOn(q)' = ActiveOn(q)
    BY <2>1 DEF ActiveOf, ActiveOn, Untouched
  <2>6. RecordsWhole' /\ SpotsStay' /\ RouteKnows' /\ VisitsApart'
    BY <2>1, <2>5 DEF ServiceInv, RecordsWhole, SpotsStay, RouteKnows, VisitsApart,
                      Untouched
  <2>7. ExitsHold' /\ ReadsHold' /\ RoutesLead'
    BY <2>1, <2>5 DEF ServiceInv, ExitsHold, ExitHolds, ReadsHold, ReadHolds,
                      RoutesLead, LastVisit, Untouched
  <2>8. QED
    BY <2>3, <2>4, <2>6, <2>7 DEF ServiceInv
<1>6. QED
  BY <1>1, <1>2, <1>3, <1>4, <1>5 DEF Next

LEMMA ServiceInvHolds == Spec => []ServiceInv
<1>1. QED
  BY InitService, NextService, PTL DEF Spec

(* Every row and every request of the service keeps its type; a record is  *)
(* never written beyond MaxRecords; and no commit writes to a spot that an *)
(* operator has deleted meanwhile, because the row is locked.              *)
THEOREM TypeCorrect == Spec => []TypeOK
<1>1. ServiceInv => TypeOK
  <2> SUFFICES ASSUME ServiceInv PROVE TypeOK
    OBVIOUS
  <2>1. Len(records) \in Nat /\ DOMAIN records = 1..Len(records)
    BY RecordsAre DEF ServiceInv
  <2>2. Len(records) <= MaxRecords
    <3>1. Cardinality(Entering) \in Nat
      BY Bounds, FS_Subset, FS_CardinalityType DEF Entering
    <3>2. QED
      BY <2>1, <3>1, Bounds DEF ServiceInv, RoomKept
  <2>3. ASSUME NEW w \in Workers
        PROVE  /\ worker[w].spot \in 0..NumSpots /\ worker[w].record \in 0..MaxRecords
               /\ worker[w].at = "commit" => status[worker[w].spot] # "gone"
    <3>1. worker[w].record \in 0..MaxRecords
      <4>1. CASE worker[w].record = 0
        BY <4>1, Bounds
      <4>2. CASE worker[w].record # 0
        <5>1. worker[w].record \in 1..Len(records)
          BY <2>1, <4>2, RequestIs, RequestCases DEF ExitChosen
        <5>2. QED
          BY <2>1, <2>2, <5>1, Bounds
      <4>3. QED
        BY <4>1, <4>2
    <3>2. worker[w].spot \in 0..NumSpots
      <4>1. PICK r : r = worker[w]
        OBVIOUS
      <4>2. r \in Requests /\ {0} \subseteq 0..NumSpots /\ Spots \subseteq 0..NumSpots
        BY <4>1, RequestIs, Bounds
      <4>3. r.spot \in 0..NumSpots
        <5>1. r.spot = 0 \/ r.spot \in Spots \/ r.spot \in 0..NumSpots
          <6>1. CASE r \in ExitChosen \cup EntryChosen
            BY <6>1 DEF EntryChosen, ExitChosen
          <6>2. CASE r \in EntryRequest \cup ExitRequest \cup RouteRequest
            BY <6>2 DEF EntryRequest, ExitRequest, RouteRequest
          <6>3. CASE r = Idle
            BY <6>3 DEF Idle
          <6>4. QED
            BY <4>2, <6>1, <6>2, <6>3 DEF Requests
        <5>2. QED
          BY <4>2, <5>1
      <4>4. QED
        BY <4>1, <4>3
    <3>3. QED
      BY <3>1, <3>2 DEF ServiceInv, SpotsStay
  <2>4. QED
    BY <2>2, <2>3 DEF TypeOK, ServiceInv, ServiceTyped, Record
<1>2. QED
  BY <1>1, ServiceInvHolds, PTL

(* On SQLite process_entry and process_exit, whose checks and writes are   *)
(* statements apart, and the operators' statements between them leave a    *)
(* plate one visit and an untouched spot the one car it is occupied by; an *)
(* assignment ends with its visit on both databases.                       *)
THEOREM VisitsMatchHolds == Spec => []VisitsMatch
<1>1. ServiceInv => VisitsMatch
  <2> SUFFICES ASSUME ServiceInv PROVE VisitsMatch
    OBVIOUS
  <2>1. OneVisit
    <3> SUFFICES ASSUME db = "sqlite", NEW p \in Plates
                 PROVE  Cardinality(ActiveOf(p)) <= 1
      BY DEF OneVisit
    <3>1. CASE ActiveOf(p) = {}
      BY <3>1, FS_EmptySet
    <3>2. CASE ActiveOf(p) # {}
      <4>1. PICK i : ActiveOf(p) = {i}
        BY <3>2 DEF ServiceInv, VisitsApart
      <4>2. Cardinality(ActiveOf(p)) = 1
        BY <4>1, FS_Singleton
      <4>3. QED
        BY <4>2
    <3>3. QED
      BY <3>1, <3>2
  <2>2. SpotMatches
    <3> SUFFICES ASSUME db = "sqlite", NEW s \in Spots \ touched
                 PROVE  Cardinality(ActiveOn(s)) = IF status[s] = "occupied" THEN 1 ELSE 0
      BY DEF SpotMatches
    <3>1. IF status[s] = "occupied" THEN \E i \in DOMAIN records : ActiveOn(s) = {i}
          ELSE ActiveOn(s) = {}
      BY DEF ServiceInv, VisitsApart
    <3>2. QED
      BY <3>1, FS_EmptySet, FS_Singleton
  <2>3. AssignmentsFollow
    BY DEF ServiceInv, RecordsWhole, VisitsApart, AssignmentsFollow
  <2>4. QED
    BY <2>1, <2>2, <2>3 DEF VisitsMatch
<1>2. QED
  BY <1>1, ServiceInvHolds, PTL

(* VehicleViewSet.route gives a car inside a route to a spot of its own,   *)
(* on both databases, though plans are computed and stored in statements   *)
(* of their own between entries, exits and deletions.                      *)
THEOREM RouteIsOwnHolds == Spec => []RouteIsOwn
<1>1. ServiceInv => RouteIsOwn
  BY DEF ServiceInv, RoutesLead, LastVisit, RouteIsOwn
<1>2. QED
  BY <1>1, ServiceInvHolds, PTL

(***************************************************************************)
(* The allocation environment: times and routes.                           *)
(***************************************************************************)
LEMMA EnvBounds ==
  /\ Columns \in Nat \ {0} /\ NodeTravelTime \in Nat \ {0} /\ SafetyMargin \in Nat
  /\ WaitTime \in Nat \ {0} /\ MaxConsecutiveWaits \in Nat
  /\ Rows # {} /\ "lane" \notin Rows
  /\ ArrivalTimes \subseteq Nat /\ ArrivalTimes # {} /\ ParkDurations \subseteq Nat
BY EnvAssumption

LEMMA LongestStay ==
  /\ Max(ParkDurations) \in Nat
  /\ \A d \in ParkDurations : d <= Max(ParkDurations)
<1>1. PICK b \in ParkDurations : \A e \in ParkDurations : e <= b
  BY EnvAssumption
<1>2. \A e \in ParkDurations : b >= e
  BY <1>1, EnvBounds
<1>3. /\ Max(ParkDurations) \in ParkDurations
      /\ \A e \in ParkDurations : Max(ParkDurations) >= e
  BY <1>2 DEF Max
<1>4. QED
  BY <1>3, EnvBounds

LEMMA Earliest ==
  ASSUME NEW T \in SUBSET Nat, T # {}
  PROVE  Min(T) \in T /\ \A y \in T : Min(T) <= y
<1>1. PICK x \in T : \A y \in T : x <= y
  BY Least
<1>2. QED
  BY <1>1 DEF Min

(* When a waypoint of a route is taken up.                                 *)
LEMMA Shifted ==
  ASSUME NEW i \in Int, NEW t \in Int
  PROVE  /\ NodeStart(i, t) \in Int /\ NodeStart(i, 0) \in Int
         /\ NodeStart(i, t) = NodeStart(i, 0) + t
         /\ NodeStart(i + 1, t) = NodeStart(i, t) + NodeTravelTime
         /\ NodeStart(1, t) = t
<1>1. NodeTravelTime \in Int
  BY EnvBounds
<1>2. (i + 1 - 1) * NodeTravelTime = (i - 1) * NodeTravelTime + NodeTravelTime
  BY <1>1
<1>3. (i - 1) * NodeTravelTime \in Int /\ (1 - 1) * NodeTravelTime = 0
  BY <1>1
<1>4. QED
  BY <1>1, <1>2, <1>3 DEF NodeStart

LEMMA LaterNodes ==
  ASSUME NEW i \in Int, NEW j \in Int, i <= j, NEW t \in Int
  PROVE  NodeStart(i, t) <= NodeStart(j, t)
<1>1. NodeTravelTime \in Nat
  BY EnvBounds
<1>2. (i - 1) * NodeTravelTime <= (j - 1) * NodeTravelTime
  <2>1. j - i \in Nat /\ (j - i) * NodeTravelTime >= 0
    BY <1>1
  <2>2. (j - 1) * NodeTravelTime = (i - 1) * NodeTravelTime + (j - i) * NodeTravelTime
    BY <1>1
  <2>3. QED
    BY <1>1, <2>1, <2>2
<1>3. QED
  BY <1>1, <1>2 DEF NodeStart

LEMMA Clipped ==
  ASSUME NEW x \in Int
  PROVE  /\ Clip(x) \in Int /\ Clip(x) >= x /\ Clip(x) >= -SafetyMargin
         /\ Clip(x) = x \/ Clip(x) = -SafetyMargin
         /\ x >= -SafetyMargin => Clip(x) = x
         /\ \A d \in Nat : Clip(Clip(x) - d) = Clip(x - d)
BY EnvBounds DEF Clip, Floor

(* A slot, and the two routes.                                             *)
LEMMA SlotIs ==
  ASSUME NEW s \in Slots
  PROVE  /\ s[2] \in 1 .. Columns /\ s = <<s[1], s[2]>> /\ s[1] \in Rows
         /\ s # Entrance /\ s # Junction /\ s # LotExit
         /\ \A i \in Int : s # LanePoint(i)
BY EnvBounds DEF Slots, Entrance, Junction, LotExit, LanePoint

LEMMA PointsApart ==
  /\ Entrance # Junction /\ Entrance # LotExit /\ Junction # LotExit
  /\ \A i \in Int : /\ LanePoint(i) # Entrance /\ LanePoint(i) # Junction
                    /\ LanePoint(i) # LotExit
BY DEF Entrance, Junction, LotExit, LanePoint

LEMMA JoinedFirst ==
  ASSUME NEW S, NEW a \in Seq(S), NEW b \in Seq(S), NEW i \in 1 .. Len(a)
  PROVE  (a \o b)[i] = a[i]
OBVIOUS

LEMMA JoinedSecond ==
  ASSUME NEW S, NEW a \in Seq(S), NEW b \in Seq(S), NEW i \in 1 .. Len(b)
  PROVE  (a \o b)[Len(a) + i] = b[i]
OBVIOUS

LEMMA Joined ==
  ASSUME NEW S, NEW a \in Seq(S), NEW b \in Seq(S)
  PROVE  a \o b \in Seq(S) /\ Len(a \o b) = Len(a) + Len(b)
OBVIOUS

(* Three sequences in a row, waypoint by waypoint.                         *)
LEMMA ThreeParts ==
  ASSUME NEW S, NEW a \in Seq(S), NEW b \in Seq(S), NEW z \in Seq(S),
         NEW h, h = a \o b, NEW m \in Nat, NEW n \in Nat, NEW k \in Nat,
         m = Len(a), n = Len(b), k = Len(z)
  PROVE  h \o z \in Seq(S) /\ Len(h \o z) = m + n + k
<1>1. h \in Seq(S) /\ Len(h) = Len(a) + Len(b)
  BY Joined
<1>2. h \o z \in Seq(S) /\ Len(h \o z) = Len(h) + Len(z)
  BY <1>1, Joined
<1>3. QED
  BY <1>1, <1>2

LEMMA FirstPart ==
  ASSUME NEW S, NEW a \in Seq(S), NEW b \in Seq(S), NEW z \in Seq(S),
         NEW h, h = a \o b, NEW m \in Nat, NEW n \in Nat,
         m = Len(a), n = Len(b), NEW i \in 1 .. m
  PROVE  (h \o z)[i] = a[i]
<1>1. h \in Seq(S) /\ Len(h) = m + n
  BY Joined
<1>2. h[i] = a[i]
  BY JoinedFirst
<1>3. i \in 1 .. Len(h)
  BY <1>1
<1>4. (h \o z)[i] = h[i]
  BY <1>1, <1>3, JoinedFirst
<1>5. QED
  BY <1>2, <1>4

LEMMA MiddlePart ==
  ASSUME NEW S, NEW a \in Seq(S), NEW b \in Seq(S), NEW z \in Seq(S),
         NEW h, h = a \o b, NEW m \in Nat, NEW n \in Nat,
         m = Len(a), n = Len(b), NEW i \in 1 .. n
  PROVE  (h \o z)[m + i] = b[i]
<1>1. h \in Seq(S) /\ Len(h) = m + n
  BY Joined
<1>2. h[m + i] = b[i]
  BY JoinedSecond
<1>3. m + i \in 1 .. Len(h)
  BY <1>1
<1>4. (h \o z)[m + i] = h[m + i]
  BY <1>1, <1>3, JoinedFirst
<1>5. QED
  BY <1>2, <1>4

LEMMA LastPart ==
  ASSUME NEW S, NEW a \in Seq(S), NEW b \in Seq(S), NEW z \in Seq(S),
         NEW h, h = a \o b, NEW m \in Nat, NEW n \in Nat, NEW k \in Nat,
         m = Len(a), n = Len(b), k = Len(z), NEW i \in 1 .. k
  PROVE  (h \o z)[m + n + i] = z[i]
<1>1. h \in Seq(S) /\ Len(h) = m + n
  BY Joined
<1>2. (h \o z)[Len(h) + i] = z[i]
  BY <1>1, JoinedSecond
<1>3. QED
  BY <1>1, <1>2

LEMMA SlotRouteIs ==
  ASSUME NEW s \in Slots
  PROVE  /\ SlotRoute(s) \in Seq(Nodes) /\ Len(SlotRoute(s)) = s[2] + 3
         /\ DOMAIN SlotRoute(s) = 1 .. s[2] + 3
         /\ SlotRoute(s)[1] = Entrance /\ SlotRoute(s)[2] = Junction
         /\ \A i \in 3 .. s[2] + 2 : SlotRoute(s)[i] = LanePoint(i - 2)
         /\ SlotRoute(s)[s[2] + 3] = s
<1>0. PICK a, b, z : /\ a = <<Entrance, Junction>> /\ z = <<s>>
                     /\ b = [i \in 1 .. s[2] |-> LanePoint(i)]
  OBVIOUS
<1>1. PICK c \in 1 .. Columns : c = s[2]
  BY SlotIs
<1>2. a \in Seq(Nodes) /\ Len(a) = 2 /\ a[1] = Entrance /\ a[2] = Junction
  BY <1>0 DEF Nodes
<1>3. b \in Seq(Nodes) /\ Len(b) = c /\ \A i \in 1 .. c : b[i] = LanePoint(i)
  <2>1. b \in [1 .. c -> Nodes]
    BY <1>0, <1>1, EnvBounds DEF Nodes
  <2>2. c \in Nat
    BY EnvBounds
  <2>3. QED
    BY <1>0, <1>1, <2>1, <2>2
<1>4. z \in Seq(Nodes) /\ Len(z) = 1 /\ z[1] = s
  BY <1>0 DEF Nodes
<1>5. PICK m \in Nat, n \in Nat, k \in Nat : m = Len(a) /\ n = Len(b) /\ k = Len(z)
  BY <1>2, <1>3, <1>4, EnvBounds
<1>6. m = 2 /\ n = c /\ k = 1
  BY <1>2, <1>3, <1>4, <1>5
<1>7. PICK h, r : h = a \o b /\ r = h \o z
  OBVIOUS
<1>7a. a \in Seq(Nodes) /\ b \in Seq(Nodes) /\ z \in Seq(Nodes)
  BY <1>2, <1>3, <1>4
<1>8. r \in Seq(Nodes) /\ Len(r) = m + n + k
  BY <1>5, <1>7, <1>7a, ThreeParts
<1>9. ASSUME NEW i \in 1 .. m
      PROVE  r[i] = a[i]
  BY <1>5, <1>7, <1>7a, FirstPart
<1>10. ASSUME NEW i \in 1 .. n
       PROVE  r[m + i] = b[i]
  BY <1>5, <1>7, <1>7a, MiddlePart
<1>11. ASSUME NEW i \in 1 .. k
       PROVE  r[m + n + i] = z[i]
  BY <1>5, <1>7, <1>7a, LastPart
<1>12. Len(r) = c + 3 /\ DOMAIN r = 1 .. c + 3
  <2>1. Len(r) = c + 3
    BY <1>6, <1>8
  <2>2. QED
    BY <1>8, <2>1
<1>13. r[1] = Entrance /\ r[2] = Junction /\ r[c + 3] = s
  <2>1. 1 \in 1 .. m /\ 2 \in 1 .. m /\ 1 \in 1 .. k /\ m + n + 1 = c + 3
    BY <1>6
  <2>2. QED
    BY <1>2, <1>4, <1>9, <1>11, <2>1
<1>14. ASSUME NEW i \in 3 .. c + 2
       PROVE  r[i] = LanePoint(i - 2)
  <2>1. i - 2 \in 1 .. n /\ m + (i - 2) = i
    BY <1>6
  <2>2. QED
    BY <1>3, <1>6, <1>10, <2>1
<1>15. SlotRoute(s) = r
  BY <1>0, <1>7 DEF SlotRoute
<1>16. QED
  BY <1>1, <1>8, <1>12, <1>13, <1>14, <1>15

LEMMA ExitRouteIs ==
  ASSUME NEW s \in Slots
  PROVE  /\ ExitRoute(s) \in Seq(Nodes) /\ Len(ExitRoute(s)) = s[2] + 3
         /\ DOMAIN ExitRoute(s) = 1 .. s[2] + 3
         /\ ExitRoute(s)[1] = s
         /\ \A i \in 2 .. s[2] + 1 : ExitRoute(s)[i] = LanePoint(s[2] + 2 - i)
         /\ ExitRoute(s)[s[2] + 2] = Junction /\ ExitRoute(s)[s[2] + 3] = LotExit
<1>0. PICK a, b, z : /\ a = <<s>> /\ z = <<Junction, LotExit>>
                     /\ b = [i \in 1 .. s[2] |-> LanePoint(s[2] + 1 - i)]
  OBVIOUS
<1>1. PICK c \in 1 .. Columns : c = s[2]
  BY SlotIs
<1>2. a \in Seq(Nodes) /\ Len(a) = 1 /\ a[1] = s
  BY <1>0 DEF Nodes
<1>3. b \in Seq(Nodes) /\ Len(b) = c /\ \A i \in 1 .. c : b[i] = LanePoint(c + 1 - i)
  <2>1. \A i \in 1 .. c : c + 1 - i \in 1 .. Columns
    BY EnvBounds
  <2>2. b \in [1 .. c -> Nodes]
    BY <1>0, <1>1, <2>1 DEF Nodes
  <2>3. c \in Nat
    BY EnvBounds
  <2>4. b \in Seq(Nodes) /\ Len(b) = c
    BY <2>2, <2>3
  <2>5. \A i \in 1 .. c : b[i] = LanePoint(c + 1 - i)
    BY <1>0, <1>1
  <2>6. QED
    BY <2>4, <2>5
<1>4. z \in Seq(Nodes) /\ Len(z) = 2 /\ z[1] = Junction /\ z[2] = LotExit
  BY <1>0 DEF Nodes
<1>5. PICK m \in Nat, n \in Nat, k \in Nat : m = Len(a) /\ n = Len(b) /\ k = Len(z)
  BY <1>2, <1>3, <1>4, EnvBounds
<1>6. m = 1 /\ n = c /\ k = 2
  BY <1>2, <1>3, <1>4, <1>5
<1>7. PICK h, r : h = a \o b /\ r = h \o z
  OBVIOUS
<1>7a. a \in Seq(Nodes) /\ b \in Seq(Nodes) /\ z \in Seq(Nodes)
  BY <1>2, <1>3, <1>4
<1>8. r \in Seq(Nodes) /\ Len(r) = m + n + k
  BY <1>5, <1>7, <1>7a, ThreeParts
<1>9. ASSUME NEW i \in 1 .. m
      PROVE  r[i] = a[i]
  BY <1>5, <1>7, <1>7a, FirstPart
<1>10. ASSUME NEW i \in 1 .. n
       PROVE  r[m + i] = b[i]
  BY <1>5, <1>7, <1>7a, MiddlePart
<1>11. ASSUME NEW i \in 1 .. k
       PROVE  r[m + n + i] = z[i]
  BY <1>5, <1>7, <1>7a, LastPart
<1>12. Len(r) = c + 3 /\ DOMAIN r = 1 .. c + 3
  <2>1. Len(r) = c + 3
    BY <1>6, <1>8
  <2>2. QED
    BY <1>8, <2>1
<1>13. r[1] = s /\ r[c + 2] = Junction /\ r[c + 3] = LotExit
  <2>1. /\ 1 \in 1 .. m /\ 1 \in 1 .. k /\ 2 \in 1 .. k
        /\ m + n + 1 = c + 2 /\ m + n + 2 = c + 3
    BY <1>6
  <2>2. QED
    BY <1>2, <1>4, <1>9, <1>11, <2>1
<1>14. ASSUME NEW i \in 2 .. c + 1
       PROVE  r[i] = LanePoint(c + 2 - i)
  <2>1. i - 1 \in 1 .. n /\ m + (i - 1) = i /\ c + 1 - (i - 1) = c + 2 - i
    BY <1>6
  <2>2. QED
    BY <1>3, <1>6, <1>10, <2>1
<1>15. ExitRoute(s) = r
  BY <1>0, <1>7 DEF ExitRoute
<1>16. QED
  BY <1>1, <1>8, <1>12, <1>13, <1>14, <1>15

(***************************************************************************)
(* The inductive invariant.  The departures change a lot car by car, so it *)
(* is stated of a lot L and of the set P of the stays not yet over: those  *)
(* in the list, and those the departures have still to go through.         *)
(***************************************************************************)
Latest == (Columns + 4) * NodeTravelTime + Max(ParkDurations)
Moments == -SafetyMargin .. Latest
CarIds == Slots \X Nat
Car == [id : CarIds, slot : Slots, status : {"moving", "exiting"},
        start : {t \in Int : t <= 0}]
Stay == [id : CarIds, slot : Slots, depart : 0 .. Latest]
TableEntry == [node : Nodes, id : CarIds, start : Moments, end : Moments]
Lots == [taken : SUBSET Slots, active : SUBSET Car, parked : Seq(Stay),
         table : SUBSET TableEntry]

BooksTyped(L, P) ==
  /\ L \in Lots /\ P \subseteq Stay
  /\ IsFiniteSet(L.active) /\ IsFiniteSet(L.table)

(* A taken slot has one stay, and a stay one car.                          *)
Owners(L, P) ==
  /\ L.taken = {p.slot : p \in P}
  /\ \A p, q \in P : p.id = q.id \/ p.slot = q.slot => p = q

(* A car on its way in arrives before its stay is over; a car on its way   *)
(* out has none left.                                                      *)
Movers(L, P) ==
  /\ \A v, w \in L.active : v.id = w.id => v = w
  /\ \A v \in L.active : v.status = "moving" =>
       \E p \in P : /\ p.id = v.id /\ p.slot = v.slot
                    /\ RouteEnd(RouteOf(v), v.start) <= p.depart
  /\ \A v \in L.active : v.status = "exiting" => \A p \in P : p.id # v.id

(* The table has an entry for every waypoint of a car under way, the ones  *)
(* behind it included, and no entry without a car.                         *)
OnWay(v, r) ==
  \E i \in DOMAIN RouteOf(v) : /\ RouteOf(v)[i] = r.node
                               /\ r.end = Clip(NodeStart(i + 1, v.start))
EntryFor(v, i, r) ==
  /\ r.id = v.id /\ r.node = RouteOf(v)[i]
  /\ r.start = Clip(NodeStart(i, v.start)) /\ r.end = Clip(NodeStart(i + 1, v.start))
NoGhosts(L, P) ==
  \A r \in L.table : \/ \E p \in P : p.id = r.id
                     \/ \E v \in L.active : /\ v.id = r.id /\ v.status = "exiting"
                                            /\ OnWay(v, r)
WaysKept(L) ==
  \A v \in L.active : \A i \in DOMAIN RouteOf(v) : \E r \in L.table : EntryFor(v, i, r)

AllApart(L) == \A v, w \in L.active : v # w => Apart(v, w)

(* What is not the stay of a parked car on its own slot is over b before   *)
(* the longest way to the waypoint would be.                               *)
Horizon(node) ==
  IF node \in Slots THEN NodeTravelTime
  ELSE IF node = LotExit THEN (Columns + 3) * NodeTravelTime
  ELSE (Columns + 2) * NodeTravelTime
HeldBy(P, r) == \E p \in P : p.id = r.id /\ p.slot = r.node
Within(table, P, b) ==
  \A r \in table : \/ HeldBy(P, r) \/ r.end <= Horizon(r.node) - b
                   \/ r.end <= -SafetyMargin

Books(L, P) ==
  /\ BooksTyped(L, P) /\ Owners(L, P) /\ Movers(L, P) /\ NoGhosts(L, P)
  /\ WaysKept(L) /\ AllApart(L) /\ Within(L.table, P, 0)

Running(L) == \A v \in L.active : RouteEnd(RouteOf(v), v.start) > 0
NoRepeats(q) == \A j, k \in DOMAIN q : j # k => q[j] # q[k]
Listed(L) == Books(L, ToSet(L.parked)) /\ NoRepeats(L.parked)
LotInv(L) == Listed(L) /\ Running(L)

(* A full lot has been full, and its ways growing old, since the last      *)
(* assignment.                                                             *)
FullLotAges ==
  taken = Slots =>
    \E iat \in ArrivalTimes : Within(reservations, ToSet(parked), iat + waits * WaitTime)

EnvInv == LotInv(Lot) /\ waits \in 0 .. MaxConsecutiveWaits /\ FullLotAges

-----------------------------------------------------------------------------
LEMMA LatestIs ==
  /\ Latest \in Nat /\ (Columns + 3) * NodeTravelTime \in Nat
  /\ (Columns + 2) * NodeTravelTime \in Nat
  /\ (Columns + 2) * NodeTravelTime = (Columns + 1) * NodeTravelTime + NodeTravelTime
  /\ (Columns + 3) * NodeTravelTime = (Columns + 2) * NodeTravelTime + NodeTravelTime
  /\ (Columns + 3) * NodeTravelTime + NodeTravelTime + Max(ParkDurations) = Latest
  /\ -SafetyMargin \in Int /\ -SafetyMargin <= 0
<1>1. /\ Columns \in Nat /\ NodeTravelTime \in Nat /\ SafetyMargin \in Nat
      /\ Max(ParkDurations) \in Nat
  BY EnvBounds, LongestStay
<1>2. /\ (Columns + 4) * NodeTravelTime \in Nat /\ (Columns + 3) * NodeTravelTime \in Nat
      /\ (Columns + 2) * NodeTravelTime \in Nat
      /\ (Columns + 4) * NodeTravelTime = (Columns + 3) * NodeTravelTime + NodeTravelTime
      /\ (Columns + 3) * NodeTravelTime = (Columns + 2) * NodeTravelTime + NodeTravelTime
      /\ (Columns + 2) * NodeTravelTime = (Columns + 1) * NodeTravelTime + NodeTravelTime
  BY <1>1
<1>3. QED
  BY <1>1, <1>2 DEF Latest

LEMMA CarIs ==
  ASSUME NEW v \in Car
  PROVE  /\ v.id \in CarIds /\ v.slot \in Slots /\ v.status \in {"moving", "exiting"}
         /\ v.start \in Int /\ v.start <= 0
BY DEF Car

LEMMA EntryIs ==
  ASSUME NEW r \in TableEntry
  PROVE  /\ r.node \in Nodes /\ r.id \in CarIds /\ r.start \in Int /\ r.end \in Int
         /\ r.start \in Moments /\ r.end \in Moments
BY LatestIs DEF TableEntry, Moments

LEMMA StayIs ==
  ASSUME NEW p \in Stay
  PROVE  p.id \in CarIds /\ p.slot \in Slots /\ p.depart \in Nat /\ p.depart <= Latest
BY LatestIs DEF Stay

LEMMA RouteIs ==
  ASSUME NEW v \in Car
  PROVE  /\ RouteOf(v) \in Seq(Nodes) /\ Len(RouteOf(v)) = v.slot[2] + 3
         /\ DOMAIN RouteOf(v) = 1 .. v.slot[2] + 3
         /\ v.slot[2] + 3 \in 4 .. Columns + 3
         /\ \A i \in DOMAIN RouteOf(v) : i \in Int /\ i >= 1 /\ RouteOf(v)[i] \in Nodes
<1>1. v.slot \in Slots
  BY CarIs
<1>2. /\ RouteOf(v) \in Seq(Nodes) /\ Len(RouteOf(v)) = v.slot[2] + 3
      /\ DOMAIN RouteOf(v) = 1 .. v.slot[2] + 3
  BY <1>1, SlotRouteIs, ExitRouteIs DEF RouteOf
<1>3. v.slot[2] + 3 \in 4 .. Columns + 3
  <2>1. \A c \in 1 .. Columns : c + 3 \in 4 .. Columns + 3
    BY EnvBounds
  <2>2. QED
    BY <1>1, <2>1, SlotIs
<1>4. \A i \in DOMAIN RouteOf(v) : RouteOf(v)[i] \in Nodes
  BY <1>2, ElementOfSeq
<1>5. \A n \in 4 .. Columns + 3 : \A i \in 1 .. n : i \in Int /\ i >= 1
  BY EnvBounds
<1>6. QED
  BY <1>2, <1>3, <1>4, <1>5

(* The end of a route.                                                     *)
LEMMA RouteEndIs ==
  ASSUME NEW v \in Car, NEW t \in Int
  PROVE  /\ RouteEnd(RouteOf(v), t) \in Int
         /\ RouteEnd(RouteOf(v), t) = RouteEnd(RouteOf(v), 0) + t
         /\ RouteEnd(RouteOf(v), 0) <= (Columns + 3) * NodeTravelTime
         /\ \A i \in DOMAIN RouteOf(v) : NodeStart(i + 1, t) <= RouteEnd(RouteOf(v), t)
<1>1. PICK n \in 4 .. Columns + 3 : n = Len(RouteOf(v)) /\ DOMAIN RouteOf(v) = 1 .. n
  BY RouteIs
<1>2. n \in Int /\ n + 1 \in Int /\ n + 1 <= Columns + 4 /\ Columns + 4 \in Int
  BY EnvBounds
<1>3. NodeTravelTime \in Nat /\ Columns \in Nat
  BY EnvBounds
<1>4. /\ RouteEnd(RouteOf(v), t) = NodeStart(n + 1, t)
      /\ RouteEnd(RouteOf(v), 0) = NodeStart(n + 1, 0)
  <2>1. n + 1 - 1 = n
    BY <1>2
  <2>2. /\ RouteEnd(RouteOf(v), t) = t + n * NodeTravelTime
        /\ RouteEnd(RouteOf(v), 0) = 0 + n * NodeTravelTime
    BY <1>1 DEF RouteEnd
  <2>3. /\ NodeStart(n + 1, t) = t + n * NodeTravelTime
        /\ NodeStart(n + 1, 0) = 0 + n * NodeTravelTime
    BY <2>1 DEF NodeStart
  <2>4. QED
    BY <2>2, <2>3
<1>5. NodeStart(n + 1, 0) <= NodeStart(Columns + 4, 0)
  BY <1>2, LaterNodes
<1>6. NodeStart(Columns + 4, 0) = (Columns + 3) * NodeTravelTime
  <2>1. PICK k \in Nat : k = Columns + 3
    BY <1>3
  <2>2. Columns + 4 = k + 1 /\ k + 1 - 1 = k /\ k * NodeTravelTime \in Int
    BY <1>3, <2>1
  <2>3. NodeStart(k + 1, 0) = 0 + k * NodeTravelTime
    BY <2>2 DEF NodeStart
  <2>4. NodeStart(k + 1, 0) = k * NodeTravelTime
    BY <2>2, <2>3
  <2>5. QED
    BY <2>1, <2>2, <2>4
<1>7. \A i \in DOMAIN RouteOf(v) : NodeStart(i + 1, t) <= NodeStart(n + 1, t)
  <2> TAKE i \in DOMAIN RouteOf(v)
  <2>1. i + 1 \in Int /\ i + 1 <= n + 1
    BY <1>1, <1>2
  <2>2. QED
    BY <1>2, <2>1, LaterNodes
<1>8. /\ NodeStart(n + 1, t) \in Int /\ NodeStart(n + 1, t) = NodeStart(n + 1, 0) + t
  BY <1>2, Shifted
<1>9. QED
  BY <1>4, <1>5, <1>6, <1>7, <1>8

-----------------------------------------------------------------------------
(* The clock runs.                                                         *)
StaysLater(P, d) == {StayLater(p, d) : p \in P}

LEMMA FiniteImage ==
  ASSUME NEW A, IsFiniteSet(A), NEW f, DOMAIN f = A
  PROVE  IsFiniteSet({f[x] : x \in A})
<1> DEFINE B == {f[x] : x \in A}
           g == [x \in A |-> f[x]]
<1>1. g \in Surjection(A, B)
  BY DEF Surjection
<1>2. QED
  BY <1>1, FS_Surjection

LEMMA CarLaterIs ==
  ASSUME NEW v \in Car, NEW d \in Nat
  PROVE  /\ CarLater(v, d) \in Car /\ CarLater(v, d).id = v.id
         /\ CarLater(v, d).slot = v.slot /\ CarLater(v, d).status = v.status
         /\ CarLater(v, d).start = v.start - d
         /\ RouteOf(CarLater(v, d)) = RouteOf(v)
<1>1. /\ CarLater(v, d) = [id |-> v.id, slot |-> v.slot, status |-> v.status,
                           start |-> v.start - d]
  BY DEF Car, CarLater
<1>2. v.start - d \in Int /\ v.start - d <= 0
  BY CarIs
<1>3. CarLater(v, d) \in Car
  BY <1>1, <1>2, CarIs DEF Car
<1>4. QED
  BY <1>1, <1>3 DEF RouteOf

LEMMA StayLaterIs ==
  ASSUME NEW p \in Stay, NEW d \in Nat
  PROVE  /\ StayLater(p, d) \in Stay /\ StayLater(p, d).id = p.id
         /\ StayLater(p, d).slot = p.slot
         /\ StayLater(p, d).depart >= p.depart - d
         /\ p.depart <= d => StayLater(p, d).depart = 0
<1>1. StayLater(p, d) = [id |-> p.id, slot |-> p.slot, depart |-> Floor(p.depart - d, 0)]
  BY DEF Stay, StayLater
<1>2. PICK x : x = Floor(p.depart - d, 0)
  OBVIOUS
<1>3. x \in 0 .. Latest /\ x >= p.depart - d /\ (p.depart <= d => x = 0)
  BY <1>2, StayIs, LatestIs DEF Floor
<1>4. StayLater(p, d) = [id |-> p.id, slot |-> p.slot, depart |-> x]
  BY <1>1, <1>2
<1>5. QED
  BY <1>3, <1>4, StayIs DEF Stay

LEMMA EntryLaterIs ==
  ASSUME NEW r \in TableEntry, NEW d \in Nat
  PROVE  /\ EntryLater(r, d) \in TableEntry /\ EntryLater(r, d).id = r.id
         /\ EntryLater(r, d).node = r.node
         /\ EntryLater(r, d).start = Clip(r.start - d)
         /\ EntryLater(r, d).end = Clip(r.end - d)
<1> DEFINE x == Clip(r.start - d)
           y == Clip(r.end - d)
<1>0. EntryLater(r, d) = [r EXCEPT !.start = x, !.end = y]
  BY DEF EntryLater
<1> HIDE DEF x, y
<1>1. \A u \in Moments : Clip(u - d) \in Moments
  BY LatestIs, EnvBounds DEF Moments, Clip, Floor
<1>2. x \in Moments /\ y \in Moments
  BY <1>1, EntryIs DEF x, y
<1> DEFINE z == [r EXCEPT !.start = x, !.end = y]
<1>3. z \in TableEntry
  BY <1>2 DEF TableEntry
<1>4. z.id = r.id /\ z.node = r.node
  BY DEF TableEntry
<1>5. z.start = x
  BY DEF TableEntry
<1>6. z.end = y
  BY DEF TableEntry
<1>7. QED
  BY <1>0, <1>3, <1>4, <1>5, <1>6 DEF x, y

LEMMA ElapsedIs ==
  ASSUME NEW L \in Lots, NEW d \in Nat
  PROVE  /\ Elapsed(L, d).taken = L.taken
         /\ Elapsed(L, d).active = {CarLater(v, d) : v \in L.active}
         /\ Elapsed(L, d).parked = [k \in DOMAIN L.parked |-> StayLater(L.parked[k], d)]
         /\ Elapsed(L, d).table = {EntryLater(r, d) : r \in L.table}
<1>1. Elapsed(L, d).taken = L.taken
  BY DEF Lots, Elapsed
<1>2. Elapsed(L, d).active = {CarLater(v, d) : v \in L.active}
  BY DEF Lots, Elapsed
<1>3. Elapsed(L, d).parked = [k \in DOMAIN L.parked |-> StayLater(L.parked[k], d)]
  BY DEF Lots, Elapsed
<1>4. Elapsed(L, d).table = {EntryLater(r, d) : r \in L.table}
  BY DEF Lots, Elapsed
<1>5. QED
  BY <1>1, <1>2, <1>3, <1>4

LEMMA LotIs ==
  ASSUME NEW L \in Lots
  PROVE  /\ L.taken \subseteq Slots /\ L.active \subseteq Car /\ L.parked \in Seq(Stay)
         /\ L.table \subseteq TableEntry
BY DEF Lots

LEMMA ElapsedTyped ==
  ASSUME NEW L, NEW P, BooksTyped(L, P), NEW d \in Nat
  PROVE  BooksTyped(Elapsed(L, d), StaysLater(P, d))
<1>0. L \in Lots /\ P \subseteq Stay /\ IsFiniteSet(L.active) /\ IsFiniteSet(L.table)
  BY DEF BooksTyped
<1>1. /\ L.taken \subseteq Slots /\ L.active \subseteq Car /\ L.parked \in Seq(Stay)
      /\ L.table \subseteq TableEntry
  BY <1>0, LotIs
<1> DEFINE A == {CarLater(v, d) : v \in L.active}
           T == {EntryLater(r, d) : r \in L.table}
           q == [k \in DOMAIN L.parked |-> StayLater(L.parked[k], d)]
<1>2. A \subseteq Car /\ IsFiniteSet(A)
  <2>1. A \subseteq Car
    BY <1>1, CarLaterIs
  <2>2. PICK f : f = [v \in L.active |-> CarLater(v, d)]
    OBVIOUS
  <2>3. IsFiniteSet({f[v] : v \in L.active})
    BY <1>0, <2>2, FiniteImage
  <2>4. {f[v] : v \in L.active} = A
    BY <2>2
  <2>5. QED
    BY <2>1, <2>3, <2>4
<1>3. T \subseteq TableEntry /\ IsFiniteSet(T)
  <2>1. T \subseteq TableEntry
    BY <1>1, EntryLaterIs
  <2>2. PICK f : f = [r \in L.table |-> EntryLater(r, d)]
    OBVIOUS
  <2>3. IsFiniteSet({f[r] : r \in L.table})
    BY <1>0, <2>2, FiniteImage
  <2>4. {f[r] : r \in L.table} = T
    BY <2>2
  <2>5. QED
    BY <2>1, <2>3, <2>4
<1>4. q \in Seq(Stay)
  <2>1. PICK n \in Nat : n = Len(L.parked) /\ DOMAIN L.parked = 1 .. n
    BY <1>1, LenProperties
  <2>2. \A k \in 1 .. n : L.parked[k] \in Stay
    BY <1>1, <2>1, ElementOfSeq
  <2>3. q \in [1 .. n -> Stay]
    BY <2>1, <2>2, StayLaterIs
  <2>4. QED
    BY <2>3
<1>5. StaysLater(P, d) \subseteq Stay
  BY <1>0, StayLaterIs DEF StaysLater
<1>6. Elapsed(L, d) = [L EXCEPT !.active = A, !.parked = q, !.table = T]
  BY DEF Elapsed
<1>7. /\ Elapsed(L, d).active = A /\ Elapsed(L, d).table = T
  BY <1>0, ElapsedIs
<1> HIDE DEF A, T, q
<1>8. Elapsed(L, d) \in Lots
  BY <1>0, <1>2, <1>3, <1>4, <1>6 DEF Lots
<1>9. QED
  BY <1>2, <1>3, <1>5, <1>7, <1>8 DEF BooksTyped

LEMMA ElapsedOwners ==
  ASSUME NEW L \in Lots, NEW P \in SUBSET Stay, Owners(L, P), NEW d \in Nat
  PROVE  Owners(Elapsed(L, d), StaysLater(P, d))
<1>1. \A p \in P : StayLater(p, d).id = p.id /\ StayLater(p, d).slot = p.slot
  BY StayLaterIs
<1>2. L.taken = {p.slot : p \in P} /\ Elapsed(L, d).taken = L.taken
  BY ElapsedIs DEF Owners
<1>3. {p.slot : p \in StaysLater(P, d)} = {p.slot : p \in P}
  BY <1>1 DEF StaysLater
<1>4. \A p, q \in StaysLater(P, d) : p.id = q.id \/ p.slot = q.slot => p = q
  BY <1>1 DEF StaysLater, Owners
<1>5. QED
  BY <1>2, <1>3, <1>4 DEF Owners

LEMMA ElapsedMovers ==
  ASSUME NEW L \in Lots, NEW P \in SUBSET Stay, Movers(L, P), NEW d \in Nat
  PROVE  Movers(Elapsed(L, d), StaysLater(P, d))
<1>1. /\ Elapsed(L, d).active = {CarLater(v, d) : v \in L.active}
      /\ L.active \subseteq Car
  BY ElapsedIs, LotIs
<1>2. \A v, w \in Elapsed(L, d).active : v.id = w.id => v = w
  <2> SUFFICES ASSUME NEW v \in L.active, NEW w \in L.active,
                      CarLater(v, d).id = CarLater(w, d).id
               PROVE  v = w
    BY <1>1
  <2>1. v.id = w.id
    BY <1>1, CarLaterIs
  <2>2. QED
    BY <2>1 DEF Movers
<1>3. ASSUME NEW v \in L.active, CarLater(v, d).status = "moving"
      PROVE  \E p \in StaysLater(P, d) :
               /\ p.id = CarLater(v, d).id /\ p.slot = CarLater(v, d).slot
               /\ RouteEnd(RouteOf(CarLater(v, d)), CarLater(v, d).start) <= p.depart
  <2>1. v \in Car /\ v.status = "moving"
    BY <1>1, <1>3, CarLaterIs
  <2>2. PICK p \in P : /\ p.id = v.id /\ p.slot = v.slot
                       /\ RouteEnd(RouteOf(v), v.start) <= p.depart
    BY <2>1 DEF Movers
  <2>3. RouteEnd(RouteOf(CarLater(v, d)), CarLater(v, d).start)
          = RouteEnd(RouteOf(v), v.start - d)
    BY <2>1, CarLaterIs
  <2>4. /\ v.start \in Int /\ RouteEnd(RouteOf(v), v.start) = RouteEnd(RouteOf(v), 0) + v.start
        /\ RouteEnd(RouteOf(v), v.start - d) = RouteEnd(RouteOf(v), 0) + (v.start - d)
        /\ RouteEnd(RouteOf(v), 0) \in Int
    BY <2>1, CarIs, RouteEndIs
  <2>5. /\ StayLater(p, d).depart >= p.depart - d /\ p.depart \in Int
        /\ StayLater(p, d).depart \in Int
    BY StayLaterIs, StayIs
  <2>6. RouteEnd(RouteOf(v), v.start - d) <= StayLater(p, d).depart
    BY <2>2, <2>4, <2>5
  <2>7. StayLater(p, d).id = CarLater(v, d).id /\ StayLater(p, d).slot = CarLater(v, d).slot
    BY <2>1, <2>2, StayLaterIs, CarLaterIs
  <2>8. QED
    BY <2>3, <2>6, <2>7 DEF StaysLater
<1>4. ASSUME NEW v \in L.active, CarLater(v, d).status = "exiting"
      PROVE  \A p \in StaysLater(P, d) : p.id # CarLater(v, d).id
  <2>1. v.status = "exiting" /\ CarLater(v, d).id = v.id
    BY <1>1, <1>4, CarLaterIs
  <2>2. \A p \in P : p.id # v.id /\ StayLater(p, d).id = p.id
    BY <2>1, StayLaterIs DEF Movers
  <2>3. QED
    BY <2>1, <2>2 DEF StaysLater
<1>5. QED
  BY <1>1, <1>2, <1>3, <1>4 DEF Movers

(* A waypoint of a route, as its entry has it, later.                      *)
LEMMA StartLater ==
  ASSUME NEW i \in Int, NEW t \in Int, NEW d \in Nat
  PROVE  /\ NodeStart(i, t - d) = NodeStart(i, t) - d
         /\ Clip(Clip(NodeStart(i, t)) - d) = Clip(NodeStart(i, t - d))
<1>1. /\ NodeStart(i, t) = NodeStart(i, 0) + t /\ NodeStart(i, 0) \in Int
      /\ NodeStart(i, t) \in Int
  BY Shifted
<1>2. t - d \in Int
  OBVIOUS
<1>3. NodeStart(i, t - d) = NodeStart(i, 0) + (t - d)
  BY <1>2, Shifted
<1>4. NodeStart(i, t - d) = NodeStart(i, t) - d
  BY <1>1, <1>3
<1>5. Clip(Clip(NodeStart(i, t)) - d) = Clip(NodeStart(i, t) - d)
  BY <1>1, Clipped
<1>6. QED
  BY <1>4, <1>5

LEMMA OnWayLater ==
  ASSUME NEW v \in Car, NEW r \in TableEntry, OnWay(v, r), NEW d \in Nat
  PROVE  OnWay(CarLater(v, d), EntryLater(r, d))
<1>1. PICK i \in DOMAIN RouteOf(v) :
        RouteOf(v)[i] = r.node /\ r.end = Clip(NodeStart(i + 1, v.start))
  BY DEF OnWay
<1>2. i + 1 \in Int /\ v.start \in Int
  BY RouteIs, CarIs
<1>3. EntryLater(r, d).end = Clip(NodeStart(i + 1, CarLater(v, d).start))
  <2>1. Clip(r.end - d) = Clip(NodeStart(i + 1, v.start - d))
    BY <1>1, <1>2, StartLater
  <2>2. QED
    BY <2>1, EntryLaterIs, CarLaterIs
<1>4. i \in DOMAIN RouteOf(CarLater(v, d)) /\ RouteOf(CarLater(v, d))[i] = EntryLater(r, d).node
  BY <1>1, EntryLaterIs, CarLaterIs
<1>5. QED
  BY <1>3, <1>4 DEF OnWay

LEMMA EntryForLater ==
  ASSUME NEW v \in Car, NEW r \in TableEntry, NEW i \in DOMAIN RouteOf(v),
         EntryFor(v, i, r), NEW d \in Nat
  PROVE  EntryFor(CarLater(v, d), i, EntryLater(r, d))
<1>1. i \in Int /\ i + 1 \in Int /\ v.start \in Int
  BY RouteIs, CarIs
<1>2. r.start = Clip(NodeStart(i, v.start)) /\ r.end = Clip(NodeStart(i + 1, v.start))
  BY DEF EntryFor
<1>3. /\ Clip(r.start - d) = Clip(NodeStart(i, v.start - d))
      /\ Clip(r.end - d) = Clip(NodeStart(i + 1, v.start - d))
  BY <1>1, <1>2, StartLater
<1>4. r.id = v.id /\ r.node = RouteOf(v)[i]
  BY DEF EntryFor
<1>5. QED
  BY <1>3, <1>4, EntryLaterIs, CarLaterIs DEF EntryFor

LEMMA ApartLater ==
  ASSUME NEW v \in Car, NEW w \in Car, Apart(v, w), NEW d \in Nat
  PROVE  Apart(CarLater(v, d), CarLater(w, d))
<1>1. /\ RouteOf(CarLater(v, d)) = RouteOf(v) /\ RouteOf(CarLater(w, d)) = RouteOf(w)
      /\ CarLater(v, d).start = v.start - d /\ CarLater(w, d).start = w.start - d
  BY CarLaterIs
<1>2. SUFFICES ASSUME NEW i \in DOMAIN RouteOf(v), NEW j \in DOMAIN RouteOf(w),
                      RouteOf(v)[i] = RouteOf(w)[j]
               PROVE  \/ NodeStart(j, w.start - d) - NodeStart(i, v.start - d)
                           >= NodeTravelTime + SafetyMargin
                      \/ NodeStart(i, v.start - d) - NodeStart(j, w.start - d)
                           >= NodeTravelTime + SafetyMargin
  BY <1>1 DEF Apart
<1>3. PICK a, b, s : /\ a = NodeStart(i, v.start) /\ b = NodeStart(j, w.start)
                     /\ s = NodeTravelTime + SafetyMargin
  OBVIOUS
<1>4. b - a >= s \/ a - b >= s
  BY <1>2, <1>3 DEF Apart
<1>5. i \in Int /\ j \in Int /\ v.start \in Int /\ w.start \in Int
  BY RouteIs, CarIs
<1>6. /\ NodeStart(i, v.start - d) = a - d /\ NodeStart(j, w.start - d) = b - d
      /\ a \in Int /\ b \in Int
  <2>1. NodeStart(i, v.start - d) = NodeStart(i, v.start) - d
    BY <1>5, StartLater
  <2>2. NodeStart(j, w.start - d) = NodeStart(j, w.start) - d
    BY <1>5, StartLater
  <2>3. NodeStart(i, v.start) \in Int /\ NodeStart(j, w.start) \in Int
    BY <1>5, Shifted
  <2>4. QED
    BY <1>3, <2>1, <2>2, <2>3
<1>7. s \in Int
  BY <1>3, EnvBounds
<1>8. (b - d) - (a - d) >= s \/ (a - d) - (b - d) >= s
  BY <1>4, <1>6, <1>7
<1>9. QED
  BY <1>3, <1>6, <1>8

LEMMA ElapsedNoGhosts ==
  ASSUME NEW L \in Lots, NEW P \in SUBSET Stay, NoGhosts(L, P), NEW d \in Nat
  PROVE  NoGhosts(Elapsed(L, d), StaysLater(P, d))
<1>1. /\ Elapsed(L, d).active = {CarLater(v, d) : v \in L.active}
      /\ Elapsed(L, d).table = {EntryLater(r, d) : r \in L.table}
      /\ L.active \subseteq Car /\ L.table \subseteq TableEntry
  BY ElapsedIs, LotIs
<1>2. SUFFICES ASSUME NEW r \in L.table
               PROVE  \/ \E p \in StaysLater(P, d) : p.id = EntryLater(r, d).id
                      \/ \E v \in Elapsed(L, d).active :
                           /\ v.id = EntryLater(r, d).id /\ v.status = "exiting"
                           /\ OnWay(v, EntryLater(r, d))
  BY <1>1 DEF NoGhosts
<1>3. r \in TableEntry /\ EntryLater(r, d).id = r.id
  BY <1>1, EntryLaterIs
<1>4. CASE \E p \in P : p.id = r.id
  BY <1>3, <1>4, StayLaterIs DEF StaysLater
<1>5. CASE \E v \in L.active : v.id = r.id /\ v.status = "exiting" /\ OnWay(v, r)
  <2>1. PICK v \in L.active : v.id = r.id /\ v.status = "exiting" /\ OnWay(v, r)
    BY <1>5
  <2>2. OnWay(CarLater(v, d), EntryLater(r, d))
    BY <1>1, <1>3, <2>1, OnWayLater
  <2>3. CarLater(v, d).id = EntryLater(r, d).id /\ CarLater(v, d).status = "exiting"
    BY <1>1, <1>3, <2>1, CarLaterIs
  <2>4. QED
    BY <1>1, <2>2, <2>3
<1>6. QED
  BY <1>4, <1>5 DEF NoGhosts

LEMMA ElapsedWays ==
  ASSUME NEW L \in Lots, WaysKept(L), NEW d \in Nat
  PROVE  WaysKept(Elapsed(L, d))
<1>1. /\ Elapsed(L, d).active = {CarLater(v, d) : v \in L.active}
      /\ Elapsed(L, d).table = {EntryLater(r, d) : r \in L.table}
      /\ L.active \subseteq Car /\ L.table \subseteq TableEntry
  BY ElapsedIs, LotIs
<1>2. SUFFICES ASSUME NEW v \in L.active, NEW i \in DOMAIN RouteOf(CarLater(v, d))
               PROVE  \E r \in Elapsed(L, d).table : EntryFor(CarLater(v, d), i, r)
  BY <1>1 DEF WaysKept
<1>3. v \in Car /\ i \in DOMAIN RouteOf(v)
  BY <1>1, <1>2, CarLaterIs
<1>4. PICK r \in L.table : EntryFor(v, i, r)
  BY <1>3 DEF WaysKept
<1>5. EntryFor(CarLater(v, d), i, EntryLater(r, d))
  BY <1>1, <1>3, <1>4, EntryForLater
<1>6. QED
  BY <1>1, <1>5

LEMMA ElapsedApart ==
  ASSUME NEW L \in Lots, AllApart(L), NEW d \in Nat
  PROVE  AllApart(Elapsed(L, d))
<1>1. /\ Elapsed(L, d).active = {CarLater(v, d) : v \in L.active}
      /\ L.active \subseteq Car
  BY ElapsedIs, LotIs
<1>2. SUFFICES ASSUME NEW v \in L.active, NEW w \in L.active, CarLater(v, d) # CarLater(w, d)
               PROVE  Apart(CarLater(v, d), CarLater(w, d))
  BY <1>1 DEF AllApart
<1>3. v # w
  BY <1>2
<1>4. Apart(v, w)
  BY <1>3 DEF AllApart
<1>5. QED
  BY <1>1, <1>4, ApartLater

LEMMA HorizonIs ==
  ASSUME NEW n
  PROVE  Horizon(n) \in Int
BY LatestIs, EnvBounds DEF Horizon

LEMMA ElapsedWithin ==
  ASSUME NEW L \in Lots, NEW P \in SUBSET Stay, NEW b \in Int, Within(L.table, P, b),
         NEW d \in Nat
  PROVE  Within(Elapsed(L, d).table, StaysLater(P, d), b + d)
<1>1. /\ Elapsed(L, d).table = {EntryLater(r, d) : r \in L.table}
      /\ L.table \subseteq TableEntry
  BY ElapsedIs, LotIs
<1>2. SUFFICES ASSUME NEW r \in L.table
               PROVE  \/ HeldBy(StaysLater(P, d), EntryLater(r, d))
                      \/ EntryLater(r, d).end <= Horizon(EntryLater(r, d).node) - (b + d)
                      \/ EntryLater(r, d).end <= -SafetyMargin
  BY <1>1 DEF Within
<1>3. /\ r \in TableEntry /\ EntryLater(r, d).id = r.id /\ EntryLater(r, d).node = r.node
      /\ EntryLater(r, d).end = Clip(r.end - d) /\ r.end \in Int
  BY <1>1, EntryLaterIs, EntryIs
<1>4. CASE HeldBy(P, r)
  BY <1>3, <1>4, StayLaterIs DEF StaysLater, HeldBy
<1>5. CASE r.end <= Horizon(r.node) - b
  <2>1. Clip(r.end - d) = r.end - d \/ Clip(r.end - d) = -SafetyMargin
    BY <1>3, Clipped
  <2>2. PICK h \in Int : h = Horizon(r.node)
    BY HorizonIs
  <2>3. r.end - d <= h - (b + d)
    BY <1>3, <1>5, <2>2
  <2>4. QED
    BY <1>3, <2>1, <2>2, <2>3, LatestIs
<1>6. CASE r.end <= -SafetyMargin
  BY <1>3, <1>6, EnvBounds DEF Clip, Floor
<1>7. QED
  BY <1>2, <1>4, <1>5, <1>6 DEF Within

LEMMA WithinLess ==
  ASSUME NEW T \in SUBSET TableEntry, NEW P, NEW b \in Int, NEW c \in Int, c <= b,
         Within(T, P, b)
  PROVE  Within(T, P, c)
<1>1. SUFFICES ASSUME NEW r \in T, r.end <= Horizon(r.node) - b
               PROVE  r.end <= Horizon(r.node) - c
  BY DEF Within
<1>2. PICK h \in Int : h = Horizon(r.node)
  BY HorizonIs
<1>3. r.end \in Int
  BY EntryIs
<1>4. QED
  BY <1>1, <1>2, <1>3

LEMMA ElapsedBooks ==
  ASSUME NEW L, NEW P, Books(L, P), NEW d \in Nat
  PROVE  Books(Elapsed(L, d), StaysLater(P, d))
<1>1. L \in Lots /\ P \in SUBSET Stay /\ BooksTyped(L, P)
  BY DEF Books, BooksTyped
<1>2. BooksTyped(Elapsed(L, d), StaysLater(P, d))
  BY <1>1, ElapsedTyped
<1>3. Owners(Elapsed(L, d), StaysLater(P, d)) /\ Movers(Elapsed(L, d), StaysLater(P, d))
  BY <1>1, ElapsedOwners, ElapsedMovers DEF Books
<1>4. NoGhosts(Elapsed(L, d), StaysLater(P, d)) /\ WaysKept(Elapsed(L, d))
  BY <1>1, ElapsedNoGhosts, ElapsedWays DEF Books
<1>5. AllApart(Elapsed(L, d))
  BY <1>1, ElapsedApart DEF Books
<1>6. Within(Elapsed(L, d).table, StaysLater(P, d), 0)
  <2>1. Within(Elapsed(L, d).table, StaysLater(P, d), 0 + d)
    BY <1>1, ElapsedWithin DEF Books
  <2>2. Elapsed(L, d).table \in SUBSET TableEntry
    BY <1>2, LotIs DEF BooksTyped
  <2>3. QED
    BY <2>1, <2>2, WithinLess
<1>7. QED
  BY <1>2, <1>3, <1>4, <1>5, <1>6 DEF Books

-----------------------------------------------------------------------------
(* Cars arrive.                                                            *)
GoneIds(L) == {v.id : v \in {w \in L.active : Arrived(w) /\ LeavesTable(w)}}

LEMMA MovedIs ==
  ASSUME NEW L \in Lots
  PROVE  /\ Moved(L) \in Lots /\ Moved(L).taken = L.taken /\ Moved(L).parked = L.parked
         /\ Moved(L).active = {v \in L.active : ~Arrived(v)}
         /\ Moved(L).table = {r \in L.table : r.id \notin GoneIds(L)}
<1> DEFINE A == {v \in L.active : ~Arrived(v)}
           T == {r \in L.table : r.id \notin GoneIds(L)}
<1>1. Moved(L) = [L EXCEPT !.active = A, !.table = T]
  BY DEF Moved, GoneIds
<1>2. A \subseteq Car /\ T \subseteq TableEntry
  BY LotIs
<1> HIDE DEF A, T
<1>3. [L EXCEPT !.active = A, !.table = T] \in Lots
  BY <1>2 DEF Lots
<1>4. Moved(L).taken = L.taken /\ Moved(L).parked = L.parked
  BY <1>1 DEF Lots
<1>5. Moved(L).active = A
  BY <1>1 DEF Lots
<1>6. Moved(L).table = T
  BY <1>1 DEF Lots
<1>7. QED
  BY <1>1, <1>3, <1>4, <1>5, <1>6 DEF A, T

LEMMA MovedBooks ==
  ASSUME NEW L, NEW P, Books(L, P)
  PROVE  Books(Moved(L), P) /\ Running(Moved(L))
<1>1. /\ L \in Lots /\ P \in SUBSET Stay /\ IsFiniteSet(L.active) /\ IsFiniteSet(L.table)
      /\ L.active \subseteq Car /\ L.table \subseteq TableEntry
  BY LotIs DEF Books, BooksTyped
<1>2. /\ Moved(L) \in Lots /\ Moved(L).taken = L.taken
      /\ Moved(L).active = {v \in L.active : ~Arrived(v)}
      /\ Moved(L).table = {r \in L.table : r.id \notin GoneIds(L)}
      /\ Moved(L).active \subseteq L.active /\ Moved(L).table \subseteq L.table
  BY <1>1, MovedIs
<1>3. BooksTyped(Moved(L), P)
  BY <1>1, <1>2, FS_Subset DEF BooksTyped
<1>4. Owners(Moved(L), P)
  BY <1>2 DEF Books, Owners
<1>5. Movers(Moved(L), P)
  BY <1>2 DEF Books, Movers
<1>6. NoGhosts(Moved(L), P)
  <2> SUFFICES ASSUME NEW r \in Moved(L).table, ~\E p \in P : p.id = r.id
               PROVE  \E v \in Moved(L).active :
                        v.id = r.id /\ v.status = "exiting" /\ OnWay(v, r)
    BY DEF NoGhosts
  <2>1. PICK v \in L.active : v.id = r.id /\ v.status = "exiting" /\ OnWay(v, r)
    BY <1>2 DEF Books, NoGhosts
  <2>2. ~Arrived(v)
    BY <1>2, <2>1 DEF GoneIds, LeavesTable
  <2>3. QED
    BY <1>2, <2>1, <2>2
<1>7. WaysKept(Moved(L))
  <2> SUFFICES ASSUME NEW v \in Moved(L).active, NEW i \in DOMAIN RouteOf(v)
               PROVE  \E r \in Moved(L).table : EntryFor(v, i, r)
    BY DEF WaysKept
  <2>1. v \in L.active /\ ~Arrived(v)
    BY <1>2
  <2>2. PICK r \in L.table : EntryFor(v, i, r)
    BY <2>1 DEF Books, WaysKept
  <2>3. \A w \in L.active : w.id = v.id => w = v
    BY <2>1 DEF Books, Movers
  <2>4. v.id \notin GoneIds(L)
    BY <2>1, <2>3 DEF GoneIds
  <2>5. r.id = v.id
    BY <2>2 DEF EntryFor
  <2>6. QED
    BY <1>2, <2>2, <2>4, <2>5
<1>8. AllApart(Moved(L))
  BY <1>2 DEF Books, AllApart
<1>9. Within(Moved(L).table, P, 0)
  BY <1>2 DEF Books, Within
<1>10. Running(Moved(L))
  <2> SUFFICES ASSUME NEW v \in Moved(L).active
               PROVE  RouteEnd(RouteOf(v), v.start) > 0
    BY DEF Running
  <2>1. v \in Car /\ ~(RouteEnd(RouteOf(v), v.start) <= 0)
    BY <1>1, <1>2 DEF Arrived
  <2>2. RouteEnd(RouteOf(v), v.start) \in Int
    BY <2>1, CarIs, RouteEndIs
  <2>3. QED
    BY <2>1, <2>2
<1>11. QED
  BY <1>3, <1>4, <1>5, <1>6, <1>7, <1>8, <1>9, <1>10 DEF Books

-----------------------------------------------------------------------------
(* A route is booked.                                                      *)

LEMMA Ahead ==
  ASSUME NEW v \in Car, NEW i \in DOMAIN RouteOf(v)
  PROVE  /\ NodeStart(i, 0) \in Moments /\ NodeStart(i + 1, 0) \in Moments
         /\ NodeStart(i, 0) >= 0 /\ NodeStart(i + 1, 0) >= 0
         /\ Clip(NodeStart(i, 0)) = NodeStart(i, 0)
         /\ Clip(NodeStart(i + 1, 0)) = NodeStart(i + 1, 0)
<1>1. i \in Int /\ i + 1 \in Int /\ 1 \in Int /\ 0 \in Int /\ 1 <= i
  BY RouteIs
<1>2. /\ NodeStart(i, 0) \in Int /\ NodeStart(i + 1, 0) = NodeStart(i, 0) + NodeTravelTime
      /\ NodeStart(1, 0) = 0
  BY <1>1, Shifted
<1>3. NodeStart(1, 0) <= NodeStart(i, 0)
  BY <1>1, LaterNodes
<1>4. NodeStart(i + 1, 0) <= (Columns + 3) * NodeTravelTime
  <2>1. /\ NodeStart(i + 1, 0) <= RouteEnd(RouteOf(v), 0)
        /\ RouteEnd(RouteOf(v), 0) <= (Columns + 3) * NodeTravelTime
        /\ RouteEnd(RouteOf(v), 0) \in Int
    BY <1>1, RouteEndIs
  <2>2. (Columns + 3) * NodeTravelTime \in Int /\ NodeTravelTime \in Int
    BY LatestIs, EnvBounds
  <2>3. QED
    BY <1>2, <2>1, <2>2
<1>5. (Columns + 3) * NodeTravelTime <= Latest /\ (Columns + 3) * NodeTravelTime \in Int
      /\ Latest \in Int /\ NodeTravelTime \in Nat /\ SafetyMargin \in Nat
  BY LatestIs, EnvBounds, LongestStay
<1>6. PICK a, b, z, m : /\ a = NodeStart(i, 0) /\ b = NodeStart(i + 1, 0)
                        /\ z = (Columns + 3) * NodeTravelTime /\ m = SafetyMargin
  OBVIOUS
<1>7. /\ a >= 0 /\ b = a + NodeTravelTime /\ b <= z /\ z <= Latest
      /\ a \in Int /\ z \in Int /\ b \in Int
  BY <1>2, <1>3, <1>4, <1>5, <1>6
<1>8. a \in Moments /\ b \in Moments /\ b >= 0
  BY <1>5, <1>6, <1>7 DEF Moments
<1>9. a >= -SafetyMargin /\ b >= -SafetyMargin
  BY <1>5, <1>7, <1>8
<1>10. Clip(a) = a /\ Clip(b) = b
  BY <1>7, <1>9, Clipped
<1>11. QED
  BY <1>6, <1>7, <1>8, <1>10

LEMMA BookedIs ==
  ASSUME NEW v \in Car, v.start = 0
  PROVE  /\ Booked(RouteOf(v), 0, v.id) \subseteq TableEntry
         /\ IsFiniteSet(Booked(RouteOf(v), 0, v.id))
         /\ \A r \in Booked(RouteOf(v), 0, v.id) :
              \E i \in DOMAIN RouteOf(v) : EntryFor(v, i, r) /\ r.end = NodeStart(i + 1, 0)
         /\ \A i \in DOMAIN RouteOf(v) : \E r \in Booked(RouteOf(v), 0, v.id) : EntryFor(v, i, r)
<1> DEFINE e(i) == [node |-> RouteOf(v)[i], id |-> v.id, start |-> NodeStart(i, 0),
                    end |-> NodeStart(i, 0) + NodeTravelTime]
<1>1. Booked(RouteOf(v), 0, v.id) = {e(i) : i \in DOMAIN RouteOf(v)}
  BY DEF Booked
<1>2. ASSUME NEW i \in DOMAIN RouteOf(v)
      PROVE  e(i) \in TableEntry /\ EntryFor(v, i, e(i)) /\ e(i).end = NodeStart(i + 1, 0)
  <2>1. /\ NodeStart(i, 0) \in Moments /\ NodeStart(i + 1, 0) \in Moments
        /\ Clip(NodeStart(i, 0)) = NodeStart(i, 0)
        /\ Clip(NodeStart(i + 1, 0)) = NodeStart(i + 1, 0)
    BY Ahead
  <2>2. i \in Int /\ 0 \in Int
    BY RouteIs
  <2>3. NodeStart(i, 0) + NodeTravelTime = NodeStart(i + 1, 0)
    BY <2>2, Shifted
  <2>4. RouteOf(v)[i] \in Nodes /\ v.id \in CarIds
    BY RouteIs, CarIs
  <2>5. PICK x, y : x = NodeStart(i, 0) /\ y = NodeStart(i + 1, 0)
    OBVIOUS
  <2>6. e(i) = [node |-> RouteOf(v)[i], id |-> v.id, start |-> x, end |-> y]
    BY <2>3, <2>5
  <2> HIDE DEF e
  <2>7. e(i) \in TableEntry
    BY <2>1, <2>4, <2>5, <2>6 DEF TableEntry
  <2>8. /\ e(i).id = v.id /\ e(i).node = RouteOf(v)[i] /\ e(i).start = x /\ e(i).end = y
    BY <2>6
  <2>9. QED
    BY <2>1, <2>5, <2>7, <2>8 DEF EntryFor
<1>3. IsFiniteSet({e(i) : i \in DOMAIN RouteOf(v)})
  <2>1. PICK n \in 4 .. Columns + 3 : DOMAIN RouteOf(v) = 1 .. n
    BY RouteIs
  <2>2. n \in Int /\ 1 \in Int
    BY EnvBounds
  <2>3. IsFiniteSet(DOMAIN RouteOf(v))
    BY <2>1, <2>2, FS_Interval
  <2>4. PICK f : f = [i \in DOMAIN RouteOf(v) |-> e(i)]
    OBVIOUS
  <2> HIDE DEF e
  <2>5. IsFiniteSet({f[i] : i \in DOMAIN RouteOf(v)})
    BY <2>3, <2>4, FiniteImage
  <2>6. {f[i] : i \in DOMAIN RouteOf(v)} = {e(i) : i \in DOMAIN RouteOf(v)}
    BY <2>4
  <2>7. QED
    BY <2>5, <2>6
<1> HIDE DEF e
<1>4. QED
  BY <1>1, <1>2, <1>3

(* The waypoints of the two routes, and how soon each is passed.           *)
LEMMA PassedBy ==
  ASSUME NEW i \in Int, NEW n \in Int, i <= n, n <= Columns + 3
  PROVE  /\ NodeStart(i + 1, 0) <= (Columns + 3) * NodeTravelTime
         /\ n <= Columns + 2 => NodeStart(i + 1, 0) <= (Columns + 2) * NodeTravelTime
<1>1. \A k \in Int : NodeStart(k + 1, 0) = k * NodeTravelTime
  <2> TAKE k \in Int
  <2>1. k + 1 - 1 = k /\ k * NodeTravelTime \in Int
    BY EnvBounds
  <2>2. NodeStart(k + 1, 0) = 0 + k * NodeTravelTime
    BY <2>1 DEF NodeStart
  <2>3. QED
    BY <2>1, <2>2
<1>2. PICK k \in Int : k = Columns + 2
  BY EnvBounds
<1>3. Columns + 3 = k + 1 /\ i + 1 \in Int /\ k + 1 \in Int /\ k + 1 + 1 \in Int
  BY <1>2, EnvBounds
<1>4. i + 1 <= k + 1 + 1 /\ (n <= k => i + 1 <= k + 1)
  BY <1>3
<1>5. /\ NodeStart(i + 1, 0) <= NodeStart(k + 1 + 1, 0)
      /\ n <= k => NodeStart(i + 1, 0) <= NodeStart(k + 1, 0)
  <2>1. NodeStart(i + 1, 0) <= NodeStart(k + 1 + 1, 0)
    BY <1>3, <1>4, LaterNodes
  <2>2. ASSUME n <= k PROVE NodeStart(i + 1, 0) <= NodeStart(k + 1, 0)
    BY <1>3, <1>4, <2>2, LaterNodes
  <2>3. QED
    BY <2>1, <2>2
<1>6. NodeStart(k + 1 + 1, 0) = (k + 1) * NodeTravelTime /\ NodeStart(k + 1, 0) = k * NodeTravelTime
  BY <1>1, <1>3
<1>7. QED
  BY <1>2, <1>3, <1>5, <1>6

LEMMA ExitHorizon ==
  ASSUME NEW s \in Slots, NEW i \in DOMAIN ExitRoute(s)
  PROVE  NodeStart(i + 1, 0) <= Horizon(ExitRoute(s)[i])
<1>1. PICK c \in 1 .. Columns : c = s[2]
  BY SlotIs
<1>2. i \in 1 .. c + 3 /\ c \in Int /\ i \in Int /\ Columns \in Nat
  BY <1>1, ExitRouteIs, EnvBounds
<1>3. CASE i = 1
  <2>1. NodeStart(1 + 1, 0) = NodeStart(1, 0) + NodeTravelTime /\ NodeStart(1, 0) = 0
    BY Shifted
  <2>2. NodeStart(i + 1, 0) = NodeTravelTime
    BY <1>3, <2>1, EnvBounds
  <2>3. Horizon(ExitRoute(s)[i]) = NodeTravelTime
    BY <1>3, ExitRouteIs DEF Horizon
  <2>4. QED
    BY <2>2, <2>3, EnvBounds
<1>4. CASE i = c + 3
  <2>1. ExitRoute(s)[i] = LotExit /\ LotExit \notin Slots
    BY <1>1, <1>4, ExitRouteIs, SlotIs
  <2>2. i <= i /\ i <= Columns + 3
    BY <1>2, <1>4
  <2>3. NodeStart(i + 1, 0) <= (Columns + 3) * NodeTravelTime
    BY <1>2, <2>2, PassedBy
  <2>4. QED
    BY <2>1, <2>3 DEF Horizon
<1>5. CASE i # 1 /\ i # c + 3
  <2>1. i \in 2 .. c + 1 \/ i = c + 2
    BY <1>2, <1>5
  <2>2. ExitRoute(s)[i] = Junction \/ \E k \in Int : ExitRoute(s)[i] = LanePoint(k)
    <3>1. CASE i = c + 2
      BY <1>1, <3>1, ExitRouteIs
    <3>2. CASE i \in 2 .. c + 1
      <4>1. ExitRoute(s)[i] = LanePoint(c + 2 - i)
        BY <1>1, <3>2, ExitRouteIs
      <4>2. c + 2 - i \in Int
        BY <1>2
      <4>3. QED
        BY <4>1, <4>2
    <3>3. QED
      BY <2>1, <3>1, <3>2
  <2>3. ExitRoute(s)[i] \notin Slots /\ ExitRoute(s)[i] # LotExit
    BY <2>2, SlotIs, PointsApart
  <2>4. i <= Columns + 2 /\ Columns + 2 \in Int /\ Columns + 2 <= Columns + 3
    BY <1>2, <2>1
  <2>5. NodeStart(i + 1, 0) <= (Columns + 2) * NodeTravelTime
    BY <1>2, <2>4, PassedBy
  <2>6. QED
    BY <2>3, <2>5 DEF Horizon
<1>6. QED
  BY <1>3, <1>4, <1>5

LEMMA SlotHorizon ==
  ASSUME NEW s \in Slots, NEW i \in DOMAIN SlotRoute(s)
  PROVE  SlotRoute(s)[i] = s \/ NodeStart(i + 1, 0) <= Horizon(SlotRoute(s)[i])
<1>1. PICK c \in 1 .. Columns : c = s[2]
  BY SlotIs
<1>2. i \in 1 .. c + 3 /\ c \in Int /\ i \in Int /\ Columns \in Nat
  BY <1>1, SlotRouteIs, EnvBounds
<1>3. CASE i = c + 3
  BY <1>1, <1>3, SlotRouteIs
<1>4. CASE i # c + 3
  <2>1. i = 1 \/ i = 2 \/ i \in 3 .. c + 2
    BY <1>2, <1>4
  <2>2. \/ SlotRoute(s)[i] = Entrance \/ SlotRoute(s)[i] = Junction
        \/ \E k \in Int : SlotRoute(s)[i] = LanePoint(k)
    <3>1. CASE i = 1 \/ i = 2
      BY <3>1, SlotRouteIs
    <3>2. CASE i \in 3 .. c + 2
      <4>1. SlotRoute(s)[i] = LanePoint(i - 2)
        BY <1>1, <3>2, SlotRouteIs
      <4>2. i - 2 \in Int
        BY <1>2
      <4>3. QED
        BY <4>1, <4>2
    <3>3. QED
      BY <2>1, <3>1, <3>2
  <2>3. SlotRoute(s)[i] \notin Slots /\ SlotRoute(s)[i] # LotExit
    BY <2>2, SlotIs, PointsApart
  <2>4. i <= Columns + 2 /\ Columns + 2 \in Int /\ Columns + 2 <= Columns + 3
    BY <1>2, <2>1
  <2>5. NodeStart(i + 1, 0) <= (Columns + 2) * NodeTravelTime
    BY <1>2, <2>4, PassedBy
  <2>6. QED
    BY <2>3, <2>5 DEF Horizon
<1>5. QED
  BY <1>3, <1>4

(* A route the shield lets through keeps clear of the ways in the table.   *)
LEMMA ClearTimes ==
  ASSUME NEW a \in Int, a >= 0, NEW b \in Int, NEW x \in Int, NEW y \in Int,
         x = Clip(b), y = Clip(b + NodeTravelTime),
         ~(a - Padding < y /\ x < a + NodeTravelTime + Padding)
  PROVE  \/ b - a >= NodeTravelTime + SafetyMargin
         \/ a - b >= NodeTravelTime + SafetyMargin
<1>1. NodeTravelTime \in Nat \ {0} /\ SafetyMargin \in Nat /\ Padding = SafetyMargin
  BY EnvBounds DEF Padding
<1>2. b + NodeTravelTime \in Int
  BY <1>1
<1>3. y >= b + NodeTravelTime /\ (x = b \/ x = -SafetyMargin)
  BY <1>2, Clipped
<1>4. QED
  BY <1>1, <1>3

LEMMA ShieldApart ==
  ASSUME NEW v \in Car, NEW x \in Car, x.start = 0, NEW T \in SUBSET TableEntry, NEW ex,
         v.id # ex, ~Conflict(RouteOf(x), T, ex),
         \A j \in DOMAIN RouteOf(v) : \E r \in T : EntryFor(v, j, r)
  PROVE  Apart(v, x) /\ Apart(x, v)
<1>1. ASSUME NEW j \in DOMAIN RouteOf(v), NEW i \in DOMAIN RouteOf(x),
             RouteOf(v)[j] = RouteOf(x)[i]
      PROVE  \/ NodeStart(j, v.start) - NodeStart(i, x.start)
                  >= NodeTravelTime + SafetyMargin
             \/ NodeStart(i, x.start) - NodeStart(j, v.start)
                  >= NodeTravelTime + SafetyMargin
  <2>1. PICK r \in T : EntryFor(v, j, r)
    OBVIOUS
  <2>2. i \in Int /\ j \in Int /\ v.start \in Int /\ 0 \in Int
    BY RouteIs, CarIs
  <2>3. PICK a, b : a = NodeStart(i, x.start) /\ b = NodeStart(j, v.start)
    OBVIOUS
  <2>4. a \in Int /\ a >= 0 /\ b \in Int /\ a = NodeStart(i, 0)
    <3>1. NodeStart(i, 0) \in Int /\ NodeStart(j, v.start) \in Int
      BY <2>2, Shifted
    <3>2. NodeStart(i, 0) >= 0
      BY Ahead
    <3>3. QED
      BY <2>3, <3>1, <3>2
  <2>5. NodeStart(j + 1, v.start) = b + NodeTravelTime
    BY <2>2, <2>3, Shifted
  <2>6. r.start = Clip(b) /\ r.end = Clip(b + NodeTravelTime) /\ r.id # ex /\ r.node = RouteOf(x)[i]
    BY <1>1, <2>1, <2>3, <2>5 DEF EntryFor
  <2>7. ~(a - Padding < r.end /\ r.start < a + NodeTravelTime + Padding)
    BY <2>4, <2>6 DEF Conflict
  <2>8. r.start \in Int /\ r.end \in Int
    BY EntryIs
  <2>9. \/ b - a >= NodeTravelTime + SafetyMargin
        \/ a - b >= NodeTravelTime + SafetyMargin
    BY <2>4, <2>6, <2>7, <2>8, ClearTimes
  <2>10. QED
    BY <2>3, <2>9
<1>2. QED
  BY <1>1 DEF Apart

-----------------------------------------------------------------------------
(* A car departs.                                                          *)
Leaver(p) == [id |-> p.id, slot |-> p.slot, status |-> "exiting", start |-> 0]

LEMMA LeaverIs ==
  ASSUME NEW p \in Stay
  PROVE  /\ Leaver(p) \in Car /\ Leaver(p).id = p.id /\ Leaver(p).slot = p.slot
         /\ Leaver(p).status = "exiting" /\ Leaver(p).start = 0
         /\ RouteOf(Leaver(p)) = ExitRoute(p.slot)
<1>1. Leaver(p) \in Car
  BY StayIs DEF Leaver, Car
<1>2. QED
  BY <1>1 DEF Leaver, RouteOf

LEMMA StaysPut ==
  ASSUME NEW L \in Lots, NEW p \in Stay, p.depart > 0 \/ Deferred(L, p)
  PROVE  /\ Departed(L, p) \in Lots
         /\ Departed(L, p).taken = L.taken /\ Departed(L, p).active = L.active
         /\ Departed(L, p).table = L.table
         /\ Departed(L, p).parked = Append(L.parked, p)
<1>1. FreedSlots(L, p) = {} /\ L.taken \ {} = L.taken
  BY DEF FreedSlots
<1>2. Departed(L, p) = [L EXCEPT !.parked = Append(L.parked, p), !.taken = L.taken]
  BY <1>1 DEF Departed
<1>3. PICK q : q = Append(L.parked, p)
  OBVIOUS
<1>4. q \in Seq(Stay)
  BY <1>3, LotIs, AppendProperties
<1>5. [L EXCEPT !.parked = q, !.taken = L.taken] \in Lots
  BY <1>4 DEF Lots
<1>6. QED
  BY <1>2, <1>3, <1>5 DEF Lots

LEMMA DrivesOut ==
  ASSUME NEW L \in Lots, NEW p \in Stay, ~(p.depart > 0), ~Deferred(L, p)
  PROVE  /\ Departed(L, p) \in Lots
         /\ Departed(L, p).taken = L.taken \ {p.slot}
         /\ Departed(L, p).active = L.active \cup {Leaver(p)}
         /\ Departed(L, p).parked = L.parked
         /\ Departed(L, p).table = Purged(L.table, p.id)
                                     \cup Booked(ExitRoute(p.slot), 0, p.id)
<1> DEFINE A == L.active \cup {Leaver(p)}
           K == L.taken \ {p.slot}
           T == Purged(L.table, p.id) \cup Booked(ExitRoute(p.slot), 0, p.id)
<1>1. FreedSlots(L, p) = {p.slot}
  BY DEF FreedSlots
<1>2. Departed(L, p) = [L EXCEPT !.taken = K, !.table = T, !.active = A]
  BY <1>1 DEF Departed, Leaver
<1>3. A \subseteq Car
  BY LotIs, LeaverIs
<1>4. K \subseteq Slots
  BY LotIs
<1>5. T \subseteq TableEntry
  <2>1. Booked(ExitRoute(p.slot), 0, p.id) \subseteq TableEntry
    BY LeaverIs, BookedIs
  <2>2. QED
    BY <2>1, LotIs DEF Purged
<1> HIDE DEF A, K, T
<1>6. [L EXCEPT !.taken = K, !.table = T, !.active = A] \in Lots
  BY <1>3, <1>4, <1>5 DEF Lots
<1>7. Departed(L, p).taken = K
  BY <1>2 DEF Lots
<1>8. Departed(L, p).active = A
  BY <1>2 DEF Lots
<1>9. Departed(L, p).table = T
  BY <1>2 DEF Lots
<1>10. Departed(L, p).parked = L.parked
  BY <1>2 DEF Lots
<1>11. QED
  BY <1>2, <1>6, <1>7, <1>8, <1>9, <1>10 DEF A, K, T

(* No car under way has the number of a stay that is due: the one that was *)
(* bound for its slot has arrived.                                         *)
LEMMA DueIsAlone ==
  ASSUME NEW L, NEW P, Books(L, P), Running(L), NEW p \in P, ~(p.depart > 0),
         NEW v \in L.active
  PROVE  v.id # p.id
<1>1. p \in Stay /\ v \in Car
  BY LotIs DEF Books, BooksTyped
<1>2. CASE v.status = "exiting"
  BY <1>2 DEF Books, Movers
<1>3. CASE v.status = "moving"
  <2>1. PICK q \in P : /\ q.id = v.id /\ q.slot = v.slot
                       /\ RouteEnd(RouteOf(v), v.start) <= q.depart
    BY <1>3 DEF Books, Movers
  <2>2. RouteEnd(RouteOf(v), v.start) \in Int /\ RouteEnd(RouteOf(v), v.start) > 0
    BY <1>1, CarIs, RouteEndIs DEF Running
  <2>3. q # p
    BY <1>1, <2>1, <2>2, StayIs
  <2>4. QED
    BY <2>1, <2>3 DEF Books, Owners
<1>4. QED
  BY <1>1, <1>2, <1>3, CarIs

LEMMA DepartedBooks ==
  ASSUME NEW L, NEW P, Books(L, P), Running(L), NEW p \in P,
         ~(p.depart > 0), ~Deferred(L, p)
  PROVE  Books(Departed(L, p), P \ {p}) /\ Running(Departed(L, p))
<1> DEFINE D == Departed(L, p)
           Q == P \ {p}
           x == Leaver(p)
           B == Booked(ExitRoute(p.slot), 0, p.id)
<1>1. /\ L \in Lots /\ P \in SUBSET Stay /\ p \in Stay
      /\ IsFiniteSet(L.active) /\ IsFiniteSet(L.table)
      /\ L.active \subseteq Car /\ L.table \subseteq TableEntry
  BY LotIs DEF Books, BooksTyped
<1>2. /\ D \in Lots /\ D.taken = L.taken \ {p.slot}
      /\ D.active = L.active \cup {x} /\ D.table = Purged(L.table, p.id) \cup B
  BY <1>1, DrivesOut
<1>3. /\ x \in Car /\ x.id = p.id /\ x.slot = p.slot /\ x.status = "exiting"
      /\ x.start = 0 /\ RouteOf(x) = ExitRoute(p.slot)
  BY <1>1, LeaverIs
<1>4. /\ B \subseteq TableEntry /\ IsFiniteSet(B)
      /\ \A r \in B : \E i \in DOMAIN RouteOf(x) :
           EntryFor(x, i, r) /\ r.end = NodeStart(i + 1, 0)
      /\ \A i \in DOMAIN RouteOf(x) : \E r \in B : EntryFor(x, i, r)
  BY <1>3, BookedIs
<1>5. \A v \in L.active : v.id # p.id
  BY DueIsAlone
<1>6. /\ D.active \subseteq Car /\ D.table \subseteq TableEntry
      /\ Purged(L.table, p.id) \subseteq L.table
      /\ \A r \in L.table : r.id # p.id => r \in D.table
      /\ \A r \in D.table : (r \in L.table /\ r.id # p.id) \/ r \in B
  BY <1>2, LotIs DEF Purged
<1> HIDE DEF D, B, x, Q
<1>7. BooksTyped(D, Q)
  <2>1. IsFiniteSet(D.active)
    BY <1>1, <1>2, FS_AddElement
  <2>2. IsFiniteSet(D.table)
    <3>1. IsFiniteSet(Purged(L.table, p.id))
      BY <1>1, <1>6, FS_Subset
    <3>2. IsFiniteSet(Purged(L.table, p.id) \cup B)
      BY <1>4, <3>1, FS_Union
    <3>3. QED
      BY <1>2, <3>2
  <2>3. QED
    BY <1>1, <1>2, <2>1, <2>2 DEF BooksTyped, Q
<1>8. Owners(D, Q)
  BY <1>2 DEF Owners, Books, Q
<1>9. Movers(D, Q)
  <2>1. \A v, w \in D.active : v.id = w.id => v = w
    BY <1>2, <1>3, <1>5 DEF Books, Movers
  <2>2. \A v \in D.active : v.status = "moving" =>
          \E q \in Q : /\ q.id = v.id /\ q.slot = v.slot
                       /\ RouteEnd(RouteOf(v), v.start) <= q.depart
    BY <1>2, <1>3, <1>5 DEF Books, Movers, Q
  <2>3. \A v \in D.active : v.status = "exiting" => \A q \in Q : q.id # v.id
    BY <1>2, <1>3 DEF Books, Movers, Owners, Q
  <2>4. QED
    BY <2>1, <2>2, <2>3 DEF Movers
<1>10. NoGhosts(D, Q)
  <2> SUFFICES ASSUME NEW r \in D.table
               PROVE  \/ \E q \in Q : q.id = r.id
                      \/ \E v \in D.active : v.id = r.id /\ v.status = "exiting" /\ OnWay(v, r)
    BY DEF NoGhosts
  <2>1. CASE r \in L.table /\ r.id # p.id
    BY <1>2, <2>1 DEF Books, NoGhosts, Q
  <2>2. CASE r \in B
    <3>1. PICK i \in DOMAIN RouteOf(x) : EntryFor(x, i, r)
      BY <1>4, <2>2
    <3>2. x.id = r.id /\ OnWay(x, r)
      BY <3>1 DEF EntryFor, OnWay
    <3>3. QED
      BY <1>2, <1>3, <3>2
  <2>3. QED
    BY <1>6, <2>1, <2>2
<1>11. WaysKept(D)
  <2> SUFFICES ASSUME NEW v \in D.active, NEW i \in DOMAIN RouteOf(v)
               PROVE  \E r \in D.table : EntryFor(v, i, r)
    BY DEF WaysKept
  <2>1. CASE v = x
    BY <1>2, <1>4, <2>1
  <2>2. CASE v \in L.active
    <3>1. PICK r \in L.table : EntryFor(v, i, r)
      BY <2>2 DEF Books, WaysKept
    <3>2. r.id # p.id
      BY <1>5, <2>2, <3>1 DEF EntryFor
    <3>3. QED
      BY <1>6, <3>1, <3>2
  <2>3. QED
    BY <1>2, <2>1, <2>2
<1>12. AllApart(D)
  <2>1. ~Conflict(RouteOf(x), L.table, p.id)
    BY <1>3 DEF Deferred
  <2>2. ASSUME NEW v \in L.active PROVE Apart(v, x) /\ Apart(x, v)
    <3>1. v \in Car /\ v.id # p.id /\ L.table \in SUBSET TableEntry
      BY <1>1, <1>5
    <3>2. \A j \in DOMAIN RouteOf(v) : \E r \in L.table : EntryFor(v, j, r)
      BY DEF Books, WaysKept
    <3>3. QED
      BY <1>3, <2>1, <3>1, <3>2, ShieldApart
  <2>3. QED
    BY <1>2, <2>2 DEF Books, AllApart
<1>13. Within(D.table, Q, 0)
  <2> SUFFICES ASSUME NEW r \in D.table
               PROVE  \/ HeldBy(Q, r) \/ r.end <= Horizon(r.node) - 0 \/ r.end <= -SafetyMargin
    BY DEF Within
  <2>1. CASE r \in L.table /\ r.id # p.id
    <3>1. HeldBy(P, r) => HeldBy(Q, r)
      BY <2>1 DEF HeldBy, Q
    <3>2. QED
      BY <2>1, <3>1 DEF Books, Within
  <2>2. CASE r \in B
    <3>1. PICK i \in DOMAIN RouteOf(x) : EntryFor(x, i, r) /\ r.end = NodeStart(i + 1, 0)
      BY <1>4, <2>2
    <3>2. r.node = ExitRoute(p.slot)[i] /\ i \in DOMAIN ExitRoute(p.slot)
      BY <1>3, <3>1 DEF EntryFor
    <3>3. NodeStart(i + 1, 0) <= Horizon(r.node)
      BY <1>1, <3>2, StayIs, ExitHorizon
    <3>4. PICK h \in Int : h = Horizon(r.node)
      BY HorizonIs
    <3>5. QED
      BY <3>1, <3>3, <3>4
  <2>3. QED
    BY <1>6, <2>1, <2>2
<1>14. Running(D)
  <2>1. RouteEnd(RouteOf(x), x.start) > 0
    <3>1. PICK n \in 4 .. Columns + 3 : n = Len(RouteOf(x))
      BY <1>3, RouteIs
    <3>2. n \in Nat /\ n # 0 /\ NodeTravelTime \in Nat /\ NodeTravelTime # 0
      BY EnvBounds
    <3>3. n * NodeTravelTime \in Int /\ n * NodeTravelTime > 0
      BY <3>2
    <3>4. RouteEnd(RouteOf(x), x.start) = 0 + n * NodeTravelTime
      BY <1>3, <3>1 DEF RouteEnd
    <3>5. QED
      BY <3>3, <3>4
  <2>2. QED
    BY <1>2, <2>1 DEF Running
<1>15. QED
  BY <1>7, <1>8, <1>9, <1>10, <1>11, <1>12, <1>13, <1>14 DEF Books, D, Q

-----------------------------------------------------------------------------
(* The departures, car by car.                                             *)
LEMMA UpTo ==
  ASSUME NEW N \in Nat, NEW S, 0 \in S,
         \A n \in 0 .. N : n \in S /\ n < N => n + 1 \in S
  PROVE  \A n \in 0 .. N : n \in S
<1> DEFINE T == {n \in 0 .. N : n \notin S}
<1> SUFFICES ASSUME T # {} PROVE FALSE
  OBVIOUS
<1>1. T \in SUBSET Nat
  OBVIOUS
<1>2. PICK m \in T : \A n \in T : m <= n
  BY <1>1, Least
<1>3. m \in 0 .. N /\ m # 0 /\ m - 1 \in 0 .. N /\ m - 1 < N /\ m - 1 + 1 = m
  BY <1>2
<1>4. m - 1 \notin T
  BY <1>2, <1>3
<1>5. QED
  BY <1>2, <1>3, <1>4

LEMMA DepartedUpToIs ==
  ASSUME NEW L, NEW N \in Nat, N = Len(L.parked)
  PROVE  /\ DepartedUpTo(L)[0] = [L EXCEPT !.parked = <<>>]
         /\ \A n \in 1 .. N :
              DepartedUpTo(L)[n] = Departed(DepartedUpTo(L)[n - 1], L.parked[n])
<1> DEFINE base == [L EXCEPT !.parked = <<>>]
           Loops(g, k) == /\ g = [n \in 0 .. k |-> g[n]] /\ g[0] = base
                          /\ \A n \in 1 .. k : g[n] = Departed(g[n - 1], L.parked[n])
           S == {k \in 0 .. N : \E g : Loops(g, k)}
<1> HIDE DEF base
<1>1. 0 \in S
  <2> DEFINE h == [n \in 0 .. 0 |-> base]
  <2>1. h = [n \in 0 .. 0 |-> h[n]] /\ h[0] = base
    OBVIOUS
  <2> HIDE DEF h
  <2>2. Loops(h, 0)
    BY <2>1
  <2>3. 0 \in 0 .. N
    OBVIOUS
  <2>4. QED
    BY <2>2, <2>3
<1>2. ASSUME NEW k \in 0 .. N, k \in S, k < N
      PROVE  k + 1 \in S
  <2>1. PICK g : Loops(g, k)
    BY <1>2
  <2> DEFINE h == [n \in 0 .. k + 1 |-> IF n <= k THEN g[n]
                                       ELSE Departed(g[k], L.parked[k + 1])]
  <2>2. h[0] = base
    BY <2>1
  <2>3. ASSUME NEW n \in 1 .. k + 1
        PROVE  h[n] = Departed(h[n - 1], L.parked[n])
    <3>1. n - 1 \in 0 .. k + 1 /\ n - 1 <= k /\ n \in 0 .. k + 1
      OBVIOUS
    <3>2. h[n - 1] = g[n - 1]
      BY <3>1
    <3>3. CASE n <= k
      <4>1. n \in 1 .. k /\ h[n] = g[n]
        BY <3>1, <3>3
      <4>2. QED
        BY <2>1, <3>2, <4>1
    <3>4. CASE n = k + 1
      <4>1. h[n] = Departed(g[k], L.parked[k + 1]) /\ n - 1 = k
        BY <3>1, <3>4
      <4>2. QED
        BY <3>2, <3>4, <4>1
    <3>5. QED
      BY <3>3, <3>4
  <2>4. h = [n \in 0 .. k + 1 |-> h[n]]
    OBVIOUS
  <2> HIDE DEF h
  <2>5. Loops(h, k + 1)
    BY <2>2, <2>3, <2>4
  <2>6. k + 1 \in 0 .. N
    BY <1>2
  <2>7. QED
    BY <2>5, <2>6
<1>3. N \in 0 .. N
  OBVIOUS
<1> HIDE DEF S
<1>4. N \in S
  BY <1>1, <1>2, <1>3, UpTo
<1>5. PICK g : Loops(g, N)
  BY <1>4 DEF S
<1> DEFINE F(u) == [n \in 0 .. N |-> IF n = 0 THEN base
                                    ELSE Departed(u[n - 1], L.parked[n])]
<1>6. g = F(g)
  <2>1. \A n \in 0 .. N : g[n] = F(g)[n]
    <3> TAKE n \in 0 .. N
    <3>1. CASE n = 0
      BY <1>5, <3>1
    <3>2. CASE n # 0
      <4>1. n \in 1 .. N
        BY <3>2
      <4>2. QED
        BY <1>5, <4>1
    <3>3. QED
      BY <3>1, <3>2
  <2>2. g = [n \in 0 .. N |-> g[n]]
    BY <1>5
  <2>3. QED
    BY <2>1, <2>2
<1>7. DepartedUpTo(L) = CHOOSE u : u = F(u)
  BY DEF DepartedUpTo, base
<1>8. DepartedUpTo(L) = F(DepartedUpTo(L))
  BY <1>6, <1>7
<1>9. PICK f : f = DepartedUpTo(L)
  OBVIOUS
<1>10. f = F(f)
  BY <1>8, <1>9
<1>11. f[0] = base
  BY <1>10
<1>12. \A n \in 1 .. N : f[n] = Departed(f[n - 1], L.parked[n])
  <2> TAKE n \in 1 .. N
  <2>1. n \in 0 .. N /\ n # 0
    OBVIOUS
  <2>2. QED
    BY <1>10, <2>1
<1>13. QED
  BY <1>9, <1>11, <1>12 DEF base

(* What the books say does not depend on the list.                         *)
LEMMA SameBooks ==
  ASSUME NEW L, NEW P, Books(L, P), Running(L), NEW M \in Lots,
         M.taken = L.taken, M.active = L.active, M.table = L.table
  PROVE  Books(M, P) /\ Running(M)
<1>1. BooksTyped(M, P)
  BY DEF Books, BooksTyped
<1>2. Owners(M, P) /\ Movers(M, P)
  BY DEF Books, Owners, Movers
<1>3. NoGhosts(M, P) /\ WaysKept(M)
  BY DEF Books, NoGhosts, WaysKept
<1>4. AllApart(M) /\ Within(M.table, P, 0)
  BY DEF Books, AllApart
<1>5. Running(M)
  BY DEF Running
<1>6. QED
  BY <1>1, <1>2, <1>3, <1>4, <1>5 DEF Books

(* The stays the departures have still to go through, and those left.      *)
Still(L, n) == {L.parked[k] : k \in n + 1 .. Len(L.parked)}
Left(L, n) == ToSet(DepartedUpTo(L)[n].parked) \cup Still(L, n)
Held(L, p) == p.depart > 0 \/ Deferred(L, p)
Kept(L, p) == p \in ToSet(L.parked) \/ Leaver(p) \in L.active

LoopInv(L, n) ==
  LET M == DepartedUpTo(L)[n] IN
  /\ Books(M, Left(L, n)) /\ Running(M)
  /\ \A k \in DOMAIN M.parked : \E j \in 1 .. n : M.parked[k] = L.parked[j]
  /\ NoRepeats(M.parked)
  /\ \A j \in 1 .. n : Kept(M, L.parked[j])
  /\ M.taken \subseteq L.taken
  /\ M.taken = L.taken => /\ M.table = L.table
                          /\ \A j \in 1 .. n : Held(L, L.parked[j])

LEMMA AppendList ==
  ASSUME NEW q \in Seq(Stay), NEW p \in Stay, NoRepeats(q), p \notin ToSet(q)
  PROVE  /\ NoRepeats(Append(q, p)) /\ ToSet(Append(q, p)) = ToSet(q) \cup {p}
         /\ \A k \in DOMAIN Append(q, p) :
              (k \in DOMAIN q /\ Append(q, p)[k] = q[k]) \/ Append(q, p)[k] = p
<1>1. PICK m \in Nat : m = Len(q) /\ DOMAIN q = 1 .. m
  BY LenProperties
<1>2. PICK a : a = Append(q, p)
  OBVIOUS
<1>3. /\ DOMAIN a = 1 .. m + 1 /\ a[m + 1] = p /\ \A k \in 1 .. m : a[k] = q[k]
  BY <1>1, <1>2, AppendProperties
<1>4. \A k \in 1 .. m + 1 : k \in 1 .. m \/ k = m + 1
  BY <1>1
<1>5. \A k \in DOMAIN a : (k \in DOMAIN q /\ a[k] = q[k]) \/ a[k] = p
  BY <1>1, <1>3, <1>4
<1>6. NoRepeats(a)
  <2> SUFFICES ASSUME NEW j \in 1 .. m + 1, NEW k \in 1 .. m + 1, j # k
               PROVE  a[j] # a[k]
    BY <1>3 DEF NoRepeats
  <2>1. CASE j \in 1 .. m /\ k \in 1 .. m
    BY <1>1, <1>3, <2>1 DEF NoRepeats
  <2>2. CASE j = m + 1 /\ k \in 1 .. m
    BY <1>1, <1>3, <2>2 DEF ToSet
  <2>3. CASE k = m + 1 /\ j \in 1 .. m
    BY <1>1, <1>3, <2>3 DEF ToSet
  <2>4. QED
    BY <1>4, <2>1, <2>2, <2>3
<1>7. ToSet(a) = ToSet(q) \cup {p}
  <2>1. \A k \in 1 .. m : k \in 1 .. m + 1
    BY <1>1
  <2>2. m + 1 \in 1 .. m + 1
    BY <1>1
  <2>3. QED
    BY <1>1, <1>3, <1>4, <2>1, <2>2 DEF ToSet
<1>8. QED
  BY <1>2, <1>5, <1>6, <1>7

LEMMA LoopStarts ==
  ASSUME NEW L, Books(L, ToSet(L.parked)), Running(L)
  PROVE  LoopInv(L, 0)
<1>1. L \in Lots /\ L.parked \in Seq(Stay)
  BY LotIs DEF Books, BooksTyped
<1>2. PICK N \in Nat : N = Len(L.parked) /\ DOMAIN L.parked = 1 .. N
  BY <1>1, LenProperties
<1>3. PICK M : M = DepartedUpTo(L)[0]
  OBVIOUS
<1>4. M = [L EXCEPT !.parked = <<>>]
  BY <1>2, <1>3, DepartedUpToIs
<1>5. /\ M \in Lots /\ M.taken = L.taken /\ M.active = L.active /\ M.table = L.table
      /\ M.parked = <<>>
  <2>1. <<>> \in Seq(Stay)
    BY EmptySeq
  <2>2. QED
    BY <1>1, <1>4, <2>1 DEF Lots
<1>6. Left(L, 0) = ToSet(L.parked)
  <2>1. 0 + 1 .. N = 1 .. N
    OBVIOUS
  <2>2. Still(L, 0) = ToSet(L.parked)
    BY <1>2, <2>1 DEF Still, ToSet
  <2>3. ToSet(M.parked) = {}
    BY <1>5 DEF ToSet
  <2>4. QED
    BY <1>3, <2>2, <2>3 DEF Left
<1>7. Books(M, ToSet(L.parked)) /\ Running(M)
  BY <1>5, SameBooks
<1>8. DOMAIN M.parked = {}
  BY <1>5
<1>9. \A j \in 1 .. 0 : FALSE
  OBVIOUS
<1>10. QED
  BY <1>3, <1>5, <1>6, <1>7, <1>8, <1>9 DEF LoopInv, NoRepeats

LEMMA LoopStep ==
  ASSUME NEW L, Books(L, ToSet(L.parked)), NoRepeats(L.parked),
         NEW n \in Nat, n + 1 \in DOMAIN L.parked, LoopInv(L, n)
  PROVE  LoopInv(L, n + 1)
<1>1. L \in Lots /\ L.parked \in Seq(Stay)
  BY LotIs DEF Books, BooksTyped
<1>2. PICK N \in Nat : N = Len(L.parked) /\ DOMAIN L.parked = 1 .. N
  BY <1>1, LenProperties
<1>3. PICK p \in Stay : p = L.parked[n + 1]
  BY <1>1, <1>2, ElementOfSeq
<1>4. PICK M, D, R : /\ M = DepartedUpTo(L)[n] /\ D = DepartedUpTo(L)[n + 1]
                     /\ R = Left(L, n)
  OBVIOUS
<1>5. n + 1 \in 1 .. N /\ n + 1 - 1 = n /\ n <= N
  BY <1>2
<1>6. D = Departed(M, p)
  <2>1. \A k \in 1 .. N : DepartedUpTo(L)[k] = Departed(DepartedUpTo(L)[k - 1], L.parked[k])
    BY <1>2, DepartedUpToIs
  <2>2. DepartedUpTo(L)[n + 1] = Departed(DepartedUpTo(L)[n + 1 - 1], L.parked[n + 1])
    BY <1>5, <2>1
  <2>3. QED
    BY <1>3, <1>4, <1>5, <2>2
<1>7. /\ Books(M, R) /\ Running(M) /\ NoRepeats(M.parked)
      /\ \A k \in DOMAIN M.parked : \E j \in 1 .. n : M.parked[k] = L.parked[j]
      /\ \A j \in 1 .. n : Kept(M, L.parked[j])
      /\ M.taken \subseteq L.taken
      /\ M.taken = L.taken => M.table = L.table /\ \A j \in 1 .. n : Held(L, L.parked[j])
  BY <1>4 DEF LoopInv
<1>8. M \in Lots /\ M.parked \in Seq(Stay)
  BY <1>7, LotIs DEF Books, BooksTyped
<1>9. \A j \in 1 .. n : j \in 1 .. N /\ j # n + 1 /\ j \in 1 .. n + 1
  BY <1>5
<1>10. \A j \in n + 2 .. N : j \in 1 .. N /\ j # n + 1 /\ j \in n + 1 .. N
  BY <1>5
<1>11. p \notin ToSet(M.parked)
  BY <1>2, <1>3, <1>5, <1>7, <1>9 DEF ToSet, NoRepeats
<1>12. p \notin Still(L, n + 1) /\ Still(L, n) = Still(L, n + 1) \cup {p}
  <2>1. \A j \in n + 1 .. N : j = n + 1 \/ j \in n + 1 + 1 .. N
    BY <1>5
  <2>2. \A j \in n + 1 + 1 .. N : j \in n + 2 .. N
    OBVIOUS
  <2>3. n + 1 \in n + 1 .. N
    BY <1>5
  <2>4. QED
    BY <1>2, <1>3, <1>5, <1>10, <2>1, <2>2, <2>3 DEF Still, NoRepeats
<1>13. R = ToSet(M.parked) \cup Still(L, n + 1) \cup {p}
  BY <1>4, <1>12 DEF Left
<1>14. n + 1 \in Nat /\ \A j \in 1 .. n + 1 : j \in 1 .. n \/ j = n + 1
  OBVIOUS
<1>15. n + 1 \in 1 .. n + 1
  OBVIOUS
<1>16. Left(L, n + 1) = ToSet(D.parked) \cup Still(L, n + 1)
  BY <1>4 DEF Left
<1>17. CASE p.depart > 0 \/ Deferred(M, p)
  <2>1. /\ D \in Lots /\ D.taken = M.taken /\ D.active = M.active /\ D.table = M.table
        /\ D.parked = Append(M.parked, p)
    BY <1>6, <1>8, <1>17, StaysPut
  <2>2. /\ NoRepeats(D.parked) /\ ToSet(D.parked) = ToSet(M.parked) \cup {p}
        /\ \A k \in DOMAIN D.parked :
             (k \in DOMAIN M.parked /\ D.parked[k] = M.parked[k]) \/ D.parked[k] = p
    BY <1>7, <1>8, <1>11, <2>1, AppendList
  <2>3. Left(L, n + 1) = R
    BY <1>13, <1>16, <2>2
  <2>4. Books(D, R) /\ Running(D)
    BY <1>7, <2>1, SameBooks
  <2>5. \A k \in DOMAIN D.parked : \E j \in 1 .. n + 1 : D.parked[k] = L.parked[j]
    BY <1>3, <1>7, <1>9, <1>15, <2>2
  <2>6. M.table = L.table => Held(L, p)
    BY <1>17 DEF Held, Deferred
  <2>7. D.taken = L.taken => D.table = L.table /\ \A j \in 1 .. n + 1 : Held(L, L.parked[j])
    BY <1>3, <1>7, <1>14, <2>1, <2>6
  <2>8. \A j \in 1 .. n + 1 : Kept(D, L.parked[j])
    BY <1>3, <1>7, <1>14, <2>1, <2>2 DEF Kept
  <2>9. QED
    BY <1>4, <1>7, <2>1, <2>2, <2>3, <2>4, <2>5, <2>7, <2>8 DEF LoopInv
<1>18. CASE ~(p.depart > 0) /\ ~Deferred(M, p)
  <2>1. /\ D.taken = M.taken \ {p.slot} /\ D.parked = M.parked
        /\ D.active = M.active \cup {Leaver(p)}
    BY <1>6, <1>8, <1>18, DrivesOut
  <2>2. Left(L, n + 1) = R \ {p}
    BY <1>11, <1>12, <1>13, <1>16, <2>1
  <2>3. p \in R
    BY <1>13
  <2>4. Books(D, R \ {p}) /\ Running(D)
    BY <1>6, <1>7, <1>18, <2>3, DepartedBooks
  <2>5. p.slot \in L.taken
    <3>1. p \in ToSet(L.parked)
      BY <1>2, <1>3, <1>5 DEF ToSet
    <3>2. QED
      BY <3>1 DEF Books, Owners
  <2>6. D.taken \subseteq L.taken /\ D.taken # L.taken
    BY <1>7, <2>1, <2>5
  <2>7. \A k \in DOMAIN D.parked : \E j \in 1 .. n + 1 : D.parked[k] = L.parked[j]
    BY <1>7, <1>9, <2>1
  <2>8. \A j \in 1 .. n + 1 : Kept(D, L.parked[j])
    BY <1>3, <1>7, <1>14, <2>1 DEF Kept
  <2>9. QED
    BY <1>4, <1>7, <2>1, <2>2, <2>4, <2>6, <2>7, <2>8 DEF LoopInv
<1>19. QED
  BY <1>17, <1>18

LEMMA DeparturesInv ==
  ASSUME NEW L, Books(L, ToSet(L.parked)), Running(L), NoRepeats(L.parked)
  PROVE  /\ Books(Departures(L), ToSet(Departures(L).parked)) /\ Running(Departures(L))
         /\ NoRepeats(Departures(L).parked)
         /\ ToSet(Departures(L).parked) \subseteq ToSet(L.parked)
         /\ \A p \in ToSet(L.parked) : Kept(Departures(L), p)
         /\ Departures(L).taken \subseteq L.taken
         /\ Departures(L).taken = L.taken =>
              /\ Departures(L).table = L.table
              /\ \A p \in ToSet(L.parked) : Held(L, p)
<1>1. L \in Lots /\ L.parked \in Seq(Stay)
  BY LotIs DEF Books, BooksTyped
<1>2. PICK N \in Nat : N = Len(L.parked) /\ DOMAIN L.parked = 1 .. N
  BY <1>1, LenProperties
<1> DEFINE S == {n \in 0 .. N : LoopInv(L, n)}
<1>3. 0 \in S
  BY LoopStarts
<1>4. ASSUME NEW n \in 0 .. N, n \in S, n < N
      PROVE  n + 1 \in S
  <2>1. n \in Nat /\ n + 1 \in 1 .. N /\ n + 1 \in 0 .. N
    BY <1>4
  <2>2. LoopInv(L, n + 1)
    BY <1>2, <1>4, <2>1, LoopStep
  <2>3. QED
    BY <2>1, <2>2
<1> HIDE DEF S
<1>5. \A n \in 0 .. N : n \in S
  BY <1>3, <1>4, UpTo
<1>6. LoopInv(L, N)
  BY <1>5 DEF S
<1>7. Still(L, N) = {}
  BY <1>2 DEF Still
<1>8. PICK M : M = DepartedUpTo(L)[N]
  OBVIOUS
<1>9. Departures(L) = M
  BY <1>2, <1>8 DEF Departures
<1>10. Left(L, N) = ToSet(M.parked)
  BY <1>7, <1>8 DEF Left
<1>11. \A p \in ToSet(L.parked) : \E j \in 1 .. N : p = L.parked[j]
  BY <1>2 DEF ToSet
<1>12. /\ Books(M, ToSet(M.parked)) /\ Running(M) /\ NoRepeats(M.parked)
       /\ \A k \in DOMAIN M.parked : \E j \in 1 .. N : M.parked[k] = L.parked[j]
       /\ \A j \in 1 .. N : Kept(M, L.parked[j])
       /\ M.taken \subseteq L.taken
       /\ M.taken = L.taken => M.table = L.table /\ \A j \in 1 .. N : Held(L, L.parked[j])
  BY <1>6, <1>8, <1>10 DEF LoopInv
<1>13. ToSet(M.parked) \subseteq ToSet(L.parked)
  BY <1>2, <1>12 DEF ToSet
<1>14. QED
  BY <1>9, <1>11, <1>12, <1>13

-----------------------------------------------------------------------------
(* advance_time as a whole.                                                *)
LEMMA LaterList ==
  ASSUME NEW L, Listed(L), NEW d \in Nat
  PROVE  /\ NoRepeats(Elapsed(L, d).parked)
         /\ ToSet(Elapsed(L, d).parked) = StaysLater(ToSet(L.parked), d)
<1>1. L \in Lots /\ L.parked \in Seq(Stay)
  BY LotIs DEF Listed, Books, BooksTyped
<1>2. PICK q : q = Elapsed(L, d).parked
  OBVIOUS
<1>3. q = [k \in DOMAIN L.parked |-> StayLater(L.parked[k], d)]
  BY <1>1, <1>2, ElapsedIs
<1>4. ToSet(q) = StaysLater(ToSet(L.parked), d)
  BY <1>3 DEF ToSet, StaysLater
<1>5. NoRepeats(q)
  <2> SUFFICES ASSUME NEW j \in DOMAIN L.parked, NEW k \in DOMAIN L.parked, j # k
               PROVE  StayLater(L.parked[j], d) # StayLater(L.parked[k], d)
    BY <1>3 DEF NoRepeats
  <2>1. L.parked[j] \in ToSet(L.parked) /\ L.parked[k] \in ToSet(L.parked)
    BY DEF ToSet
  <2>2. L.parked[j] \in Stay /\ L.parked[k] \in Stay
    BY <1>1, ElementOfSeq
  <2>3. L.parked[j] # L.parked[k]
    BY DEF Listed, NoRepeats
  <2>4. L.parked[j].id # L.parked[k].id
    BY <2>1, <2>3 DEF Listed, Books, Owners
  <2>5. /\ StayLater(L.parked[j], d).id = L.parked[j].id
        /\ StayLater(L.parked[k], d).id = L.parked[k].id
    BY <2>2, StayLaterIs
  <2>6. QED
    BY <2>4, <2>5
<1>6. QED
  BY <1>2, <1>4, <1>5

Onward(L, d) == Moved(Elapsed(L, d))

LEMMA OnwardInv ==
  ASSUME NEW L, Listed(L), NEW d \in Nat
  PROVE  /\ Books(Onward(L, d), ToSet(Onward(L, d).parked)) /\ Running(Onward(L, d))
         /\ NoRepeats(Onward(L, d).parked) /\ Onward(L, d).taken = L.taken
         /\ ToSet(Onward(L, d).parked) = StaysLater(ToSet(L.parked), d)
         /\ Onward(L, d).table \subseteq Elapsed(L, d).table
<1>1. PICK E, P : E = Elapsed(L, d) /\ P = StaysLater(ToSet(L.parked), d)
  OBVIOUS
<1>2. Books(E, P)
  BY <1>1, ElapsedBooks DEF Listed
<1>3. NoRepeats(E.parked) /\ ToSet(E.parked) = P
  BY <1>1, LaterList
<1>4. E \in Lots /\ L \in Lots
  BY <1>2 DEF Listed, Books, BooksTyped
<1>5. E.taken = L.taken
  BY <1>1, <1>4, ElapsedIs
<1>6. /\ Moved(E).taken = E.taken /\ Moved(E).parked = E.parked
      /\ Moved(E).table \subseteq E.table
  BY <1>4, MovedIs
<1>7. Books(Moved(E), P) /\ Running(Moved(E))
  BY <1>2, MovedBooks
<1>8. Onward(L, d) = Moved(E)
  BY <1>1 DEF Onward
<1>9. QED
  BY <1>1, <1>3, <1>5, <1>6, <1>7, <1>8

LEMMA AdvanceInv ==
  ASSUME NEW L, Listed(L), NEW d \in Nat
  PROVE  /\ LotInv(AdvanceTime(L, d)) /\ AdvanceTime(L, d).taken \subseteq L.taken
         /\ \A p \in ToSet(L.parked) : Kept(AdvanceTime(L, d), StayLater(p, d))
         /\ AdvanceTime(L, d).taken = L.taken =>
              /\ AdvanceTime(L, d).table = Onward(L, d).table
              /\ ToSet(AdvanceTime(L, d).parked) = StaysLater(ToSet(L.parked), d)
              /\ \A p \in ToSet(L.parked) : Held(Onward(L, d), StayLater(p, d))
<1>1. PICK E, P, A : /\ E = Onward(L, d) /\ P = StaysLater(ToSet(L.parked), d)
                     /\ A = Departures(E)
  OBVIOUS
<1>2. AdvanceTime(L, d) = A
  BY <1>1 DEF AdvanceTime, Onward
<1>3. /\ Books(E, ToSet(E.parked)) /\ Running(E) /\ NoRepeats(E.parked)
      /\ E.taken = L.taken /\ ToSet(E.parked) = P
  BY <1>1, OnwardInv
<1>4. /\ Books(A, ToSet(A.parked)) /\ Running(A) /\ NoRepeats(A.parked)
      /\ ToSet(A.parked) \subseteq P /\ A.taken \subseteq L.taken
      /\ \A p \in P : Kept(A, p)
      /\ A.taken = L.taken => A.table = E.table /\ \A p \in P : Held(E, p)
  BY <1>1, <1>3, DeparturesInv
<1>5. ASSUME A.taken = L.taken PROVE P \subseteq ToSet(A.parked)
  <2> SUFFICES ASSUME NEW p \in P PROVE p \in ToSet(A.parked)
    OBVIOUS
  <2>1. p.slot \in A.taken
    BY <1>3, <1>5 DEF Books, Owners
  <2>2. PICK q \in ToSet(A.parked) : q.slot = p.slot
    BY <1>4, <2>1 DEF Books, Owners
  <2>3. q = p
    BY <1>3, <1>4, <2>2 DEF Books, Owners
  <2>4. QED
    BY <2>3
<1>6. \A p \in ToSet(L.parked) : StayLater(p, d) \in P
  BY <1>1 DEF StaysLater
<1>7. LotInv(A)
  BY <1>4 DEF LotInv, Listed
<1>8. QED
  BY <1>1, <1>2, <1>4, <1>5, <1>6, <1>7

LEMMA AdvanceWithin ==
  ASSUME NEW L, Listed(L), NEW d \in Nat, NEW b \in Int,
         Within(L.table, ToSet(L.parked), b), AdvanceTime(L, d).taken = L.taken
  PROVE  Within(AdvanceTime(L, d).table, ToSet(AdvanceTime(L, d).parked), b + d)
<1>1. L \in Lots /\ ToSet(L.parked) \in SUBSET Stay
  BY DEF Listed, Books, BooksTyped
<1>2. Within(Elapsed(L, d).table, StaysLater(ToSet(L.parked), d), b + d)
  BY <1>1, ElapsedWithin
<1>3. /\ AdvanceTime(L, d).table \subseteq Elapsed(L, d).table
      /\ ToSet(AdvanceTime(L, d).parked) = StaysLater(ToSet(L.parked), d)
  BY AdvanceInv, OnwardInv
<1>4. QED
  BY <1>2, <1>3 DEF Within

-----------------------------------------------------------------------------
(* A car is assigned.                                                      *)
LEMMA ListIsFinite ==
  ASSUME NEW S, NEW q \in Seq(S)
  PROVE  IsFiniteSet(ToSet(q))
<1>1. PICK m \in Nat : DOMAIN q = 1 .. m
  BY LenProperties
<1>2. IsFiniteSet(DOMAIN q)
  BY <1>1, FS_Interval
<1>3. IsFiniteSet({q[k] : k \in DOMAIN q})
  BY <1>2, FiniteImage
<1>4. QED
  BY <1>3 DEF ToSet

LEMMA IdsFinite ==
  ASSUME NEW L, Listed(L)
  PROVE  IsFiniteSet(Ids(L))
<1>1. IsFiniteSet(L.active) /\ IsFiniteSet(L.table) /\ L.parked \in Seq(Stay)
  BY LotIs DEF Listed, Books, BooksTyped
<1>2. IsFiniteSet(ToSet(L.parked))
  BY <1>1, ListIsFinite
<1>3. ASSUME NEW A, IsFiniteSet(A) PROVE IsFiniteSet({v.id : v \in A})
  <2>1. PICK f : f = [v \in A |-> v.id]
    OBVIOUS
  <2>2. IsFiniteSet({f[v] : v \in A})
    BY <1>3, <2>1, FiniteImage
  <2>3. {f[v] : v \in A} = {v.id : v \in A}
    BY <2>1
  <2>4. QED
    BY <2>2, <2>3
<1>4. PICK X, Y, Z : /\ X = {v.id : v \in L.active} /\ Y = {p.id : p \in ToSet(L.parked)}
                     /\ Z = {r.id : r \in L.table}
  OBVIOUS
<1>5. IsFiniteSet(X) /\ IsFiniteSet(Y) /\ IsFiniteSet(Z)
  BY <1>1, <1>2, <1>3, <1>4
<1>6. IsFiniteSet(X \cup Y)
  BY <1>5, FS_Union
<1>7. IsFiniteSet(X \cup Y \cup Z)
  BY <1>5, <1>6, FS_Union
<1>8. QED
  BY <1>4, <1>7 DEF Ids

LEMMA FreshIdIs ==
  ASSUME NEW L, Listed(L), NEW s \in Slots
  PROVE  FreshId(L, s) \in CarIds /\ FreshId(L, s) \notin Ids(L)
<1>1. PICK I, K : I = Ids(L) /\ K = Cardinality(Ids(L))
  OBVIOUS
<1>2. IsFiniteSet(I) /\ K \in Nat
  BY <1>1, IdsFinite, FS_CardinalityType
<1> DEFINE T == {n \in 1 .. K + 1 : <<s, n>> \notin I}
<1>3. T # {}
  <2> SUFFICES ASSUME T = {} PROVE FALSE
    OBVIOUS
  <2>1. PICK f : f = [n \in 1 .. K + 1 |-> <<s, n>>]
    OBVIOUS
  <2>2. \A n \in 1 .. K + 1 : <<s, n>> \in I
    OBVIOUS
  <2>3. f \in [1 .. K + 1 -> I]
    BY <2>1, <2>2
  <2>4. \A m, n \in 1 .. K + 1 : f[m] = f[n] => m = n
    BY <2>1
  <2>5. f \in Injection(1 .. K + 1, I)
    BY <2>3, <2>4 DEF Injection, IsInjective
  <2>6. Cardinality(1 .. K + 1) <= Cardinality(I)
    BY <1>2, <2>5, FS_Injection
  <2>7. Cardinality(1 .. K + 1) = K + 1
    <3>1. 1 \in Int /\ K + 1 \in Int /\ 1 <= K + 1
      BY <1>2
    <3>2. Cardinality(1 .. K + 1) = (K + 1) - 1 + 1
      BY <3>1, FS_Interval
    <3>3. QED
      BY <1>2, <3>2
  <2>8. QED
    BY <1>1, <1>2, <2>6, <2>7
<1>4. T \in SUBSET Nat
  BY <1>2
<1>5. PICK n : n = Min(T)
  OBVIOUS
<1>6. n \in T
  BY <1>3, <1>4, <1>5, Earliest
<1>7. FreshId(L, s) = <<s, n>>
  BY <1>1, <1>5 DEF FreshId
<1>8. n \in Nat /\ <<s, n>> \notin Ids(L)
  BY <1>1, <1>4, <1>6
<1>9. QED
  BY <1>7, <1>8 DEF CarIds

(* The car that is sent, its stay and the entry of the stay.               *)
Comer(s, id) == [id |-> id, slot |-> s, status |-> "moving", start |-> 0]
Booking(s, id, stay) == [id |-> id, slot |-> s, depart |-> RouteEnd(SlotRoute(s), 0) + stay]
Sojourn(s, id, stay) == [node |-> s, id |-> id, start |-> RouteEnd(SlotRoute(s), 0),
                         end |-> RouteEnd(SlotRoute(s), 0) + stay]

LEMMA ComerIs ==
  ASSUME NEW s \in Slots, NEW id \in CarIds, NEW stay \in ParkDurations
  PROVE  /\ Comer(s, id) \in Car /\ Booking(s, id, stay) \in Stay
         /\ Sojourn(s, id, stay) \in TableEntry
         /\ RouteOf(Comer(s, id)) = SlotRoute(s)
         /\ RouteEnd(RouteOf(Comer(s, id)), 0) <= Booking(s, id, stay).depart
<1>1. Comer(s, id) \in Car /\ RouteOf(Comer(s, id)) = SlotRoute(s)
  BY DEF Comer, Car, RouteOf
<1>2. PICK a : a = RouteEnd(SlotRoute(s), 0)
  OBVIOUS
<1>3. a \in Int /\ a <= (Columns + 3) * NodeTravelTime
  BY <1>1, <1>2, RouteEndIs
<1>4. a >= 0
  <2>1. PICK n \in 4 .. Columns + 3 : n = Len(SlotRoute(s))
    BY <1>1, RouteIs
  <2>2. n \in Nat /\ NodeTravelTime \in Nat
    BY EnvBounds
  <2>3. n * NodeTravelTime \in Nat
    BY <2>2
  <2>4. a = 0 + n * NodeTravelTime
    BY <1>2, <2>1 DEF RouteEnd
  <2>5. QED
    BY <2>3, <2>4
<1>5. stay \in Nat /\ stay <= Max(ParkDurations)
  BY LongestStay, EnvBounds
<1>6. PICK z : z = (Columns + 3) * NodeTravelTime
  OBVIOUS
<1>7. a <= z /\ z \in Nat /\ z + NodeTravelTime + Max(ParkDurations) = Latest
  BY <1>3, <1>6, LatestIs
<1>8. a \in 0 .. Latest /\ a + stay \in 0 .. Latest /\ a <= a + stay
  BY <1>3, <1>4, <1>5, <1>7, LatestIs, EnvBounds, LongestStay
<1>9. a \in Moments /\ a + stay \in Moments
  BY <1>8, EnvBounds, LatestIs DEF Moments
<1>10. PICK b : b = a + stay
  OBVIOUS
<1>11. Booking(s, id, stay) = [id |-> id, slot |-> s, depart |-> b]
  BY <1>2, <1>10 DEF Booking
<1>12. Sojourn(s, id, stay) = [node |-> s, id |-> id, start |-> a, end |-> b]
  BY <1>2, <1>10 DEF Sojourn
<1>13. Booking(s, id, stay) \in Stay /\ a <= Booking(s, id, stay).depart
  BY <1>8, <1>10, <1>11 DEF Stay
<1>14. s \in Nodes
  BY DEF Nodes
<1>15. Sojourn(s, id, stay) \in TableEntry
  BY <1>9, <1>10, <1>12, <1>14 DEF TableEntry
<1>16. QED
  BY <1>1, <1>2, <1>13, <1>15

LEMMA AssignedListed ==
  ASSUME NEW L, L = Lot, Listed(L), NEW s \in Slots, s \notin L.taken,
         ~Conflict(SlotRoute(s), L.table, Nobody),
         NEW id \in CarIds, id \notin Ids(L), NEW stay \in ParkDurations
  PROVE  /\ Listed(Assigned(s, id, stay))
         /\ ToSet(L.parked) \subseteq ToSet(Assigned(s, id, stay).parked)
<1> DEFINE A == Assigned(s, id, stay)
           P == ToSet(L.parked)
           n == Booking(s, id, stay)
           x == Comer(s, id)
           e == Sojourn(s, id, stay)
           B == Booked(SlotRoute(s), 0, id)
           Q == P \cup {n}
<1>1. /\ L \in Lots /\ P \in SUBSET Stay /\ L.parked \in Seq(Stay)
      /\ IsFiniteSet(L.active) /\ IsFiniteSet(L.table) /\ L.taken \subseteq Slots
      /\ L.active \subseteq Car /\ L.table \subseteq TableEntry /\ Books(L, P)
  BY LotIs DEF Listed, Books, BooksTyped
<1>2. /\ A.taken = L.taken \cup {s} /\ A.active = L.active \cup {x}
      /\ A.parked = Append(L.parked, n) /\ A.table = L.table \cup B \cup {e}
      /\ A = [taken |-> A.taken, active |-> A.active, parked |-> A.parked, table |-> A.table]
  BY DEF Assigned, Lot, Booking, Comer, Sojourn
<1>3. x \in Car /\ n \in Stay /\ e \in TableEntry /\ RouteOf(x) = SlotRoute(s)
      /\ RouteEnd(RouteOf(x), 0) <= n.depart
  BY ComerIs
<1>4. /\ x.id = id /\ x.slot = s /\ x.status = "moving" /\ x.start = 0
      /\ n.id = id /\ n.slot = s /\ e.id = id /\ e.node = s
  BY DEF Comer, Booking, Sojourn
<1>5. /\ B \subseteq TableEntry /\ IsFiniteSet(B)
      /\ \A r \in B : \E i \in DOMAIN RouteOf(x) :
           EntryFor(x, i, r) /\ r.end = NodeStart(i + 1, 0)
      /\ \A i \in DOMAIN RouteOf(x) : \E r \in B : EntryFor(x, i, r)
  BY <1>3, <1>4, BookedIs
<1>6. /\ \A v \in L.active : v.id # id
      /\ \A p \in P : p.id # id
  BY DEF Ids
<1>7. \A p \in P : p.slot # s
  BY <1>1 DEF Books, Owners
<1> HIDE DEF A, B, x, n, e, P
<1>8. n \notin P
  BY <1>4, <1>6
<1>9. NoRepeats(A.parked) /\ ToSet(A.parked) = Q
  BY <1>1, <1>2, <1>3, <1>8, AppendList DEF Listed, P
<1> HIDE DEF Q
<1>10. BooksTyped(A, Q)
  <2>1. A.active \subseteq Car /\ IsFiniteSet(A.active)
    <3>1. IsFiniteSet(L.active \cup {x})
      BY <1>1, FS_AddElement
    <3>2. QED
      BY <1>1, <1>2, <1>3, <3>1
  <2>2. IsFiniteSet(L.table \cup B)
    BY <1>1, <1>5, FS_Union
  <2>3. A.table \subseteq TableEntry /\ IsFiniteSet(A.table)
    <3>1. IsFiniteSet((L.table \cup B) \cup {e})
      BY <2>2, FS_AddElement
    <3>2. QED
      BY <1>1, <1>2, <1>3, <1>5, <3>1
  <2>4. A.parked \in Seq(Stay) /\ A.taken \subseteq Slots
    BY <1>1, <1>2, <1>3, AppendProperties
  <2>5. A \in Lots
    BY <1>2, <2>1, <2>3, <2>4 DEF Lots
  <2>6. QED
    BY <1>1, <1>3, <2>1, <2>3, <2>5 DEF BooksTyped, Q
<1>11. Owners(A, Q)
  BY <1>1, <1>2, <1>4, <1>6, <1>7 DEF Owners, Books, Q
<1>12. Movers(A, Q)
  <2>1. \A v, w \in A.active : v.id = w.id => v = w
    BY <1>1, <1>2, <1>4, <1>6 DEF Books, Movers
  <2>2. \A v \in A.active : v.status = "moving" =>
          \E q \in Q : /\ q.id = v.id /\ q.slot = v.slot
                       /\ RouteEnd(RouteOf(v), v.start) <= q.depart
    BY <1>1, <1>2, <1>3, <1>4 DEF Books, Movers, Q
  <2>3. \A v \in A.active : v.status = "exiting" => \A q \in Q : q.id # v.id
    BY <1>1, <1>2, <1>4, <1>6 DEF Books, Movers, Q
  <2>4. QED
    BY <2>1, <2>2, <2>3 DEF Movers
<1>13. \A r \in A.table : r \in L.table \/ r.id = id
  BY <1>2, <1>4, <1>5 DEF EntryFor
<1>14. NoGhosts(A, Q)
  <2> SUFFICES ASSUME NEW r \in A.table
               PROVE  \/ \E q \in Q : q.id = r.id
                      \/ \E v \in A.active : v.id = r.id /\ v.status = "exiting" /\ OnWay(v, r)
    BY DEF NoGhosts
  <2>1. CASE r \in L.table
    BY <1>1, <1>2, <2>1 DEF Books, NoGhosts, Q
  <2>2. CASE r.id = id
    BY <1>4, <2>2 DEF Q
  <2>3. QED
    BY <1>13, <2>1, <2>2
<1>15. WaysKept(A)
  BY <1>1, <1>2, <1>5 DEF WaysKept, Books
<1>16. AllApart(A)
  <2>1. ASSUME NEW v \in L.active PROVE Apart(v, x) /\ Apart(x, v)
    <3>1. v \in Car /\ L.table \in SUBSET TableEntry /\ v.id \in CarIds
      BY <1>1, CarIs
    <3>2. v.id # Nobody
      BY <3>1, SlotIs DEF CarIds, Nobody
    <3>3. \A j \in DOMAIN RouteOf(v) : \E r \in L.table : EntryFor(v, j, r)
      BY <1>1 DEF Books, WaysKept
    <3>4. ~Conflict(RouteOf(x), L.table, Nobody)
      BY <1>3
    <3>5. QED
      BY <1>3, <1>4, <3>1, <3>2, <3>3, <3>4, ShieldApart
  <2>2. QED
    BY <1>1, <1>2, <2>1 DEF Books, AllApart
<1>17. Within(A.table, Q, 0)
  <2> SUFFICES ASSUME NEW r \in A.table
               PROVE  \/ HeldBy(Q, r) \/ r.end <= Horizon(r.node) - 0 \/ r.end <= -SafetyMargin
    BY DEF Within
  <2>1. CASE r \in L.table
    <3>1. HeldBy(P, r) => HeldBy(Q, r)
      BY DEF HeldBy, Q
    <3>2. QED
      BY <1>1, <2>1, <3>1 DEF Books, Within
  <2>2. CASE r.id = id /\ r.node = s
    BY <1>4, <2>2 DEF HeldBy, Q
  <2>3. CASE r \in B /\ r.node # s
    <3>1. PICK i \in DOMAIN RouteOf(x) : EntryFor(x, i, r) /\ r.end = NodeStart(i + 1, 0)
      BY <1>5, <2>3
    <3>2. r.node = SlotRoute(s)[i] /\ i \in DOMAIN SlotRoute(s)
      BY <1>3, <3>1 DEF EntryFor
    <3>3. NodeStart(i + 1, 0) <= Horizon(r.node)
      BY <2>3, <3>2, SlotHorizon
    <3>4. PICK h \in Int : h = Horizon(r.node)
      BY HorizonIs
    <3>5. QED
      BY <3>1, <3>3, <3>4
  <2>4. r \in L.table \/ r = e \/ r \in B
    BY <1>2
  <2>5. r \in B => r.id = id
    BY <1>4, <1>5 DEF EntryFor
  <2>6. QED
    BY <1>4, <2>1, <2>2, <2>3, <2>4, <2>5
<1>18. Listed(A)
  BY <1>9, <1>10, <1>11, <1>12, <1>14, <1>15, <1>16, <1>17 DEF Listed, Books
<1>19. QED
  BY <1>9, <1>18 DEF A, P, Q

-----------------------------------------------------------------------------
(* An episode begins.                                                      *)
FirstLot(q) ==
  [taken |-> {p.slot : p \in ToSet(q)}, active |-> {}, parked |-> q,
   table |-> {[node |-> p.slot, id |-> p.id, start |-> 0, end |-> p.depart]
                : p \in ToSet(q)}]

LEMMA FreshEpisodeIs ==
  ASSUME NEW q \in FreshEpisodes
  PROVE  /\ q \in Seq(Stay) /\ NoRepeats(q)
         /\ \A p \in ToSet(q) : p \in Stay /\ p.id = <<p.slot, 1>>
         /\ \A o, p \in ToSet(q) : o.slot = p.slot => o = p
<1>1. PICK n \in 0 .. InitialOccupancyMax :
        /\ q \in [1 .. n -> PreParked]
        /\ \A j, k \in 1 .. n : j # k => q[j].slot # q[k].slot
  BY DEF FreshEpisodes
<1>2. n \in Nat
  BY EnvAssumption
<1>3. ASSUME NEW p \in PreParked
      PROVE  p \in Stay /\ p.id = <<p.slot, 1>>
  <2>1. PICK s \in Slots, d \in ParkDurations : p = [id |-> <<s, 1>>, slot |-> s, depart |-> d]
    BY DEF PreParked
  <2>2. d \in Nat /\ d <= Max(ParkDurations)
    BY LongestStay, EnvBounds
  <2>3. d \in 0 .. Latest
    BY <2>2, LatestIs, EnvBounds, LongestStay
  <2>4. QED
    BY <2>1, <2>3 DEF Stay, CarIds
<1>4. q \in [1 .. n -> Stay]
  BY <1>1, <1>3
<1>5. q \in Seq(Stay) /\ DOMAIN q = 1 .. n
  BY <1>2, <1>4
<1>6. NoRepeats(q)
  BY <1>1, <1>5 DEF NoRepeats
<1>7. \A p \in ToSet(q) : \E k \in 1 .. n : p = q[k]
  BY <1>5 DEF ToSet
<1>8. \A p \in ToSet(q) : p \in PreParked
  BY <1>1, <1>7
<1>9. \A o, p \in ToSet(q) : o.slot = p.slot => o = p
  BY <1>1, <1>7
<1>10. QED
  BY <1>3, <1>5, <1>6, <1>8, <1>9

LEMMA FirstLotInv ==
  ASSUME NEW q \in FreshEpisodes
  PROVE  /\ LotInv(FirstLot(q)) /\ FirstLot(q) \in Lots
         /\ \A b \in Int : Within(FirstLot(q).table, ToSet(q), b)
<1> DEFINE P == ToSet(q)
           e(p) == [node |-> p.slot, id |-> p.id, start |-> 0, end |-> p.depart]
           T == {e(p) : p \in P}
           K == {p.slot : p \in P}
<1>1. /\ q \in Seq(Stay) /\ NoRepeats(q)
      /\ \A p \in P : p \in Stay /\ p.id = <<p.slot, 1>>
      /\ \A o, p \in P : o.slot = p.slot => o = p
  BY FreshEpisodeIs
<1>2. IsFiniteSet(P)
  BY <1>1, ListIsFinite
<1> HIDE DEF P
<1>3. ASSUME NEW p \in P
      PROVE  e(p) \in TableEntry /\ e(p).id = p.id /\ e(p).node = p.slot
  <2>1. p.slot \in Nodes /\ p.id \in CarIds /\ p.depart \in Nat /\ p.depart <= Latest
    BY <1>1, StayIs DEF Nodes
  <2>2. p.depart \in Moments /\ 0 \in Moments
    BY <2>1, LatestIs DEF Moments
  <2>3. QED
    BY <2>1, <2>2 DEF TableEntry
<1>4. IsFiniteSet(T)
  <2>1. PICK f : f = [p \in P |-> e(p)]
    OBVIOUS
  <2>2. IsFiniteSet({f[p] : p \in P})
    BY <1>2, <2>1, FiniteImage
  <2>3. {f[p] : p \in P} = T
    BY <2>1
  <2>4. QED
    BY <2>2, <2>3
<1> HIDE DEF e
<1>5. T \subseteq TableEntry /\ \A r \in T : \E p \in P : p.id = r.id /\ p.slot = r.node
  BY <1>3
<1>6. K \subseteq Slots
  BY <1>1, StayIs
<1>7. PICK M : M = [taken |-> K, active |-> {}, parked |-> q, table |-> T]
  OBVIOUS
<1>8. FirstLot(q) = M
  BY <1>7 DEF FirstLot, P, e
<1> HIDE DEF T, K
<1>9. M \in Lots
  BY <1>1, <1>5, <1>6, <1>7 DEF Lots
<1>10. M.taken = K /\ M.active = {} /\ M.parked = q /\ M.table = T
  BY <1>7
<1>11. BooksTyped(M, P)
  BY <1>1, <1>4, <1>9, <1>10, FS_EmptySet DEF BooksTyped
<1>12. Owners(M, P)
  <2>1. \A o, p \in P : o.id = p.id => o.slot = p.slot
    BY <1>1
  <2>2. QED
    BY <1>1, <1>10, <2>1 DEF Owners, K
<1>13. Movers(M, P) /\ WaysKept(M) /\ AllApart(M) /\ Running(M)
  BY <1>10 DEF Movers, WaysKept, AllApart, Running
<1>14. NoGhosts(M, P)
  BY <1>5, <1>10 DEF NoGhosts
<1>15. \A b \in Int : Within(M.table, P, b)
  BY <1>5, <1>10 DEF Within, HeldBy
<1>16. Books(M, P)
  BY <1>11, <1>12, <1>13, <1>14, <1>15 DEF Books
<1>17. QED
  BY <1>1, <1>8, <1>9, <1>10, <1>13, <1>15, <1>16 DEF LotInv, Listed, P

-----------------------------------------------------------------------------
(* The steps.                                                              *)
LEMMA Becomes ==
  ASSUME NEW A \in Lots, LotBecomes(A)
  PROVE  Lot' = A
<1>1. A = [taken |-> A.taken, active |-> A.active, parked |-> A.parked, table |-> A.table]
  BY DEF Lots
<1>2. QED
  BY <1>1 DEF LotBecomes, Lot

LEMMA LotFields ==
  /\ Lot.taken = taken /\ Lot.active = active /\ Lot.parked = parked
  /\ Lot.table = reservations
BY DEF Lot

LEMMA LotTyped ==
  ASSUME NEW L, LotInv(L)
  PROVE  L \in Lots /\ L.taken \subseteq Slots
BY LotIs DEF LotInv, Listed, Books, BooksTyped

(* The invariant after a step that leaves the lot A and the count w.       *)
LEMMA Restored ==
  ASSUME NEW A, LotInv(A), LotBecomes(A), NEW w \in 0 .. MaxConsecutiveWaits, waits' = w,
         A.taken = Slots => \E iat \in ArrivalTimes :
                              Within(A.table, ToSet(A.parked), iat + w * WaitTime)
  PROVE  EnvInv'
<1>1. A \in Lots
  BY LotTyped
<1>2. Lot' = A
  BY <1>1, Becomes
<1>3. LotInv(Lot)'
  BY <1>2
<1>4. FullLotAges'
  BY DEF FullLotAges, LotBecomes
<1>5. QED
  BY <1>3, <1>4 DEF EnvInv

(* The clock runs on from a lot whose ways are b old.                      *)
LEMMA RunOn ==
  ASSUME NEW L, Listed(L), NEW d \in Nat, NEW w \in 0 .. MaxConsecutiveWaits,
         LotBecomes(AdvanceTime(L, d)), waits' = w, L.taken \subseteq Slots,
         L.taken = Slots => \E b \in Int, iat \in ArrivalTimes :
                              /\ Within(L.table, ToSet(L.parked), b)
                              /\ iat + w * WaitTime <= b + d
  PROVE  EnvInv'
<1>1. PICK A : A = AdvanceTime(L, d)
  OBVIOUS
<1>2. LotInv(A) /\ A.taken \subseteq L.taken
  BY <1>1, AdvanceInv
<1>3. ASSUME A.taken = Slots
      PROVE  \E iat \in ArrivalTimes : Within(A.table, ToSet(A.parked), iat + w * WaitTime)
  <2>1. L.taken = Slots /\ A.taken = L.taken
    BY <1>2, <1>3
  <2>2. PICK b \in Int, iat \in ArrivalTimes : /\ Within(L.table, ToSet(L.parked), b)
                                               /\ iat + w * WaitTime <= b + d
    BY <2>1
  <2>3. Within(A.table, ToSet(A.parked), b + d)
    BY <1>1, <2>1, <2>2, AdvanceWithin
  <2>4. A.table \in SUBSET TableEntry
    BY <1>2, LotTyped, LotIs
  <2>5. iat + w * WaitTime \in Int /\ b + d \in Int
    BY EnvBounds
  <2>6. Within(A.table, ToSet(A.parked), iat + w * WaitTime)
    BY <2>2, <2>3, <2>4, <2>5, WithinLess
  <2>7. QED
    BY <2>6
<1>4. QED
  BY <1>1, <1>2, <1>3, Restored

LEMMA EnvInvInit ==
  ASSUME EnvInit
  PROVE  EnvInv
<1>1. Lot = FirstLot(parked) /\ parked \in FreshEpisodes /\ waits = 0
  BY DEF EnvInit, Lot, FirstLot
<1>2. LotInv(Lot) /\ \A b \in Int : Within(reservations, ToSet(parked), b)
  BY <1>1, FirstLotInv, LotFields
<1>3. PICK iat \in ArrivalTimes : TRUE
  BY EnvBounds
<1>4. iat + waits * WaitTime \in Int
  BY <1>1, EnvBounds
<1>5. FullLotAges
  BY <1>2, <1>4 DEF FullLotAges
<1>6. waits \in 0 .. MaxConsecutiveWaits
  BY <1>1, EnvBounds
<1>7. QED
  BY <1>2, <1>5, <1>6 DEF EnvInv

LEMMA EnvInvStep ==
  ASSUME EnvInv, [EnvNext]_envVars
  PROVE  EnvInv'
<1>1. /\ Listed(Lot) /\ LotInv(Lot) /\ taken \subseteq Slots
      /\ waits \in 0 .. MaxConsecutiveWaits /\ waits \in Nat /\ MaxConsecutiveWaits \in Nat
  BY LotTyped, LotFields, EnvBounds DEF EnvInv, LotInv
<1>2. ASSUME taken = Slots
      PROVE  \E iat \in ArrivalTimes : Within(reservations, ToSet(parked), iat + waits * WaitTime)
  BY <1>2 DEF EnvInv, FullLotAges
<1>3. 0 \in 0 .. MaxConsecutiveWaits /\ 0 * WaitTime = 0 /\ WaitTime \in Nat
      /\ waits * WaitTime \in Nat /\ (waits + 1) * WaitTime = waits * WaitTime + WaitTime
  BY <1>1, EnvBounds
<1>4. \A i \in ArrivalTimes : i \in Nat
  BY EnvBounds
<1>5. CASE ActionMasks
  <2>1. LotBecomes(Shown) /\ waits' = waits
    BY <1>5 DEF ActionMasks
  <2>2. CASE Shown = Lot
    <3>1. LotBecomes(Lot)
      BY <2>1, <2>2
    <3>2. QED
      BY <1>1, <1>2, <2>1, <3>1, LotFields, Restored
  <2>3. CASE Shown # Lot
    <3> DEFINE D == {p.depart : p \in ToSet(Lot.parked)}
    <3>1. Shown = AdvanceTime(Lot, Min(D)) /\ Lot.parked # <<>>
      BY <2>3 DEF Shown, EnsureFreeSlot
    <3>2. D \in SUBSET Nat /\ D # {}
      <4>1. \A p \in ToSet(Lot.parked) : p \in Stay
        BY <1>1 DEF Listed, Books, BooksTyped
      <4>2. Lot.parked \in Seq(Stay)
        BY <1>1, LotTyped, LotIs
      <4>3. 1 \in DOMAIN Lot.parked
        BY <3>1, <4>2, EmptySeq, LenProperties
      <4>4. ToSet(Lot.parked) # {}
        BY <4>3 DEF ToSet
      <4>5. QED
        BY <4>1, <4>4, StayIs
    <3> HIDE DEF D
    <3>3. PICK d \in Nat : d = Min(D)
      BY <3>2, Earliest
    <3>4. ASSUME Lot.taken = Slots
          PROVE  \E b \in Int, iat \in ArrivalTimes :
                   /\ Within(Lot.table, ToSet(Lot.parked), b)
                   /\ iat + waits * WaitTime <= b + d
      <4>1. PICK iat \in ArrivalTimes : Within(reservations, ToSet(parked), iat + waits * WaitTime)
        BY <1>2, <3>4, LotFields
      <4>2. iat + waits * WaitTime \in Int
        BY <1>3, <1>4
      <4>3. iat + waits * WaitTime <= iat + waits * WaitTime + d
        BY <4>2
      <4>4. QED
        BY <4>1, <4>2, <4>3, LotFields
    <3>5. LotBecomes(AdvanceTime(Lot, d))
      BY <2>1, <3>1, <3>3
    <3>6. QED
      BY <1>1, <2>1, <3>4, <3>5, LotFields, RunOn
  <2>4. QED
    BY <2>2, <2>3
<1>6. CASE StepWait
  <2>1. PICK w \in 0 .. MaxConsecutiveWaits : w = waits' /\ (w = waits + 1 \/ w = waits)
    <3>1. (waits' = waits + 1 /\ waits < MaxConsecutiveWaits) \/ waits' = waits
      BY <1>6 DEF StepWait
    <3>2. waits' \in 0 .. MaxConsecutiveWaits
      BY <1>1, <3>1
    <3>3. QED
      BY <3>1, <3>2
  <2>2. LotBecomes(AdvanceTime(Lot, WaitTime))
    BY <1>6 DEF StepWait, Finish
  <2>3. ASSUME Lot.taken = Slots
        PROVE  \E b \in Int, iat \in ArrivalTimes :
                 /\ Within(Lot.table, ToSet(Lot.parked), b)
                 /\ iat + w * WaitTime <= b + WaitTime
    <3>1. PICK iat \in ArrivalTimes : Within(reservations, ToSet(parked), iat + waits * WaitTime)
      BY <1>2, <2>3, LotFields
    <3>2. iat + waits * WaitTime \in Int
      BY <1>3, <1>4
    <3>3. w * WaitTime = waits * WaitTime + WaitTime \/ w * WaitTime = waits * WaitTime
      BY <1>3, <2>1
    <3>4. iat + w * WaitTime <= iat + waits * WaitTime + WaitTime
      BY <1>3, <1>4, <3>3
    <3>5. QED
      BY <3>1, <3>2, <3>4, LotFields
  <2>4. QED
    BY <1>1, <1>3, <2>1, <2>2, <2>3, LotFields, RunOn
<1>7. CASE Reset
  <2>1. PICK q \in FreshEpisodes : LotBecomes(FirstLot(q))
    BY <1>7 DEF Reset, FirstLot
  <2>2. LotInv(FirstLot(q)) /\ \A b \in Int : Within(FirstLot(q).table, ToSet(q), b)
    BY FirstLotInv
  <2>3. FirstLot(q).parked = q
    BY DEF FirstLot
  <2>4. PICK iat \in ArrivalTimes : TRUE
    BY EnvBounds
  <2>5. iat + 0 * WaitTime \in Int
    BY <1>3, <1>4
  <2>6. waits' = 0
    BY <1>7 DEF Reset
  <2>7. QED
    BY <1>3, <2>1, <2>2, <2>3, <2>4, <2>5, <2>6, Restored
<1>8. ASSUME NEW s \in Slots, StepRefused(s) PROVE EnvInv'
  <2>1. PICK iat \in ArrivalTimes : LotBecomes(AdvanceTime(Lot, iat))
    BY <1>8 DEF StepRefused, Finish
  <2>2. waits' = 0
    BY <1>8 DEF StepRefused
  <2>3. ASSUME Lot.taken = Slots
        PROVE  \E b \in Int, i \in ArrivalTimes :
                 /\ Within(Lot.table, ToSet(Lot.parked), b)
                 /\ i + 0 * WaitTime <= b + iat
    <3>1. PICK i \in ArrivalTimes : Within(reservations, ToSet(parked), i + waits * WaitTime)
      BY <1>2, <2>3, LotFields
    <3>2. i + waits * WaitTime \in Int /\ iat + 0 * WaitTime <= i + waits * WaitTime + iat
      BY <1>3, <1>4
    <3>3. QED
      BY <3>1, <3>2, LotFields
  <2>4. QED
    BY <1>1, <1>3, <1>4, <2>1, <2>2, <2>3, LotFields, RunOn
<1>9. ASSUME NEW s \in Slots, StepAssign(s) PROVE EnvInv'
  <2>1. PICK stay \in ParkDurations, iat \in ArrivalTimes :
          LotBecomes(AdvanceTime(Assigned(s, FreshId(Lot, s), stay), iat))
    BY <1>9 DEF StepAssign, Finish
  <2>2. s \notin Lot.taken /\ ~Conflict(SlotRoute(s), Lot.table, Nobody) /\ waits' = 0
    BY <1>9, LotFields DEF StepAssign
  <2>3. PICK id : id = FreshId(Lot, s)
    OBVIOUS
  <2>4. id \in CarIds /\ id \notin Ids(Lot)
    BY <1>1, <2>3, FreshIdIs
  <2>5. PICK A : A = Assigned(s, id, stay)
    OBVIOUS
  <2>6. Listed(A)
    BY <1>1, <2>2, <2>4, <2>5, AssignedListed
  <2>7. Within(A.table, ToSet(A.parked), 0) /\ A.taken \subseteq Slots
    BY <2>6, LotIs DEF Listed, Books, BooksTyped
  <2>8. 0 \in Int /\ iat + 0 * WaitTime <= 0 + iat
    BY <1>3, <1>4
  <2>9. LotBecomes(AdvanceTime(A, iat))
    BY <2>1, <2>3, <2>5
  <2>10. QED
    BY <1>3, <1>4, <2>2, <2>6, <2>7, <2>8, <2>9, RunOn
<1>10. CASE UNCHANGED envVars
  <2>1. LotBecomes(Lot) /\ waits' = waits
    BY <1>10, LotFields DEF LotBecomes, envVars
  <2>2. QED
    BY <1>1, <1>2, <2>1, LotFields, Restored
<1>11. QED
  BY <1>5, <1>6, <1>7, <1>8, <1>9, <1>10 DEF EnvNext

LEMMA EnvInvariant == EnvSpec => []EnvInv
<1>1. EnvInit => EnvInv
  BY EnvInvInit
<1>2. EnvInv /\ [EnvNext]_envVars => EnvInv'
  BY EnvInvStep
<1>3. QED
  BY <1>1, <1>2, PTL DEF EnvSpec

-----------------------------------------------------------------------------
(* The theorems.                                                           *)
LEMMA EnvInvTyped ==
  ASSUME EnvInv
  PROVE  EnvTypeOK
<1>1. /\ Lot \in Lots /\ Running(Lot) /\ waits \in 0 .. MaxConsecutiveWaits
  BY LotTyped DEF EnvInv, LotInv
<1>2. /\ taken \subseteq Slots /\ active \subseteq Car /\ parked \in Seq(Stay)
      /\ reservations \subseteq TableEntry
  BY <1>1, LotIs, LotFields
<1>3. PICK z : z = (Columns + 3) * NodeTravelTime
  OBVIOUS
<1>4. /\ z \in Nat /\ z + NodeTravelTime + Max(ParkDurations) = Latest
      /\ NodeTravelTime \in Nat /\ SafetyMargin \in Nat /\ Max(ParkDurations) \in Nat
      /\ Latest \in Nat
  BY <1>3, LatestIs, EnvBounds, LongestStay
<1>5. (Columns + 4) * NodeTravelTime = z + NodeTravelTime
  <2>1. Latest = (Columns + 4) * NodeTravelTime + Max(ParkDurations)
    BY DEF Latest
  <2>2. (Columns + 4) * NodeTravelTime \in Int
    BY EnvBounds
  <2>3. QED
    BY <1>4, <2>1, <2>2
<1>6. Times = -(z + NodeTravelTime + SafetyMargin) .. Latest
  BY <1>4, <1>5 DEF Times
<1>7. \A t \in Int : -z <= t /\ t <= Latest => t \in Times
  BY <1>4, <1>6
<1>8. \A t \in Moments : t \in Times
  BY <1>4, <1>6 DEF Moments
<1>9. ASSUME NEW v \in active
      PROVE  /\ v.slot \in Slots /\ v.status \in {"moving", "exiting"}
             /\ v.id \in Slots \X Nat /\ v.start \in Times
  <2>1. v \in Car
    BY <1>2
  <2>2. v.start \in Int /\ v.start <= 0
    BY <2>1, CarIs
  <2>3. RouteEnd(RouteOf(v), v.start) > 0
    BY <1>1, LotFields DEF Running
  <2>4. PICK e : e = RouteEnd(RouteOf(v), 0)
    OBVIOUS
  <2>5. RouteEnd(RouteOf(v), v.start) = e + v.start /\ e <= z /\ e \in Int
    <3>1. 0 \in Int
      OBVIOUS
    <3>2. RouteEnd(RouteOf(v), 0) \in Int
      BY <2>1, <3>1, RouteEndIs
    <3>3. QED
      BY <1>3, <2>1, <2>2, <2>4, <3>2, RouteEndIs
  <2>6. -z <= v.start /\ v.start <= Latest
    BY <1>4, <2>2, <2>3, <2>5
  <2>7. QED
    BY <1>7, <2>1, <2>2, <2>6, CarIs DEF CarIds
<1>10. ASSUME NEW k \in DOMAIN parked
       PROVE  parked[k].slot \in Slots /\ parked[k].depart \in Times \cap Nat
  <2>1. parked[k] \in Stay
    BY <1>2, ElementOfSeq
  <2>2. parked[k].slot \in Slots /\ parked[k].depart \in Nat /\ parked[k].depart <= Latest
    BY <2>1, StayIs
  <2>3. QED
    BY <1>4, <1>7, <2>2
<1>11. ASSUME NEW r \in reservations
       PROVE  r.node \in Nodes /\ r.start \in Times /\ r.end \in Times
  BY <1>2, <1>8, EntryIs
<1>12. QED
  BY <1>1, <1>2, <1>9, <1>10, <1>11 DEF EnvTypeOK

(* Type correctness of the allocator, for every lot and every travel time, *)
(* margin, wait, arrival time and stay.                                    *)
THEOREM EnvTypeCorrect == EnvSpec => []EnvTypeOK
<1>1. EnvInv => EnvTypeOK
  BY EnvInvTyped
<1>2. QED
  BY <1>1, EnvInvariant, PTL

(* The Safety Shield (_check_conflict and _check_conflict_excluding): two  *)
(* cars under way are never less than SAFETY_MARGIN apart at a waypoint.   *)
THEOREM ShieldKeepsApart == EnvSpec => []ShieldHolds
<1>1. EnvInv => ShieldHolds
  <2>1. EnvInv => AllApart(Lot)
    BY DEF EnvInv, LotInv, Listed, Books
  <2>2. AllApart(Lot) => ShieldHolds
    BY LotFields DEF AllApart, ShieldHolds
  <2>3. QED
    BY <2>1, <2>2
<1>2. QED
  BY <1>1, EnvInvariant, PTL

LEMMA EnvInvBooks ==
  ASSUME EnvInv
  PROVE  BooksMatchLot
<1>1. /\ Owners(Lot, ToSet(parked)) /\ Movers(Lot, ToSet(parked))
      /\ NoGhosts(Lot, ToSet(parked)) /\ NoRepeats(parked)
  BY LotFields DEF EnvInv, LotInv, Listed, Books
<1>2. taken = {p.slot : p \in ToSet(parked)}
  BY <1>1, LotFields DEF Owners
<1>3. ASSUME NEW j \in DOMAIN parked, NEW k \in DOMAIN parked, j # k
      PROVE  parked[j].slot # parked[k].slot /\ parked[j].id # parked[k].id
  <2>1. parked[j] \in ToSet(parked) /\ parked[k] \in ToSet(parked)
    BY DEF ToSet
  <2>2. parked[j] # parked[k]
    BY <1>1, <1>3 DEF NoRepeats
  <2>3. QED
    BY <1>1, <2>1, <2>2 DEF Owners
<1>4. \A v \in active : v.status = "moving" =>
        \E p \in ToSet(parked) : p.id = v.id /\ p.slot = v.slot
  BY <1>1, LotFields DEF Movers
<1>5. SlotHasOneOwner
  BY <1>2, <1>3, <1>4 DEF SlotHasOneOwner
<1>6. NoGhostReservation
  BY <1>1, LotFields DEF NoGhosts, OnWay, NoGhostReservation
<1>7. QED
  BY <1>5, <1>6 DEF BooksMatchLot

(* The bookkeeping of _slot_statuses, _parked_vehicles, _active_vehicles   *)
(* and the reservation table: one owner for every taken slot, and no entry *)
(* without its car.                                                        *)
THEOREM BooksAlwaysMatch == EnvSpec => []BooksMatchLot
<1>1. EnvInv => BooksMatchLot
  BY EnvInvBooks
<1>2. QED
  BY <1>1, EnvInvariant, PTL

-----------------------------------------------------------------------------
(* No car is lost while the lists are rebuilt (_process_departures makes a *)
(* new list on every tick): one that is parked stays so, in its slot, or   *)
(* pulls out of it in the same step, until a reset ends the episode.       *)
Accounted(p) ==
  \/ \E q \in ToSet(parked') : q.id = p.id /\ q.slot = p.slot
  \/ \E v \in active' : v.id = p.id /\ v.slot = p.slot /\ v.status = "exiting"
NoCarLost == Reset \/ \A p \in ToSet(parked) : Accounted(p)

LEMMA AdvanceKeeps ==
  ASSUME NEW L, Listed(L), NEW d \in Nat, LotBecomes(AdvanceTime(L, d)),
         NEW p \in ToSet(L.parked)
  PROVE  Accounted(p)
<1>1. PICK A, o : A = AdvanceTime(L, d) /\ o = StayLater(p, d)
  OBVIOUS
<1>2. parked' = A.parked /\ active' = A.active
  BY <1>1 DEF LotBecomes
<1>3. p \in Stay
  BY DEF Listed, Books, BooksTyped
<1>4. o \in Stay /\ o.id = p.id /\ o.slot = p.slot
  BY <1>1, <1>3, StayLaterIs
<1>5. o \in ToSet(A.parked) \/ Leaver(o) \in A.active
  BY <1>1, AdvanceInv DEF Kept
<1>6. Leaver(o).id = p.id /\ Leaver(o).slot = p.slot /\ Leaver(o).status = "exiting"
  BY <1>4, LeaverIs
<1>7. QED
  BY <1>2, <1>4, <1>5, <1>6 DEF Accounted

LEMMA NoCarLostStep ==
  ASSUME EnvInv, [EnvNext]_envVars
  PROVE  NoCarLost \/ UNCHANGED envVars
<1>1. Listed(Lot) /\ Lot.parked = parked
  BY LotFields DEF EnvInv, LotInv
<1>2. ASSUME parked' = parked, NEW p \in ToSet(parked) PROVE Accounted(p)
  BY <1>2 DEF Accounted
<1>3. \A i \in ArrivalTimes : i \in Nat
  BY EnvBounds
<1>4. ASSUME NEW d \in Nat, LotBecomes(AdvanceTime(Lot, d)) PROVE NoCarLost
  BY <1>1, <1>4, AdvanceKeeps DEF NoCarLost
<1>5. CASE ActionMasks
  <2>1. LotBecomes(Shown)
    BY <1>5 DEF ActionMasks
  <2>2. CASE Shown = Lot
    BY <1>1, <1>2, <2>1, <2>2 DEF LotBecomes, NoCarLost
  <2>3. CASE Shown # Lot
    <3> DEFINE D == {p.depart : p \in ToSet(Lot.parked)}
    <3>1. Shown = AdvanceTime(Lot, Min(D)) /\ parked # <<>>
      BY <1>1, <2>3 DEF Shown, EnsureFreeSlot
    <3>2. D \in SUBSET Nat /\ D # {}
      <4>1. \A p \in ToSet(Lot.parked) : p \in Stay
        BY <1>1 DEF Listed, Books, BooksTyped
      <4>2. parked \in Seq(Stay)
        BY <1>1, LotIs DEF Listed, Books, BooksTyped
      <4>3. 1 \in DOMAIN parked
        BY <3>1, <4>2, EmptySeq, LenProperties
      <4>4. ToSet(Lot.parked) # {}
        BY <1>1, <4>3 DEF ToSet
      <4>5. QED
        BY <4>1, <4>4, StayIs
    <3> HIDE DEF D
    <3>3. Min(D) \in Nat
      BY <3>2, Earliest
    <3>4. QED
      BY <1>4, <2>1, <3>1, <3>3
  <2>4. QED
    BY <2>2, <2>3
<1>6. CASE StepWait
  BY <1>4, <1>6, EnvBounds DEF StepWait, Finish
<1>7. CASE Reset
  BY <1>7 DEF NoCarLost
<1>8. ASSUME NEW s \in Slots, StepRefused(s) PROVE NoCarLost
  BY <1>3, <1>4, <1>8 DEF StepRefused, Finish
<1>9. ASSUME NEW s \in Slots, StepAssign(s) PROVE NoCarLost
  <2>1. PICK stay \in ParkDurations, iat \in ArrivalTimes :
          LotBecomes(AdvanceTime(Assigned(s, FreshId(Lot, s), stay), iat))
    BY <1>9 DEF StepAssign, Finish
  <2>2. s \notin Lot.taken /\ ~Conflict(SlotRoute(s), Lot.table, Nobody)
    BY <1>9, LotFields DEF StepAssign
  <2>3. PICK id : id = FreshId(Lot, s)
    OBVIOUS
  <2>4. id \in CarIds /\ id \notin Ids(Lot)
    BY <1>1, <2>3, FreshIdIs
  <2>5. PICK A : A = Assigned(s, id, stay)
    OBVIOUS
  <2>6. Listed(A) /\ ToSet(Lot.parked) \subseteq ToSet(A.parked)
    BY <1>1, <2>2, <2>4, <2>5, AssignedListed
  <2>7. LotBecomes(AdvanceTime(A, iat)) /\ iat \in Nat
    BY <1>3, <2>1, <2>3, <2>5
  <2>8. QED
    BY <1>1, <2>6, <2>7, AdvanceKeeps DEF NoCarLost
<1>10. QED
  BY <1>5, <1>6, <1>7, <1>8, <1>9 DEF EnvNext

(* A parked car leaves the books only by driving out of its slot, whatever *)
(* departures are put off and however far the clock is run on.             *)
THEOREM NoCarIsLost == EnvSpec => [][NoCarLost]_envVars
<1>1. EnvInv /\ [EnvNext]_envVars => [NoCarLost]_envVars
  BY NoCarLostStep
<1>2. QED
  BY <1>1, EnvInvariant, PTL DEF EnvSpec

-----------------------------------------------------------------------------
(* The mask.                                                               *)
LEMMA NearestIs ==
  ASSUME NEW free \in SUBSET Slots, free # {}
  PROVE  Nearest(free) # {}
<1> DEFINE T == {s[2] : s \in free}
<1>1. T \in SUBSET Nat /\ T # {}
  BY SlotIs, EnvBounds
<1>2. PICK n \in T : \A m \in T : n <= m
  BY <1>1, Least
<1>3. PICK s \in free : s[2] = n
  BY <1>2
<1>4. \A t \in free : s[2] <= t[2]
  BY <1>2, <1>3
<1>5. QED
  BY <1>4 DEF Nearest

(* How old the ways must be for a car to drive out whatever came in.       *)
WayIn == (Columns + 1) * NodeTravelTime + SafetyMargin

LEMMA PastHorizon ==
  ASSUME NEW s \in Slots, NEW i \in DOMAIN ExitRoute(s)
  PROVE  /\ Horizon(ExitRoute(s)[i]) - WayIn <= NodeStart(i, 0) - Padding
         /\ -SafetyMargin <= NodeStart(i, 0) - Padding
         /\ NodeStart(i, 0) \in Int
<1>1. PICK c \in 1 .. Columns : c = s[2]
  BY SlotIs
<1>2. i \in 1 .. c + 3 /\ c \in Int /\ i \in Int /\ Columns \in Nat /\ 0 \in Int
  BY <1>1, ExitRouteIs, EnvBounds
<1>3. PICK w : w = (Columns + 1) * NodeTravelTime
  OBVIOUS
<1>4. /\ (Columns + 2) * NodeTravelTime = w + NodeTravelTime
      /\ (Columns + 3) * NodeTravelTime = w + NodeTravelTime + NodeTravelTime
      /\ w \in Nat /\ w >= NodeTravelTime /\ WayIn = w + SafetyMargin
  <2>1. w \in Nat
    BY <1>3, EnvBounds
  <2>2. w = Columns * NodeTravelTime + NodeTravelTime /\ Columns * NodeTravelTime \in Nat
    BY <1>3, EnvBounds
  <2>3. w >= NodeTravelTime
    BY <2>2, EnvBounds
  <2>4. QED
    BY <1>3, <2>1, <2>3, LatestIs DEF WayIn
<1>5. NodeTravelTime \in Nat /\ SafetyMargin \in Nat /\ Padding = SafetyMargin
  BY EnvBounds DEF Padding
<1>6. /\ NodeStart(1, 0) = 0 /\ NodeStart(1 + 1, 0) = NodeTravelTime
      /\ NodeStart(1 + 1 + 1, 0) = NodeTravelTime + NodeTravelTime
  <2>1. NodeStart(1, 0) = 0
    BY Shifted
  <2>2. NodeStart(1 + 1, 0) = NodeStart(1, 0) + NodeTravelTime
    BY Shifted
  <2>3. NodeStart(1 + 1 + 1, 0) = NodeStart(1 + 1, 0) + NodeTravelTime
    BY Shifted
  <2>4. QED
    BY <1>5, <2>1, <2>2, <2>3
<1>7. NodeStart(i, 0) \in Int /\ NodeStart(i, 0) >= 0
  <2>1. 1 <= i /\ 1 \in Int
    BY <1>2
  <2>2. NodeStart(1, 0) <= NodeStart(i, 0)
    BY <1>2, <2>1, LaterNodes
  <2>3. NodeStart(i, 0) \in Int
    BY <1>2, Shifted
  <2>4. QED
    BY <1>6, <2>2, <2>3
<1>8. CASE i = 1
  <2>1. Horizon(ExitRoute(s)[i]) = NodeTravelTime
    BY <1>8, ExitRouteIs DEF Horizon
  <2>2. QED
    BY <1>4, <1>5, <1>6, <1>7, <1>8, <2>1
<1>9. CASE i = c + 3
  <2>1. ExitRoute(s)[i] = LotExit /\ LotExit \notin Slots
    BY <1>1, <1>9, ExitRouteIs, SlotIs
  <2>2. Horizon(ExitRoute(s)[i]) = (Columns + 3) * NodeTravelTime
    BY <2>1 DEF Horizon
  <2>3. 1 + 1 + 1 <= i /\ 1 + 1 + 1 \in Int
    BY <1>2, <1>9
  <2>4. NodeStart(1 + 1 + 1, 0) <= NodeStart(i, 0)
    BY <1>2, <2>3, LaterNodes
  <2>5. QED
    BY <1>4, <1>5, <1>6, <1>7, <2>2, <2>4
<1>10. CASE i # 1 /\ i # c + 3
  <2>1. i \in 2 .. c + 1 \/ i = c + 2
    BY <1>2, <1>10
  <2>2. ExitRoute(s)[i] = Junction \/ \E k \in Int : ExitRoute(s)[i] = LanePoint(k)
    <3>1. CASE i = c + 2
      BY <1>1, <3>1, ExitRouteIs
    <3>2. CASE i \in 2 .. c + 1
      <4>1. ExitRoute(s)[i] = LanePoint(c + 2 - i)
        BY <1>1, <3>2, ExitRouteIs
      <4>2. c + 2 - i \in Int
        BY <1>2
      <4>3. QED
        BY <4>1, <4>2
    <3>3. QED
      BY <2>1, <3>1, <3>2
  <2>3. ExitRoute(s)[i] \notin Slots /\ ExitRoute(s)[i] # LotExit
    BY <2>2, SlotIs, PointsApart
  <2>4. Horizon(ExitRoute(s)[i]) = (Columns + 2) * NodeTravelTime
    BY <2>3 DEF Horizon
  <2>5. 1 + 1 <= i /\ 1 + 1 \in Int
    BY <1>2, <1>10
  <2>6. NodeStart(1 + 1, 0) <= NodeStart(i, 0)
    BY <1>2, <2>5, LaterNodes
  <2>7. QED
    BY <1>4, <1>5, <1>6, <1>7, <2>4, <2>6
<1>11. QED
  BY <1>8, <1>9, <1>10

(* A way that old cannot keep a car that is due from driving out.          *)
LEMMA WayIsFree ==
  ASSUME NEW T \in SUBSET TableEntry, NEW P \in SUBSET Stay, Within(T, P, WayIn),
         NEW p \in P, \A q \in P : q.slot = p.slot => q = p
  PROVE  ~Conflict(ExitRoute(p.slot), T, p.id)
<1>1. SUFFICES ASSUME NEW i \in DOMAIN ExitRoute(p.slot), NEW r \in T,
                      r.node = ExitRoute(p.slot)[i], r.id # p.id,
                      NodeStart(i, 0) - Padding < r.end
               PROVE  FALSE
  BY DEF Conflict
<1>2. p \in Stay /\ p.slot \in Slots /\ r.end \in Int
  BY StayIs, EntryIs
<1>3. PICK h \in Int : h = Horizon(r.node)
  BY HorizonIs
<1>4. PICK m, w, g : m = NodeStart(i, 0) /\ w = WayIn /\ g = Padding
  OBVIOUS
<1>5. w \in Int /\ g \in Int /\ SafetyMargin \in Int
  BY <1>4, EnvBounds DEF WayIn, Padding
<1>6. h - w <= m - g /\ -SafetyMargin <= m - g /\ m \in Int
  BY <1>1, <1>2, <1>3, <1>4, PastHorizon
<1>7. m - g < r.end
  BY <1>1, <1>4
<1>8. ~(r.end <= h - w) /\ ~(r.end <= -SafetyMargin)
  BY <1>2, <1>5, <1>6, <1>7
<1>9. HeldBy(P, r)
  BY <1>3, <1>4, <1>8 DEF Within
<1>10. PICK q \in P : q.id = r.id /\ q.slot = r.node
  BY <1>9 DEF HeldBy
<1>11. q.slot \in Slots
  BY StayIs
<1>12. ASSUME i # 1 PROVE ExitRoute(p.slot)[i] \notin Slots
  <2>1. PICK c \in 1 .. Columns : c = p.slot[2]
    BY <1>2, SlotIs
  <2>2. i \in 1 .. c + 3 /\ c \in Int
    BY <1>2, <2>1, ExitRouteIs, EnvBounds
  <2>3. i \in 2 .. c + 1 \/ i = c + 2 \/ i = c + 3
    BY <1>12, <2>2
  <2>4. \/ ExitRoute(p.slot)[i] = Junction \/ ExitRoute(p.slot)[i] = LotExit
        \/ \E k \in Int : ExitRoute(p.slot)[i] = LanePoint(k)
    <3>1. CASE i = c + 2 \/ i = c + 3
      BY <1>2, <2>1, <3>1, ExitRouteIs
    <3>2. CASE i \in 2 .. c + 1
      <4>1. ExitRoute(p.slot)[i] = LanePoint(c + 2 - i)
        BY <1>2, <2>1, <3>2, ExitRouteIs
      <4>2. c + 2 - i \in Int
        BY <2>2, <3>2
      <4>3. QED
        BY <4>1, <4>2
    <3>3. QED
      BY <2>3, <3>1, <3>2
  <2>5. QED
    BY <2>4, SlotIs
<1>13. i = 1 /\ r.node = p.slot
  BY <1>1, <1>2, <1>10, <1>11, <1>12, ExitRouteIs
<1>14. QED
  BY <1>1, <1>10, <1>13

LEMMA MaskOpen ==
  ASSUME EnvInv, WaitsOutlastWayIn
  PROVE  MaskNeverEmpty
<1>1. /\ Listed(Lot) /\ Lot \in Lots /\ taken \subseteq Slots
      /\ waits \in 0 .. MaxConsecutiveWaits /\ MaxConsecutiveWaits \in Nat
  BY LotTyped, LotFields, EnvBounds DEF EnvInv, LotInv
<1>2. SUFFICES ASSUME AllowedAtOnce = {}, FreeSlots(Shown) = {}
               PROVE  FALSE
  <2>1. ASSUME FreeSlots(Shown) # {} PROVE Nearest(FreeSlots(Shown)) # {}
    BY <2>1, NearestIs DEF FreeSlots
  <2>2. QED
    BY <2>1 DEF MaskNeverEmpty, Allowed
<1>3. Shown = EnsureFreeSlot(Lot) /\ waits = MaxConsecutiveWaits
  <2>1. WaitMask = {}
    BY <1>2 DEF AllowedAtOnce
  <2>2. ~(waits < MaxConsecutiveWaits)
    BY <2>1 DEF WaitMask
  <2>3. QED
    BY <1>1, <1>2, <2>2 DEF Shown
<1>4. FreeSlots(Lot) = {} /\ taken = Slots
  BY <1>1, <1>2, <1>3, LotFields DEF EnsureFreeSlot, FreeSlots
<1> DEFINE P == ToSet(parked)
<1>5. P \in SUBSET Stay /\ Owners(Lot, P)
  BY <1>1, LotFields DEF Listed, Books, BooksTyped
<1>6. PICK s : s \in Slots
  <2>1. PICK row \in Rows : TRUE
    BY EnvBounds
  <2>2. <<row, 1>> \in Slots
    BY EnvBounds DEF Slots
  <2>3. QED
    BY <2>2
<1>7. P # {}
  BY <1>4, <1>5, <1>6, LotFields DEF Owners
<1>8. parked # <<>>
  BY <1>7 DEF ToSet
<1> HIDE DEF P
<1> DEFINE D == {p.depart : p \in P}
<1>9. D \in SUBSET Nat /\ D # {}
  BY <1>5, <1>7, StayIs
<1>10. PICK d \in Nat : d = Min(D) /\ d \in D
  BY <1>9, Earliest
<1>11. PICK p \in P : p.depart = d
  BY <1>10
<1>12. PICK A, E : A = AdvanceTime(Lot, d) /\ E = Onward(Lot, d)
  OBVIOUS
<1>13. Shown = A
  <2>1. Shown = AdvanceTime(Lot, Min({p_1.depart : p_1 \in ToSet(Lot.parked)}))
    BY <1>3, <1>4, <1>8, LotFields DEF EnsureFreeSlot
  <2>2. QED
    BY <1>10, <1>12, <2>1, LotFields DEF D, P
<1>14. A.taken = Lot.taken
  <2>1. A.taken \subseteq Lot.taken
    BY <1>1, <1>12, AdvanceInv
  <2>2. Slots \subseteq A.taken
    BY <1>2, <1>13 DEF FreeSlots
  <2>3. QED
    BY <1>4, <2>1, <2>2, LotFields
<1> DEFINE o == StayLater(p, d)
<1>15. Held(E, o)
  BY <1>1, <1>11, <1>12, <1>14, AdvanceInv, LotFields DEF P
<1>16. /\ o.id = p.id /\ o.slot = p.slot /\ o.depart = 0 /\ o \in StaysLater(P, d)
  <2>1. p \in Stay /\ p.depart <= d
    BY <1>5, <1>11
  <2>2. QED
    BY <2>1, StayLaterIs DEF StaysLater
<1> HIDE DEF o
<1>17. Conflict(ExitRoute(o.slot), E.table, o.id)
  BY <1>15, <1>16 DEF Held, Deferred
<1>18. /\ E.table \in SUBSET TableEntry /\ StaysLater(P, d) \in SUBSET Stay
       /\ \A q \in StaysLater(P, d) : q.slot = o.slot => q = o
  <2>1. /\ Books(E, ToSet(E.parked)) /\ ToSet(E.parked) = StaysLater(P, d)
    BY <1>1, <1>12, OnwardInv, LotFields DEF P
  <2>2. QED
    BY <1>16, <2>1, LotIs DEF Books, BooksTyped, Owners
<1>19. Within(E.table, StaysLater(P, d), WayIn)
  <2>1. PICK iat \in ArrivalTimes : Within(reservations, P, iat + waits * WaitTime)
    BY <1>4 DEF EnvInv, FullLotAges, P
  <2>2. PICK b : b = iat + waits * WaitTime
    OBVIOUS
  <2>3. b \in Int /\ b >= WayIn /\ WayIn \in Int
    <3>1. MaxConsecutiveWaits * WaitTime + iat >= WayIn
      BY DEF WaitsOutlastWayIn, WayIn
    <3>2. PICK x : x = MaxConsecutiveWaits * WaitTime
      OBVIOUS
    <3>3. x \in Int /\ iat \in Int /\ WayIn \in Int
      BY <3>2, EnvBounds DEF WayIn
    <3>4. b = iat + x /\ x + iat >= WayIn
      BY <1>3, <2>2, <3>1, <3>2
    <3>5. QED
      BY <3>3, <3>4
  <2>4. Within(Lot.table, P, b)
    BY <2>1, <2>2, LotFields
  <2>5. Within(Elapsed(Lot, d).table, StaysLater(P, d), b + d)
    BY <1>1, <1>5, <2>3, <2>4, ElapsedWithin
  <2>6. E.table \subseteq Elapsed(Lot, d).table
    BY <1>1, <1>12, OnwardInv
  <2>7. Within(E.table, StaysLater(P, d), b + d)
    BY <2>5, <2>6 DEF Within
  <2>8. b + d \in Int /\ WayIn <= b + d
    BY <2>3
  <2>9. QED
    BY <1>18, <2>3, <2>7, <2>8, WithinLess
<1>20. QED
  BY <1>16, <1>17, <1>18, <1>19, WayIsFree

(* The promise of action_masks: some action is always allowed, provided    *)
(* the waits that use up WAIT outlast the longest way in, as they do with  *)
(* the values parking_env.py has.                                          *)
THEOREM MaskAlwaysOpen ==
  ASSUME WaitsOutlastWayIn
  PROVE  EnvSpec => []MaskNeverEmpty
<1>1. EnvInv => MaskNeverEmpty
  BY MaskOpen
<1>2. QED
  BY <1>1, EnvInvariant, PTL

(* The other end of an episode that _check_done looks for, every slot      *)
(* TAKEN and no car left to depart, never comes.                           *)
THEOREM EpisodeNeverStuck == EnvSpec => [](taken = Slots => parked # <<>>)
<1>1. ASSUME EnvInv, taken = Slots PROVE parked # <<>>
  <2>1. taken = {p.slot : p \in ToSet(parked)}
    BY <1>1, EnvInvBooks DEF BooksMatchLot, SlotHasOneOwner
  <2>2. PICK row \in Rows : TRUE
    BY EnvBounds
  <2>3. <<row, 1>> \in Slots
    BY EnvBounds DEF Slots
  <2>4. QED
    BY <1>1, <2>1, <2>3 DEF ToSet
<1>2. EnvInv => (taken = Slots => parked # <<>>)
  BY <1>1
<1>3. QED
  BY <1>2, EnvInvariant, PTL
================================================================================
