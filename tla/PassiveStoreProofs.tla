------------------------- MODULE PassiveStoreProofs -------------------------
(***************************************************************************)
(* Proofs about the passive store, for any sensors, facts, routes, batches, *)
(* old records and deaths: no sighting that was read is lost, none is       *)
(* folded in twice but for what a migration that died copied again, the     *)
(* count of a record is that of its sightings, its window their hull, and   *)
(* no fact has more records than there are processes.                       *)
(*                                                                          *)
(* What a sensor holds is made of sightings that are nowhere else           *)
(* (SensorHolds, Apart); a record found by its _id is still there, and of   *)
(* the same fact, when it is updated (Targeted); a record of old stays as   *)
(* it was until the migration, that has copied it, removes it (Numbered,    *)
(* Migrating); and whoever is about to insert counts as the record it will  *)
(* insert (Few).                                                            *)
(***************************************************************************)
EXTENDS PassiveStore, FiniteSetTheorems, TLAPS

Records == [id : Nat \cup Legacy, fact : Facts \cup Legacy, count : Nat \ {0},
            first : Nat, last : Nat, of : SUBSET Sightings]

\* Where a process is between its query and what it writes.
Storing == {"find", "update", "upsert", "insert"}

\* The kinds of what the steps read.
TypeInv ==
  /\ records \subseteq Records
  /\ route \in [Sensors -> Routes]
  /\ ended \subseteq Sensors
  /\ buffer \in [Sensors -> SUBSET Items]
  /\ pc \in [Procs -> Storing \cup {"read", "flush", "scan", "remove", "done"}]
  /\ \A s \in Sensors : pc[s] \in Storing \cup {"read", "flush", "done"}
  /\ pc[Migrator] \in Storing \cup {"scan", "remove", "done"}
  /\ item \in [Procs -> Items]
  /\ target \in [Procs -> Nat \cup Legacy]
  /\ old \in Nat \cup Legacy
  /\ read \subseteq Sightings /\ dropped \subseteq Sightings
  /\ ids \in Nat /\ deaths \in Nat
  /\ again \subseteq Sightings

\* The sighting of an old fact, and its record.
OldSighting(f) == [id |-> 0, fact |-> f, first |-> 1, last |-> 1]
OldRecord(f) ==
  [id |-> f, fact |-> f, count |-> 1, first |-> 1, last |-> 1, of |-> {OldSighting(f)}]
OldItem(f) ==
  [fact |-> Blacklist, count |-> 1, first |-> 1, last |-> 1, of |-> {OldSighting(f)}]

\* A record of today has a number of its own, and an old one is as it was.
Today(d) == d.fact \in Facts /\ d.id \in 1 .. ids
Numbered ==
  /\ \A d \in records : Today(d) \/ (d.fact \in Legacy /\ d = OldRecord(d.fact))
  /\ \A d, e \in records : d.id = e.id => d = e
  /\ \A d \in records : IsFiniteSet(d.of) /\ d.of # {} /\ d.of \subseteq read \cup OldSightings

\* Sightings are numbered as they are read.
ReadIsNumbered == IsFiniteSet(read) /\ \A x \in read : x.id \in 1 .. Cardinality(read)

\* What a sensor holds: items of sightings it read, each in one of them only.
GoodItem(i) ==
  /\ i.fact \in Facts
  /\ IsFiniteSet(i.of) /\ i.of # {} /\ i.of \subseteq read
  /\ i.count = Cardinality(i.of)
SensorHolds(s) ==
  /\ \A i \in buffer[s] : GoodItem(i)
  /\ pc[s] \in Storing => GoodItem(item[s])
  /\ \A i, j \in buffer[s] :
       i # j => i.of \cap j.of = {} /\ (route[s] = "local" => i.fact # j.fact)
  /\ pc[s] \in Storing => \A i \in buffer[s] : i.of \cap item[s].of = {}
SensorsHold == \A s \in Sensors : SensorHolds(s)

\* The record being migrated is still there, and once copied it is also in another.
Migrating ==
  pc[Migrator] \in Storing \cup {"remove"} =>
    /\ old \in Legacy /\ OldRecord(old) \in records /\ item[Migrator] = OldItem(old)
    /\ pc[Migrator] = "remove" =>
         \E d \in records : d.fact = Blacklist /\ OldSighting(old) \in d.of

\* The record a query found is there when it is updated.
Targeted ==
  \A p \in Procs :
    pc[p] = "update" => \E d \in records : d.id = target[p] /\ d.fact = item[p].fact

\* No sighting is in two places.
Apart ==
  /\ \A d, e \in records : d # e /\ d.fact \in Facts /\ e.fact \in Facts =>
                             d.of \cap e.of \subseteq again
  /\ \A d, e \in records : d # e /\ d.fact \in Legacy => d.of \cap e.of \subseteq Twice
  /\ \A s \in Sensors : Pending(s) \cap Recorded = {}
  /\ \A s, t \in Sensors : s # t => Pending(s) \cap Pending(t) = {}

\* The records of a fact, and those about to insert one more.
OfFact(f) == {d \in records : d.fact = f}
Inserting(f) == {p \in Procs : pc[p] = "insert" /\ item[p].fact = f}
Few ==
  \A f \in Facts :
    /\ IsFiniteSet(OfFact(f))
    /\ Cardinality(OfFact(f)) + Cardinality(Inserting(f)) <= Cardinality(Procs)

\* The inductive invariant, but for the windows.
Core ==
  /\ Numbered /\ ReadIsNumbered /\ SensorsHold /\ Migrating /\ Targeted
  /\ Apart /\ NothingLost /\ CountIsSightings /\ Few
IInv == TypeInv /\ Core

\* The windows of the records, and of what is about to be folded in, are hulls.
IsHull(i) ==
  /\ \A x \in i.of : i.first <= x.first /\ x.last <= i.last
  /\ \E x, y \in i.of : i.first = x.first /\ i.last = y.last
Hulls ==
  /\ \A d \in records : IsHull(d)
  /\ \A s \in Sensors : \A i \in buffer[s] : IsHull(i)
  /\ \A p \in Procs : pc[p] \in Storing => IsHull(item[p])
-----------------------------------------------------------------------------
(* What the steps have in common.                                           *)

\* An item is folded into record d; or an upsert finds no record.
Folds(p, d) ==
  /\ pc[p] \in {"update", "upsert"} /\ d \in records /\ d.fact = item[p].fact
  /\ records' = (records \ {d}) \cup {Folded(d, item[p])}
  /\ Goto(p, After(p)) /\ UNCHANGED <<target, ids>> /\ Keep(p)
Misses(p) ==
  /\ pc[p] = "upsert"
  /\ \A d \in records : d.fact # item[p].fact
  /\ Goto(p, "insert") /\ UNCHANGED <<records, target, ids>> /\ Keep(p)

\* An update by _id changes one record, that of the item's fact.
LEMMA StoreSteps ==
  ASSUME Numbered, Targeted, NEW p \in Procs, insert_or_update(p)
  PROVE  Find(p) \/ (\E d \in records : Folds(p, d)) \/ Misses(p) \/ Insert(p)
<1>1. CASE Update(p)
  <2>1. PICK d \in records : d.id = target[p] /\ d.fact = item[p].fact
    BY <1>1 DEF Update, Targeted
  <2>2. \A e \in records : e.id = target[p] <=> e = d
    BY <2>1 DEF Numbered
  <2>3. records' = (records \ {d}) \cup {Folded(d, item[p])}
    BY <1>1, <2>2 DEF Update
  <2>4. Folds(p, d)
    BY <1>1, <2>1, <2>3 DEF Update, Folds
  <2> QED
    BY <2>4
<1>2. CASE Upsert(p)
  BY <1>2 DEF Upsert, Folds, Misses
<1> QED
  BY <1>1, <1>2 DEF insert_or_update

LEMMA Kinds ==
  ASSUME PassiveAssumption, TypeInv
  PROVE  /\ \A d \in records : d \in Records /\ d.of \subseteq Sightings
         /\ \A p \in Procs : item[p] \in Items /\ item[p].of \subseteq Sightings
         /\ \A s \in Sensors : buffer[s] \subseteq Items /\ s \in Procs /\ s # Migrator
         /\ Migrator \in Procs
         /\ OldSightings \subseteq Sightings
BY DEF TypeInv, Records, Items, Procs, OldSightings, Sightings, PassiveAssumption

\* What folding an item into a record makes of it.
LEMMA FoldMakes ==
  ASSUME NEW d \in Records, NEW i \in Items
  PROVE  LET e == Folded(d, i)
         IN /\ e \in Records
            /\ e.id = d.id /\ e.fact = d.fact /\ e.count = d.count + i.count
            /\ e.first = Lower(d.first, i.first) /\ e.last = Higher(d.last, i.last)
            /\ e.of = d.of \cup i.of
<1>2. /\ d.count \in Nat \ {0} /\ d.first \in Nat /\ d.last \in Nat /\ d.of \in SUBSET Sightings
      /\ i.count \in Nat /\ i.first \in Nat /\ i.last \in Nat /\ i.of \in SUBSET Sightings
  BY DEF Records, Items
<1> DEFINE c == d.count + i.count
           from == Lower(d.first, i.first)
           to == Higher(d.last, i.last)
           of == d.of \cup i.of
<1>3. c \in Nat \ {0} /\ from \in Nat /\ to \in Nat /\ of \in SUBSET Sightings
  BY <1>2 DEF Lower, Higher
<1>4. Folded(d, i) = [d EXCEPT !.count = c, !.first = from, !.last = to, !.of = of]
  BY DEF Folded
<1> HIDE DEF c, from, to, of
<1> DEFINE e == Folded(d, i)
<1> HIDE DEF e
<1>5. /\ e \in Records
      /\ e.id = d.id /\ e.fact = d.fact /\ e.count = c
      /\ e.first = from /\ e.last = to /\ e.of = of
  BY <1>3, <1>4 DEF e, Records
<1> QED
  BY <1>5 DEF c, from, to, of, e

\* And merging a sighting into an item of a buffer.
LEMMA MergeMakes ==
  ASSUME NEW i \in Items, NEW x \in Sightings
  PROVE  LET e == Merged(i, x)
         IN /\ e \in Items
            /\ e.fact = i.fact /\ e.count = i.count + 1 /\ e.of = i.of \cup {x}
            /\ e.first = Lower(i.first, x.first)
            /\ e.last = IF Intervals THEN Lower(i.last, x.last) ELSE Higher(i.last, x.last)
<1>2. /\ i.count \in Nat /\ i.first \in Nat /\ i.last \in Nat /\ i.of \in SUBSET Sightings
      /\ x.first \in Nat /\ x.last \in Nat
  BY DEF Items, Sightings
<1> DEFINE c == i.count + 1
           from == Lower(i.first, x.first)
           to == IF Intervals THEN Lower(i.last, x.last) ELSE Higher(i.last, x.last)
           of == i.of \cup {x}
<1>3. c \in Nat /\ from \in Nat /\ to \in Nat /\ of \in SUBSET Sightings
  BY <1>2 DEF Lower, Higher
<1>4. Merged(i, x) = [i EXCEPT !.count = c, !.first = from, !.last = to, !.of = of]
  BY DEF Merged
<1> HIDE DEF c, from, to, of
<1> DEFINE e == Merged(i, x)
<1> HIDE DEF e
<1>5. /\ e \in Items
      /\ e.fact = i.fact /\ e.count = c /\ e.of = of /\ e.first = from /\ e.last = to
  BY <1>3, <1>4 DEF e, Items
<1> QED
  BY <1>5 DEF c, from, to, of, e

\* An insert makes a record too.
NewRecord(p) ==
  [id |-> ids + 1, fact |-> item[p].fact, count |-> item[p].count, first |-> item[p].first,
   last |-> item[p].last, of |-> item[p].of]
LEMMA InsertMakes ==
  ASSUME ids \in Nat, NEW p \in Procs, item[p] \in Items, item[p].count # 0
  PROVE  NewRecord(p) \in Records
BY DEF NewRecord, Records, Items

-----------------------------------------------------------------------------
(* Every step keeps the kinds.                                              *)

\* What is held once a sighting is read.
LEMMA SightKinds ==
  ASSUME PassiveAssumption, TypeInv, NEW s \in Sensors, NEW x \in Sightings
  PROVE  Held(s, x) \subseteq Items
<1>1. Single(x) \in Items
  BY DEF Single, Items, Sightings
<1>2. ASSUME NEW i \in Items PROVE Merged(i, x) \in Items
  BY MergeMakes
<1>3. buffer[s] \subseteq Items
  BY Kinds
<1> QED
  BY <1>1, <1>2, <1>3 DEF Held

LEMMA Counted ==
  ASSUME PassiveAssumption, IInv, NEW p \in Procs, pc[p] \in Storing
  PROVE  /\ item[p].fact \in Facts /\ item[p] \in Items
         /\ IsFiniteSet(item[p].of) /\ item[p].of # {}
         /\ item[p].of \subseteq read \cup OldSightings
         /\ item[p].count = Cardinality(item[p].of) /\ item[p].count \in Nat \ {0}
<1>1. item[p] \in Items
  BY Kinds DEF IInv, Core
<1>2. CASE p \in Sensors
  <2>1. GoodItem(item[p])
    BY <1>2 DEF IInv, Core, SensorsHold, SensorHolds
  <2> QED
    BY <1>1, <2>1, FS_EmptySet, FS_CardinalityType DEF GoodItem
<1>3. CASE p = Migrator
  <2>1. item[p] = OldItem(old) /\ old \in Legacy
    BY <1>3 DEF IInv, Core, Migrating
  <2>2. OldSighting(old) \in OldSightings
    BY <2>1 DEF OldSighting, OldSightings
  <2>3. IsFiniteSet({OldSighting(old)}) /\ Cardinality({OldSighting(old)}) = 1
    BY FS_Singleton
  <2> QED
    BY <1>1, <2>1, <2>2, <2>3 DEF OldItem, PassiveAssumption
<1> QED
  BY <1>2, <1>3 DEF Procs

LEMMA TypeStep ==
  ASSUME PassiveAssumption, IInv, [Next]_vars
  PROVE  TypeInv'
<1> USE DEF Storing, Goto, Keep
<1>1. TypeInv /\ Numbered /\ Targeted
  BY DEF IInv, Core
<1>2. /\ \A s \in Sensors : s \in Procs /\ s # Migrator
      /\ Migrator \in Procs
  BY DEF Procs, PassiveAssumption
<1>3. ASSUME NEW s \in Sensors, Sight(s) PROVE TypeInv'
  <2>1. PICK f \in Facts, from \in 1 .. MaxTime, to \in 1 .. MaxTime :
          LET x == [id |-> Cardinality(read) + 1, fact |-> f, first |-> from, last |-> to]
          IN  /\ read' = read \cup {x}
              /\ buffer' = [buffer EXCEPT ![s] = Held(s, x)]
              /\ pc' = [pc EXCEPT ![s] =
                          IF Cardinality(Held(s, x)) >= Batch(s) THEN "flush" ELSE "read"]
    BY <1>3 DEF Sight
  <2> DEFINE x == [id |-> Cardinality(read) + 1, fact |-> f, first |-> from, last |-> to]
  <2>2. x \in Sightings
    BY FS_CardinalityType DEF IInv, Core, ReadIsNumbered, Sightings, PassiveAssumption
  <2>3. Held(s, x) \in SUBSET Items
    BY <1>1, <2>2, SightKinds
  <2> HIDE DEF x
  <2>4. /\ read' = read \cup {x}
        /\ buffer' = [buffer EXCEPT ![s] = Held(s, x)]
        /\ pc' = [pc EXCEPT ![s] =
                    IF Cardinality(Held(s, x)) >= Batch(s) THEN "flush" ELSE "read"]
    BY <2>1 DEF x
  <2>5. UNCHANGED <<records, route, ended, item, target, old, dropped, ids, deaths, again>>
    BY <1>3 DEF Sight
  <2> QED
    BY <1>1, <1>2, <2>2, <2>3, <2>4, <2>5 DEF TypeInv
<1>4. ASSUME NEW s \in Sensors, EndOfInput(s) \/ Flushed(s) PROVE TypeInv'
  BY <1>1, <1>2, <1>4 DEF EndOfInput, Flushed, TypeInv
<1>5. ASSUME NEW s \in Sensors, NextItem(s) PROVE TypeInv'
  BY <1>1, <1>2, <1>5 DEF NextItem, TypeInv
<1>6. ASSUME NEW s \in Sensors, SensorDies(s) PROVE TypeInv'
  <2>1. dropped' \subseteq Sightings
    <3>1. \A i \in buffer[s] : i.of \subseteq Sightings
      BY <1>1, Kinds DEF Items
    <3>2. item[s].of \subseteq Sightings
      BY <1>1, <1>2, Kinds
    <3> DEFINE held == UNION {i.of : i \in buffer[s]}
               flying == IF pc[s] \in {"read", "flush"} THEN {} ELSE item[s].of
    <3>3. held \subseteq Sightings /\ flying \subseteq Sightings
      BY <3>1, <3>2
    <3>4. dropped \subseteq Sightings
      BY <1>1 DEF TypeInv
    <3>5. dropped' = dropped \cup held \cup flying
      BY <1>6 DEF SensorDies
    <3> HIDE DEF held, flying
    <3> QED
      BY <3>3, <3>4, <3>5
  <2> QED
    BY <1>1, <1>2, <1>6, <2>1 DEF SensorDies, TypeInv
<1>7. ASSUME NEW p \in Procs, Find(p) PROVE TypeInv'
  <2>1. \A d \in records : d.id \in Nat \cup Legacy
    BY <1>1 DEF TypeInv, Records
  <2> QED
    BY <1>1, <1>2, <1>7, <2>1 DEF Find, Found, TypeInv
<1>8. ASSUME NEW p \in Procs, NEW d \in records, Folds(p, d) PROVE TypeInv'
  <2>1. Folded(d, item[p]) \in Records
    BY <1>1, Kinds, FoldMakes
  <2>2. records' \subseteq Records
    BY <1>1, <1>8, <2>1 DEF Folds, TypeInv
  <2> QED
    BY <1>1, <1>2, <1>8, <2>2 DEF Folds, TypeInv, After, Procs
<1>9. ASSUME NEW p \in Procs, Misses(p) PROVE TypeInv'
  BY <1>1, <1>2, <1>9 DEF Misses, TypeInv
<1>10. ASSUME NEW p \in Procs, Insert(p) PROVE TypeInv'
  <2>1. item[p].count # 0
    BY <1>10, Counted DEF Insert
  <2>2. records' \subseteq Records
    BY <1>1, <1>10, <2>1, InsertMakes DEF Insert, NewRecord, TypeInv
  <2> QED
    BY <1>1, <1>2, <1>10, <2>2 DEF Insert, TypeInv, After, Procs
<1>11. CASE Scan
  <2>1. ASSUME NEW d \in records
        PROVE  [fact |-> Blacklist, count |-> d.count, first |-> d.first, last |-> d.last,
                of |-> d.of] \in Items /\ d.id \in Nat \cup Legacy
    BY <1>1 DEF TypeInv, Records, Items, PassiveAssumption
  <2> QED
    BY <1>1, <1>2, <1>11, <2>1 DEF Scan, TypeInv
<1>12. CASE ScanEnds \/ Remove
  BY <1>1, <1>2, <1>12 DEF ScanEnds, Remove, TypeInv
<1>13. CASE MigratorDies
  <2>1. item[Migrator].of \subseteq Sightings
    BY <1>1, Kinds
  <2> QED
    BY <1>1, <1>2, <1>13, <2>1 DEF MigratorDies, TypeInv
<1>14. CASE UNCHANGED vars
  BY <1>1, <1>14 DEF vars, TypeInv
<1> QED
  BY <1>1, <1>3, <1>4, <1>5, <1>6, <1>7, <1>8, <1>9, <1>10, <1>11, <1>12, <1>13, <1>14, StoreSteps
     DEF Next, import, update_dns_blacklist

-----------------------------------------------------------------------------
(* What a sensor reads, holds and sends touches no record.                  *)

LEMMA FewProcs ==
  ASSUME PassiveAssumption
  PROVE  /\ IsFiniteSet(Procs) /\ Cardinality(Procs) \in Nat
         /\ \A f : /\ IsFiniteSet(Inserting(f)) /\ Cardinality(Inserting(f)) \in Nat
                   /\ Cardinality(Inserting(f)) <= Cardinality(Procs)
<1>1. IsFiniteSet(Procs)
  BY FS_AddElement DEF Procs, PassiveAssumption
<1>2. \A f : Inserting(f) \in SUBSET Procs
  BY DEF Inserting
<1> QED
  BY <1>1, <1>2, FS_Subset, FS_CardinalityType

\* What a sensor has is what it read, and so is what is recorded.
LEMMA HeldIsRead ==
  ASSUME IInv
  PROVE  /\ \A s \in Sensors : Pending(s) \subseteq read
         /\ Recorded \subseteq read \cup OldSightings
<1>1. ASSUME NEW s \in Sensors PROVE Pending(s) \subseteq read
  <2>1. SensorHolds(s)
    BY DEF IInv, Core, SensorsHold
  <2>2. \A i \in buffer[s] : i.of \subseteq read
    BY <2>1 DEF SensorHolds, GoodItem
  <2>3. InFlight(s) \subseteq read
    BY <2>1 DEF SensorHolds, GoodItem, InFlight, Storing
  <2> QED
    BY <2>2, <2>3 DEF Pending
<1>2. Recorded \subseteq read \cup OldSightings
  BY DEF IInv, Core, Numbered, Recorded
<1> QED
  BY <1>1, <1>2

\* Fewer about to insert, and no more records of a fact.
LEMMA FewerInsert ==
  ASSUME PassiveAssumption, Few, UNCHANGED records,
         \A f \in Facts : Inserting(f)' \subseteq Inserting(f)
  PROVE  Few'
<1> SUFFICES ASSUME NEW f \in Facts
             PROVE  /\ IsFiniteSet(OfFact(f)')
                    /\ Cardinality(OfFact(f)') + Cardinality(Inserting(f)') <= Cardinality(Procs)
  BY DEF Few
<1>1. OfFact(f)' = OfFact(f)
  BY DEF OfFact
<1>2. IsFiniteSet(OfFact(f)) /\ Cardinality(OfFact(f)) \in Nat
  BY FS_CardinalityType DEF Few
<1>3. IsFiniteSet(Inserting(f)) /\ Cardinality(Inserting(f)) \in Nat /\ Cardinality(Procs) \in Nat
  BY FewProcs
<1>4. Inserting(f)' \in SUBSET Inserting(f)
  OBVIOUS
<1>5. Cardinality(Inserting(f)') \in Nat /\ Cardinality(Inserting(f)') <= Cardinality(Inserting(f))
  BY <1>3, <1>4, FS_Subset, FS_CardinalityType
<1>6. Cardinality(OfFact(f)) + Cardinality(Inserting(f)) <= Cardinality(Procs)
  BY DEF Few
<1> QED
  BY <1>1, <1>2, <1>3, <1>5, <1>6

LEMMA SensorFrame ==
  ASSUME PassiveAssumption, IInv, NEW s \in Sensors,
         NEW to \in {"read", "flush", "done", "find", "upsert"}, Goto(s, to),
         UNCHANGED <<records, ids, old, again, target, route>>, read \subseteq read',
         \A q \in Procs : q # s => item'[q] = item[q]
  PROVE  /\ Numbered' /\ Migrating' /\ Targeted' /\ CountIsSightings' /\ Few'
         /\ UNCHANGED <<Twice, Recorded>>
<1>1. /\ Migrator \in Procs /\ Migrator # s
      /\ \A q \in Procs : pc'[q] = IF q = s THEN to ELSE pc[q]
  BY Kinds DEF IInv, Core, TypeInv, Goto
<1>2. Numbered'
  BY DEF IInv, Core, Numbered, Today
<1>3. Migrating'
  BY <1>1 DEF IInv, Core, Migrating
<1>4. Targeted'
  BY <1>1 DEF IInv, Core, Targeted
<1>5. CountIsSightings'
  BY DEF IInv, Core, CountIsSightings
<1>6. \A f \in Facts : Inserting(f)' \subseteq Inserting(f)
  BY <1>1 DEF Inserting
<1>7. Few'
  BY <1>6, FewerInsert DEF IInv, Core
<1>8. Twice' = Twice
  BY <1>1 DEF Twice
<1>9. Recorded' = Recorded
  BY DEF Recorded
<1> QED
  BY <1>2, <1>3, <1>4, <1>5, <1>7, <1>8, <1>9

\* Only new sightings join what a sensor has; what leaves it is dropped.
LEMMA PendingFrame ==
  ASSUME PassiveAssumption, IInv, NEW s \in Sensors, UNCHANGED <<records, again, Twice, Recorded>>,
         \A t \in Sensors : t # s => Pending(t)' = Pending(t),
         (read' \ read) \cap OldSightings = {}, dropped \subseteq dropped',
         Pending(s)' \subseteq Pending(s) \cup (read' \ read),
         Pending(s) \cup (read' \ read) \subseteq Pending(s)' \cup dropped'
  PROVE  Apart' /\ NothingLost'
<1>1. /\ \A t \in Sensors : Pending(t) \subseteq read
      /\ Recorded \subseteq read \cup OldSightings
  BY HeldIsRead
<1>2. Apart /\ NothingLost
  BY DEF IInv, Core
<1>3. \A t \in Sensors : Pending(t)' \cap Recorded = {}
  BY <1>1, <1>2 DEF Apart
<1>4. ASSUME NEW t \in Sensors, NEW u \in Sensors, t # u PROVE Pending(t)' \cap Pending(u)' = {}
  <2>1. Pending(t) \cap Pending(u) = {}
    BY <1>2, <1>4 DEF Apart
  <2> QED
    BY <1>1, <1>4, <2>1
<1>5. Apart'
  BY <1>2, <1>3, <1>4 DEF Apart
<1>6. ASSUME NEW x \in read' \cup OldSightings
      PROVE  x \in Recorded \/ x \in dropped' \/ \E t \in Sensors : x \in Pending(t)'
  <2>1. CASE x \in read \cup OldSightings
    <3>1. x \in Recorded \/ x \in dropped \/ \E t \in Sensors : x \in Pending(t)
      BY <1>2, <2>1 DEF NothingLost
    <3> QED
      BY <3>1
  <2>2. CASE x \in read' \ read
    BY <2>2
  <2> QED
    BY <1>6, <2>1, <2>2
<1>7. NothingLost'
  BY <1>6 DEF NothingLost, OldSightings
<1> QED
  BY <1>5, <1>7

\* What is read from now on is new.
LEMMA OthersHold ==
  ASSUME IInv, NEW t \in Sensors, read \subseteq read',
         buffer'[t] = buffer[t], item'[t] = item[t], pc'[t] = pc[t], route'[t] = route[t]
  PROVE  SensorHolds(t)'
<1>1. SensorHolds(t)
  BY DEF IInv, Core, SensorsHold
<1> QED
  BY <1>1 DEF SensorHolds, GoodItem

LEMMA OthersPend ==
  ASSUME NEW t \in Sensors, buffer'[t] = buffer[t], item'[t] = item[t], pc'[t] = pc[t]
  PROVE  Pending(t)' = Pending(t)
BY DEF Pending, InFlight

-----------------------------------------------------------------------------
(* An import process.                                                       *)

\* The sighting is in one item more, or in one that grows by it, alone of its fact.
LEMMA SightHolds ==
  ASSUME PassiveAssumption, IInv, NEW s \in Sensors, pc[s] = "read", NEW x \in Sightings,
         x \notin read, x.fact \in Facts, read' = read \cup {x},
         buffer'[s] = Held(s, x), pc'[s] \notin Storing, route' = route
  PROVE  /\ SensorHolds(s)'
         /\ Pending(s)' = Pending(s) \cup {x}
<1>1. SensorHolds(s) /\ buffer[s] \subseteq Items
  BY Kinds DEF IInv, Core, SensorsHold
<1>2. \A i \in buffer[s] : GoodItem(i) /\ x \notin i.of /\ i.of \subseteq read'
  BY <1>1 DEF SensorHolds, GoodItem
<1>3. InFlight(s) = {} /\ InFlight(s)' = {}
  BY DEF InFlight, Storing
<1>4. /\ Single(x).of = {x} /\ Single(x).fact = x.fact
      /\ Single(x).count = 1 /\ IsFiniteSet({x}) /\ Cardinality({x}) = 1
  BY FS_Singleton DEF Single
<1>5. GoodItem(Single(x))'
  BY <1>4 DEF GoodItem, Single
<1>6. \A i \in buffer[s] : GoodItem(i)'
  BY <1>2 DEF GoodItem
<1>7. CASE route[s] = "local" /\ \E i \in buffer[s] : i.fact = x.fact
  <2>1. PICK i \in buffer[s] : i.fact = x.fact
    BY <1>7
  <2> DEFINE m == Merged(i, x)
  <2>2. i \in Items /\ GoodItem(i) /\ x \notin i.of
    BY <1>1, <1>2
  <2>3. m.fact = i.fact /\ m.count = i.count + 1 /\ m.of = i.of \cup {x}
    BY <2>2, MergeMakes
  <2>4. \A j \in buffer[s] : j.fact = x.fact <=> j = i
    BY <1>1, <1>7, <2>1 DEF SensorHolds
  <2>5. buffer'[s] = (buffer[s] \ {i}) \cup {m}
    BY <1>7, <2>4 DEF Held
  <2>6. GoodItem(m)'
    <3>1. IsFiniteSet(i.of \cup {x}) /\ Cardinality(i.of \cup {x}) = Cardinality(i.of) + 1
      BY <2>2, FS_AddElement DEF GoodItem
    <3> HIDE DEF m
    <3> QED
      BY <2>2, <2>3, <3>1 DEF GoodItem
  <2> HIDE DEF m
  <2>7. ASSUME NEW j \in buffer[s], j # i
        PROVE  j.of \cap m.of = {} /\ (route[s] = "local" => j.fact # m.fact)
    <3>1. j.of \cap i.of = {} /\ x \notin j.of
      BY <1>1, <1>2, <2>7 DEF SensorHolds
    <3> QED
      BY <2>1, <2>3, <2>4, <2>7, <3>1
  <2>8. ASSUME NEW j \in buffer'[s], NEW k \in buffer'[s], j # k
        PROVE  j.of \cap k.of = {} /\ (route'[s] = "local" => j.fact # k.fact)
    <3>1. CASE j = m \/ k = m
      BY <2>5, <2>7, <2>8, <3>1
    <3>2. CASE j # m /\ k # m
      BY <1>1, <2>5, <2>8, <3>2 DEF SensorHolds
    <3> QED
      BY <3>1, <3>2
  <2>9. SensorHolds(s)'
    BY <1>6, <2>5, <2>6, <2>8 DEF SensorHolds
  <2>10. UNION {j.of : j \in buffer'[s]} = (UNION {j.of : j \in buffer[s]}) \cup {x}
    BY <2>3, <2>5
  <2> QED
    BY <1>3, <2>9, <2>10 DEF Pending
<1>8. CASE ~(route[s] = "local" /\ \E i \in buffer[s] : i.fact = x.fact)
  <2> DEFINE m == Single(x)
  <2>1. buffer'[s] = buffer[s] \cup {m}
    BY <1>8 DEF Held
  <2>2. m.of = {x} /\ m.fact = x.fact /\ GoodItem(m)'
    BY <1>4, <1>5
  <2> HIDE DEF m
  <2>3. ASSUME NEW j \in buffer'[s], NEW k \in buffer'[s], j # k
        PROVE  j.of \cap k.of = {} /\ (route'[s] = "local" => j.fact # k.fact)
    <3>1. CASE j \in buffer[s] /\ k \in buffer[s]
      BY <1>1, <2>3, <3>1 DEF SensorHolds
    <3>2. CASE j = m \/ k = m
      BY <1>2, <1>8, <2>1, <2>2, <2>3, <3>2
    <3> QED
      BY <2>1, <3>1, <3>2
  <2>4. SensorHolds(s)'
    BY <1>6, <2>1, <2>2, <2>3 DEF SensorHolds
  <2>5. UNION {j.of : j \in buffer'[s]} = (UNION {j.of : j \in buffer[s]}) \cup {x}
    BY <2>1, <2>2
  <2> QED
    BY <1>3, <2>4, <2>5 DEF Pending
<1> QED
  BY <1>7, <1>8

LEMMA SightStep ==
  ASSUME PassiveAssumption, IInv, NEW s \in Sensors, Sight(s)
  PROVE  Core'
<1>1. PICK f \in Facts, from \in 1 .. MaxTime, to \in 1 .. MaxTime :
        LET x == [id |-> Cardinality(read) + 1, fact |-> f, first |-> from, last |-> to]
        IN  /\ read' = read \cup {x}
            /\ buffer' = [buffer EXCEPT ![s] = Held(s, x)]
            /\ Goto(s, IF Cardinality(Held(s, x)) >= Batch(s) THEN "flush" ELSE "read")
  BY DEF Sight
<1> DEFINE x == [id |-> Cardinality(read) + 1, fact |-> f, first |-> from, last |-> to]
           n == Cardinality(read)
           stage == IF Cardinality(Held(s, x)) >= Batch(s) THEN "flush" ELSE "read"
<1>2. TypeInv /\ IsFiniteSet(read) /\ n \in Nat /\ \A y \in read : y.id \in 1 .. n
  BY FS_CardinalityType DEF IInv, Core, ReadIsNumbered
<1>3. x \in Sightings /\ x.fact \in Facts /\ x.id = n + 1
  BY <1>2 DEF Sightings, PassiveAssumption
<1>4. x \notin read /\ x \notin OldSightings
  BY <1>2, <1>3 DEF OldSightings
<1>5. /\ read' = read \cup {x} /\ buffer' = [buffer EXCEPT ![s] = Held(s, x)]
      /\ stage \in {"flush", "read"} /\ Goto(s, stage)
  BY <1>1
<1> HIDE DEF x, stage
<1>6. /\ UNCHANGED <<records, route, ended, item, target, old, dropped, ids, deaths, again>>
      /\ pc[s] = "read"
  BY DEF Sight
<1>7. /\ \A t \in Sensors : t \in Procs
      /\ \A q \in Procs : pc'[q] = IF q = s THEN stage ELSE pc[q]
      /\ \A q \in Sensors : buffer'[q] = IF q = s THEN Held(s, x) ELSE buffer[q]
  BY <1>2, <1>5 DEF Goto, TypeInv, Procs
<1>8. ReadIsNumbered'
  <2>1. IsFiniteSet(read') /\ Cardinality(read') = n + 1
    BY <1>2, <1>4, <1>5, FS_AddElement
  <2>2. \A y \in read' : y.id \in 1 .. (n + 1)
    BY <1>2, <1>3, <1>5
  <2> QED
    BY <2>1, <2>2 DEF ReadIsNumbered
<1>9. /\ Numbered' /\ Migrating' /\ Targeted' /\ CountIsSightings' /\ Few'
      /\ UNCHANGED <<Twice, Recorded>>
  BY <1>5, <1>6, SensorFrame
<1>10. SensorHolds(s)' /\ Pending(s)' = Pending(s) \cup {x}
  <2>1. pc'[s] \notin Storing
    BY <1>5, <1>7 DEF Storing
  <2> QED
    BY <1>3, <1>4, <1>5, <1>6, <1>7, <2>1, SightHolds
<1>11. SensorsHold'
  <2> SUFFICES ASSUME NEW t \in Sensors, t # s PROVE SensorHolds(t)'
    BY <1>10 DEF SensorsHold
  <2> QED
    BY <1>5, <1>6, <1>7, OthersHold
<1>12. Apart' /\ NothingLost'
  <2>1. \A t \in Sensors : t # s => Pending(t)' = Pending(t)
    BY <1>6, <1>7, OthersPend
  <2>2. read' \ read = {x}
    BY <1>4, <1>5
  <2> QED
    BY <1>4, <1>6, <1>9, <1>10, <2>1, <2>2, PendingFrame
<1> QED
  BY <1>8, <1>9, <1>11, <1>12 DEF Core

\* The other steps of a sensor take nothing in: what it has it keeps, or it is dropped.
LEMMA KeepsOrDrops ==
  ASSUME PassiveAssumption, IInv, NEW s \in Sensors,
         NEW to \in {"read", "flush", "done", "find", "upsert"}, Goto(s, to),
         UNCHANGED <<records, ids, old, again, target, route, read>>,
         \A q \in Procs : q # s => item'[q] = item[q],
         \A q \in Sensors : q # s => buffer'[q] = buffer[q],
         dropped \subseteq dropped', Pending(s)' \subseteq Pending(s),
         Pending(s) \subseteq Pending(s)' \cup dropped', SensorHolds(s)'
  PROVE  Core'
<1>1. /\ \A t \in Sensors : t \in Procs
      /\ \A q \in Procs : pc'[q] = IF q = s THEN to ELSE pc[q]
  BY DEF IInv, TypeInv, Goto, Procs
<1>2. /\ Numbered' /\ Migrating' /\ Targeted' /\ CountIsSightings' /\ Few'
      /\ UNCHANGED <<Twice, Recorded>>
  BY SensorFrame
<1>3. ReadIsNumbered'
  BY DEF IInv, Core, ReadIsNumbered
<1>4. SensorsHold'
  <2> SUFFICES ASSUME NEW t \in Sensors, t # s PROVE SensorHolds(t)'
    BY DEF SensorsHold
  <2> QED
    BY <1>1, OthersHold
<1>5. Apart' /\ NothingLost'
  <2>1. \A t \in Sensors : t # s => Pending(t)' = Pending(t)
    BY <1>1, OthersPend
  <2> QED
    BY <1>2, <2>1, PendingFrame
<1> QED
  BY <1>2, <1>3, <1>4, <1>5 DEF Core

LEMMA SensorStep ==
  ASSUME PassiveAssumption, IInv, NEW s \in Sensors, import(s)
  PROVE  Core'
<1>1. TypeInv /\ SensorHolds(s) /\ s \in Procs
  BY Kinds DEF IInv, Core, SensorsHold
<1>2. ASSUME NEW to, Goto(s, to) PROVE pc'[s] = to
  BY <1>1, <1>2 DEF Goto, TypeInv
<1>3. CASE EndOfInput(s) \/ Flushed(s)
  <2> DEFINE to == IF EndOfInput(s) THEN "flush" ELSE IF s \in ended THEN "done" ELSE "read"
  <2>1. to \in {"read", "flush", "done"} /\ Goto(s, to) /\ pc[s] \in {"read", "flush"}
    BY <1>3 DEF EndOfInput, Flushed
  <2>2. UNCHANGED <<records, route, buffer, item, target, old, read, dropped, ids, deaths, again>>
    BY <1>3 DEF EndOfInput, Flushed
  <2> HIDE DEF to
  <2>3. pc'[s] \notin Storing /\ pc[s] \notin Storing
    BY <1>2, <2>1 DEF Storing
  <2>4. Pending(s)' = Pending(s)
    BY <2>2, <2>3 DEF Pending, InFlight, Storing
  <2>5. SensorHolds(s)'
    BY <1>1, <2>2, <2>3 DEF SensorHolds, GoodItem
  <2> QED
    BY <2>1, <2>2, <2>4, <2>5, KeepsOrDrops
<1>4. CASE NextItem(s)
  <2>1. PICK i \in buffer[s] : /\ item' = [item EXCEPT ![s] = i]
                               /\ buffer' = [buffer EXCEPT ![s] = @ \ {i}]
    BY <1>4 DEF NextItem
  <2> DEFINE to == IF route[s] = "bulk" THEN "upsert" ELSE "find"
  <2>2. to \in {"upsert", "find"} /\ Goto(s, to) /\ pc[s] = "flush"
    BY <1>4 DEF NextItem
  <2>3. UNCHANGED <<records, route, ended, target, old, read, dropped, ids, deaths, again>>
    BY <1>4 DEF NextItem
  <2> HIDE DEF to
  <2>4. /\ item'[s] = i /\ buffer'[s] = buffer[s] \ {i}
        /\ \A q \in Procs : q # s => item'[q] = item[q]
        /\ \A q \in Sensors : q # s => buffer'[q] = buffer[q]
    BY <1>1, <2>1 DEF TypeInv
  <2>5. pc'[s] \in Storing /\ pc[s] \notin Storing
    BY <1>2, <2>2 DEF Storing
  <2>6. Pending(s)' = Pending(s)
    <3>1. UNION {j.of : j \in buffer[s]} = i.of \cup (UNION {j.of : j \in buffer[s] \ {i}})
      OBVIOUS
    <3>2. InFlight(s) = {} /\ InFlight(s)' = i.of
      BY <2>4, <2>5 DEF InFlight, Storing
    <3> QED
      BY <2>4, <3>1, <3>2 DEF Pending
  <2>7. SensorHolds(s)'
    BY <1>1, <2>3, <2>4 DEF SensorHolds, GoodItem
  <2> QED
    BY <2>2, <2>3, <2>4, <2>6, <2>7, KeepsOrDrops
<1>5. CASE SensorDies(s)
  <2>1. /\ UNCHANGED <<records, route, ended, item, target, old, read, ids, again>>
        /\ buffer' = [buffer EXCEPT ![s] = {}] /\ Goto(s, "done") /\ pc[s] # "done"
    BY <1>5 DEF SensorDies
  <2>2. pc'[s] = "done" /\ buffer'[s] = {} /\ \A q \in Sensors : q # s => buffer'[q] = buffer[q]
    BY <1>1, <1>2, <2>1 DEF TypeInv
  <2>3. pc[s] \in {"read", "flush"} \/ pc[s] \in Storing
    BY <1>1, <2>1 DEF TypeInv
  <2> DEFINE held == UNION {i.of : i \in buffer[s]}
             flying == IF pc[s] \in {"read", "flush"} THEN {} ELSE item[s].of
  <2>4. dropped' = dropped \cup held \cup flying
    BY <1>5 DEF SensorDies
  <2>5. InFlight(s) = flying
    BY <2>3 DEF InFlight, Storing
  <2>6. Pending(s) = flying \cup held
    BY <2>5 DEF Pending
  <2> HIDE DEF held, flying
  <2>7. Pending(s)' = {}
    BY <2>2 DEF Pending, InFlight
  <2>8. SensorHolds(s)'
    BY <2>2 DEF SensorHolds, Storing
  <2>9. dropped \subseteq dropped' /\ Pending(s) \subseteq Pending(s)' \cup dropped'
    BY <2>4, <2>6
  <2> QED
    BY <2>1, <2>2, <2>7, <2>8, <2>9, KeepsOrDrops
<1> QED
  BY <1>3, <1>4, <1>5, SightStep DEF import

-----------------------------------------------------------------------------
(* insert_or_update.                                                        *)

LEMMA StoreMoves ==
  ASSUME PassiveAssumption, IInv, NEW p \in Procs, NEW to, Goto(p, to)
  PROVE  \A q \in Procs : pc'[q] = IF q = p THEN to ELSE pc[q]
BY DEF IInv, TypeInv, Goto

\* A query, or an upsert that finds nothing, changes no record.
LEMMA LookStep ==
  ASSUME PassiveAssumption, IInv, NEW p \in Procs, Find(p) \/ Misses(p)
  PROVE  Core'
<1> DEFINE to == pc'[p]
<1>1. PICK n \in {"upsert", "update", "insert"} : Goto(p, n)
  BY DEF Find, Misses
<1>2. /\ UNCHANGED <<records, ids, route, ended, buffer, item, old, read, dropped, deaths, again>>
      /\ pc[p] \in {"find", "upsert"}
  BY DEF Find, Misses, Keep
<1>3. \A q \in Procs : pc'[q] = IF q = p THEN n ELSE pc[q]
  BY <1>1, StoreMoves
<1>4. \A s \in Sensors : s \in Procs
  BY DEF Procs
<1>5. /\ \A q \in Procs : pc'[q] \in Storing <=> pc[q] \in Storing
      /\ \A q \in Procs : pc'[q] = "remove" <=> pc[q] = "remove"
      /\ Migrator \in Procs
  BY <1>2, <1>3 DEF Storing, Procs
<1>6. /\ \A s \in Sensors : Pending(s)' = Pending(s)
      /\ UNCHANGED <<Twice, Recorded>>
  BY <1>2, <1>4, <1>5 DEF Pending, InFlight, Storing, Twice, Recorded
<1>7. Numbered' /\ ReadIsNumbered' /\ CountIsSightings'
  BY <1>2 DEF IInv, Core, Numbered, Today, ReadIsNumbered, CountIsSightings
<1>8. SensorsHold'
  BY <1>2, <1>4, <1>5 DEF IInv, Core, SensorsHold, SensorHolds, GoodItem
<1>9. Migrating'
  BY <1>2, <1>5 DEF IInv, Core, Migrating
<1>10. Apart'
  BY <1>2, <1>6 DEF IInv, Core, Apart
<1>11. NothingLost'
  <2>1. ASSUME NEW x \in read \cup OldSightings
        PROVE  x \in Recorded' \/ x \in dropped' \/ \E t \in Sensors : x \in Pending(t)'
    BY <1>2, <1>6 DEF IInv, Core, NothingLost
  <2> QED
    BY <1>2, <2>1 DEF NothingLost, OldSightings
<1>12. Targeted'
  <2> SUFFICES ASSUME NEW q \in Procs, pc'[q] = "update"
               PROVE  \E d \in records : d.id = target'[q] /\ d.fact = item[q].fact
    BY <1>2 DEF Targeted
  <2>1. target \in [Procs -> Nat \cup Legacy]
    BY DEF IInv, TypeInv
  <2>2. CASE q = p
    <3>1. Find(p) /\ Goto(p, "update")
      <4>1. n = "update"
        BY <1>3, <2>2
      <4>2. ~Misses(p)
        BY <1>3, <4>1, StoreMoves DEF Misses
      <4> QED
        BY <1>1, <4>1, <4>2
    <3>2. PICK d \in Found(p) : target' = [target EXCEPT ![p] = d.id]
      BY <1>3, <2>2, <3>1, StoreMoves DEF Find
    <3> QED
      BY <2>1, <2>2, <3>2 DEF Found
  <2>3. CASE q # p
    <3>1. pc[q] = "update" /\ target'[q] = target[q]
      BY <1>3, <2>1, <2>3 DEF Find, Misses
    <3> QED
      BY <3>1 DEF IInv, Core, Targeted
  <2> QED
    BY <2>2, <2>3
<1>13. Few'
  <2>1. CASE Find(p)
    <3>1. n # "insert"
      BY <1>1, <1>3, <2>1, StoreMoves DEF Find
    <3>2. \A f \in Facts : Inserting(f)' \subseteq Inserting(f)
      BY <1>2, <1>3, <3>1 DEF Inserting
    <3> QED
      BY <1>2, <3>2, FewerInsert DEF IInv, Core
  <2>2. CASE Misses(p)
    <3> SUFFICES ASSUME NEW f \in Facts
                 PROVE  /\ IsFiniteSet(OfFact(f)')
                        /\ Cardinality(OfFact(f)') + Cardinality(Inserting(f)') <= Cardinality(Procs)
      BY DEF Few
    <3>1. OfFact(f)' = OfFact(f) /\ IsFiniteSet(OfFact(f)) /\ Cardinality(OfFact(f)) \in Nat
      BY <1>2, FS_CardinalityType DEF OfFact, IInv, Core, Few
    <3>2. /\ Cardinality(Inserting(f)) \in Nat /\ Cardinality(Procs) \in Nat
          /\ IsFiniteSet(Inserting(f)) /\ IsFiniteSet(Procs)
      BY FewProcs
    <3>3. Inserting(f)' \in SUBSET Procs
      BY DEF Inserting
    <3>4. Cardinality(Inserting(f)') \in Nat /\ Cardinality(Inserting(f)') <= Cardinality(Procs)
      BY <3>2, <3>3, FS_Subset, FS_CardinalityType
    <3>5. CASE f = item[p].fact
      <4>1. Cardinality(OfFact(f)) = 0
        <5>1. OfFact(f) = {}
          BY <2>2, <3>5 DEF Misses, OfFact
        <5> QED
          BY <5>1, FS_EmptySet, Zenon
      <4> QED
        BY <3>1, <3>2, <3>4, <4>1
    <3>6. CASE f # item[p].fact
      <4>1. Inserting(f)' = Inserting(f)
        BY <1>2, <1>3, <3>6 DEF Inserting
      <4> QED
        BY <3>1, <4>1 DEF IInv, Core, Few
    <3> QED
      BY <3>5, <3>6
  <2> QED
    BY <2>1, <2>2
<1> QED
  BY <1>7, <1>8, <1>9, <1>10, <1>11, <1>12, <1>13 DEF Core

\* Where the sightings of an item that is stored are until then.
LEMMA ItemApart ==
  ASSUME PassiveAssumption, IInv, NEW p \in Procs, pc[p] \in Storing
  PROVE  /\ \A e \in records : e.fact \in Facts => e.of \cap item[p].of \subseteq again
         /\ \A e \in records : e.fact \in Legacy =>
              e.of \cap item[p].of \subseteq again \cup (IF p = Migrator THEN item[p].of ELSE {})
         /\ p = Migrator => item[p].of \subseteq Recorded
<1>1. Apart
  BY DEF IInv, Core
<1>2. CASE p \in Sensors
  <2>1. item[p].of \subseteq Pending(p)
    BY DEF Pending, InFlight, Storing
  <2>2. item[p].of \cap Recorded = {}
    BY <1>1, <1>2, <2>1 DEF Apart
  <2>3. \A e \in records : e.of \cap item[p].of = {}
    BY <2>2 DEF Recorded
  <2> QED
    BY <1>2, <2>3 DEF PassiveAssumption
<1>3. CASE p = Migrator
  <2>1. item[p] = OldItem(old) /\ OldRecord(old) \in records /\ old \in Legacy
    BY <1>3 DEF IInv, Core, Migrating
  <2>2. OldRecord(old).of = item[p].of /\ OldRecord(old).fact \in Legacy
    BY <2>1 DEF OldRecord, OldItem
  <2>3. Twice = again
    BY <1>3 DEF Twice, Storing
  <2>4. \A e \in records : e.fact \in Facts => e # OldRecord(old)
    BY <2>1 DEF OldRecord, PassiveAssumption
  <2>5. ASSUME NEW e \in records, e.fact \in Facts PROVE e.of \cap item[p].of \subseteq again
    BY <1>1, <2>1, <2>2, <2>3, <2>4, <2>5 DEF Apart
  <2> QED
    BY <1>3, <2>1, <2>2, <2>5 DEF Recorded
<1> QED
  BY <1>2, <1>3 DEF Procs

\* The item is stored in record m, in place of one it holds or in addition.
Stores(p, m) ==
  /\ pc[p] \in Storing /\ Goto(p, After(p)) /\ Keep(p) /\ target' = target
  /\ ids' >= ids /\ ids' \in Nat
  /\ m \in records' /\ records' \subseteq Records
  /\ m.fact = item[p].fact /\ m.id \in 1 .. ids'
  /\ item[p].of \subseteq m.of /\ IsFiniteSet(m.of) /\ Recorded' = Recorded \cup item[p].of
  /\ \A e \in records' : e # m =>
       /\ e \in records /\ e.id # m.id
       /\ e.fact \in Facts => e.of \cap m.of \subseteq again
       /\ e.fact \in Legacy => e.of \cap m.of \subseteq Twice'
  /\ \A e \in records : e.fact \in Legacy => e \in records'
  /\ \A e \in records : \E f \in records' : f.id = e.id /\ f.fact = e.fact /\ e.of \subseteq f.of
  /\ m.count >= Cardinality(m.of)
  /\ m.of \cap again = {} => m.count = Cardinality(m.of)

LEMMA StoredFrame ==
  ASSUME PassiveAssumption, IInv, NEW p \in Procs, NEW m, Stores(p, m)
  PROVE  /\ Numbered' /\ ReadIsNumbered' /\ SensorsHold' /\ Migrating' /\ Targeted'
         /\ Apart' /\ NothingLost' /\ CountIsSightings'
<1>1. /\ UNCHANGED <<route, ended, buffer, item, old, read, dropped, deaths, again>>
      /\ pc[p] \in Storing
  BY DEF Stores, Keep
<1>2. \A q \in Procs : pc'[q] = IF q = p THEN After(p) ELSE pc[q]
  BY StoreMoves DEF Stores
<1>3. /\ \A s \in Sensors : s \in Procs /\ s # Migrator
      /\ Migrator \in Procs /\ TypeInv
  BY Kinds DEF IInv
<1>4. m.fact \in Facts /\ m.of \subseteq read \cup OldSightings /\ m.of # {}
  <2>1. item[p].fact \in Facts /\ item[p].of # {} /\ item[p].of \subseteq read \cup OldSightings
    BY <1>1, Counted
  <2>2. m.of \subseteq Recorded'
    BY DEF Stores, Recorded
  <2>3. Recorded \subseteq read \cup OldSightings
    BY HeldIsRead
  <2> QED
    BY <2>1, <2>2, <2>3 DEF Stores
<1>5. /\ After(p) \notin Storing /\ (p = Migrator => After(p) = "remove")
      /\ (p # Migrator => After(p) = "flush")
  BY DEF After, Storing
<1>6. Numbered'
  <2>1. ids \in Nat /\ ids' \in Nat /\ ids' >= ids
    BY <1>3 DEF Stores, TypeInv
  <2>2. ASSUME NEW e \in records' PROVE Today(e)' \/ (e.fact \in Legacy /\ e = OldRecord(e.fact))
    <3>1. CASE e = m
      BY <1>4, <3>1 DEF Stores, Today
    <3>2. CASE e # m
      <4>1. e \in records
        BY <3>2 DEF Stores
      <4>2. Today(e) \/ (e.fact \in Legacy /\ e = OldRecord(e.fact))
        BY <4>1 DEF IInv, Core, Numbered
      <4>3. Today(e) => Today(e)'
        BY <2>1 DEF Today
      <4> QED
        BY <4>2, <4>3
    <3> QED
      BY <3>1, <3>2
  <2>3. ASSUME NEW e \in records', NEW f \in records', e.id = f.id PROVE e = f
    BY <2>3 DEF Stores, IInv, Core, Numbered
  <2>4. ASSUME NEW e \in records'
        PROVE  IsFiniteSet(e.of) /\ e.of # {} /\ e.of \subseteq read \cup OldSightings
    <3>1. CASE e = m
      BY <1>4, <3>1 DEF Stores
    <3>2. CASE e # m
      BY <3>2 DEF Stores, IInv, Core, Numbered
    <3> QED
      BY <3>1, <3>2
  <2>5. read' = read /\ OldSightings' = OldSightings
    BY <1>1 DEF OldSightings
  <2> QED
    BY <2>2, <2>3, <2>4, <2>5 DEF Numbered, OldRecord, OldSighting
<1>7. ReadIsNumbered'
  BY <1>1 DEF IInv, Core, ReadIsNumbered
<1>8. SensorsHold'
  <2> SUFFICES ASSUME NEW s \in Sensors PROVE SensorHolds(s)'
    BY DEF SensorsHold
  <2>1. SensorHolds(s) /\ (pc'[s] \in Storing => pc[s] \in Storing)
    BY <1>2, <1>3, <1>5 DEF IInv, Core, SensorsHold
  <2> QED
    BY <1>1, <2>1 DEF SensorHolds, GoodItem
<1>9. Migrating'
  <2> SUFFICES ASSUME pc'[Migrator] \in Storing \cup {"remove"}
               PROVE  /\ old \in Legacy /\ OldRecord(old) \in records'
                      /\ item[Migrator] = OldItem(old)
                      /\ pc'[Migrator] = "remove" =>
                           \E d \in records' : d.fact = Blacklist /\ OldSighting(old) \in d.of
    BY <1>1 DEF Migrating, OldRecord, OldSighting, OldItem
  <2>1. pc[Migrator] \in Storing \cup {"remove"}
    BY <1>1, <1>2, <1>3
  <2>2. old \in Legacy /\ OldRecord(old) \in records /\ item[Migrator] = OldItem(old)
    BY <2>1 DEF IInv, Core, Migrating
  <2>3. OldRecord(old) \in records'
    <3>1. OldRecord(old).fact \in Legacy
      BY <2>2 DEF OldRecord
    <3> QED
      BY <2>2, <3>1 DEF Stores
  <2>4. ASSUME pc'[Migrator] = "remove"
        PROVE  \E d \in records' : d.fact = Blacklist /\ OldSighting(old) \in d.of
    <3>1. CASE p = Migrator
      <4>1. item[p].fact = Blacklist /\ OldSighting(old) \in item[p].of
        BY <2>2, <3>1 DEF OldItem
      <4> QED
        BY <4>1 DEF Stores
    <3>2. CASE p # Migrator
      <4>1. pc[Migrator] = "remove"
        BY <1>2, <1>3, <2>4, <3>2
      <4>2. PICK e \in records : e.fact = Blacklist /\ OldSighting(old) \in e.of
        BY <4>1 DEF IInv, Core, Migrating
      <4>3. PICK f \in records' : f.id = e.id /\ f.fact = e.fact /\ e.of \subseteq f.of
        BY DEF Stores
      <4> QED
        BY <4>2, <4>3
    <3> QED
      BY <3>1, <3>2
  <2> QED
    BY <2>2, <2>3, <2>4
<1>10. Targeted'
  <2> SUFFICES ASSUME NEW q \in Procs, pc'[q] = "update"
               PROVE  \E d \in records' : d.id = target'[q] /\ d.fact = item[q].fact
    BY <1>1 DEF Targeted
  <2>1. "update" # After(p)
    BY <1>5 DEF Storing
  <2>2. pc[q] = "update" /\ target' = target
    BY <1>2, <2>1 DEF Stores
  <2>3. PICK e \in records : e.id = target[q] /\ e.fact = item[q].fact
    BY <2>2 DEF IInv, Core, Targeted
  <2>4. PICK f \in records' : f.id = e.id /\ f.fact = e.fact
    BY DEF Stores
  <2> QED
    BY <2>2, <2>3, <2>4
<1>11. /\ Twice \subseteq Twice'
       /\ \A s \in Sensors : Pending(s)' \subseteq Pending(s) /\ Pending(s)' \cap Recorded' = {}
       /\ \A s \in Sensors : Pending(s) \subseteq Pending(s)' \cup Recorded'
  <2>1. Twice \subseteq Twice'
    BY <1>1, <1>2, <1>3, <1>5 DEF Twice, Storing
  <2>2. ASSUME NEW s \in Sensors
        PROVE  /\ Pending(s)' \subseteq Pending(s) /\ Pending(s)' \cap Recorded' = {}
               /\ Pending(s) \subseteq Pending(s)' \cup Recorded'
    <3>1. Pending(s) \cap Recorded = {}
      BY DEF IInv, Core, Apart
    <3>2. Recorded' = Recorded \cup item[p].of
      BY DEF Stores
    <3>3. CASE s = p
      <4>1. InFlight(s)' = {} /\ InFlight(s) = item[s].of /\ buffer'[s] = buffer[s]
        BY <1>1, <1>2, <1>3, <1>5, <3>3 DEF InFlight, Storing
      <4> DEFINE held == UNION {i.of : i \in buffer[s]}
      <4>2. Pending(s)' = held /\ Pending(s) = held \cup item[p].of
        BY <3>3, <4>1 DEF Pending
      <4>3. held \cap item[p].of = {}
        <5>1. SensorHolds(s)
          BY DEF IInv, Core, SensorsHold
        <5> QED
          BY <1>1, <3>3, <5>1 DEF SensorHolds
      <4> HIDE DEF held
      <4> QED
        BY <3>1, <3>2, <4>2, <4>3
    <3>4. CASE s # p
      <4>1. Pending(s)' = Pending(s)
        BY <1>1, <1>2, <1>3, <3>4 DEF Pending, InFlight
      <4>2. Pending(s) \cap item[p].of = {}
        <5>1. CASE p \in Sensors
          <6>1. item[p].of \subseteq Pending(p)
            BY <1>1 DEF Pending, InFlight, Storing
          <6>2. Pending(s) \cap Pending(p) = {}
            BY <3>4, <5>1 DEF IInv, Core, Apart
          <6> QED
            BY <6>1, <6>2
        <5>2. CASE p = Migrator
          BY <1>1, <3>1, <5>2, ItemApart
        <5> QED
          BY <5>1, <5>2 DEF Procs
      <4> QED
        BY <3>1, <3>2, <4>1, <4>2
    <3> QED
      BY <3>3, <3>4
  <2> QED
    BY <2>1, <2>2
<1>12. Apart'
  <2>1. ASSUME NEW d \in records', NEW e \in records', d # e, d.fact \in Facts, e.fact \in Facts
        PROVE  d.of \cap e.of \subseteq again
    <3>1. CASE d = m \/ e = m
      BY <2>1, <3>1 DEF Stores
    <3>2. CASE d # m /\ e # m
      BY <2>1, <3>2 DEF Stores, IInv, Core, Apart
    <3> QED
      BY <3>1, <3>2
  <2>2. ASSUME NEW d \in records', NEW e \in records', d # e, d.fact \in Legacy
        PROVE  d.of \cap e.of \subseteq Twice'
    <3>1. d # m
      BY <1>4, <2>2 DEF PassiveAssumption
    <3>2. CASE e = m
      BY <2>2, <3>1, <3>2 DEF Stores
    <3>3. CASE e # m
      <4>1. d.of \cap e.of \subseteq Twice
        BY <2>2, <3>1, <3>3 DEF Stores, IInv, Core, Apart
      <4> QED
        BY <1>11, <4>1
    <3> QED
      BY <3>2, <3>3
  <2>3. ASSUME NEW s \in Sensors, NEW t \in Sensors, s # t PROVE Pending(s)' \cap Pending(t)' = {}
    <3>1. Pending(s) \cap Pending(t) = {}
      BY <2>3 DEF IInv, Core, Apart
    <3> QED
      BY <1>11, <3>1
  <2>4. \A s \in Sensors : Pending(s)' \cap Recorded' = {}
    BY <1>11
  <2> QED
    BY <1>1, <2>1, <2>2, <2>3, <2>4 DEF Apart
<1>13. NothingLost'
  <2>1. ASSUME NEW x \in read \cup OldSightings
        PROVE  x \in Recorded' \/ x \in dropped' \/ \E t \in Sensors : x \in Pending(t)'
    <3>1. x \in Recorded \/ x \in dropped \/ \E t \in Sensors : x \in Pending(t)
      BY DEF IInv, Core, NothingLost
    <3>2. x \in Recorded => x \in Recorded'
      BY DEF Stores
    <3> QED
      BY <1>1, <1>11, <3>1, <3>2
  <2> QED
    BY <1>1, <2>1 DEF NothingLost, OldSightings
<1>14. CountIsSightings'
  <2> SUFFICES ASSUME NEW e \in records'
               PROVE  /\ e.count >= Cardinality(e.of)
                      /\ e.of \cap again = {} => e.count = Cardinality(e.of)
    BY <1>1 DEF CountIsSightings
  <2>1. CASE e = m
    BY <2>1 DEF Stores
  <2>2. CASE e # m
    BY <2>2 DEF Stores, IInv, Core, CountIsSightings
  <2> QED
    BY <2>1, <2>2
<1> QED
  BY <1>6, <1>7, <1>8, <1>9, <1>10, <1>12, <1>13, <1>14

\* Once an item is stored the migration has one record to remove, nobody else.
LEMMA TwiceGrows ==
  ASSUME PassiveAssumption, IInv, NEW p \in Procs, pc[p] \in Storing, Goto(p, After(p)), Keep(p)
  PROVE  /\ Twice \subseteq Twice'
         /\ p = Migrator => item[p].of \subseteq Twice'
         /\ \A f : Inserting(f)' \subseteq Inserting(f)
         /\ again \subseteq Twice'
<1>1. \A q \in Procs : pc'[q] = IF q = p THEN After(p) ELSE pc[q]
  BY StoreMoves
<1>2. /\ item' = item /\ again' = again /\ Migrator \in Procs
      /\ "insert" # After(p) /\ (p = Migrator => After(p) = "remove")
  BY DEF Keep, Procs, After
<1>3. Twice \subseteq Twice'
  BY <1>1, <1>2 DEF Twice, Storing
<1>4. p = Migrator => item[p].of \subseteq Twice'
  BY <1>1, <1>2 DEF Twice
<1>5. \A f : Inserting(f)' \subseteq Inserting(f)
  BY <1>1, <1>2 DEF Inserting
<1> QED
  BY <1>2, <1>3, <1>4, <1>5 DEF Twice

LEMMA FoldStep ==
  ASSUME PassiveAssumption, IInv, NEW p \in Procs, NEW d \in records, Folds(p, d)
  PROVE  Core'
<1> DEFINE i == item[p]
           m == Folded(d, i)
<1>1. /\ pc[p] \in Storing /\ Goto(p, After(p)) /\ Keep(p) /\ target' = target /\ ids' = ids
      /\ records' = (records \ {d}) \cup {m} /\ d.fact = i.fact
  BY DEF Folds, Storing
<1>2. /\ i.fact \in Facts /\ i \in Items /\ IsFiniteSet(i.of) /\ i.count = Cardinality(i.of)
  BY <1>1, Counted
<1>3. d \in Records /\ TypeInv /\ records \subseteq Records /\ ids \in Nat
  BY Kinds DEF IInv, TypeInv
<1>4. /\ m \in Records /\ m.id = d.id /\ m.fact = d.fact /\ m.count = d.count + i.count
      /\ m.of = d.of \cup i.of
  BY <1>2, <1>3, FoldMakes
<1>5. /\ IsFiniteSet(d.of) /\ d.id \in 1 .. ids
      /\ d.count >= Cardinality(d.of) /\ (d.of \cap again = {} => d.count = Cardinality(d.of))
  <2>1. Today(d) /\ IsFiniteSet(d.of)
    BY <1>1, <1>2 DEF IInv, Core, Numbered, PassiveAssumption
  <2>2. d.count >= Cardinality(d.of) /\ (d.of \cap again = {} => d.count = Cardinality(d.of))
    BY DEF IInv, Core, CountIsSightings
  <2> QED
    BY <2>1, <2>2 DEF Today
<1>6. \A e \in records : e.id = d.id => e = d
  BY DEF IInv, Core, Numbered
<1>7. /\ d.of \cap i.of \subseteq again
      /\ \A e \in records : e.fact \in Facts => e.of \cap i.of \subseteq again
      /\ \A e \in records : e.fact \in Legacy => e.of \cap i.of \subseteq Twice'
  <2>1. \A e \in records : e.fact \in Facts => e.of \cap i.of \subseteq again
    BY <1>1, ItemApart
  <2>2. ASSUME NEW e \in records, e.fact \in Legacy PROVE e.of \cap i.of \subseteq Twice'
    <3>1. e.of \cap i.of \subseteq again \cup (IF p = Migrator THEN i.of ELSE {})
      BY <1>1, <2>2, ItemApart
    <3>2. again \subseteq Twice' /\ (p = Migrator => i.of \subseteq Twice')
      BY <1>1, TwiceGrows
    <3> QED
      BY <3>1, <3>2
  <2> QED
    BY <1>1, <1>2, <2>1, <2>2
<1> HIDE DEF i, m
<1>8. /\ IsFiniteSet(m.of) /\ m.count >= Cardinality(m.of)
      /\ m.of \cap again = {} => m.count = Cardinality(m.of)
  <2> DEFINE both == d.of \cap i.of
  <2>1. /\ IsFiniteSet(d.of \cup i.of) /\ IsFiniteSet(both)
        /\ Cardinality(d.of \cup i.of) = Cardinality(d.of) + Cardinality(i.of) - Cardinality(both)
    BY <1>2, <1>5, FS_Union, FS_Intersection
  <2>2. Cardinality(d.of) \in Nat /\ Cardinality(i.of) \in Nat /\ Cardinality(both) \in Nat
    BY <1>2, <1>5, <2>1, FS_CardinalityType
  <2>3. d.count \in Nat
    BY <1>3 DEF Records
  <2>4. ASSUME m.of \cap again = {} PROVE Cardinality(both) = 0 /\ d.count = Cardinality(d.of)
    <3>1. both = {} /\ d.of \cap again = {}
      BY <1>4, <1>7, <2>4
    <3>2. Cardinality(both) = 0
      BY <3>1, FS_EmptySet, Zenon
    <3> QED
      BY <1>5, <3>1, <3>2
  <2> HIDE DEF both
  <2> QED
    BY <1>2, <1>4, <1>5, <2>1, <2>2, <2>3, <2>4
<1>9. Recorded' = Recorded \cup i.of
  <2>1. Recorded' = (UNION {e.of : e \in records \ {d}}) \cup m.of
    BY <1>1 DEF Recorded
  <2>2. Recorded = (UNION {e.of : e \in records \ {d}}) \cup d.of
    BY DEF Recorded
  <2> QED
    BY <1>4, <2>1, <2>2
<1>10. ASSUME NEW e \in records', e # m
       PROVE  /\ e \in records /\ e.id # m.id
              /\ e.fact \in Facts => e.of \cap m.of \subseteq again
              /\ e.fact \in Legacy => e.of \cap m.of \subseteq Twice'
  <2>1. e \in records /\ e # d
    BY <1>1, <1>10
  <2>2. /\ e.fact \in Facts => e.of \cap d.of \subseteq again
        /\ e.fact \in Legacy => e.of \cap d.of \subseteq Twice
    BY <1>1, <1>2, <2>1 DEF IInv, Core, Apart
  <2>3. Twice \subseteq Twice'
    BY <1>1, TwiceGrows
  <2> QED
    BY <1>4, <1>6, <1>7, <2>1, <2>2, <2>3
<1>11. \A e \in records : \E f \in records' : f.id = e.id /\ f.fact = e.fact /\ e.of \subseteq f.of
  <2> TAKE e \in records
  <2>1. CASE e = d
    BY <1>1, <1>4, <2>1
  <2>2. CASE e # d
    BY <1>1, <2>2
  <2> QED
    BY <2>1, <2>2
<1>12. \A e \in records : e.fact \in Legacy => e \in records'
  BY <1>1, <1>2 DEF PassiveAssumption
<1>13. Stores(p, m)
  <2>1. /\ m \in records' /\ records' \subseteq Records /\ i.of \subseteq m.of
        /\ m.fact = i.fact /\ m.id \in 1 .. ids' /\ ids' >= ids /\ ids' \in Nat
    BY <1>1, <1>3, <1>4, <1>5
  <2> QED
    BY <1>1, <1>8, <1>9, <1>10, <1>11, <1>12, <2>1 DEF Stores, i
<1>14. Few'
  <2> SUFFICES ASSUME NEW f \in Facts
               PROVE  /\ IsFiniteSet(OfFact(f)')
                      /\ Cardinality(OfFact(f)') + Cardinality(Inserting(f)') <= Cardinality(Procs)
    BY DEF Few
  <2>1. /\ IsFiniteSet(OfFact(f)) /\ Cardinality(OfFact(f)) \in Nat
        /\ Cardinality(OfFact(f)) + Cardinality(Inserting(f)) <= Cardinality(Procs)
    BY FS_CardinalityType DEF IInv, Core, Few
  <2>2. /\ IsFiniteSet(Inserting(f)) /\ Cardinality(Inserting(f)) \in Nat
        /\ Cardinality(Procs) \in Nat
    BY FewProcs
  <2>3. Inserting(f)' \in SUBSET Inserting(f)
    BY <1>1, TwiceGrows
  <2>4. Cardinality(Inserting(f)') \in Nat /\ Cardinality(Inserting(f)') <= Cardinality(Inserting(f))
    BY <2>2, <2>3, FS_Subset, FS_CardinalityType
  <2>5. IsFiniteSet(OfFact(f)') /\ Cardinality(OfFact(f)') <= Cardinality(OfFact(f))
    <3>1. CASE f = d.fact
      <4> DEFINE rest == OfFact(f) \ {d}
      <4>1. d \in OfFact(f)
        BY <3>1 DEF OfFact
      <4>2. IsFiniteSet(rest) /\ Cardinality(rest) = Cardinality(OfFact(f)) - 1
        BY <2>1, <4>1, FS_RemoveElement
      <4>3. OfFact(f)' = rest \cup {m}
        BY <1>1, <1>4, <3>1 DEF OfFact
      <4> HIDE DEF rest
      <4>4. /\ IsFiniteSet(rest \cup {m})
            /\ Cardinality(rest \cup {m}) = Cardinality(rest) \/ Cardinality(rest \cup {m}) = Cardinality(rest) + 1
        BY <4>2, FS_AddElement
      <4> QED
        BY <2>1, <4>2, <4>3, <4>4
    <3>2. CASE f # d.fact
      <4>1. OfFact(f)' = OfFact(f)
        BY <1>1, <1>4, <3>2 DEF OfFact
      <4> QED
        BY <2>1, <4>1
    <3> QED
      BY <3>1, <3>2
  <2>6. Cardinality(OfFact(f)') \in Nat
    BY <2>5, FS_CardinalityType
  <2> QED
    BY <2>1, <2>2, <2>4, <2>5, <2>6
<1> QED
  BY <1>13, <1>14, StoredFrame DEF Core

LEMMA InsertStep ==
  ASSUME PassiveAssumption, IInv, NEW p \in Procs, Insert(p)
  PROVE  Core'
<1> DEFINE i == item[p]
           m == NewRecord(p)
<1>1. /\ pc[p] = "insert" /\ pc[p] \in Storing /\ Goto(p, After(p)) /\ Keep(p)
      /\ target' = target /\ ids' = ids + 1 /\ records' = records \cup {m}
  BY DEF Insert, Storing, NewRecord
<1>2. /\ i.fact \in Facts /\ i \in Items /\ IsFiniteSet(i.of) /\ i.count = Cardinality(i.of)
      /\ i.count # 0
  BY <1>1, Counted
<1>3. TypeInv /\ records \subseteq Records /\ ids \in Nat
  BY DEF IInv, TypeInv
<1>4. /\ m \in Records /\ m.id = ids + 1 /\ m.fact = i.fact /\ m.count = i.count /\ m.of = i.of
  BY <1>2, <1>3, InsertMakes DEF NewRecord
<1>5. \A e \in records : e.id # ids + 1
  <2> TAKE e \in records
  <2>1. Today(e) \/ (e.fact \in Legacy /\ e = OldRecord(e.fact))
    BY DEF IInv, Core, Numbered
  <2>2. CASE Today(e)
    BY <1>3, <2>2 DEF Today
  <2>3. CASE e.fact \in Legacy /\ e = OldRecord(e.fact)
    <3>1. e.id \in Legacy
      BY <2>3 DEF OldRecord
    <3>2. ids + 1 \in Nat
      BY <1>3
    <3> QED
      BY <3>1, <3>2 DEF PassiveAssumption
  <2> QED
    BY <2>1, <2>2, <2>3
<1>7. /\ \A e \in records : e.fact \in Facts => e.of \cap i.of \subseteq again
      /\ \A e \in records : e.fact \in Legacy => e.of \cap i.of \subseteq Twice'
  <2>1. \A e \in records : e.fact \in Facts => e.of \cap i.of \subseteq again
    BY <1>1, ItemApart
  <2>2. ASSUME NEW e \in records, e.fact \in Legacy PROVE e.of \cap i.of \subseteq Twice'
    <3>1. e.of \cap i.of \subseteq again \cup (IF p = Migrator THEN i.of ELSE {})
      BY <1>1, <2>2, ItemApart
    <3>2. again \subseteq Twice' /\ (p = Migrator => i.of \subseteq Twice')
      BY <1>1, TwiceGrows
    <3> QED
      BY <3>1, <3>2
  <2> QED
    BY <2>1, <2>2
<1> HIDE DEF i, m
<1>9. Recorded' = Recorded \cup i.of
  <2>1. Recorded' = Recorded \cup m.of
    BY <1>1 DEF Recorded
  <2> QED
    BY <1>4, <2>1
<1>13. Stores(p, m)
  <2>1. /\ m \in records' /\ records' \subseteq Records /\ i.of \subseteq m.of
        /\ m.fact = i.fact /\ m.id \in 1 .. ids' /\ ids' >= ids /\ ids' \in Nat
    BY <1>1, <1>3, <1>4
  <2>2. m.count >= Cardinality(m.of) /\ m.count = Cardinality(m.of)
    <3>1. Cardinality(i.of) \in Nat
      BY <1>2, FS_CardinalityType
    <3> QED
      BY <1>2, <1>4, <3>1
  <2>3. \A e \in records' : e # m =>
           /\ e \in records /\ e.id # m.id
           /\ e.fact \in Facts => e.of \cap m.of \subseteq again
           /\ e.fact \in Legacy => e.of \cap m.of \subseteq Twice'
    BY <1>1, <1>4, <1>5, <1>7
  <2>4. /\ \A e \in records : e.fact \in Legacy => e \in records'
        /\ \A e \in records : \E f \in records' : f.id = e.id /\ f.fact = e.fact /\ e.of \subseteq f.of
    BY <1>1
  <2> QED
    BY <1>1, <1>2, <1>4, <1>9, <2>1, <2>2, <2>3, <2>4 DEF Stores, i
<1>14. Few'
  <2> SUFFICES ASSUME NEW f \in Facts
               PROVE  /\ IsFiniteSet(OfFact(f)')
                      /\ Cardinality(OfFact(f)') + Cardinality(Inserting(f)') <= Cardinality(Procs)
    BY DEF Few
  <2>1. /\ IsFiniteSet(OfFact(f)) /\ Cardinality(OfFact(f)) \in Nat
        /\ Cardinality(OfFact(f)) + Cardinality(Inserting(f)) <= Cardinality(Procs)
    BY FS_CardinalityType DEF IInv, Core, Few
  <2>2. /\ IsFiniteSet(Inserting(f)) /\ Cardinality(Inserting(f)) \in Nat
        /\ Cardinality(Procs) \in Nat
    BY FewProcs
  <2>3. CASE f = i.fact
    <3>1. OfFact(f)' = OfFact(f) \cup {m} /\ m \notin OfFact(f)
      BY <1>1, <1>4, <1>5, <2>3 DEF OfFact
    <3>2. IsFiniteSet(OfFact(f)') /\ Cardinality(OfFact(f)') = Cardinality(OfFact(f)) + 1
      BY <2>1, <3>1, FS_AddElement
    <3>3. p \in Inserting(f) /\ Inserting(f)' \in SUBSET (Inserting(f) \ {p})
      <4>1. Inserting(f)' \subseteq Inserting(f)
        BY <1>1, TwiceGrows
      <4>2. pc'[p] # "insert"
        BY <1>1, StoreMoves DEF After
      <4>3. p \in Inserting(f)
        BY <1>1, <2>3 DEF Inserting, i
      <4> QED
        BY <4>1, <4>2, <4>3 DEF Inserting
    <3>4. /\ IsFiniteSet(Inserting(f) \ {p})
          /\ Cardinality(Inserting(f) \ {p}) = Cardinality(Inserting(f)) - 1
      BY <2>2, <3>3, FS_RemoveElement
    <3>5. Cardinality(Inserting(f)') \in Nat /\ Cardinality(Inserting(f)') <= Cardinality(Inserting(f) \ {p})
      BY <3>3, <3>4, FS_Subset, FS_CardinalityType
    <3> QED
      BY <2>1, <2>2, <3>2, <3>4, <3>5
  <2>4. CASE f # i.fact
    <3>1. OfFact(f)' = OfFact(f)
      BY <1>1, <1>4, <2>4 DEF OfFact
    <3>2. Inserting(f)' \in SUBSET Inserting(f)
      BY <1>1, TwiceGrows
    <3>3. Cardinality(Inserting(f)') \in Nat /\ Cardinality(Inserting(f)') <= Cardinality(Inserting(f))
      BY <2>2, <3>2, FS_Subset, FS_CardinalityType
    <3> QED
      BY <2>1, <2>2, <3>1, <3>3
  <2> QED
    BY <2>3, <2>4
<1> QED
  BY <1>13, <1>14, StoredFrame DEF Core

-----------------------------------------------------------------------------
(* The migration.                                                           *)

\* Its moves touch no record and no sensor.
LEMMA MigratorMoves ==
  ASSUME PassiveAssumption, IInv, NEW to \in {"find", "scan", "done"}, Goto(Migrator, to),
         UNCHANGED <<records, ids, route, ended, buffer, target, read, dropped>>,
         \A q \in Sensors : item'[q] = item[q],
         again \subseteq again', again' \subseteq Twice, Twice \subseteq Twice', Migrating'
  PROVE  Core'
<1>1. /\ \A q \in Procs : pc'[q] = IF q = Migrator THEN to ELSE pc[q]
      /\ \A s \in Sensors : s \in Procs /\ s # Migrator
      /\ \A q \in Procs : q # Migrator => q \in Sensors
  BY StoreMoves, Kinds DEF IInv, Procs
<1>2. \A s \in Sensors : pc'[s] = pc[s] /\ item'[s] = item[s] /\ buffer'[s] = buffer[s]
  BY <1>1
<1>3. Numbered' /\ ReadIsNumbered'
  BY DEF IInv, Core, Numbered, Today, ReadIsNumbered
<1>4. SensorsHold'
  BY <1>2, OthersHold DEF SensorsHold
<1>5. Targeted'
  <2> SUFFICES ASSUME NEW q \in Procs, pc'[q] = "update"
               PROVE  \E d \in records : d.id = target[q] /\ d.fact = item'[q].fact
    BY DEF Targeted
  <2>1. q # Migrator
    BY <1>1
  <2>2. q \in Sensors /\ pc[q] = "update" /\ item'[q] = item[q]
    BY <1>1, <1>2, <2>1
  <2> QED
    BY <2>2 DEF IInv, Core, Targeted
<1>6. (\A s \in Sensors : Pending(s)' = Pending(s)) /\ Recorded' = Recorded
  BY <1>2, OthersPend DEF Recorded
<1>7. Apart'
  <2>1. Apart
    BY DEF IInv, Core
  <2>2. ASSUME NEW d \in records, NEW e \in records, d # e, d.fact \in Facts, e.fact \in Facts
        PROVE  d.of \cap e.of \subseteq again'
    BY <2>1, <2>2 DEF Apart
  <2>3. ASSUME NEW d \in records, NEW e \in records, d # e, d.fact \in Legacy
        PROVE  d.of \cap e.of \subseteq Twice'
    BY <2>1, <2>3 DEF Apart
  <2>4. /\ \A s \in Sensors : Pending(s)' \cap Recorded' = {}
        /\ \A s, t \in Sensors : s # t => Pending(s)' \cap Pending(t)' = {}
    BY <1>6, <2>1 DEF Apart
  <2> QED
    BY <2>2, <2>3, <2>4 DEF Apart
<1>8. NothingLost'
  <2>1. ASSUME NEW x \in read \cup OldSightings
        PROVE  x \in Recorded' \/ x \in dropped \/ \E t \in Sensors : x \in Pending(t)'
    BY <1>6 DEF IInv, Core, NothingLost
  <2> QED
    BY <2>1 DEF NothingLost, OldSightings
<1>9. CountIsSightings'
  <2> SUFFICES ASSUME NEW d \in records
               PROVE  /\ d.count >= Cardinality(d.of)
                      /\ d.of \cap again' = {} => d.count = Cardinality(d.of)
    BY DEF CountIsSightings
  <2>1. d.of \cap again' = {} => d.of \cap again = {}
    OBVIOUS
  <2> QED
    BY <2>1 DEF IInv, Core, CountIsSightings
<1>10. Few'
  <2>1. \A f \in Facts : Inserting(f)' \subseteq Inserting(f)
    BY <1>1, <1>2 DEF Inserting
  <2> QED
    BY <2>1, FewerInsert DEF IInv, Core
<1> QED
  BY <1>3, <1>4, <1>5, <1>7, <1>8, <1>9, <1>10 DEF Core

\* An old record is as it was, and is copied whole.
LEMMA ScanStep ==
  ASSUME PassiveAssumption, IInv, Scan \/ ScanEnds
  PROVE  Core'
<1>1. TypeInv /\ Migrator \in Procs /\ pc[Migrator] = "scan"
  BY DEF IInv, Procs, Scan, ScanEnds
<1>2. again' = again /\ Twice = again
  BY <1>1 DEF Scan, ScanEnds, Twice
<1>3. CASE Scan
  <2>1. PICK d \in records :
          /\ d.fact \in Legacy /\ old' = d.id
          /\ item' = [item EXCEPT ![Migrator] =
                        [fact |-> Blacklist, count |-> d.count, first |-> d.first,
                         last |-> d.last, of |-> d.of]]
    BY <1>3 DEF Scan
  <2>2. d = OldRecord(d.fact)
    BY <2>1 DEF IInv, Core, Numbered, Today, PassiveAssumption
  <2> DEFINE f == d.fact
  <2>3. /\ d.id = f /\ d.count = 1 /\ d.first = 1 /\ d.last = 1 /\ d.of = {OldSighting(f)}
    BY <2>2 DEF OldRecord
  <2>4. /\ item'[Migrator] = OldItem(f)
        /\ \A s \in Sensors : item'[s] = item[s]
    BY <1>1, <2>1, <2>3, Kinds DEF TypeInv, OldItem
  <2>5. pc'[Migrator] = "find" /\ Goto(Migrator, "find")
    BY <1>1, <1>3, StoreMoves DEF Scan
  <2>6. UNCHANGED <<records, route, ended, buffer, target, read, dropped, ids, deaths, again>>
    BY <1>3 DEF Scan
  <2>7. Migrating'
    BY <2>1, <2>2, <2>3, <2>4, <2>5, <2>6 DEF Migrating, OldItem, OldRecord, OldSighting
  <2>8. Twice' = again
    BY <2>5, <2>6 DEF Twice
  <2> QED
    BY <1>2, <2>4, <2>5, <2>6, <2>7, <2>8, MigratorMoves
<1>4. CASE ScanEnds
  <2>1. pc'[Migrator] = "done" /\ Goto(Migrator, "done")
    BY <1>1, <1>4, StoreMoves DEF ScanEnds
  <2>2. UNCHANGED <<records, route, ended, buffer, item, target, old, read, dropped, ids,
                    deaths, again>>
    BY <1>4 DEF ScanEnds
  <2>3. Migrating' /\ Twice' = again
    BY <2>1, <2>2 DEF Migrating, Twice, Storing
  <2> QED
    BY <1>2, <2>1, <2>2, <2>3, MigratorMoves
<1> QED
  BY <1>3, <1>4

LEMMA DeathStep ==
  ASSUME PassiveAssumption, IInv, MigratorDies
  PROVE  Core'
<1>1. TypeInv /\ Migrator \in Procs
  BY DEF IInv, Procs
<1>2. again' = Twice
  BY DEF MigratorDies, Twice
<1>3. pc'[Migrator] = "scan" /\ Goto(Migrator, "scan")
  BY <1>1, StoreMoves DEF MigratorDies
<1>4. UNCHANGED <<records, route, ended, buffer, item, target, old, read, dropped, ids>>
  BY DEF MigratorDies
<1>5. Migrating' /\ Twice' = again'
  BY <1>3 DEF Migrating, Twice, Storing
<1>6. again \subseteq Twice
  BY DEF Twice
<1> QED
  BY <1>2, <1>3, <1>4, <1>5, <1>6, MigratorMoves

\* What is removed is the one record of an old sighting that another now holds.
LEMMA RemoveStep ==
  ASSUME PassiveAssumption, IInv, Remove
  PROVE  Core'
<1> DEFINE r == OldRecord(old)
<1>1. TypeInv /\ Migrator \in Procs /\ pc[Migrator] = "remove" /\ Goto(Migrator, "scan")
  BY DEF IInv, Procs, Remove
<1>2. /\ UNCHANGED <<route, ended, buffer, item, target, old, read, dropped, ids, deaths, again>>
      /\ records' = {d \in records : d.id # old}
  BY DEF Remove
<1>3. /\ old \in Legacy /\ r \in records /\ item[Migrator] = OldItem(old)
      /\ \E d \in records : d.fact = Blacklist /\ OldSighting(old) \in d.of
  BY <1>1 DEF IInv, Core, Migrating
<1>4. r.id = old /\ r.fact = old /\ r.of = {OldSighting(old)}
  BY DEF OldRecord
<1> HIDE DEF r
<1>5. records' = records \ {r}
  BY <1>2, <1>3, <1>4 DEF IInv, Core, Numbered
<1>6. /\ \A q \in Procs : pc'[q] = IF q = Migrator THEN "scan" ELSE pc[q]
      /\ \A s \in Sensors : s \in Procs /\ s # Migrator
  BY <1>1, StoreMoves, Kinds
<1>7. \A d \in records : d.fact \in Facts => d \in records' /\ d # r
  BY <1>3, <1>4, <1>5 DEF PassiveAssumption
<1>8. Recorded' = Recorded
  <2>1. PICK d \in records : d.fact = Blacklist /\ OldSighting(old) \in d.of
    BY <1>3
  <2>2. d \in records' /\ r.of \subseteq d.of
    BY <1>4, <1>7, <2>1 DEF PassiveAssumption
  <2> QED
    BY <1>5, <2>2 DEF Recorded
<1>9. /\ Numbered' /\ ReadIsNumbered' /\ CountIsSightings'
  <2>1. \A d \in records' : d \in records
    BY <1>5
  <2> QED
    BY <1>2, <2>1 DEF IInv, Core, Numbered, Today, ReadIsNumbered, CountIsSightings, OldRecord,
                      OldSighting, OldSightings
<1>10. SensorsHold'
  BY <1>2, <1>6, OthersHold DEF SensorsHold
<1>11. Migrating'
  <2>1. pc'[Migrator] = "scan"
    BY <1>1, <1>6
  <2> QED
    BY <2>1 DEF Migrating, Storing
<1>12. Targeted'
  <2> SUFFICES ASSUME NEW q \in Procs, pc'[q] = "update"
               PROVE  \E d \in records' : d.id = target[q] /\ d.fact = item[q].fact
    BY <1>2 DEF Targeted
  <2>1. pc[q] = "update"
    BY <1>6
  <2>2. PICK d \in records : d.id = target[q] /\ d.fact = item[q].fact
    BY <2>1 DEF IInv, Core, Targeted
  <2>3. item[q].fact \in Facts
    BY <2>1, Counted DEF Storing
  <2> QED
    BY <1>7, <2>2, <2>3
<1>13. \A s \in Sensors : Pending(s)' = Pending(s)
  BY <1>2, <1>6, OthersPend
<1>14. Apart'
  <2>1. Apart /\ Twice = again \cup {OldSighting(old)} /\ Twice' = again
    BY <1>1, <1>2, <1>3, <1>6 DEF IInv, Core, Twice, OldItem
  <2>2. ASSUME NEW d \in records', NEW e \in records', d # e, d.fact \in Legacy
        PROVE  d.of \cap e.of \subseteq again
    <3>1. d \in records /\ e \in records /\ d # r
      BY <1>5
    <3>2. d = OldRecord(d.fact)
      BY <2>2, <3>1 DEF IInv, Core, Numbered, Today, PassiveAssumption
    <3>3. d.fact # old
      BY <3>1, <3>2 DEF r
    <3>4. OldSighting(old) \notin d.of
      <4>1. d.of = {OldSighting(d.fact)}
        BY <3>2 DEF OldRecord
      <4>2. OldSighting(d.fact) # OldSighting(old)
        BY <3>3 DEF OldSighting
      <4> QED
        BY <4>1, <4>2
    <3>5. d.of \cap e.of \subseteq Twice
      BY <2>1, <2>2, <3>1 DEF Apart
    <3> QED
      BY <2>1, <3>4, <3>5
  <2>3. ASSUME NEW d \in records', NEW e \in records', d # e, d.fact \in Facts, e.fact \in Facts
        PROVE  d.of \cap e.of \subseteq again
    BY <1>5, <2>1, <2>3 DEF Apart
  <2>4. /\ \A s \in Sensors : Pending(s)' \cap Recorded' = {}
        /\ \A s, t \in Sensors : s # t => Pending(s)' \cap Pending(t)' = {}
    BY <1>8, <1>13, <2>1 DEF Apart
  <2> QED
    BY <1>2, <2>1, <2>2, <2>3, <2>4 DEF Apart
<1>15. NothingLost'
  <2>1. ASSUME NEW x \in read \cup OldSightings
        PROVE  x \in Recorded' \/ x \in dropped \/ \E t \in Sensors : x \in Pending(t)'
    BY <1>8, <1>13 DEF IInv, Core, NothingLost
  <2> QED
    BY <1>2, <2>1 DEF NothingLost, OldSightings
<1>16. Few'
  <2> SUFFICES ASSUME NEW f \in Facts
               PROVE  /\ IsFiniteSet(OfFact(f)')
                      /\ Cardinality(OfFact(f)') + Cardinality(Inserting(f)') <= Cardinality(Procs)
    BY DEF Few
  <2>1. OfFact(f)' = OfFact(f)
    BY <1>5, <1>7 DEF OfFact
  <2>2. Inserting(f)' = Inserting(f)
    BY <1>1, <1>2, <1>6 DEF Inserting
  <2> QED
    BY <2>1, <2>2 DEF IInv, Core, Few
<1> QED
  BY <1>9, <1>10, <1>11, <1>12, <1>14, <1>15, <1>16 DEF Core

-----------------------------------------------------------------------------
(* The inductive invariant.                                                 *)

LEMMA InvInit ==
  ASSUME PassiveAssumption, Init
  PROVE  IInv
<1>1. /\ \A d \in records : d.fact \in Legacy /\ d = OldRecord(d.fact)
      /\ \A f \in Legacy : OldRecord(f) \in records
  <2>1. \A x \in OldSightings : x.fact \in Legacy /\ x = OldSighting(x.fact)
    BY DEF OldSightings, OldSighting
  <2>2. \A f \in Legacy : OldSighting(f) \in OldSightings /\ OldSighting(f).fact = f
    BY DEF OldSightings, OldSighting
  <2> DEFINE Made(x) == [id |-> x.fact, fact |-> x.fact, count |-> 1, first |-> 1, last |-> 1,
                         of |-> {x}]
  <2>3. \A x \in OldSightings : Made(x) = OldRecord(x.fact)
    BY <2>1 DEF OldRecord
  <2>4. records = {Made(x) : x \in OldSightings}
    BY DEF Init
  <2>5. \A f \in Legacy : OldRecord(f).fact = f
    BY DEF OldRecord
  <2> HIDE DEF Made
  <2>6. ASSUME NEW d \in records PROVE d.fact \in Legacy /\ d = OldRecord(d.fact)
    <3>1. PICK x \in OldSightings : d = Made(x)
      BY <2>4
    <3> QED
      BY <2>1, <2>3, <2>5, <3>1
  <2>7. ASSUME NEW f \in Legacy PROVE OldRecord(f) \in records
    BY <2>2, <2>3, <2>4
  <2> QED
    BY <2>6, <2>7
<1>2. /\ \A s \in Sensors : s \in Procs /\ s # Migrator /\ pc[s] = "read" /\ buffer[s] = {}
      /\ Migrator \in Procs /\ pc[Migrator] = "scan"
      /\ \A p \in Procs : pc[p] \in {"read", "scan"} /\ item[p] = NoItem /\ target[p] = 0
  BY DEF Init, Procs, PassiveAssumption
<1>3. \A f \in Legacy : /\ OldSighting(f) \in Sightings /\ OldSighting(f) \in OldSightings
                        /\ OldRecord(f) \in Records
  <2> TAKE f \in Legacy
  <2>1. OldSighting(f) \in Sightings /\ OldSighting(f) \in OldSightings
    BY DEF OldSighting, Sightings, OldSightings
  <2>2. OldRecord(f) \in Records
    BY <2>1 DEF OldRecord, Records
  <2> QED
    BY <2>1, <2>2
<1>4. TypeInv
  <2>1. NoItem \in Items
    BY DEF NoItem, Items, PassiveAssumption
  <2>2. records \subseteq Records
    BY <1>1, <1>3
  <2>3. /\ pc \in [Procs -> Storing \cup {"read", "flush", "scan", "remove", "done"}]
        /\ item \in [Procs -> Items]
    BY <2>1 DEF Init
  <2> QED
    BY <1>2, <2>2, <2>3 DEF Init, TypeInv
<1>5. Numbered
  <2>1. \A d, e \in records : d.id = e.id => d = e
    BY <1>1 DEF OldRecord
  <2>2. ASSUME NEW d \in records
        PROVE  IsFiniteSet(d.of) /\ d.of # {} /\ d.of \subseteq read \cup OldSightings
    <3>1. d.of = {OldSighting(d.fact)} /\ d.fact \in Legacy
      BY <1>1 DEF OldRecord
    <3> QED
      BY <1>3, <3>1, FS_Singleton
  <2> QED
    BY <1>1, <2>1, <2>2 DEF Numbered
<1>6. ReadIsNumbered
  BY FS_EmptySet DEF Init, ReadIsNumbered
<1>7. SensorsHold
  BY <1>2 DEF SensorsHold, SensorHolds, Storing
<1>8. Migrating /\ Targeted
  BY <1>2 DEF Migrating, Targeted, Storing
<1>9. \A s \in Sensors : Pending(s) = {}
  BY <1>2 DEF Pending, InFlight
<1>10. Apart
  <2>1. ASSUME NEW d \in records, NEW e \in records, d # e PROVE d.of \cap e.of = {}
    <3>1. /\ d.of = {OldSighting(d.fact)} /\ e.of = {OldSighting(e.fact)} /\ d.fact # e.fact
      BY <1>1, <2>1 DEF OldRecord
    <3>2. OldSighting(d.fact) # OldSighting(e.fact)
      BY <3>1 DEF OldSighting
    <3> QED
      BY <3>1, <3>2
  <2> QED
    BY <1>9, <2>1 DEF Apart
<1>11. NothingLost
  <2>1. ASSUME NEW x \in OldSightings PROVE x \in Recorded
    <3>1. x.fact \in Legacy /\ x = OldSighting(x.fact)
      BY DEF OldSightings, OldSighting
    <3>2. OldRecord(x.fact) \in records /\ x \in OldRecord(x.fact).of
      BY <1>1, <3>1 DEF OldRecord
    <3> QED
      BY <3>2 DEF Recorded
  <2> QED
    BY <2>1 DEF NothingLost, Init
<1>12. CountIsSightings
  <2>1. ASSUME NEW d \in records PROVE d.count = Cardinality(d.of) /\ d.count = 1
    <3>1. d.of = {OldSighting(d.fact)} /\ d.count = 1
      BY <1>1 DEF OldRecord
    <3> QED
      BY <3>1, FS_Singleton
  <2> QED
    BY <2>1 DEF CountIsSightings
<1>13. Few
  <2>1. ASSUME NEW f \in Facts PROVE OfFact(f) = {} /\ Inserting(f) = {}
    BY <1>1, <1>2 DEF OfFact, Inserting, PassiveAssumption
  <2>2. IsFiniteSet({}) /\ Cardinality({}) = 0
    BY FS_EmptySet
  <2>3. Cardinality(Procs) \in Nat
    BY FewProcs
  <2>4. ASSUME NEW f \in Facts
        PROVE  IsFiniteSet(OfFact(f)) /\ Cardinality(OfFact(f)) = 0 /\ Cardinality(Inserting(f)) = 0
    BY <2>1, <2>2, Zenon
  <2> QED
    BY <2>3, <2>4 DEF Few
<1> QED
  BY <1>4, <1>5, <1>6, <1>7, <1>8, <1>10, <1>11, <1>12, <1>13 DEF IInv, Core

LEMMA CoreStep ==
  ASSUME PassiveAssumption, IInv, [Next]_vars
  PROVE  Core'
<1>1. ASSUME NEW p \in Procs, insert_or_update(p) PROVE Core'
  <2>1. Find(p) \/ (\E d \in records : Folds(p, d)) \/ Misses(p) \/ Insert(p)
    BY <1>1, StoreSteps DEF IInv, Core
  <2> QED
    BY <2>1, LookStep, FoldStep, InsertStep
<1>2. CASE update_dns_blacklist
  BY <1>2, ScanStep, RemoveStep, DeathStep DEF update_dns_blacklist
<1>3. CASE UNCHANGED vars
  BY <1>3 DEF vars, IInv, Core, Numbered, Today, ReadIsNumbered, SensorsHold, SensorHolds,
              GoodItem, Migrating, Targeted, Apart, Twice, Pending, InFlight, Recorded,
              NothingLost, CountIsSightings, Few, OfFact, Inserting, OldRecord, OldItem,
              OldSighting, OldSightings
<1> QED
  BY <1>1, <1>2, <1>3, SensorStep DEF Next

\* Whatever its imports and migration do, whoever dies: the invariant of the store.
THEOREM InvHolds ==
  ASSUME PassiveAssumption
  PROVE  Spec => []IInv
<1>1. Init => IInv
  BY InvInit
<1>2. IInv /\ [Next]_vars => IInv'
  BY TypeStep, CoreStep DEF IInv
<1> QED
  BY <1>1, <1>2, PTL DEF Spec

\* Every variable holds a value of its kind, no two records have one _id, and every
\* record counts something, whatever insert_or_update and the migration do.
THEOREM PassiveTypeOK ==
  ASSUME PassiveAssumption
  PROVE  Spec => []TypeOK
<1>1. IInv => TypeOK
  BY DEF IInv, Core, TypeInv, Numbered, TypeOK, Records, Storing, PassiveAssumption
<1> QED
  BY <1>1, InvHolds, PTL

\* A sighting that was read is in a record, on its way in a process or went down with
\* one, whatever the routes of insert_or_update and insert_or_update_bulk and whenever
\* update_dns_blacklist removes what it copied.
THEOREM SightingsKept ==
  ASSUME PassiveAssumption
  PROVE  Spec => []NothingLost
<1>1. IInv => NothingLost
  BY DEF IInv, Core
<1> QED
  BY <1>1, InvHolds, PTL

\* No sighting is in two records, or in a record and on its way, but for the one that a
\* migration copied and has yet to remove, or died before it removed.
THEOREM SightingsFoldedOnce ==
  ASSUME PassiveAssumption
  PROVE  Spec => []FoldedOnce
<1>1. ASSUME IInv PROVE FoldedOnce
  <2>1. Apart /\ Numbered /\ again \subseteq Twice
    BY <1>1 DEF IInv, Core, Twice
  <2>2. ASSUME NEW d \in records, NEW e \in records, d # e PROVE d.of \cap e.of \subseteq Twice
    <3>1. CASE d.fact \in Legacy
      BY <2>1, <2>2, <3>1 DEF Apart
    <3>2. CASE e.fact \in Legacy
      <4>1. e.of \cap d.of \subseteq Twice
        BY <2>1, <2>2, <3>2 DEF Apart
      <4> QED
        BY <4>1
    <3>3. CASE d.fact \in Facts /\ e.fact \in Facts
      <4>1. d.of \cap e.of \subseteq again
        BY <2>1, <2>2, <3>3 DEF Apart
      <4> QED
        BY <2>1, <4>1
    <3>4. (d.fact \in Facts \/ d.fact \in Legacy) /\ (e.fact \in Facts \/ e.fact \in Legacy)
      BY <2>1 DEF Numbered, Today
    <3> QED
      BY <3>1, <3>2, <3>3, <3>4
  <2> QED
    BY <2>1, <2>2 DEF Apart, FoldedOnce
<1> QED
  BY <1>1, InvHolds, PTL

\* The count of a record is the number of its sightings, but for those that a migration
\* that died before it removed a record counted again.
THEOREM CountsAreSightings ==
  ASSUME PassiveAssumption
  PROVE  Spec => []CountIsSightings
<1>1. IInv => CountIsSightings
  BY DEF IInv, Core
<1> QED
  BY <1>1, InvHolds, PTL

\* Though no index of the collection is unique and an upsert that finds nothing inserts
\* in a step of its own, a fact never has more records than there are processes.
THEOREM DuplicatesAreFew ==
  ASSUME PassiveAssumption
  PROVE  Spec => []FewDuplicates
<1>1. ASSUME IInv PROVE FewDuplicates
  <2> SUFFICES ASSUME NEW f \in Facts PROVE Cardinality(OfFact(f)) <= Cardinality(Procs)
    BY DEF FewDuplicates, OfFact
  <2>1. Cardinality(OfFact(f)) \in Nat
    BY <1>1, FS_CardinalityType DEF IInv, Core, Few
  <2>2. Cardinality(Inserting(f)) \in Nat /\ Cardinality(Procs) \in Nat
    BY FewProcs
  <2>3. Cardinality(OfFact(f)) + Cardinality(Inserting(f)) <= Cardinality(Procs)
    BY <1>1 DEF IInv, Core, Few
  <2> QED
    BY <2>1, <2>2, <2>3
<1> QED
  BY <1>1, InvHolds, PTL

-----------------------------------------------------------------------------
(* The windows.                                                             *)

\* A window folded into another is their hull.
LEMMA HullOfBoth ==
  ASSUME NEW d \in Records, NEW i \in Items, IsHull(d), IsHull(i)
  PROVE  IsHull(Folded(d, i))
<1> DEFINE m == Folded(d, i)
<1>1. /\ m.first = Lower(d.first, i.first) /\ m.last = Higher(d.last, i.last)
      /\ m.of = d.of \cup i.of
  BY FoldMakes
<1>2. /\ d.first \in Nat /\ d.last \in Nat /\ i.first \in Nat /\ i.last \in Nat
      /\ d.of \subseteq Sightings /\ i.of \subseteq Sightings
  BY DEF Records, Items
<1>3. \A x \in Sightings : x.first \in Nat /\ x.last \in Nat
  BY DEF Sightings
<1> HIDE DEF m
<1>4. ASSUME NEW x \in m.of PROVE m.first <= x.first /\ x.last <= m.last
  <2>1. x \in Sightings /\ x.first \in Nat /\ x.last \in Nat
    BY <1>1, <1>2, <1>3
  <2>2. (d.first <= x.first /\ x.last <= d.last) \/ (i.first <= x.first /\ x.last <= i.last)
    BY <1>1 DEF IsHull
  <2> QED
    BY <1>1, <1>2, <2>1, <2>2 DEF Lower, Higher
<1>5. \E x, y \in m.of : m.first = x.first /\ m.last = y.last
  <2>1. PICK a, b \in d.of : d.first = a.first /\ d.last = b.last
    BY DEF IsHull
  <2>2. PICK a2, b2 \in i.of : i.first = a2.first /\ i.last = b2.last
    BY DEF IsHull
  <2>3. \E x \in m.of : m.first = x.first
    BY <1>1, <2>1, <2>2 DEF Lower
  <2>4. \E y \in m.of : m.last = y.last
    BY <1>1, <2>1, <2>2 DEF Higher
  <2> QED
    BY <2>3, <2>4
<1> QED
  BY <1>4, <1>5 DEF IsHull, m

\* So is one of instants merged with another in memory.
LEMMA HullOfMerged ==
  ASSUME NEW i \in Items, NEW x \in Sightings, ~Intervals, x.first = x.last, IsHull(i)
  PROVE  IsHull(Merged(i, x))
<1> DEFINE m == Merged(i, x)
<1>1. /\ m.first = Lower(i.first, x.first) /\ m.last = Higher(i.last, x.last)
      /\ m.of = i.of \cup {x}
  BY MergeMakes
<1>2. /\ i.first \in Nat /\ i.last \in Nat /\ i.of \subseteq Sightings
      /\ x.first \in Nat /\ x.last \in Nat
  BY DEF Items, Sightings
<1>3. \A y \in Sightings : y.first \in Nat /\ y.last \in Nat
  BY DEF Sightings
<1> HIDE DEF m
<1>4. ASSUME NEW y \in m.of PROVE m.first <= y.first /\ y.last <= m.last
  <2>1. y.first \in Nat /\ y.last \in Nat
    BY <1>1, <1>2, <1>3
  <2>2. y = x \/ (i.first <= y.first /\ y.last <= i.last)
    BY <1>1 DEF IsHull
  <2> QED
    BY <1>1, <1>2, <2>1, <2>2 DEF Lower, Higher
<1>5. \E y, z \in m.of : m.first = y.first /\ m.last = z.last
  <2>1. PICK a, b \in i.of : i.first = a.first /\ i.last = b.last
    BY DEF IsHull
  <2> QED
    BY <1>1, <2>1 DEF Lower, Higher
<1> QED
  BY <1>4, <1>5 DEF IsHull, m

LEMMA HullStep ==
  ASSUME PassiveAssumption, NoLocalWindows, IInv, Hulls, [Next]_vars
  PROVE  Hulls'
<1>1. TypeInv /\ Numbered /\ Targeted
  BY DEF IInv, Core
<1>2. /\ \A s \in Sensors : s \in Procs /\ s # Migrator
      /\ Migrator \in Procs
      /\ \A p \in Procs : item[p] \in Items
      /\ \A s \in Sensors : buffer[s] \subseteq Items
      /\ \A d \in records : d \in Records
  BY <1>1, Kinds
<1>3. ASSUME NEW p \in Procs, NEW to, Goto(p, to)
      PROVE  \A q \in Procs : pc'[q] = IF q = p THEN to ELSE pc[q]
  BY <1>3, StoreMoves
<1>4. ASSUME NEW s \in Sensors, Sight(s) PROVE Hulls'
  <2>1. PICK f \in Facts, from \in 1 .. MaxTime, to \in 1 .. MaxTime :
          LET x == [id |-> Cardinality(read) + 1, fact |-> f, first |-> from, last |-> to]
          IN  /\ from <= to
              /\ Intervals \/ from = to
              /\ buffer' = [buffer EXCEPT ![s] = Held(s, x)]
              /\ Goto(s, IF Cardinality(Held(s, x)) >= Batch(s) THEN "flush" ELSE "read")
    BY <1>4 DEF Sight
  <2> DEFINE x == [id |-> Cardinality(read) + 1, fact |-> f, first |-> from, last |-> to]
             stage == IF Cardinality(Held(s, x)) >= Batch(s) THEN "flush" ELSE "read"
  <2>2. x \in Sightings /\ (Intervals \/ x.first = x.last)
    BY <2>1, FS_CardinalityType DEF IInv, Core, ReadIsNumbered, Sightings, PassiveAssumption
  <2>3. buffer' = [buffer EXCEPT ![s] = Held(s, x)] /\ Goto(s, stage) /\ stage \notin Storing
    BY <2>1 DEF Storing
  <2> HIDE DEF x, stage
  <2>4. UNCHANGED <<records, item, route>>
    BY <1>4 DEF Sight
  <2>5. IsHull(Single(x))
    <3>1. /\ Single(x).of = {x} /\ Single(x).first = x.first /\ Single(x).last = x.last
          /\ x.first \in Nat /\ x.last \in Nat
      BY <2>2 DEF Single, Sightings
    <3> QED
      BY <3>1 DEF IsHull
  <2>6. \A i \in Held(s, x) : IsHull(i)
    <3>1. \A i \in buffer[s] : IsHull(i) /\ i \in Items
      BY <1>2 DEF Hulls
    <3>2. CASE route[s] = "local"
      <4>1. ~Intervals
        BY <1>1, <3>2 DEF NoLocalWindows, TypeInv
      <4>2. \A i \in buffer[s] : IsHull(Merged(i, x))
        BY <2>2, <3>1, <4>1, HullOfMerged
      <4> QED
        BY <2>5, <3>1, <4>2 DEF Held
    <3>3. CASE route[s] # "local"
      BY <2>5, <3>1, <3>3 DEF Held
    <3> QED
      BY <3>2, <3>3
  <2>7. \A p \in Procs : pc'[p] \in Storing => pc[p] \in Storing
    BY <1>2, <1>3, <2>3
  <2>8. \A q \in Sensors : buffer'[q] = IF q = s THEN Held(s, x) ELSE buffer[q]
    BY <1>1, <2>3 DEF TypeInv
  <2> QED
    BY <2>4, <2>6, <2>7, <2>8 DEF Hulls, IsHull
<1>5. ASSUME NEW s \in Sensors, EndOfInput(s) \/ Flushed(s) PROVE Hulls'
  <2>1. /\ UNCHANGED <<records, buffer, item>>
        /\ \A p \in Procs : pc'[p] \in Storing => pc[p] \in Storing
    BY <1>2, <1>3, <1>5 DEF EndOfInput, Flushed, Storing
  <2> QED
    BY <2>1 DEF Hulls, IsHull
<1>6. ASSUME NEW s \in Sensors, NextItem(s) PROVE Hulls'
  <2>1. PICK i \in buffer[s] : /\ item' = [item EXCEPT ![s] = i]
                               /\ buffer' = [buffer EXCEPT ![s] = @ \ {i}]
    BY <1>6 DEF NextItem
  <2>2. /\ records' = records
        /\ \A p \in Procs : item'[p] = IF p = s THEN i ELSE item[p]
        /\ \A q \in Sensors : buffer'[q] \subseteq buffer[q]
        /\ \A p \in Procs : p # s => pc'[p] = pc[p]
    BY <1>1, <1>2, <1>3, <1>6, <2>1 DEF TypeInv, NextItem
  <2>3. IsHull(i)
    BY <2>1 DEF Hulls
  <2> QED
    BY <2>2, <2>3 DEF Hulls, IsHull
<1>7. ASSUME NEW s \in Sensors, SensorDies(s) PROVE Hulls'
  <2>1. /\ UNCHANGED <<records, item>>
        /\ \A q \in Sensors : buffer'[q] \subseteq buffer[q]
        /\ \A p \in Procs : pc'[p] \in Storing => pc[p] \in Storing
    BY <1>1, <1>2, <1>3, <1>7 DEF SensorDies, TypeInv, Storing
  <2> QED
    BY <2>1 DEF Hulls, IsHull
<1>8. ASSUME NEW p \in Procs, Find(p) \/ Misses(p) PROVE Hulls'
  <2>1. /\ UNCHANGED <<records, item, buffer>>
        /\ \A q \in Procs : pc'[q] \in Storing => pc[q] \in Storing
    BY <1>2, <1>3, <1>8 DEF Find, Misses, Keep, Storing
  <2> QED
    BY <2>1 DEF Hulls, IsHull
<1>9. ASSUME NEW p \in Procs, NEW d \in records, Folds(p, d) PROVE Hulls'
  <2>1. IsHull(Folded(d, item[p]))
    BY <1>2, <1>9, HullOfBoth DEF Hulls, Folds, Storing
  <2>2. /\ UNCHANGED <<item, buffer>> /\ records' = (records \ {d}) \cup {Folded(d, item[p])}
        /\ \A q \in Procs : pc'[q] \in Storing => pc[q] \in Storing
    BY <1>2, <1>3, <1>9 DEF Folds, Keep, Storing
  <2> DEFINE m == Folded(d, item[p])
  <2> HIDE DEF m
  <2> QED
    BY <2>1, <2>2 DEF Hulls, IsHull, m
<1>10. ASSUME NEW p \in Procs, Insert(p) PROVE Hulls'
  <2>1. IsHull(item[p])
    BY <1>10 DEF Hulls, Insert, Storing
  <2>2. /\ NewRecord(p).of = item[p].of /\ NewRecord(p).first = item[p].first
        /\ NewRecord(p).last = item[p].last
    BY DEF NewRecord
  <2>3. IsHull(NewRecord(p))
    BY <2>1, <2>2 DEF IsHull
  <2>4. /\ UNCHANGED <<item, buffer>> /\ records' = records \cup {NewRecord(p)}
        /\ \A q \in Procs : pc'[q] \in Storing => pc[q] \in Storing
    BY <1>2, <1>3, <1>10 DEF Insert, NewRecord, Keep, Storing
  <2> QED
    BY <2>3, <2>4 DEF Hulls, IsHull
<1>11. CASE Scan
  <2>1. PICK d \in records :
          item' = [item EXCEPT ![Migrator] =
                     [fact |-> Blacklist, count |-> d.count, first |-> d.first,
                      last |-> d.last, of |-> d.of]]
    BY <1>11 DEF Scan
  <2>2. /\ \A p \in Procs : p # Migrator => item'[p] = item[p]
        /\ item'[Migrator].of = d.of /\ item'[Migrator].first = d.first
        /\ item'[Migrator].last = d.last
    BY <1>1, <1>2, <2>1 DEF TypeInv
  <2>3. IsHull(d)
    BY DEF Hulls
  <2>4. IsHull(item'[Migrator])
    BY <2>2, <2>3 DEF IsHull
  <2>5. /\ UNCHANGED <<records, buffer>>
        /\ \A p \in Procs : p # Migrator => pc'[p] = pc[p]
    BY <1>2, <1>3, <1>11 DEF Scan
  <2> QED
    BY <2>2, <2>4, <2>5 DEF Hulls, IsHull
<1>12. CASE ScanEnds \/ Remove \/ MigratorDies
  <2>1. /\ UNCHANGED <<item, buffer>> /\ records' \subseteq records
        /\ \A q \in Procs : pc'[q] \in Storing => pc[q] \in Storing
    BY <1>2, <1>3, <1>12 DEF ScanEnds, Remove, MigratorDies, Storing
  <2> QED
    BY <2>1 DEF Hulls, IsHull
<1>13. CASE UNCHANGED vars
  BY <1>13 DEF vars, Hulls, IsHull
<1> QED
  BY <1>1, <1>4, <1>5, <1>6, <1>7, <1>8, <1>9, <1>10, <1>11, <1>12, <1>13, StoreSteps
     DEF Next, import, update_dns_blacklist

\* The window of a record opens with the earliest of its sightings and closes with the
\* latest, in whatever order and by whichever process they were folded ($min, $max of
\* insert_or_update), when windows are not merged in memory (_RecInfo.update_from_spec).
THEOREM WindowsAreHulls ==
  ASSUME PassiveAssumption, NoLocalWindows
  PROVE  Spec => []WindowIsHull
<1>1. Init => Hulls
  <2> SUFFICES ASSUME Init PROVE Hulls
    OBVIOUS
  <2>1. ASSUME NEW d \in records PROVE IsHull(d)
    <3>1. PICK x \in OldSightings : d = [id |-> x.fact, fact |-> x.fact, count |-> 1,
                                         first |-> 1, last |-> 1, of |-> {x}]
      BY DEF Init
    <3>2. x.first = 1 /\ x.last = 1 /\ d.of = {x} /\ d.first = 1 /\ d.last = 1
      BY <3>1 DEF OldSightings
    <3> QED
      BY <3>2 DEF IsHull
  <2> QED
    BY <2>1 DEF Init, Hulls, Procs, PassiveAssumption, Storing
<1>2. IInv /\ Hulls /\ [Next]_vars => Hulls'
  BY HullStep
<1>3. Hulls => WindowIsHull
  BY DEF Hulls, IsHull, WindowIsHull
<1> QED
  BY <1>1, <1>2, <1>3, InvHolds, PTL DEF Spec
=============================================================================
