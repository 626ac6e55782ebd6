---------------------------- MODULE PassiveStore ----------------------------
(***************************************************************************)
(* The passive purpose on MongoDB: what sensors saw, aggregated.            *)
(*                                                                          *)
(* A record of the `passive' collection stands for every sighting of one    *)
(* fact (record type, address, value, source, sensor...): how many there    *)
(* were, and the window of time they span.  Import processes run at once    *)
(* and fold their sightings into the records by one of three routes: an     *)
(* upsert per sighting, in batches (`bulk', the default); a query and then  *)
(* an update, one sighting at a time (`direct', --no-bulk); the latter of   *)
(* sightings first merged in memory (`local', --local-bulk).  No index of   *)
(* the collection is unique, and an upsert that finds nothing looks and     *)
(* inserts in two steps.  A schema migration, update_dns_blacklist, turns   *)
(* the records of old into those of today by the same insert_or_update.     *)
(***************************************************************************)
EXTENDS Naturals, FiniteSets

CONSTANTS Sensors,        \* the import processes
          Migrator,       \* the process running update_dns_blacklist
          Facts,          \* what sensors report today
          Legacy,         \* facts as recorded before DNS blacklists were told
          Blacklist,      \* the fact all of these become
          Routes,         \* the routes import processes may take
          Intervals,      \* whether a sighting is a window, not an instant
          BulkBatch,      \* MONGODB_BATCH_SIZE
          LocalBatch,     \* LOCAL_BATCH_SIZE
          MaxSightings,   \* bound: sightings in all the imported files
          MaxTime,        \* bound: the instants are 1..MaxTime
          MaxDeaths       \* bound: processes that die or fail

PassiveAssumption ==
  /\ IsFiniteSet(Sensors) /\ Migrator \notin Sensors
  /\ Blacklist \in Facts
  /\ Facts \cap Legacy = {} /\ Legacy \cap Nat = {}
  /\ Routes \subseteq {"bulk", "direct", "local"}
  /\ Intervals \in BOOLEAN
  /\ BulkBatch \in Nat \ {0} /\ LocalBatch \in Nat \ {0}
  /\ MaxSightings \in Nat /\ MaxTime \in Nat \ {0} /\ MaxDeaths \in Nat

\* Windows of time are not merged in memory, where the earliest of their ends is kept:
\* what WindowIsHull below needs.
NoLocalWindows == Intervals => "local" \notin Routes

VARIABLES
  records,   \* the `passive' collection
  route,     \* the route each process takes
  ended,     \* the import processes that have read all their input
  buffer,    \* what each process holds in memory and has not sent
  pc,        \* the next database operation of each process
  item,      \* what that operation folds into the collection
  target,    \* the _id found by a process's query
  old,       \* the _id of the record being migrated
  read,      \* history: the sightings read so far
  dropped,   \* history: those a death lost
  ids,       \* how many records were ever inserted
  deaths,    \* how many processes died
  again      \* history: records that a migration migrated twice

vars == <<records, route, ended, buffer, pc, item, target, old, read, dropped,
          ids, deaths, again>>

Procs == Sensors \cup {Migrator}
Lower(a, b) == IF a < b THEN a ELSE b
Higher(a, b) == IF a < b THEN b ELSE a

\* One sighting of a fact; `of' is history: the sightings folded together.
Single(x) ==
  [fact |-> x.fact, count |-> 1, first |-> x.first, last |-> x.last, of |-> {x}]
NoItem == [fact |-> Blacklist, count |-> 0, first |-> 0, last |-> 0, of |-> {}]

\* Before the migration, each legacy fact has a record of one sighting.  Its
\* _id is named by the fact; records inserted later are numbered.
OldSightings == [id : {0}, fact : Legacy, first : {1}, last : {1}]

Init ==
  /\ records = {[id |-> x.fact, fact |-> x.fact, count |-> 1, first |-> 1,
                 last |-> 1, of |-> {x}] : x \in OldSightings}
  /\ route \in [Sensors -> Routes]
  /\ ended = {}
  /\ buffer = [s \in Sensors |-> {}]
  /\ pc = [p \in Procs |-> IF p = Migrator THEN "scan" ELSE "read"]
  /\ item = [p \in Procs |-> NoItem]
  /\ target = [p \in Procs |-> 0]
  /\ read = {}
  /\ dropped = {}
  /\ old = 0
  /\ ids = 0
  /\ deaths = 0
  /\ again = {}

Goto(p, to) == pc' = [pc EXCEPT ![p] = to]

-----------------------------------------------------------------------------
(* An import process reads its input                                       *)

\* _RecInfo.update, of an instant, and _RecInfo.update_from_spec, of a window:
\* the latter keeps the earliest of the ends.
Merged(i, x) ==
  [i EXCEPT !.count = @ + 1,
            !.first = Lower(@, x.first),
            !.last  = IF Intervals THEN Lower(@, x.last) ELSE Higher(@, x.last),
            !.of    = @ \cup {x}]

\* What the process holds once it has read sighting x.
Held(s, x) ==
  IF route[s] = "local" /\ \E i \in buffer[s] : i.fact = x.fact
  THEN {IF i.fact = x.fact THEN Merged(i, x) ELSE i : i \in buffer[s]}
  ELSE buffer[s] \cup {Single(x)}

Batch(s) == CASE route[s] = "bulk" -> BulkBatch
              [] route[s] = "local" -> LocalBatch
              [] route[s] = "direct" -> 1

Sight(s) ==
  /\ pc[s] = "read"
  /\ Cardinality(read) < MaxSightings
  /\ \E f \in Facts, from, to \in 1..MaxTime :
       LET x == [id |-> Cardinality(read) + 1, fact |-> f, first |-> from, last |-> to]
       IN  /\ from <= to
           /\ Intervals \/ from = to
           /\ read' = read \cup {x}
           /\ buffer' = [buffer EXCEPT ![s] = Held(s, x)]
           /\ Goto(s, IF Cardinality(Held(s, x)) >= Batch(s) THEN "flush" ELSE "read")
  /\ UNCHANGED <<records, route, ended, item, target, old, dropped, ids, deaths, again>>

\* Slip: the last batch, never full, is not sent.
EndDiscards(s) ==
  /\ pc[s] = "read"
  /\ ended' = ended \cup {s}
  /\ buffer' = [buffer EXCEPT ![s] = {}]
  /\ Goto(s, "flush")
  /\ UNCHANGED <<records, route, item, target, old, read, dropped, ids, deaths,
                 again>>

\* The input ends, or breaks off with an IOError: what is held is sent.
EndOfInput(s) ==
  /\ pc[s] = "read"
  /\ ended' = ended \cup {s}
  /\ Goto(s, "flush")
  /\ UNCHANGED <<records, route, buffer, item, target, old, read, dropped, ids,
                 deaths, again>>

\* Slip: the batch is not emptied once it is sent.
NextItemKept(s) ==
  /\ pc[s] = "flush"
  /\ \E i \in buffer[s] : item' = [item EXCEPT ![s] = i]
  /\ Goto(s, IF route[s] = "bulk" THEN "upsert" ELSE "find")
  /\ UNCHANGED <<records, route, ended, buffer, target, old, read, dropped, ids, deaths,
                 again>>

\* The server runs an unordered batch in any order.
NextItem(s) ==
  /\ pc[s] = "flush"
  /\ \E i \in buffer[s] :
       /\ item' = [item EXCEPT ![s] = i]
       /\ buffer' = [buffer EXCEPT ![s] = @ \ {i}]
  /\ Goto(s, IF route[s] = "bulk" THEN "upsert" ELSE "find")
  /\ UNCHANGED <<records, route, ended, target, old, read, dropped, ids, deaths,
                 again>>

Flushed(s) ==
  /\ pc[s] = "flush"
  /\ buffer[s] = {}
  /\ Goto(s, IF s \in ended THEN "done" ELSE "read")
  /\ UNCHANGED <<records, route, ended, buffer, item, target, old, read, dropped,
                 ids, deaths, again>>

-----------------------------------------------------------------------------
(* insert_or_update, of a process's item                                   *)

\* The query runs before `count' is taken out of the specification: a record
\* is found by it only if its count is, by chance, that of the item.
QueriesCount(p) == p = Migrator \/ Intervals \/ route[p] = "local"

Found(p) == {d \in records : /\ d.fact = item[p].fact
                             /\ QueriesCount(p) => d.count = item[p].count}

\* Slip: $set for $max.
FoldedLatest(d, i) == [d EXCEPT !.count = @ + i.count,
                                !.first = Lower(@, i.first),
                                !.last  = i.last,
                                !.of    = @ \cup i.of]

Folded(d, i) == [d EXCEPT !.count = @ + i.count,
                          !.first = Lower(@, i.first),
                          !.last  = Higher(@, i.last),
                          !.of    = @ \cup i.of]

\* Where insert_or_update returns to.
After(p) == IF p = Migrator THEN "remove" ELSE "flush"
Keep(p) == UNCHANGED <<route, ended, buffer, item, old, read, dropped, deaths, again>>

Find(p) ==
  /\ pc[p] = "find"
  /\ \/ /\ Found(p) = {}
        /\ Goto(p, "upsert")
        /\ UNCHANGED target
     \/ \E d \in Found(p) :
          /\ Goto(p, "update")
          /\ target' = [target EXCEPT ![p] = d.id]
  /\ UNCHANGED <<records, ids>>
  /\ Keep(p)

\* update_one by _id, no upsert.
Update(p) ==
  /\ pc[p] = "update"
  /\ records' = {IF d.id = target[p] THEN Folded(d, item[p]) ELSE d : d \in records}
  /\ Goto(p, After(p))
  /\ UNCHANGED <<target, ids>>
  /\ Keep(p)

\* update_one(..., upsert=True): the first record that matches is updated.
Upsert(p) ==
  /\ pc[p] = "upsert"
  /\ \/ \E d \in records :
          /\ d.fact = item[p].fact
          /\ records' = (records \ {d}) \cup {Folded(d, item[p])}
          /\ Goto(p, After(p))
     \/ /\ \A d \in records : d.fact # item[p].fact
        /\ Goto(p, "insert")
        /\ UNCHANGED records
  /\ UNCHANGED <<target, ids>>
  /\ Keep(p)

\* It found none: it inserts, whatever was inserted since it looked.
Insert(p) ==
  /\ pc[p] = "insert"
  /\ ids' = ids + 1
  /\ records' = records \cup
       {[id |-> ids + 1, fact |-> item[p].fact, count |-> item[p].count,
         first |-> item[p].first, last |-> item[p].last, of |-> item[p].of]}
  /\ Goto(p, After(p))
  /\ UNCHANGED target
  /\ Keep(p)

-----------------------------------------------------------------------------
(* update_dns_blacklist                                                    *)

\* The next record of the query's cursor, as insert_or_update will store it.
Scan ==
  /\ pc[Migrator] = "scan"
  /\ \E d \in {x \in records : x.fact \in Legacy} :
       /\ item' = [item EXCEPT ![Migrator] =
                     [fact |-> Blacklist, count |-> d.count, first |-> d.first,
                      last |-> d.last, of |-> d.of]]
       /\ old' = d.id
  /\ Goto(Migrator, "find")
  /\ UNCHANGED <<records, route, ended, buffer, target, read, dropped, ids, deaths,
                 again>>

ScanEnds ==
  /\ pc[Migrator] = "scan"
  /\ \A d \in records : d.fact \notin Legacy
  /\ Goto(Migrator, "done")
  /\ UNCHANGED <<records, route, ended, buffer, item, target, old, read, dropped, ids,
                 deaths, again>>

Remove ==
  /\ pc[Migrator] = "remove"
  /\ records' = {d \in records : d.id # old}
  /\ Goto(Migrator, "scan")
  /\ UNCHANGED <<route, ended, buffer, item, target, old, read, dropped, ids, deaths,
                 again>>

-----------------------------------------------------------------------------

\* An import process dies, or one of its operations raises: the exception
\* leaves the import function, and what it holds is gone.
SensorDies(s) ==
  /\ pc[s] # "done"
  /\ deaths < MaxDeaths
  /\ deaths' = deaths + 1
  /\ dropped' = dropped \cup (UNION {i.of : i \in buffer[s]})
                   \cup (IF pc[s] \in {"read", "flush"} THEN {} ELSE item[s].of)
  /\ buffer' = [buffer EXCEPT ![s] = {}]
  /\ Goto(s, "done")
  /\ UNCHANGED <<records, route, ended, item, target, old, read, ids, again>>

\* The migration dies, and is started again from the beginning.
MigratorDies ==
  /\ pc[Migrator] # "done"
  /\ deaths < MaxDeaths
  /\ deaths' = deaths + 1
  /\ again' = IF pc[Migrator] = "remove" THEN again \cup item[Migrator].of ELSE again
  /\ Goto(Migrator, "scan")
  /\ UNCHANGED <<records, route, ended, buffer, item, target, old, read, dropped, ids>>

insert_or_update(p) == Find(p) \/ Update(p) \/ Upsert(p) \/ Insert(p)

import(s) == Sight(s) \/ EndOfInput(s) \/ NextItem(s) \/ Flushed(s) \/ SensorDies(s)

update_dns_blacklist == Scan \/ ScanEnds \/ Remove \/ MigratorDies

Next == \/ \E p \in Procs : insert_or_update(p)
        \/ \E s \in Sensors : import(s)
        \/ update_dns_blacklist

Spec == Init /\ [][Next]_vars

-----------------------------------------------------------------------------
(* Correctness                                                             *)

Sightings == [id : Nat, fact : Facts \cup Legacy, first : Nat, last : Nat]
Items == [fact : Facts \cup Legacy, count : Nat, first : Nat, last : Nat,
          of : SUBSET Sightings]

\* Every variable holds a value of its kind, no two records have one _id, and
\* every record counts something.
TypeOK ==
  /\ records \subseteq [id : Nat \cup Legacy, fact : Facts \cup Legacy, count : Nat \ {0},
                         first : Nat, last : Nat, of : SUBSET Sightings]
  /\ \A d, e \in records : d.id = e.id => d = e
  /\ route \in [Sensors -> {"bulk", "direct", "local"}]
  /\ ended \subseteq Sensors
  /\ buffer \in [Sensors -> SUBSET Items]
  /\ pc \in [Procs -> {"read", "flush", "scan", "find", "update", "upsert", "insert",
                       "remove", "done"}]
  /\ item \in [Procs -> Items]
  /\ target \in [Procs -> Nat \cup Legacy]
  /\ old \in Nat \cup Legacy
  /\ read \subseteq Sightings /\ dropped \subseteq Sightings
  /\ ids \in Nat /\ deaths \in Nat
  /\ again \subseteq Sightings

\* The sightings process p is folding into the collection, and those it has
\* read and still has to.
InFlight(p) == IF pc[p] \in {"find", "update", "upsert", "insert"} THEN item[p].of ELSE {}
Pending(s) == InFlight(s) \cup UNION {i.of : i \in buffer[s]}
Recorded == UNION {d.of : d \in records}

\* Whatever the route, the batches and the migration, a sighting that was read
\* is recorded, or on its way in a process, or went down with one.
NothingLost ==
  read \cup OldSightings \subseteq Recorded \cup dropped \cup UNION {Pending(s) : s \in Sensors}

\* No sighting is folded in twice: it is in one record only, but for the one
\* that a migration copied and has yet to remove, or copied and died.
Twice == again \cup IF pc[Migrator] = "remove" THEN item[Migrator].of ELSE {}

FoldedOnce ==
  /\ \A d, e \in records : d # e => d.of \cap e.of \subseteq Twice
  /\ \A s \in Sensors : /\ Pending(s) \cap Recorded = {}
                         /\ \A t \in Sensors \ {s} : Pending(s) \cap Pending(t) = {}

\* The count of a record is the number of its sightings, unless a migration
\* that died before it removed a record counted some again.
CountIsSightings ==
  \A d \in records :
    /\ d.count >= Cardinality(d.of)
    /\ d.of \cap again = {} => d.count = Cardinality(d.of)

\* The window of a record is the hull of its sightings: it opens with the
\* earliest and closes with the latest, in whatever order they were folded.
WindowIsHull ==
  \A d \in records :
    /\ \A x \in d.of : d.first <= x.first /\ x.last <= d.last
    /\ \E x, y \in d.of : d.first = x.first /\ d.last = y.last

\* Racing upserts may give one fact several records, since no index forbids
\* it, but never more than there are processes.
FewDuplicates ==
  \A f \in Facts :
    Cardinality({d \in records : d.fact = f}) <= Cardinality(Procs)
=============================================================================
