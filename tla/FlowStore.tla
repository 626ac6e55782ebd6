---------- MODULE FlowStore --------------------------------------------------
(***************************************************************************)
(* The flows of MongoDBFlow: what flow2db and zeek2db fold into them, the   *)
(* cleanup that turns around those whose hosts seem to be switched, and the *)
(* rounding of their time slots.                                            *)
(*                                                                          *)
(* An import sends its operations in one unordered bulk; each of them is    *)
(* atomic and there is no unique index, so an upsert that finds nothing may *)
(* insert a flow beside that of another one.  The cleanup and the rounding  *)
(* read the flows first and write what they computed later.                 *)
(*                                                                          *)
(* A record of a log is a number whose fields are functions.  The document  *)
(* of a flow keeps the records that were folded into it, which stand for    *)
(* its packets and bytes, next to the count the code keeps.                 *)
(***************************************************************************)
EXTENDS Naturals, FiniteSets

CONSTANTS
  Importers, Records,
  src, dst, sport, dport,  \* the fields of a record,
  slots,                   \* its time slots, several with FLOW_TIME_FULL_RANGE,
  Metas,                   \* and whether it is metadata (any2flow) or a connection
  Services,                \* destination ports that are never a client's, up to 128
  FewDports,               \* destination ports a client may have reached, 5 in the code
  Rounded,                 \* the time slot of the new precision each one falls in
  MaxJobs, MaxFaults       \* bounds on cleanups and roundings, and on failures

FlowAssumption ==
  /\ IsFiniteSet(Records) /\ Records \subseteq Nat \ {0} /\ Metas \subseteq Records
  /\ \A r \in Records : slots[r] # {} /\ slots[r] \subseteq DOMAIN Rounded
  /\ IsFiniteSet(DOMAIN Rounded)
  /\ \A t \in DOMAIN Rounded : Rounded[t] \in DOMAIN Rounded /\ Rounded[Rounded[t]] = Rounded[t]
  /\ FewDports \in Nat \ {0} /\ MaxJobs \in Nat /\ MaxFaults \in Nat

VARIABLES
  flows,   \* the documents
  ids,     \* how many were inserted
  unread,  \* records no importer has read yet
  bulk,    \* operations of each importer: the records it has still to fold
  sent,    \* importers whose bulk is being written
  insert,  \* record whose upsert found no flow, of each importer, 0 when none
  todo,    \* operations of the cleanups and roundings that are still to be applied
  risked,  \* records a race of theirs or a failure may lose, or count twice
  jobs, faults

vars == <<flows, ids, unread, bulk, sent, insert, todo, risked, jobs, faults>>

Key(r) == <<src[r], dst[r], dport[r]>>

Init ==
  /\ flows = {} /\ ids = 0
  /\ unread = Records
  /\ bulk = [i \in Importers |-> {}]
  /\ sent = {}
  /\ insert = [i \in Importers |-> 0]
  /\ todo = {} /\ risked = {} /\ jobs = 0 /\ faults = 0

\* What an operation adds to a document: its ports, its time slots and what it counts.
Added(f, ports, times, conns, metas, count) ==
  [f EXCEPT !.sports = @ \cup ports, !.times = @ \cup times, !.conns = @ \cup conns,
            !.metas = @ \cup metas, !.count = @ + count]

\* Slip: the count is set when the document is made, and not incremented.
FoldedUncounted(f, r) ==
  IF r \in Metas THEN Added(f, {}, slots[r], {}, {r}, 0)
  ELSE [Added(f, {sport[r]}, slots[r], {r}, {}, 0) EXCEPT !.count = 1]

\* The update of conn2flow and flow2flow, and that of any2flow, which adds no source port
\* and counts in the metadata only.
Folded(f, r) ==
  IF r \in Metas THEN Added(f, {}, slots[r], {}, {r}, 0)
  ELSE Added(f, {sport[r]}, slots[r], {r}, {}, 1)

\* An upsert makes the document of the key first.
Empty(key) ==
  [_id |-> ids + 1, key |-> key, sports |-> {}, times |-> {}, conns |-> {}, metas |-> {},
   count |-> 0]

Replaced(f, g) == flows' = (flows \ {f}) \cup {g}

\* Documents that a job has read and will still write.
Pending == UNION {op.ids : op \in todo}

-----------------------------------------------------------------------------
(* Imports.                                                                 *)

\* A line of a log becomes an operation of the bulk.
Parse(i) ==
  /\ i \notin sent
  /\ \E r \in unread :
       unread' = unread \ {r} /\ bulk' = [bulk EXCEPT ![i] = @ \cup {r}]
  /\ UNCHANGED <<flows, ids, sent, insert, todo, risked, jobs, faults>>

\* The end of a file sends it; an empty one changes nothing (InvalidOperation).
bulk_commit(i) ==
  /\ i \notin sent /\ bulk[i] # {}
  /\ sent' = sent \cup {i}
  /\ UNCHANGED <<flows, ids, unread, bulk, insert, todo, risked, jobs, faults>>

Done(i, r) ==
  /\ bulk' = [bulk EXCEPT ![i] = @ \ {r}]
  /\ sent' = IF bulk[i] = {r} THEN sent \ {i} ELSE sent

\* An operation finds a flow of its key, and updates it.
Fold(i) ==
  /\ i \in sent /\ insert[i] = 0
  /\ \E r \in bulk[i], f \in flows :
       /\ f.key = Key(r)
       /\ Replaced(f, Folded(f, r))
       /\ risked' = IF f._id \in Pending THEN risked \cup {r} ELSE risked
       /\ Done(i, r)
  /\ UNCHANGED <<ids, unread, insert, todo, jobs, faults>>

\* It finds none, and will insert one whatever happens meanwhile.
Miss(i) ==
  /\ i \in sent /\ insert[i] = 0
  /\ \E r \in bulk[i] :
       /\ \A f \in flows : f.key # Key(r)
       /\ insert' = [insert EXCEPT ![i] = r]
  /\ UNCHANGED <<flows, ids, unread, bulk, sent, todo, risked, jobs, faults>>

Insert(i) ==
  LET r == insert[i]
  IN /\ r # 0
     /\ flows' = flows \cup {Folded(Empty(Key(r)), r)}
     /\ ids' = ids + 1
     /\ insert' = [insert EXCEPT ![i] = 0]
     /\ Done(i, r)
     /\ UNCHANGED <<unread, todo, risked, jobs, faults>>

-----------------------------------------------------------------------------
(* The cleanup of the flows.                                                *)

\* Flows with one source port, towards a port that may be a client's, by hosts and
\* source port.
Groups ==
  LET single == {f \in flows : Cardinality(f.sports) = 1 /\ f.key[3] \notin Services}
      of(f) == <<f.key[1], f.key[2], CHOOSE p \in f.sports : TRUE>>
  IN {{f \in single : of(f) = g} : g \in {of(f) : f \in single}}

dports(group) == {f.key[3] : f \in group}

\* The sums of a group are taken after the time slots are unwound: what a flow counts is
\* counted once for each of its slots.
Summed(group) == Cardinality(UNION {{f._id} \X ((1 .. f.count) \X f.times) : f \in group})

\* The operations for a group: its sums go to the flow the other way, and its flows are
\* deleted by their ids.
Switch(group) ==
  LET one == CHOOSE f \in group : TRUE
  IN {[op |-> "add", job |-> jobs + 1, ids |-> {},
       key |-> <<one.key[2], one.key[1], CHOOSE p \in one.sports : TRUE>>,
       sports |-> dports(group),
       times |-> UNION {f.times : f \in group},
       conns |-> UNION {f.conns : f \in group},
       count |-> Summed(group)],
      [op |-> "remove", job |-> jobs + 1, ids |-> {f._id : f \in group}]}

\* The groups that reached few ports are left alone, and those whose segments are almost
\* empty, the choice of which stands for the sizes (should_switch_hosts).
cleanup_flows ==
  /\ jobs < MaxJobs
  /\ \E switched \in (SUBSET {g \in Groups : Cardinality(dports(g)) > FewDports}) \ {{}} :
       todo' = todo \cup UNION {Switch(g) : g \in switched}
  /\ jobs' = jobs + 1
  /\ UNCHANGED <<flows, ids, unread, bulk, sent, insert, risked, faults>>

\* The sums are added to a flow the other way, or to a new one.  What another cleanup
\* has added already is counted twice; what goes to a flow another one deletes is lost.
AddReversed(op) ==
  LET reversed == {f \in flows : f.key = op.key}
      added(f) == Added(f, op.sports, op.times, op.conns, {}, op.count)
      twice == op.conns \cap UNION {f.conns : f \in reversed}
  IN /\ op.op = "add"
     /\ \/ \E f \in reversed :
             /\ Replaced(f, added(f))
             /\ risked' = risked \cup twice \cup (IF f._id \in Pending THEN op.conns ELSE {})
             /\ UNCHANGED ids
        \/ /\ reversed = {}
           /\ flows' = flows \cup {added(Empty(op.key))}
           /\ ids' = ids + 1
           /\ UNCHANGED risked

RemoveSwitched(op) ==
  /\ op.op = "remove"
  /\ flows' = {f \in flows : f._id \notin op.ids}
  /\ UNCHANGED <<ids, risked>>

-----------------------------------------------------------------------------
(* The rounding of the time slots.                                          *)

\* The slots of each flow are read and rounded; one operation by flow sets them all.
reduce_precision ==
  /\ jobs < MaxJobs /\ flows # {}
  /\ todo' = todo \cup {[op |-> "set", job |-> jobs + 1, ids |-> {f._id},
                         times |-> {Rounded[t] : t \in f.times}] : f \in flows}
  /\ jobs' = jobs + 1
  /\ UNCHANGED <<flows, ids, unread, bulk, sent, insert, risked, faults>>

SetTimes(op) ==
  /\ op.op = "set"
  /\ flows' = {IF f._id \in op.ids THEN [f EXCEPT !.times = op.times] ELSE f : f \in flows}
  /\ UNCHANGED <<ids, risked>>

\* The operations of a job are applied one at a time, in no order that is promised.
Apply ==
  /\ \E op \in todo :
       /\ AddReversed(op) \/ RemoveSwitched(op) \/ SetTimes(op)
       /\ todo' = todo \ {op}
  /\ UNCHANGED <<unread, bulk, sent, insert, jobs, faults>>

\* One of them fails: the others of a cleanup go on (BulkWriteError), the slots that a
\* rounding has still to set, in an ordered bulk, stay as they are.
OperationFails ==
  /\ faults < MaxFaults /\ faults' = faults + 1
  /\ \E op \in todo :
       /\ todo' = IF op.op = "set" THEN {o \in todo : o.job # op.job} ELSE todo \ {op}
       /\ risked' = risked \cup
            (CASE op.op = "add" -> op.conns
               [] op.op = "remove" -> UNION {f.conns : f \in {g \in flows : g._id \in op.ids}}
               [] OTHER -> {})
  /\ UNCHANGED <<flows, ids, unread, bulk, sent, insert, jobs>>

Import(i) == Parse(i) \/ bulk_commit(i) \/ Fold(i) \/ Miss(i) \/ Insert(i)

Next ==
  \/ \E i \in Importers : Import(i)
  \/ cleanup_flows
  \/ reduce_precision
  \/ Apply
  \/ OperationFails

Spec == Init /\ [][Next]_vars

-----------------------------------------------------------------------------
(* Properties.                                                              *)

TypeOK ==
  /\ \A f \in flows :
       /\ f._id \in 1 .. ids /\ f.count \in Nat
       /\ f.conns \cup f.metas \subseteq Records
  /\ unread \cup risked \subseteq Records
  /\ bulk \in [Importers -> SUBSET Records] /\ sent \subseteq Importers
  /\ insert \in [Importers -> Records \cup {0}]
  /\ jobs \in 0 .. MaxJobs /\ faults \in 0 .. MaxFaults

\* Whatever turns flows around, a connection that was read is on its way or in a flow,
\* its own or the one the other way, unless it came in between the two halves of a job
\* or one of the operations failed (bulk_commit, cleanup_flows).
NothingLost ==
  \A r \in Records \ (Metas \cup risked) :
    \/ r \in unread \/ \E i \in Importers : r \in bulk[i]
    \/ \E f \in flows :
         r \in f.conns /\ {f.key[1], f.key[2]} = {src[r], dst[r]}
    \/ \E op \in todo : op.op = "add" /\ r \in op.conns

\* And it is in one of them only, once the other is deleted.
FoldedOnce ==
  \A f, g \in flows :
    \A r \in (f.conns \cap g.conns) \ risked :
      \/ f = g
      \/ \E op \in todo : op.op = "remove" /\ op.ids \cap {f._id, g._id} # {}

\* A flow counts each of its connections, and counts it once when it has but one time
\* slot: those of a flow that had several are summed for each (cleanup_flows).
CountsAreSightings ==
  \A f \in flows :
    /\ f.count >= Cardinality(f.conns \ risked)
    /\ Cardinality(f.times) = 1 /\ f.times \cap {Rounded[t] : t \in DOMAIN Rounded} = {}
         /\ f.conns \cap risked = {}
       => f.count = Cardinality(f.conns)

\* The time slots of a flow are those of its records, rounded or not: a slot is lost only
\* if it came in between the two halves of a job (reduce_precision).
SlotsCoverSightings ==
  \A f \in flows :
    \A r \in (f.conns \cup f.metas) \ risked :
      \A t \in slots[r] : t \in f.times \/ Rounded[t] \in f.times

=============================================================================
