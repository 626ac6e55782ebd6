----------------------------- MODULE ViewBuild -----------------------------
(***************************************************************************)
(* db2view: the view is built from the records of several purposes.         *)
(*                                                                          *)
(* Each source (nmap_to_view, passive_to_view) reads its records sorted by   *)
(* address through a database cursor, which it opens again where it stood    *)
(* when the server gave the cursor up.  to_view_parallel merges the sources: *)
(* it gathers the records of one address, yields them, and goes on with the  *)
(* lowest address left.  A pool of processes takes what is yielded and       *)
(* stores it with ViewStore, whose steps are those of the workers here.      *)
(*                                                                          *)
(* Nothing tells two processes not to store hosts of one address at a time:  *)
(* that they never do rests on each address being yielded once.              *)
(***************************************************************************)
EXTENDS ViewStore, Sequences, FiniteSetsExt

CONSTANTS Sources,       \* the purposes the view is built from
          MaxRows,       \* bound: records of each source
          MaxTimeouts,   \* bound: cursors the server gives up
          MaxBuilds      \* bound: how many times db2view is run

\* A result is a record of a source.
RecordsOfSources == Sources \X (1..MaxRows)

ASSUME BuildAssumption ==
  /\ Addrs \subseteq Nat \ {0}
  /\ Results = RecordsOfSources
  /\ MaxRows \in Nat /\ MaxTimeouts \in Nat /\ MaxBuilds \in Nat

VARIABLES
  rows,       \* the records of each source, sorted by address
  pos,        \* how many of them the open cursor has gone through
  skip,       \* where the source would open it again
  stage,      \* "fetch": the next record is asked for; "ready": it is there
  cur,        \* the address being gathered, 0 before the first
  gathered,   \* the records gathered for it
  tasks,      \* what was yielded and no worker has taken yet
  builder,    \* where db2view stands
  failed,     \* whether a worker has raised an exception
  timeouts, builds

feedVars == <<rows, pos, skip, stage, cur, gathered>>
buildVars == <<feedVars, tasks, builder, failed, timeouts, builds>>
allVars == <<viewVars, buildVars>>

\* A record is unusable when it has another schema version or no address.
Row == [addr : Addrs, usable : BOOLEAN]

Sorted(q) == \A i, j \in DOMAIN q : i < j => q[i].addr <= q[j].addr

ResultOf(s) == <<s, pos[s]>>
AddrAt(s) == rows[s][pos[s]].addr

BuildInit ==
  /\ Init
  /\ rows \in [Sources -> {q \in UNION {[1..n -> Row] : n \in 0..MaxRows} : Sorted(q)}]
  /\ pos = [s \in Sources |-> 0]
  /\ skip = [s \in Sources |-> 0]
  /\ stage = [s \in Sources |-> "fetch"]
  /\ cur = 0 /\ gathered = {}
  /\ tasks = <<>>
  /\ builder = "build" /\ failed = FALSE
  /\ timeouts = 0 /\ builds = 1

-----------------------------------------------------------------------------
(* The sources                                                             *)

Fetching(s) == builder = "build" /\ stage[s] = "fetch"
More(s) == pos[s] < Len(rows[s])
NextUsable(s) == rows[s][pos[s] + 1].usable

Deliver(s) ==
  /\ Fetching(s) /\ More(s) /\ NextUsable(s)
  /\ pos' = [pos EXCEPT ![s] = @ + 1]
  /\ stage' = [stage EXCEPT ![s] = "ready"]
  /\ UNCHANGED <<viewVars, rows, skip, cur, gathered, tasks, builder, failed,
                 timeouts, builds>>

PassOver(s) ==
  /\ Fetching(s) /\ More(s) /\ ~NextUsable(s)
  /\ pos' = [pos EXCEPT ![s] = @ + 1]
  /\ skip' = [skip EXCEPT ![s] = @ + 1]
  /\ UNCHANGED <<viewVars, rows, stage, cur, gathered, tasks, builder, failed,
                 timeouts, builds>>

Exhaust(s) ==
  /\ Fetching(s) /\ ~More(s)
  /\ stage' = [stage EXCEPT ![s] = "end"]
  /\ UNCHANGED <<viewVars, rows, pos, skip, cur, gathered, tasks, builder, failed,
                 timeouts, builds>>

\* The cursor is gone (CursorNotFound): the query is made again, skipping the
\* records already gone through.
CursorLost(s) ==
  /\ Fetching(s)
  /\ timeouts < MaxTimeouts
  /\ timeouts' = timeouts + 1
  /\ pos' = [pos EXCEPT ![s] = skip[s]]
  /\ UNCHANGED <<viewVars, rows, skip, stage, cur, gathered, tasks, builder, failed,
                 builds>>

-----------------------------------------------------------------------------
(* to_view_parallel                                                        *)

Ready == {s \in Sources : stage[s] = "ready"}
AllFetched == builder = "build" /\ \A s \in Sources : stage[s] # "fetch"

\* Slip: the source is not asked for another record of this address.
TakeOne(s) ==
  /\ AllFetched /\ s \in Ready /\ AddrAt(s) = cur
  /\ ResultOf(s) \notin gathered
  /\ gathered' = gathered \cup {ResultOf(s)}
  /\ skip' = [skip EXCEPT ![s] = @ + 1]
  /\ UNCHANGED <<viewVars, rows, pos, stage, cur, tasks, builder, failed, timeouts, builds>>

\* A record of the current address is gathered, and its source asked for the
\* next one: the source counts the record when it is resumed.
Take(s) ==
  /\ AllFetched /\ s \in Ready /\ AddrAt(s) = cur
  /\ gathered' = gathered \cup {ResultOf(s)}
  /\ skip' = [skip EXCEPT ![s] = @ + 1]
  /\ stage' = [stage EXCEPT ![s] = "fetch"]
  /\ UNCHANGED <<viewVars, rows, pos, cur, tasks, builder, failed, timeouts, builds>>

\* Slip: the address is done with as soon as one source is.
SomeSourceIsPast == Ready = {} \/ \E s \in Ready : AddrAt(s) # cur

\* Slip: the records of an address are yielded but not forgotten.
GatheredStays == UNCHANGED gathered

\* cur_recs = []
GatheredReset == gathered' = {}

\* No source has more of the current address.
AddressIsDone == \A s \in Ready : AddrAt(s) # cur

\* What was gathered is yielded, and the lowest address left comes next.
Yield ==
  /\ AllFetched /\ AddressIsDone
  /\ tasks' = IF gathered = {} THEN tasks
              ELSE Append(tasks, [addr |-> cur, of |-> gathered])
  /\ GatheredReset
  /\ \/ /\ Ready # {}
        /\ cur' = Min({AddrAt(s) : s \in Ready})
        /\ UNCHANGED builder
     \/ /\ Ready = {}
        /\ builder' = "fed"
        /\ UNCHANGED cur
  /\ UNCHANGED <<viewVars, rows, pos, skip, stage, failed, timeouts, builds>>

-----------------------------------------------------------------------------
(* The pool                                                                *)

\* merge_and_output: a free worker takes a group and stores the merged host.
TakeTask(w) ==
  /\ builder \in {"build", "fed"}
  /\ tasks # <<>>
  /\ Call(w, Head(tasks))
  /\ pc'[w] = IF NoMerge THEN "store" ELSE "find"
  /\ tasks' = Tail(tasks)
  /\ UNCHANGED <<feedVars, builder, failed, timeouts, builds>>

StoreStep(w) ==
  /\ merge_host(w) \/ store_host(w)
  /\ UNCHANGED buildVars

\* A task raises: the worker lives on, and the exception waits for db2view to
\* come to its result.
Raise(w) ==
  /\ builder \in {"build", "fed"}
  /\ Die(w)
  /\ failed' = TRUE
  /\ UNCHANGED <<feedVars, tasks, builder, timeouts, builds>>

\* The exception reaches db2view, which leaves the pool.
Abort ==
  /\ builder \in {"build", "fed"} /\ failed
  /\ builder' = "aborted"
  /\ tasks' = <<>>
  /\ UNCHANGED <<viewVars, feedVars, failed, timeouts, builds>>

\* Leaving the pool terminates its processes, wherever they are.
Terminate(w) ==
  /\ builder = "aborted"
  /\ Die(w)
  /\ UNCHANGED buildVars

AllIdle == \A w \in Workers : ~Busy(w)

\* Every result is in, and every worker has run worker_destroyer, which has
\* nothing to flush on this backend.
Finish ==
  /\ builder = "fed" /\ ~failed
  /\ tasks = <<>> /\ AllIdle
  /\ builder' = "done"
  /\ UNCHANGED <<viewVars, feedVars, tasks, failed, timeouts, builds>>

\* db2view is run again, on the view it left.
Rerun ==
  /\ builder \in {"done", "aborted"} /\ AllIdle
  /\ builds < MaxBuilds
  /\ builds' = builds + 1
  /\ pos' = [s \in Sources |-> 0] /\ skip' = [s \in Sources |-> 0]
  /\ stage' = [s \in Sources |-> "fetch"]
  /\ cur' = 0 /\ gathered' = {}
  /\ builder' = "build" /\ failed' = FALSE
  /\ UNCHANGED <<viewVars, rows, tasks, timeouts>>

Feed == \/ \E s \in Sources : Deliver(s) \/ PassOver(s) \/ Exhaust(s) \/ Take(s)
        \/ Yield \/ Abort \/ Finish

Work(w) == TakeTask(w) \/ StoreStep(w)

BuildNext ==
  \/ Feed \/ Rerun
  \/ \E s \in Sources : CursorLost(s)
  \/ \E w \in Workers : Work(w) \/ Raise(w) \/ Terminate(w)

\* db2view and its workers never stop while they have something to do: they
\* wait for nothing but the database.
BuildSpec ==
  /\ BuildInit /\ [][BuildNext]_allVars
  /\ WF_allVars(Feed)
  /\ \A w \in Workers : WF_allVars(Work(w))

-----------------------------------------------------------------------------
(* Correctness                                                             *)

\* Every variable holds a value of its kind.
BuildTypeOK ==
  /\ TypeOK
  /\ \A s \in Sources : skip[s] \in 0..pos[s] /\ pos[s] \in 0..Len(rows[s])
  /\ stage \in [Sources -> {"fetch", "ready", "end"}]
  /\ cur \in Addrs \cup {0} /\ gathered \subseteq Results
  /\ \A i \in DOMAIN tasks : tasks[i] \in Hosts
  /\ builder \in {"build", "fed", "aborted", "done"}

\* The store sees no two calls on one address overlap, which is what keeps the view to one
\* document per address (view.py, db2view.py).
CallsNeverOverlap == SerialSpec

\* The usable records of an address.
RecordsOf(a) ==
  {r \in Results : /\ r[2] \in DOMAIN rows[r[1]]
                   /\ rows[r[1]][r[2]] = [addr |-> a, usable |-> TRUE]}

\* A build that ends well, with no host refused, has put every usable record
\* of every source into the view, under its address.
BuildIsComplete ==
  builder = "done" /\ refusals = 0 => \A a \in Addrs : known[a] = RecordsOf(a)

\* A build goes through its sources in the order of their addresses, and one that
\* ends well, with no host refused, has put all their usable records into the view
\* (view.py, db2view.py).
BuildHolds == BuildTypeOK /\ BuildIsComplete

\* Every build ends, as long as the server gives up finitely many cursors.
BuildEnds == builder = "build" ~> builder \in {"done", "aborted"}
=============================================================================
