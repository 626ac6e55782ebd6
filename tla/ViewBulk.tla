------------------------------ MODULE ViewBulk ------------------------------
(***************************************************************************)
(* db2view on PostgreSQL: a pool of workers, each with a bulk of its own.   *)
(*                                                                          *)
(* _store_host writes the row of the host at once, and queues the rows that *)
(* hang on it (scripts, tags, host names, hops) in a BulkInsert, which is   *)
(* committed when a batch is full and when it is closed.  The bulk is local *)
(* to a worker: worker_initializer opens it, worker_destroyer closes it.    *)
(* db2view hands out as many destroyers as there are workers; nothing says  *)
(* that each worker gets one.                                               *)
(*                                                                          *)
(* Hosts are 1..MaxHosts, and the tasks of db2view are numbered in the      *)
(* order it hands them out and looks at their results: first the hosts,     *)
(* then the destroyers.                                                     *)
(***************************************************************************)
EXTENDS Naturals, FiniteSets

CONSTANTS Workers,      \* the processes of the pool
          MaxHosts,     \* bound: hosts to be stored
          BatchSize,    \* POSTGRES_BATCH_SIZE
          MaxFailures   \* bound: statements the server refuses

BulkAssumption ==
  /\ IsFiniteSet(Workers)
  /\ MaxHosts \in Nat /\ BatchSize \in Nat \ {0} /\ MaxFailures \in Nat

VARIABLES
  phase,      \* which tasks db2view hands out, or how it ended
  next,       \* the next task
  job,        \* the task of each worker
  at,         \* the next statement of each worker
  bulk,       \* the BulkInsert of each worker
  queue,      \* the hosts whose rows are queued in it
  hosts,      \* the hosts that have a row
  committed,  \* the hosts whose queued rows are committed
  raised,     \* the tasks that raised an exception
  failures

vars == <<phase, next, job, at, bulk, queue, hosts, committed, raised, failures>>

Destroyers == (MaxHosts + 1)..(MaxHosts + Cardinality(Workers))

Init ==
  /\ phase = "store" /\ next = 1
  /\ job = [w \in Workers |-> 0]
  /\ at = [w \in Workers |-> "idle"]
  /\ bulk = [w \in Workers |-> "open"]
  /\ queue = [w \in Workers |-> {}]
  /\ hosts = {} /\ committed = {}
  /\ raised = {} /\ failures = 0

Running == phase \in {"store", "destroy"}
Goto(w, to) == at' = [at EXCEPT ![w] = to]
Raise(w) == raised' = raised \cup {job[w]}

\* A free worker takes the next task.
TakeTask(w, first) ==
  /\ at[w] = "idle"
  /\ next' = next + 1
  /\ job' = [job EXCEPT ![w] = next]
  /\ Goto(w, first)

TakeHost(w) ==
  /\ phase = "store" /\ next <= MaxHosts
  /\ TakeTask(w, "upsert")
  /\ UNCHANGED <<phase, bulk, queue, hosts, committed, raised, failures>>

Upsert(w) ==
  /\ Running /\ at[w] = "upsert"
  /\ hosts' = hosts \cup {job[w]}
  /\ Goto(w, "append")
  /\ UNCHANGED <<phase, next, job, bulk, queue, committed, raised, failures>>

UpsertFails(w) ==
  /\ Running /\ at[w] = "upsert"
  /\ failures < MaxFailures
  /\ failures' = failures + 1
  /\ Raise(w) /\ Goto(w, "idle")
  /\ UNCHANGED <<phase, next, job, bulk, queue, hosts, committed>>

\* BulkInsert.append: a full batch is committed.
Append(w) ==
  /\ Running /\ at[w] = "append"
  /\ queue' = [queue EXCEPT ![w] = @ \cup {job[w]}]
  /\ Goto(w, IF Cardinality(queue'[w]) >= BatchSize THEN "commit" ELSE "idle")
  /\ UNCHANGED <<phase, next, job, bulk, hosts, committed, raised, failures>>

Commit(w) ==
  /\ Running /\ at[w] = "commit" /\ bulk[w] = "open"
  /\ committed' = committed \cup queue[w]
  /\ queue' = [queue EXCEPT ![w] = {}]
  /\ Goto(w, "idle")
  /\ UNCHANGED <<phase, next, job, bulk, hosts, raised, failures>>

\* The batch is popped before it is sent: when the server refuses it, it is
\* gone, and the transaction fails whatever follows.
CommitFails(w) ==
  /\ Running /\ at[w] = "commit"
  /\ \/ failures < MaxFailures /\ failures' = failures + 1
     \/ bulk[w] = "failed" /\ UNCHANGED failures
  /\ queue' = [queue EXCEPT ![w] = {}]
  /\ bulk' = [bulk EXCEPT ![w] = "failed"]
  /\ Raise(w) /\ Goto(w, "idle")
  /\ UNCHANGED <<phase, next, job, hosts, committed>>

\* Every host is stored: the destroyers are handed out.
StoreEnds ==
  /\ phase = "store" /\ next > MaxHosts
  /\ raised = {} /\ \A w \in Workers : at[w] = "idle"
  /\ phase' = "destroy"
  /\ UNCHANGED <<next, job, at, bulk, queue, hosts, committed, raised, failures>>

TakeDestroyer(w) ==
  /\ phase = "destroy" /\ next \in Destroyers
  /\ TakeTask(w, "close")
  /\ UNCHANGED <<phase, bulk, queue, hosts, committed, raised, failures>>

\* Slip: the bulk is dropped as it is.
CloseOnly(w) ==
  /\ Running /\ at[w] = "close" /\ bulk[w] # "closed"
  /\ queue' = [queue EXCEPT ![w] = {}]
  /\ bulk' = [bulk EXCEPT ![w] = "closed"]
  /\ Goto(w, "idle")
  /\ UNCHANGED <<phase, next, job, hosts, committed, raised, failures>>

\* stop_store_hosts: the queued rows, if any, are committed, and the bulk is
\* closed.
Close(w) ==
  /\ Running /\ at[w] = "close" /\ bulk[w] # "closed"
  /\ bulk[w] = "open" \/ queue[w] = {}
  /\ committed' = committed \cup queue[w]
  /\ queue' = [queue EXCEPT ![w] = {}]
  /\ bulk' = [bulk EXCEPT ![w] = "closed"]
  /\ Goto(w, "idle")
  /\ UNCHANGED <<phase, next, job, hosts, raised, failures>>

\* The server refuses the last batch.
CloseFails(w) ==
  /\ Running /\ at[w] = "close" /\ bulk[w] = "open" /\ queue[w] # {}
  /\ failures < MaxFailures /\ failures' = failures + 1
  /\ queue' = [queue EXCEPT ![w] = {}]
  /\ bulk' = [bulk EXCEPT ![w] = "failed"]
  /\ Raise(w) /\ Goto(w, "idle")
  /\ UNCHANGED <<phase, next, job, hosts, committed>>

\* A worker that has run a destroyer takes another: it has no bulk left.
CloseTwice(w) ==
  /\ Running /\ at[w] = "close" /\ bulk[w] = "closed"
  /\ Raise(w) /\ Goto(w, "idle")
  /\ UNCHANGED <<phase, next, job, bulk, queue, hosts, committed, failures>>

DestroyEnds ==
  /\ phase = "destroy" /\ next \notin Destroyers
  /\ raised = {} /\ \A w \in Workers : at[w] = "idle"
  /\ phase' = "done"
  /\ UNCHANGED <<next, job, at, bulk, queue, hosts, committed, raised, failures>>

\* db2view comes to the result of a task that raised, having those of all the
\* tasks before it: it leaves the pool, which terminates the workers with
\* what they have queued.
Abort ==
  /\ Running
  /\ \E j \in raised : \A w \in Workers : at[w] # "idle" => job[w] > j
  /\ phase' = "aborted"
  /\ UNCHANGED <<next, job, at, bulk, queue, hosts, committed, raised, failures>>

store_host(w) == TakeHost(w) \/ Upsert(w) \/ UpsertFails(w)
                   \/ Append(w) \/ Commit(w) \/ CommitFails(w)
stop_store_hosts(w) == TakeDestroyer(w) \/ Close(w) \/ CloseFails(w) \/ CloseTwice(w)

Next == \/ \E w \in Workers : store_host(w) \/ stop_store_hosts(w)
        \/ StoreEnds \/ DestroyEnds \/ Abort

Spec == Init /\ [][Next]_vars

-----------------------------------------------------------------------------
(* Correctness                                                             *)

\* A build that ends well has committed the queued rows of every host: as
\* many destroyers as workers, none of which raised, reached every worker.
DoneMeansFlushed == phase = "done" => committed = 1..MaxHosts

\* The rows of a host are committed, queued where they will be, or about to
\* be queued; they are only lost in a build that some exception ends.
LossIsReported ==
  hosts \subseteq committed \cup (UNION {queue[w] : w \in Workers})
                    \cup {job[w] : w \in {v \in Workers : at[v] = "append"}}
    \/ raised # {}

\* `may use this method to commit bulk insert structures'
\* (DBActive.stop_store_hosts): when every host was stored without an error,
\* no queued row is left behind by the end of the build.
CleanBuildIsFlushed ==
  phase \in {"done", "aborted"} /\ failures = 0 => hosts \subseteq committed
=============================================================================
