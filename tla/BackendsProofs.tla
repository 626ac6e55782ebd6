-------------------------- MODULE BackendsProofs ---------------------------
(***************************************************************************)
(* What the run of the back ends checks on one instance of each scene,      *)
(* proved for every value of their constants: a behaviour that chooses a    *)
(* scene is one of its module, whose theorems are in the module of its      *)
(* proofs; those of the bulk inserts are here.                              *)
(***************************************************************************)
EXTENDS Backends, FiniteSetTheorems, TLAPS

\* The scene of the imports takes their steps, and no other scene does.
LEMMA ImportsRun ==
  /\ Init /\ scene = "import" => Imports!Init
  /\ [Next]_vars /\ scene = "import" => [Imports!Next]_Imports!vars
  /\ [Next]_vars /\ scene = "import" => (scene = "import")'
  /\ [Next]_vars /\ ~(scene = "import") => (~(scene = "import"))'
  BY DEF Init, Next, vars, Imports!vars

\* The scene of the migration takes their steps, and no other scene does.
LEMMA MigrationRun ==
  /\ Init /\ scene = "migration" => Migration!Init
  /\ [Next]_vars /\ scene = "migration" => [Migration!Next]_Migration!vars
  /\ [Next]_vars /\ scene = "migration" => (scene = "migration")'
  /\ [Next]_vars /\ ~(scene = "migration") => (~(scene = "migration"))'
  BY DEF Init, Next, vars, Migration!vars

\* The scene of the bulk inserts takes their steps, and no other scene does.
LEMMA InsertsRun ==
  /\ Init /\ scene = "bulk" => Inserts!Init
  /\ [Next]_vars /\ scene = "bulk" => [Inserts!Next]_Inserts!vars
  /\ [Next]_vars /\ scene = "bulk" => (scene = "bulk")'
  /\ [Next]_vars /\ ~(scene = "bulk") => (~(scene = "bulk"))'
  BY DEF Init, Next, vars, Inserts!vars

\* The scene of the merges takes their steps, and no other scene does.
LEMMA MergesRun ==
  /\ Init /\ scene = "merge" => Merges!Init
  /\ [Next]_vars /\ scene = "merge" => [Merges!Next]_Merges!vars
  /\ [Next]_vars /\ scene = "merge" => (scene = "merge")'
  /\ [Next]_vars /\ ~(scene = "merge") => (~(scene = "merge"))'
  BY DEF Init, Next, vars, Merges!vars

\* The scene of the flows takes their steps, and no other scene does.
LEMMA FlowsRun ==
  /\ Init /\ scene = "flows" => Flows!Init
  /\ [Next]_vars /\ scene = "flows" => [Flows!Next]_Flows!vars
  /\ [Next]_vars /\ scene = "flows" => (scene = "flows")'
  /\ [Next]_vars /\ ~(scene = "flows") => (~(scene = "flows"))'
  BY DEF Init, Next, vars, Flows!vars

\* The scene of the flows that cross takes their steps, and no other scene does.
LEMMA CrossedFlowsRun ==
  /\ Init /\ scene = "crossed" => CrossedFlows!Init
  /\ [Next]_vars /\ scene = "crossed" => [CrossedFlows!Next]_CrossedFlows!vars
  /\ [Next]_vars /\ scene = "crossed" => (scene = "crossed")'
  /\ [Next]_vars /\ ~(scene = "crossed") => (~(scene = "crossed"))'
  BY DEF Init, Next, vars, CrossedFlows!vars

\* The scene of the logins takes their steps, and no other scene does.
LEMMA LoggedRun ==
  /\ Init /\ scene = "logins" => Logged!Init
  /\ [Next]_vars /\ scene = "logins" => [Logged!Next]_Logged!vars
  /\ [Next]_vars /\ scene = "logins" => (scene = "logins")'
  /\ [Next]_vars /\ ~(scene = "logins") => (~(scene = "logins"))'
  BY DEF Init, Next, vars, Logged!vars

\* The scene of the approvals takes their steps, and no other scene does.
LEMMA ApprovedRun ==
  /\ Init /\ scene = "approval" => Approved!Init
  /\ [Next]_vars /\ scene = "approval" => [Approved!Next]_Approved!vars
  /\ [Next]_vars /\ scene = "approval" => (scene = "approval")'
  /\ [Next]_vars /\ ~(scene = "approval") => (~(scene = "approval"))'
  BY DEF Init, Next, vars, Approved!vars

\* The scene of those that ask for links takes their steps, and no other scene does.
LEMMA AskedRun ==
  /\ Init /\ scene = "asking" => Asked!Init
  /\ [Next]_vars /\ scene = "asking" => [Asked!Next]_Asked!vars
  /\ [Next]_vars /\ scene = "asking" => (scene = "asking")'
  /\ [Next]_vars /\ ~(scene = "asking") => (~(scene = "asking"))'
  BY DEF Init, Next, vars, Asked!vars

-----------------------------------------------------------------------------
(***************************************************************************)
(* The bulk inserts of db2view, for any number of workers, of hosts and of  *)
(* refused statements: a build that ends well has committed the queued rows *)
(* of every host, and no row is lost in silence.                            *)
(*                                                                          *)
(* Nothing makes a worker run its destroyer once.  The argument counts: as  *)
(* long as no task has raised, every destroyer handed out is running or has *)
(* closed a bulk that was open (DestroyersCounted), so that when the last   *)
(* of them has answered as many bulks are closed as there are workers,      *)
(* which is all of them.                                                    *)
(***************************************************************************)

\* The counts of the bulk inserts are the cardinalities of the finite sets.
LEMMA BulkCount ==
  ASSUME NEW S
  PROVE  Inserts!Cardinality(S) = Cardinality(S) /\ (Inserts!IsFiniteSet(S) <=> IsFiniteSet(S))
<1>1. Inserts!Cardinality(S) = Cardinality(S)
  BY Zenon DEF Inserts!Cardinality, Cardinality
<1>2. Inserts!IsFiniteSet(S) <=> IsFiniteSet(S)
  BY Zenon DEF Inserts!IsFiniteSet, IsFiniteSet
<1> QED BY <1>1, <1>2

HostNumbers == 1 .. inserting.MaxHosts
BulkStages == {"upsert", "append", "commit"}
BulksClosed == {w \in inserting.Workers : bulk[w] = "closed"}
BulksClosing == {w \in inserting.Workers : at[w] = "close"}

\* The kinds of what the steps read.
BulkTypes ==
  /\ phase \in {"store", "destroy", "done", "aborted"}
  /\ next \in Nat
  /\ job \in [inserting.Workers -> Nat]
  /\ at \in [inserting.Workers -> BulkStages \cup {"idle", "close"}]
  /\ bulk \in [inserting.Workers -> {"open", "failed", "closed"}]
  /\ queue \in [inserting.Workers -> SUBSET HostNumbers]
  /\ hosts \subseteq HostNumbers /\ committed \subseteq HostNumbers

\* The tasks of a phase: hosts first, then the destroyers.
BulkOrder ==
  /\ next >= 1
  /\ phase = "store" => next <= inserting.MaxHosts + 1
  /\ phase \in {"destroy", "done"} =>
       next >= inserting.MaxHosts + 1 /\ next <= inserting.MaxHosts + Cardinality(inserting.Workers) + 1
  /\ \A w \in inserting.Workers : at[w] \in BulkStages => job[w] \in HostNumbers /\ phase # "destroy"
  /\ phase = "store" => BulksClosing = {} /\ BulksClosed = {}

\* A bulk that fails has raised; one that is closed has nothing queued.
BulksFit ==
  \A w \in inserting.Workers : /\ bulk[w] = "failed" => raised # {}
                     /\ bulk[w] = "closed" => queue[w] = {}

\* Where the rows of a host can be, and be about to be.
RowsKept(h) == h \in committed \/ \E w \in inserting.Workers : h \in queue[w]
RowsComing(h, stages) == \E w \in inserting.Workers : job[w] = h /\ at[w] \in stages

\* Until some task raises, every host handed out is being stored or kept, and
\* every destroyer handed out is running or has closed an open bulk.
HostsFollowed ==
  raised = {} => /\ \A h \in HostNumbers : h < next => RowsKept(h) \/ RowsComing(h, {"upsert", "append"})
                 /\ \A h \in hosts : RowsKept(h) \/ RowsComing(h, {"append"})
DestroyersCounted ==
  raised = {} /\ phase = "destroy" =>
    next = inserting.MaxHosts + 1 + Cardinality(BulksClosed) + Cardinality(BulksClosing)

\* The inductive invariant.
BulkInv == BulkTypes /\ BulkOrder /\ BulksFit /\ HostsFollowed /\ DestroyersCounted /\ Inserts!DoneMeansFlushed

\* The counts are of finite sets.
LEMMA BulkCounts ==
  ASSUME Inserts!BulkAssumption
  PROVE  /\ inserting.MaxHosts \in Nat /\ Cardinality(inserting.Workers) \in Nat
         /\ IsFiniteSet(BulksClosed) /\ IsFiniteSet(BulksClosing)
         /\ Cardinality(BulksClosed) \in Nat /\ Cardinality(BulksClosing) \in Nat
<1>1. IsFiniteSet(inserting.Workers) /\ inserting.MaxHosts \in Nat
  BY BulkCount DEF Inserts!BulkAssumption
<1>2. IsFiniteSet(BulksClosed) /\ IsFiniteSet(BulksClosing)
  BY <1>1, FS_Subset DEF BulksClosed, BulksClosing
<1> QED
  BY <1>1, <1>2, FS_CardinalityType

LEMMA BulkInvInit ==
  ASSUME Inserts!BulkAssumption
  PROVE  Inserts!Init => BulkInv
<1> SUFFICES ASSUME Inserts!Init PROVE BulkInv
  OBVIOUS
<1>1. Cardinality(inserting.Workers) \in Nat
  BY BulkCount, FS_CardinalityType DEF Inserts!BulkAssumption
<1>2. BulkTypes
  BY DEF Inserts!Init, BulkTypes, BulkStages
<1>3. BulkOrder
  BY <1>1 DEF Inserts!BulkAssumption, Inserts!Init, BulkOrder, BulkStages, BulksClosing, BulksClosed
<1>4. BulksFit
  BY DEF Inserts!Init, BulksFit
<1>5. HostsFollowed
  BY DEF Inserts!Init, HostsFollowed, HostNumbers
<1>6. DestroyersCounted /\ Inserts!DoneMeansFlushed
  BY DEF Inserts!Init, DestroyersCounted, Inserts!DoneMeansFlushed
<1> QED
  BY <1>2, <1>3, <1>4, <1>5, <1>6 DEF BulkInv

LEMMA BulkTypeStep ==
  ASSUME Inserts!BulkAssumption, BulkTypes, BulkOrder, [Inserts!Next]_Inserts!vars
  PROVE  BulkTypes'
<1>1. CASE UNCHANGED Inserts!vars
  BY <1>1 DEF Inserts!vars, BulkTypes, BulkStages
<1>2. ASSUME NEW w \in inserting.Workers, Inserts!TakeHost(w) PROVE BulkTypes'
  BY <1>2
  DEF Inserts!BulkAssumption, BulkTypes, BulkOrder, BulkStages, HostNumbers, Inserts!TakeHost,
      Inserts!Goto, Inserts!TakeTask
<1>3. ASSUME NEW w \in inserting.Workers, Inserts!Upsert(w) PROVE BulkTypes'
  BY <1>3
  DEF Inserts!BulkAssumption, BulkTypes, BulkOrder, BulkStages, HostNumbers, Inserts!Upsert,
      Inserts!Goto, Inserts!Running
<1>4. ASSUME NEW w \in inserting.Workers, Inserts!UpsertFails(w) PROVE BulkTypes'
  BY <1>4
  DEF BulkTypes, BulkStages, Inserts!UpsertFails, Inserts!Goto, Inserts!Running, Inserts!Raise
<1>5. ASSUME NEW w \in inserting.Workers, Inserts!Append(w) PROVE BulkTypes'
  BY <1>5
  DEF Inserts!BulkAssumption, BulkTypes, BulkOrder, BulkStages, HostNumbers, Inserts!Append,
      Inserts!Goto, Inserts!Running
<1>6. ASSUME NEW w \in inserting.Workers, Inserts!Commit(w) PROVE BulkTypes'
  BY <1>6 DEF BulkTypes, BulkStages, Inserts!Commit, Inserts!Goto, Inserts!Running
<1>7. ASSUME NEW w \in inserting.Workers, Inserts!CommitFails(w) PROVE BulkTypes'
  BY <1>7
  DEF BulkTypes, BulkStages, Inserts!CommitFails, Inserts!Goto, Inserts!Running, Inserts!Raise
<1>8. ASSUME NEW w \in inserting.Workers, Inserts!TakeDestroyer(w) PROVE BulkTypes'
  BY <1>8
  DEF Inserts!BulkAssumption, BulkTypes, BulkOrder, BulkStages, HostNumbers,
      Inserts!TakeDestroyer, Inserts!Goto, Inserts!TakeTask
<1>9. ASSUME NEW w \in inserting.Workers, Inserts!Close(w) PROVE BulkTypes'
  BY <1>9 DEF BulkTypes, BulkStages, Inserts!Close, Inserts!Goto, Inserts!Running
<1>10. ASSUME NEW w \in inserting.Workers, Inserts!CloseFails(w) PROVE BulkTypes'
  BY <1>10
  DEF BulkTypes, BulkStages, Inserts!CloseFails, Inserts!Goto, Inserts!Running, Inserts!Raise
<1>11. ASSUME NEW w \in inserting.Workers, Inserts!CloseTwice(w) PROVE BulkTypes'
  BY <1>11
  DEF BulkTypes, BulkStages, Inserts!CloseTwice, Inserts!Goto, Inserts!Running, Inserts!Raise
<1>12. CASE Inserts!StoreEnds
  BY <1>12 DEF BulkTypes, BulkStages, Inserts!StoreEnds, Inserts!Running
<1>13. CASE Inserts!DestroyEnds
  BY <1>13 DEF BulkTypes, BulkStages, Inserts!DestroyEnds, Inserts!Running
<1>14. CASE Inserts!Abort
  BY <1>14 DEF BulkTypes, BulkStages, Inserts!Abort, Inserts!Running
<1> QED
  BY <1>1, <1>2, <1>3, <1>4, <1>5, <1>6, <1>7, <1>8, <1>9, <1>10, <1>11, <1>12, <1>13, <1>14
  DEF Inserts!Next, Inserts!store_host, Inserts!stop_store_hosts

LEMMA BulkOrderStep ==
  ASSUME Inserts!BulkAssumption, BulkInv, [Inserts!Next]_Inserts!vars
  PROVE  BulkOrder'
<1>1. CASE UNCHANGED Inserts!vars
  BY <1>1
  DEF Inserts!vars, BulkTypes, BulkInv, BulkOrder, BulkStages, HostNumbers, BulksClosing,
      BulksClosed
<1>2. ASSUME NEW w \in inserting.Workers, Inserts!TakeHost(w) PROVE BulkOrder'
  BY <1>2, BulkCounts
  DEF BulkTypes, BulkInv, BulkOrder, BulkStages, HostNumbers, BulksClosing, BulksClosed,
      Inserts!TakeHost, Inserts!Goto, Inserts!TakeTask
<1>3. ASSUME NEW w \in inserting.Workers, Inserts!Upsert(w) PROVE BulkOrder'
  BY <1>3
  DEF BulkTypes, BulkInv, BulkOrder, BulkStages, HostNumbers, BulksClosing, BulksClosed,
      Inserts!Upsert, Inserts!Goto, Inserts!Running
<1>4. ASSUME NEW w \in inserting.Workers, Inserts!UpsertFails(w) PROVE BulkOrder'
  BY <1>4
  DEF BulkTypes, BulkInv, BulkOrder, BulkStages, HostNumbers, BulksClosing, BulksClosed,
      Inserts!UpsertFails, Inserts!Goto, Inserts!Running, Inserts!Raise
<1>5. ASSUME NEW w \in inserting.Workers, Inserts!Append(w) PROVE BulkOrder'
  BY <1>5
  DEF BulkTypes, BulkInv, BulkOrder, BulkStages, HostNumbers, BulksClosing, BulksClosed,
      Inserts!Append, Inserts!Goto, Inserts!Running
<1>6. ASSUME NEW w \in inserting.Workers, Inserts!Commit(w) PROVE BulkOrder'
  BY <1>6
  DEF BulkTypes, BulkInv, BulkOrder, BulkStages, HostNumbers, BulksClosing, BulksClosed,
      Inserts!Commit, Inserts!Goto, Inserts!Running
<1>7. ASSUME NEW w \in inserting.Workers, Inserts!CommitFails(w) PROVE BulkOrder'
  BY <1>7
  DEF BulkTypes, BulkInv, BulkOrder, BulkStages, HostNumbers, BulksClosing, BulksClosed,
      Inserts!CommitFails, Inserts!Goto, Inserts!Running, Inserts!Raise
<1>8. ASSUME NEW w \in inserting.Workers, Inserts!TakeDestroyer(w) PROVE BulkOrder'
  BY <1>8, BulkCount, BulkCounts
  DEF BulkTypes, BulkInv, BulkOrder, BulkStages, HostNumbers, BulksClosing, BulksClosed,
      Inserts!Destroyers, Inserts!TakeDestroyer, Inserts!Goto, Inserts!TakeTask
<1>9. ASSUME NEW w \in inserting.Workers, Inserts!Close(w) PROVE BulkOrder'
  BY <1>9
  DEF BulkTypes, BulkInv, BulkOrder, BulkStages, HostNumbers, BulksClosing, BulksClosed,
      Inserts!Close, Inserts!Goto, Inserts!Running
<1>10. ASSUME NEW w \in inserting.Workers, Inserts!CloseFails(w) PROVE BulkOrder'
  BY <1>10
  DEF BulkTypes, BulkInv, BulkOrder, BulkStages, HostNumbers, BulksClosing, BulksClosed,
      Inserts!CloseFails, Inserts!Goto, Inserts!Running, Inserts!Raise
<1>11. ASSUME NEW w \in inserting.Workers, Inserts!CloseTwice(w) PROVE BulkOrder'
  BY <1>11
  DEF BulkTypes, BulkInv, BulkOrder, BulkStages, HostNumbers, BulksClosing, BulksClosed,
      Inserts!CloseTwice, Inserts!Goto, Inserts!Running, Inserts!Raise
<1>12. CASE Inserts!StoreEnds
  BY <1>12, BulkCounts
  DEF BulkTypes, BulkInv, BulkOrder, BulkStages, HostNumbers, BulksClosing, BulksClosed,
      Inserts!StoreEnds, Inserts!Running
<1>13. CASE Inserts!DestroyEnds
  BY <1>13
  DEF BulkTypes, BulkInv, BulkOrder, BulkStages, HostNumbers, BulksClosing, BulksClosed,
      Inserts!DestroyEnds, Inserts!Running
<1>14. CASE Inserts!Abort
  BY <1>14
  DEF BulkTypes, BulkInv, BulkOrder, BulkStages, HostNumbers, BulksClosing, BulksClosed,
      Inserts!Abort, Inserts!Running
<1> QED
  BY <1>1, <1>2, <1>3, <1>4, <1>5, <1>6, <1>7, <1>8, <1>9, <1>10, <1>11, <1>12, <1>13, <1>14
  DEF Inserts!Next, Inserts!store_host, Inserts!stop_store_hosts

LEMMA BulkFitStep ==
  ASSUME Inserts!BulkAssumption, BulkInv, [Inserts!Next]_Inserts!vars
  PROVE  BulksFit'
<1>1. CASE UNCHANGED Inserts!vars
  BY <1>1 DEF Inserts!vars, BulkTypes, BulkInv, BulksFit, BulkStages
<1>2. ASSUME NEW w \in inserting.Workers, Inserts!TakeHost(w) PROVE BulksFit'
  BY <1>2
  DEF BulkTypes, BulkInv, BulksFit, BulkStages, Inserts!TakeHost, Inserts!Goto,
      Inserts!TakeTask
<1>3. ASSUME NEW w \in inserting.Workers, Inserts!Upsert(w) PROVE BulksFit'
  BY <1>3
  DEF BulkTypes, BulkInv, BulksFit, BulkStages, Inserts!Upsert, Inserts!Goto, Inserts!Running
<1>4. ASSUME NEW w \in inserting.Workers, Inserts!UpsertFails(w) PROVE BulksFit'
  BY <1>4
  DEF BulkTypes, BulkInv, BulksFit, BulkStages, Inserts!UpsertFails, Inserts!Goto,
      Inserts!Running, Inserts!Raise
<1>5. ASSUME NEW w \in inserting.Workers, Inserts!Append(w) PROVE BulksFit'
  BY <1>5
  DEF BulkTypes, BulkInv, BulkOrder, BulksClosed, BulksFit, BulkStages, Inserts!Append,
      Inserts!Goto, Inserts!Running
<1>6. ASSUME NEW w \in inserting.Workers, Inserts!Commit(w) PROVE BulksFit'
  BY <1>6
  DEF BulkTypes, BulkInv, BulksFit, BulkStages, Inserts!Commit, Inserts!Goto, Inserts!Running
<1>7. ASSUME NEW w \in inserting.Workers, Inserts!CommitFails(w) PROVE BulksFit'
  BY <1>7
  DEF BulkTypes, BulkInv, BulksFit, BulkStages, Inserts!CommitFails, Inserts!Goto,
      Inserts!Running, Inserts!Raise
<1>8. ASSUME NEW w \in inserting.Workers, Inserts!TakeDestroyer(w) PROVE BulksFit'
  BY <1>8
  DEF BulkTypes, BulkInv, BulksFit, BulkStages, Inserts!TakeDestroyer, Inserts!Goto,
      Inserts!TakeTask
<1>9. ASSUME NEW w \in inserting.Workers, Inserts!Close(w) PROVE BulksFit'
  BY <1>9 DEF BulkTypes, BulkInv, BulksFit, BulkStages, Inserts!Close, Inserts!Goto, Inserts!Running
<1>10. ASSUME NEW w \in inserting.Workers, Inserts!CloseFails(w) PROVE BulksFit'
  BY <1>10
  DEF BulkTypes, BulkInv, BulksFit, BulkStages, Inserts!CloseFails, Inserts!Goto,
      Inserts!Running, Inserts!Raise
<1>11. ASSUME NEW w \in inserting.Workers, Inserts!CloseTwice(w) PROVE BulksFit'
  BY <1>11
  DEF BulkTypes, BulkInv, BulksFit, BulkStages, Inserts!CloseTwice, Inserts!Goto,
      Inserts!Running, Inserts!Raise
<1>12. CASE Inserts!StoreEnds
  BY <1>12 DEF BulkTypes, BulkInv, BulksFit, BulkStages, Inserts!StoreEnds, Inserts!Running
<1>13. CASE Inserts!DestroyEnds
  BY <1>13 DEF BulkTypes, BulkInv, BulksFit, BulkStages, Inserts!DestroyEnds, Inserts!Running
<1>14. CASE Inserts!Abort
  BY <1>14 DEF BulkTypes, BulkInv, BulksFit, BulkStages, Inserts!Abort, Inserts!Running
<1> QED
  BY <1>1, <1>2, <1>3, <1>4, <1>5, <1>6, <1>7, <1>8, <1>9, <1>10, <1>11, <1>12, <1>13, <1>14
  DEF Inserts!Next, Inserts!store_host, Inserts!stop_store_hosts

LEMMA HostFollowStep ==
  ASSUME Inserts!BulkAssumption, BulkInv, [Inserts!Next]_Inserts!vars
  PROVE  HostsFollowed'
<1>1. CASE UNCHANGED Inserts!vars
  BY <1>1
  DEF Inserts!vars, BulkTypes, BulkInv, BulkOrder, BulksFit, HostsFollowed, RowsKept,
      RowsComing, BulkStages, HostNumbers
<1>2. ASSUME NEW w \in inserting.Workers, Inserts!TakeHost(w) PROVE HostsFollowed'
  BY <1>2
  DEF BulkTypes, BulkInv, BulkOrder, BulksFit, HostsFollowed, RowsKept, RowsComing, BulkStages,
      HostNumbers, Inserts!TakeHost, Inserts!Goto, Inserts!TakeTask
<1>3. ASSUME NEW w \in inserting.Workers, Inserts!Upsert(w) PROVE HostsFollowed'
  BY <1>3
  DEF BulkTypes, BulkInv, BulkOrder, BulksFit, HostsFollowed, RowsKept, RowsComing, BulkStages,
      HostNumbers, Inserts!Upsert, Inserts!Goto, Inserts!Running
<1>4. ASSUME NEW w \in inserting.Workers, Inserts!UpsertFails(w) PROVE HostsFollowed'
  BY <1>4
  DEF BulkTypes, BulkInv, BulkOrder, BulksFit, HostsFollowed, RowsKept, RowsComing, BulkStages,
      HostNumbers, Inserts!UpsertFails, Inserts!Goto, Inserts!Running, Inserts!Raise
<1>5. ASSUME NEW w \in inserting.Workers, Inserts!Append(w) PROVE HostsFollowed'
  BY <1>5
  DEF BulkTypes, BulkInv, BulkOrder, BulksFit, HostsFollowed, RowsKept, RowsComing, BulkStages,
      HostNumbers, Inserts!Append, Inserts!Goto, Inserts!Running
<1>6. ASSUME NEW w \in inserting.Workers, Inserts!Commit(w) PROVE HostsFollowed'
  BY <1>6
  DEF BulkTypes, BulkInv, BulkOrder, BulksFit, HostsFollowed, RowsKept, RowsComing, BulkStages,
      HostNumbers, Inserts!Commit, Inserts!Goto, Inserts!Running
<1>7. ASSUME NEW w \in inserting.Workers, Inserts!CommitFails(w) PROVE HostsFollowed'
  BY <1>7
  DEF BulkTypes, BulkInv, BulkOrder, BulksFit, HostsFollowed, RowsKept, RowsComing, BulkStages,
      HostNumbers, Inserts!CommitFails, Inserts!Goto, Inserts!Running, Inserts!Raise
<1>8. ASSUME NEW w \in inserting.Workers, Inserts!TakeDestroyer(w) PROVE HostsFollowed'
  <2>1. \A h \in HostNumbers : h < next
    BY <1>8, BulkCounts DEF BulkInv, BulkTypes, BulkOrder, HostNumbers, Inserts!TakeDestroyer
  <2> QED
    BY <1>8, <2>1
    DEF BulkInv, BulkTypes, HostsFollowed, RowsKept, RowsComing, Inserts!TakeDestroyer,
        Inserts!Goto, Inserts!TakeTask
<1>9. ASSUME NEW w \in inserting.Workers, Inserts!Close(w) PROVE HostsFollowed'
  BY <1>9
  DEF BulkTypes, BulkInv, BulkOrder, BulksFit, HostsFollowed, RowsKept, RowsComing, BulkStages,
      HostNumbers, Inserts!Close, Inserts!Goto, Inserts!Running
<1>10. ASSUME NEW w \in inserting.Workers, Inserts!CloseFails(w) PROVE HostsFollowed'
  BY <1>10
  DEF BulkTypes, BulkInv, BulkOrder, BulksFit, HostsFollowed, RowsKept, RowsComing, BulkStages,
      HostNumbers, Inserts!CloseFails, Inserts!Goto, Inserts!Running, Inserts!Raise
<1>11. ASSUME NEW w \in inserting.Workers, Inserts!CloseTwice(w) PROVE HostsFollowed'
  BY <1>11
  DEF BulkTypes, BulkInv, BulkOrder, BulksFit, HostsFollowed, RowsKept, RowsComing, BulkStages,
      HostNumbers, Inserts!CloseTwice, Inserts!Goto, Inserts!Running, Inserts!Raise
<1>12. CASE Inserts!StoreEnds
  BY <1>12
  DEF BulkTypes, BulkInv, BulkOrder, BulksFit, HostsFollowed, RowsKept, RowsComing, BulkStages,
      HostNumbers, Inserts!StoreEnds, Inserts!Running
<1>13. CASE Inserts!DestroyEnds
  BY <1>13
  DEF BulkTypes, BulkInv, BulkOrder, BulksFit, HostsFollowed, RowsKept, RowsComing, BulkStages,
      HostNumbers, Inserts!DestroyEnds, Inserts!Running
<1>14. CASE Inserts!Abort
  BY <1>14
  DEF BulkTypes, BulkInv, BulkOrder, BulksFit, HostsFollowed, RowsKept, RowsComing, BulkStages,
      HostNumbers, Inserts!Abort, Inserts!Running
<1> QED
  BY <1>1, <1>2, <1>3, <1>4, <1>5, <1>6, <1>7, <1>8, <1>9, <1>10, <1>11, <1>12, <1>13, <1>14
  DEF Inserts!Next, Inserts!store_host, Inserts!stop_store_hosts

LEMMA DestroyerCountStep ==
  ASSUME Inserts!BulkAssumption, BulkInv, [Inserts!Next]_Inserts!vars
  PROVE  DestroyersCounted'
<1>1. CASE UNCHANGED Inserts!vars
  BY <1>1
  DEF Inserts!vars, BulkTypes, BulkInv, BulkOrder, BulksFit, DestroyersCounted, BulksClosing,
      BulksClosed, BulkStages, HostNumbers
<1>2. ASSUME NEW w \in inserting.Workers, Inserts!TakeHost(w) PROVE DestroyersCounted'
  BY <1>2
  DEF BulkTypes, BulkInv, BulkOrder, BulksFit, DestroyersCounted, BulksClosing, BulksClosed,
      BulkStages, HostNumbers, Inserts!TakeHost, Inserts!Goto, Inserts!TakeTask
<1>3. ASSUME NEW w \in inserting.Workers, Inserts!Upsert(w) PROVE DestroyersCounted'
  BY <1>3
  DEF BulkTypes, BulkInv, BulkOrder, BulksFit, DestroyersCounted, BulksClosing, BulksClosed,
      BulkStages, HostNumbers, Inserts!Upsert, Inserts!Goto, Inserts!Running
<1>4. ASSUME NEW w \in inserting.Workers, Inserts!UpsertFails(w) PROVE DestroyersCounted'
  BY <1>4
  DEF BulkTypes, BulkInv, BulkOrder, BulksFit, DestroyersCounted, BulksClosing, BulksClosed,
      BulkStages, HostNumbers, Inserts!UpsertFails, Inserts!Goto, Inserts!Running,
      Inserts!Raise
<1>5. ASSUME NEW w \in inserting.Workers, Inserts!Append(w) PROVE DestroyersCounted'
  BY <1>5
  DEF BulkTypes, BulkInv, BulkOrder, BulksFit, DestroyersCounted, BulksClosing, BulksClosed,
      BulkStages, HostNumbers, Inserts!Append, Inserts!Goto, Inserts!Running
<1>6. ASSUME NEW w \in inserting.Workers, Inserts!Commit(w) PROVE DestroyersCounted'
  BY <1>6
  DEF BulkTypes, BulkInv, BulkOrder, BulksFit, DestroyersCounted, BulksClosing, BulksClosed,
      BulkStages, HostNumbers, Inserts!Commit, Inserts!Goto, Inserts!Running
<1>7. ASSUME NEW w \in inserting.Workers, Inserts!CommitFails(w) PROVE DestroyersCounted'
  BY <1>7
  DEF BulkTypes, BulkInv, BulkOrder, BulksFit, DestroyersCounted, BulksClosing, BulksClosed,
      BulkStages, HostNumbers, Inserts!CommitFails, Inserts!Goto, Inserts!Running,
      Inserts!Raise
<1>8. ASSUME NEW w \in inserting.Workers, Inserts!TakeDestroyer(w) PROVE DestroyersCounted'
  <2>1. BulksClosing' = BulksClosing \cup {w} /\ w \notin BulksClosing /\ BulksClosed' = BulksClosed
    BY <1>8
    DEF BulkInv, BulkTypes, BulksClosing, BulksClosed, Inserts!TakeDestroyer, Inserts!TakeTask,
        Inserts!Goto
  <2>2. Cardinality(BulksClosing') = Cardinality(BulksClosing) + 1
    BY <2>1, BulkCounts, FS_AddElement
  <2> QED
    BY <1>8, <2>1, <2>2, BulkCounts
    DEF BulkInv, BulkTypes, DestroyersCounted, Inserts!TakeDestroyer, Inserts!TakeTask
<1>9. ASSUME NEW w \in inserting.Workers, Inserts!Close(w) PROVE DestroyersCounted'
  <2>1. /\ BulksClosing' = BulksClosing \ {w} /\ w \in BulksClosing
        /\ BulksClosed' = BulksClosed \cup {w} /\ w \notin BulksClosed
    BY <1>9 DEF BulkInv, BulkTypes, BulksClosing, BulksClosed, Inserts!Close, Inserts!Goto
  <2>2. Cardinality(BulksClosing') = Cardinality(BulksClosing) - 1
    BY <2>1, BulkCounts, FS_RemoveElement
  <2>3. Cardinality(BulksClosed') = Cardinality(BulksClosed) + 1
    BY <2>1, BulkCounts, FS_AddElement
  <2> QED
    BY <1>9, <2>2, <2>3, BulkCounts DEF BulkInv, BulkTypes, DestroyersCounted, Inserts!Close
<1>10. ASSUME NEW w \in inserting.Workers, Inserts!CloseFails(w) PROVE DestroyersCounted'
  BY <1>10
  DEF BulkTypes, BulkInv, BulkOrder, BulksFit, DestroyersCounted, BulksClosing, BulksClosed,
      BulkStages, HostNumbers, Inserts!CloseFails, Inserts!Goto, Inserts!Running, Inserts!Raise
<1>11. ASSUME NEW w \in inserting.Workers, Inserts!CloseTwice(w) PROVE DestroyersCounted'
  BY <1>11
  DEF BulkTypes, BulkInv, BulkOrder, BulksFit, DestroyersCounted, BulksClosing, BulksClosed,
      BulkStages, HostNumbers, Inserts!CloseTwice, Inserts!Goto, Inserts!Running, Inserts!Raise
<1>12. CASE Inserts!StoreEnds
  <2>1. BulksClosed' = {} /\ BulksClosing' = {}
    BY <1>12 DEF BulkInv, BulkOrder, BulksClosing, BulksClosed, Inserts!StoreEnds
  <2>2. Cardinality(BulksClosed') = 0 /\ Cardinality(BulksClosing') = 0
    BY <2>1, FS_EmptySet
  <2>3. next = inserting.MaxHosts + 1
    BY <1>12, BulkCounts DEF BulkInv, BulkTypes, BulkOrder, Inserts!StoreEnds
  <2> QED
    BY <1>12, <2>2, <2>3, BulkCounts DEF DestroyersCounted, Inserts!StoreEnds
<1>13. CASE Inserts!DestroyEnds
  BY <1>13
  DEF BulkTypes, BulkInv, BulkOrder, BulksFit, DestroyersCounted, BulksClosing, BulksClosed,
      BulkStages, HostNumbers, Inserts!DestroyEnds, Inserts!Running
<1>14. CASE Inserts!Abort
  BY <1>14
  DEF BulkTypes, BulkInv, BulkOrder, BulksFit, DestroyersCounted, BulksClosing, BulksClosed,
      BulkStages, HostNumbers, Inserts!Abort, Inserts!Running
<1> QED
  BY <1>1, <1>2, <1>3, <1>4, <1>5, <1>6, <1>7, <1>8, <1>9, <1>10, <1>11, <1>12, <1>13, <1>14
  DEF Inserts!Next, Inserts!store_host, Inserts!stop_store_hosts

LEMMA BulkDoneStep ==
  ASSUME Inserts!BulkAssumption, BulkInv, [Inserts!Next]_Inserts!vars
  PROVE  Inserts!DoneMeansFlushed'
<1>1. CASE UNCHANGED Inserts!vars
  BY <1>1 DEF Inserts!vars, BulkInv, Inserts!DoneMeansFlushed
<1>2. ASSUME NEW w \in inserting.Workers, Inserts!TakeHost(w) PROVE Inserts!DoneMeansFlushed'
  BY <1>2 DEF BulkInv, Inserts!DoneMeansFlushed, Inserts!TakeHost, Inserts!Goto, Inserts!TakeTask
<1>3. ASSUME NEW w \in inserting.Workers, Inserts!Upsert(w) PROVE Inserts!DoneMeansFlushed'
  BY <1>3 DEF BulkInv, Inserts!DoneMeansFlushed, Inserts!Upsert, Inserts!Goto, Inserts!Running
<1>4. ASSUME NEW w \in inserting.Workers, Inserts!UpsertFails(w) PROVE Inserts!DoneMeansFlushed'
  BY <1>4
  DEF BulkInv, Inserts!DoneMeansFlushed, Inserts!UpsertFails, Inserts!Goto, Inserts!Running,
      Inserts!Raise
<1>5. ASSUME NEW w \in inserting.Workers, Inserts!Append(w) PROVE Inserts!DoneMeansFlushed'
  BY <1>5 DEF BulkInv, Inserts!DoneMeansFlushed, Inserts!Append, Inserts!Goto, Inserts!Running
<1>6. ASSUME NEW w \in inserting.Workers, Inserts!Commit(w) PROVE Inserts!DoneMeansFlushed'
  BY <1>6 DEF BulkInv, Inserts!DoneMeansFlushed, Inserts!Commit, Inserts!Goto, Inserts!Running
<1>7. ASSUME NEW w \in inserting.Workers, Inserts!CommitFails(w) PROVE Inserts!DoneMeansFlushed'
  BY <1>7
  DEF BulkInv, Inserts!DoneMeansFlushed, Inserts!CommitFails, Inserts!Goto, Inserts!Running,
      Inserts!Raise
<1>8. ASSUME NEW w \in inserting.Workers, Inserts!TakeDestroyer(w) PROVE Inserts!DoneMeansFlushed'
  BY <1>8
  DEF BulkInv, Inserts!DoneMeansFlushed, Inserts!TakeDestroyer, Inserts!Goto, Inserts!TakeTask
<1>9. ASSUME NEW w \in inserting.Workers, Inserts!Close(w) PROVE Inserts!DoneMeansFlushed'
  BY <1>9 DEF BulkInv, Inserts!DoneMeansFlushed, Inserts!Close, Inserts!Goto, Inserts!Running
<1>10. ASSUME NEW w \in inserting.Workers, Inserts!CloseFails(w) PROVE Inserts!DoneMeansFlushed'
  BY <1>10
  DEF BulkInv, Inserts!DoneMeansFlushed, Inserts!CloseFails, Inserts!Goto, Inserts!Running,
      Inserts!Raise
<1>11. ASSUME NEW w \in inserting.Workers, Inserts!CloseTwice(w) PROVE Inserts!DoneMeansFlushed'
  BY <1>11
  DEF BulkInv, Inserts!DoneMeansFlushed, Inserts!CloseTwice, Inserts!Goto, Inserts!Running,
      Inserts!Raise
<1>12. CASE Inserts!StoreEnds
  BY <1>12 DEF BulkInv, Inserts!DoneMeansFlushed, Inserts!StoreEnds, Inserts!Running
<1>13. CASE Inserts!DestroyEnds
  <2>1. BulksClosing = {} /\ Cardinality(BulksClosing) = 0
    BY <1>13, FS_EmptySet DEF BulksClosing, Inserts!DestroyEnds
  <2>2. next = inserting.MaxHosts + Cardinality(inserting.Workers) + 1
    BY <1>13, BulkCount, BulkCounts
    DEF BulkInv, BulkTypes, BulkOrder, Inserts!Destroyers, Inserts!DestroyEnds
  <2>3. Cardinality(BulksClosed) = Cardinality(inserting.Workers)
    BY <1>13, <2>1, <2>2, BulkCounts DEF BulkInv, DestroyersCounted, Inserts!DestroyEnds
  <2>4. BulksClosed = inserting.Workers
    BY <2>3, BulkCount, FS_Subset DEF Inserts!BulkAssumption, BulksClosed
  <2>5. \A w \in inserting.Workers : queue[w] = {}
    BY <2>4 DEF BulkInv, BulksFit, BulksClosed
  <2>6. \A h \in HostNumbers : h < next
    BY <2>2, BulkCounts DEF HostNumbers
  <2>7. \A h \in HostNumbers : h \in committed
    BY <1>13, <2>5, <2>6 DEF BulkInv, HostsFollowed, RowsKept, RowsComing, Inserts!DestroyEnds
  <2> QED
    BY <1>13, <2>7
    DEF BulkInv, BulkTypes, HostNumbers, Inserts!DoneMeansFlushed, Inserts!DestroyEnds
<1>14. CASE Inserts!Abort
  BY <1>14 DEF BulkInv, Inserts!DoneMeansFlushed, Inserts!Abort, Inserts!Running
<1> QED
  BY <1>1, <1>2, <1>3, <1>4, <1>5, <1>6, <1>7, <1>8, <1>9, <1>10, <1>11, <1>12, <1>13, <1>14
  DEF Inserts!Next, Inserts!store_host, Inserts!stop_store_hosts

-----------------------------------------------------------------------------
(* The theorems                                                            *)

LEMMA BulkInvStep ==
  ASSUME Inserts!BulkAssumption
  PROVE  BulkInv /\ [Inserts!Next]_Inserts!vars => BulkInv'
<1> SUFFICES ASSUME BulkInv, [Inserts!Next]_Inserts!vars PROVE BulkInv'
  OBVIOUS
<1>1. BulkTypes'
  BY BulkTypeStep DEF BulkInv
<1>2. BulkOrder' /\ BulksFit' /\ HostsFollowed'
  BY BulkOrderStep, BulkFitStep, HostFollowStep
<1>3. DestroyersCounted' /\ Inserts!DoneMeansFlushed'
  BY DestroyerCountStep, BulkDoneStep
<1> QED
  BY <1>1, <1>2, <1>3 DEF BulkInv

LEMMA BulkInvHolds ==
  ASSUME Inserts!BulkAssumption
  PROVE  Inserts!Spec => []BulkInv
<1>1. Inserts!Init => BulkInv
  BY BulkInvInit
<1>2. BulkInv /\ [Inserts!Next]_Inserts!vars => BulkInv'
  BY BulkInvStep
<1> QED
  BY <1>1, <1>2, PTL DEF Inserts!Spec

\* A build that ends well has committed the queued rows of every host: the
\* destroyers, which no one deals out, have reached every worker
\* (worker_destroyer).
THEOREM EndedIsFlushed ==
  ASSUME Inserts!BulkAssumption
  PROVE  Inserts!Spec => []Inserts!DoneMeansFlushed
<1>1. BulkInv => Inserts!DoneMeansFlushed
  BY DEF BulkInv
<1> QED
  BY <1>1, BulkInvHolds, PTL

\* Unless some task has raised, the rows of every host that was written are
\* committed, queued, or about to be queued (BulkInsert.append and commit).
THEOREM LossesRaise ==
  ASSUME Inserts!BulkAssumption
  PROVE  Inserts!Spec => []Inserts!LossIsReported
<1>1. ASSUME BulkInv, raised = {} PROVE Inserts!LossIsReported
  <2> SUFFICES ASSUME NEW h \in hosts
               PROVE  h \in committed \cup (UNION {queue[w] : w \in inserting.Workers})
                           \cup {job[w] : w \in {v \in inserting.Workers : at[v] = "append"}}
    BY DEF Inserts!LossIsReported
  <2>1. CASE RowsKept(h)
    BY <2>1 DEF RowsKept
  <2>2. CASE RowsComing(h, {"append"})
    BY <2>2 DEF RowsComing
  <2> QED
    BY <1>1, <2>1, <2>2 DEF BulkInv, BulkTypes, HostsFollowed
<1>2. BulkInv => Inserts!LossIsReported
  BY <1>1 DEF Inserts!LossIsReported
<1> QED
  BY <1>2, BulkInvHolds, PTL

-----------------------------------------------------------------------------
\* Whatever the routes, the batches, the deaths and the migration, a sighting that was
\* read is recorded, on its way or went down with a process (passiverecon2db.py,
\* insert_or_update of mongo.py, update_dns_blacklist).
THEOREM SightingsKept == Spec => []SightingsAreKept
<1>1. Spec => [](scene = "import" => (Imports!TypeOK /\ Imports!NothingLost))
  <2>1. Imports!Spec => []Imports!TypeOK
    BY Imports!PassiveTypeOK, ImportsAssumption
  <2>2. Imports!Spec => []Imports!NothingLost
    BY Imports!SightingsKept, ImportsAssumption
  <2> QED
    BY <2>1, <2>2, ImportsRun, PTL DEF Spec, Imports!Spec
<1>2. Spec => [](scene = "migration" => (Migration!TypeOK /\ Migration!NothingLost))
  <2>1. Migration!Spec => []Migration!TypeOK
    BY Migration!PassiveTypeOK, MigrationAssumption
  <2>2. Migration!Spec => []Migration!NothingLost
    BY Migration!SightingsKept, MigrationAssumption
  <2> QED
    BY <2>1, <2>2, MigrationRun, PTL DEF Spec, Migration!Spec
<1>3. /\ (scene = "import" => (Imports!TypeOK /\ Imports!NothingLost))
       /\ (scene = "migration" => (Migration!TypeOK /\ Migration!NothingLost))
       => SightingsAreKept
  BY DEF SightingsAreKept
<1> QED
  BY <1>1, <1>2, <1>3, PTL

\* It is in one record only, but for what a migration copied before it died, and racing
\* upserts give a fact no more records than there are processes (insert_or_update).
THEOREM SightingsKeptOnce == Spec => []SightingsAreKeptOnce
<1>1. Spec => [](scene = "import" => (Imports!FoldedOnce /\ Imports!FewDuplicates))
  <2>1. Imports!Spec => []Imports!FoldedOnce
    BY Imports!SightingsFoldedOnce, ImportsAssumption
  <2>2. Imports!Spec => []Imports!FewDuplicates
    BY Imports!DuplicatesAreFew, ImportsAssumption
  <2> QED
    BY <2>1, <2>2, ImportsRun, PTL DEF Spec, Imports!Spec
<1>2. Spec => [](scene = "migration" => (Migration!FoldedOnce /\ Migration!FewDuplicates))
  <2>1. Migration!Spec => []Migration!FoldedOnce
    BY Migration!SightingsFoldedOnce, MigrationAssumption
  <2>2. Migration!Spec => []Migration!FewDuplicates
    BY Migration!DuplicatesAreFew, MigrationAssumption
  <2> QED
    BY <2>1, <2>2, MigrationRun, PTL DEF Spec, Migration!Spec
<1>3. /\ (scene = "import" => (Imports!FoldedOnce /\ Imports!FewDuplicates))
       /\ (scene = "migration" => (Migration!FoldedOnce /\ Migration!FewDuplicates))
       => SightingsAreKeptOnce
  BY DEF SightingsAreKeptOnce
<1> QED
  BY <1>1, <1>2, <1>3, PTL

\* The count of a record is that of its sightings and its window their hull, in whatever
\* order they were folded ($inc, $min and $max of insert_or_update).
THEOREM RecordsSum == Spec => []RecordsAreSums
<1>1. Spec => [](scene = "import" => (Imports!CountIsSightings /\ Imports!WindowIsHull))
  <2>1. Imports!Spec => []Imports!CountIsSightings
    BY Imports!CountsAreSightings, ImportsAssumption
  <2>2. Imports!Spec => []Imports!WindowIsHull
    BY Imports!WindowsAreHulls, ImportsAssumption
  <2> QED
    BY <2>1, <2>2, ImportsRun, PTL DEF Spec, Imports!Spec
<1>2. Spec => [](scene = "migration" => (Migration!CountIsSightings /\ Migration!WindowIsHull))
  <2>1. Migration!Spec => []Migration!CountIsSightings
    BY Migration!CountsAreSightings, MigrationAssumption
  <2>2. Migration!Spec => []Migration!WindowIsHull
    BY Migration!WindowsAreHulls, MigrationAssumption
  <2> QED
    BY <2>1, <2>2, MigrationRun, PTL DEF Spec, Migration!Spec
<1>3. /\ (scene = "import" => (Imports!CountIsSightings /\ Imports!WindowIsHull))
       /\ (scene = "migration" => (Migration!CountIsSightings /\ Migration!WindowIsHull))
       => RecordsAreSums
  BY DEF RecordsAreSums
<1> QED
  BY <1>1, <1>2, <1>3, PTL

\* Rows are lost only in a build that an exception ends, and one that ends well has
\* committed those of every host (start_bulk_insert of postgres.py, db2view.py).
THEOREM BulkHonest == Spec => []BulkIsHonest
<1>1. Spec => [](scene = "bulk" => (Inserts!DoneMeansFlushed /\ Inserts!LossIsReported))
  <2>1. Inserts!Spec => []Inserts!DoneMeansFlushed
    BY EndedIsFlushed, InsertsAssumption
  <2>2. Inserts!Spec => []Inserts!LossIsReported
    BY LossesRaise, InsertsAssumption
  <2> QED
    BY <2>1, <2>2, InsertsRun, PTL DEF Spec, Inserts!Spec
<1>2. /\ (scene = "bulk" => (Inserts!DoneMeansFlushed /\ Inserts!LossIsReported))
       => BulkIsHonest
  BY DEF BulkIsHonest
<1> QED
  BY <1>1, <1>2, PTL

\* However the documents of an address are merged, nothing of a scan is lost or made up
\* and what the most recent one says stands (merge_host_docs).
THEOREM MergesRight == Spec => []MergesHold
<1>1. Spec => [](scene = "merge" => Merges!MergesHold)
  <2>1. Merges!Spec => []Merges!MergesHold
    BY Merges!MergesAreRight, MergesAssumption
  <2> QED
    BY <2>1, MergesRun, PTL DEF Spec, Merges!Spec
<1>2. (scene = "merge" => Merges!MergesHold)
       => MergesHold
  BY DEF MergesHold
<1> QED
  BY <1>1, <1>2, PTL

\* Cleanups and roundings that overlap imports and one another lose or count twice only
\* what came in between their two halves: the other connections are in one flow, which
\* counts them and has their time slots (cleanup_flows and reduce_precision of mongo.py).
THEOREM FlowsKept == Spec => []FlowsAreKept
<1>1. Spec => [](scene = "flows" => (Flows!TypeOK /\ Flows!NothingLost /\ Flows!FoldedOnce
       /\ Flows!CountsAreSightings /\ Flows!SlotsCoverSightings))
  <2>1. Flows!Spec => []Flows!TypeOK
    BY Flows!FlowTypeOK, FlowsAssumption
  <2>2. Flows!Spec => []Flows!NothingLost
    BY Flows!ConnectionsKept, FlowsAssumption
  <2>3. Flows!Spec => []Flows!FoldedOnce
    BY Flows!ConnectionsFoldedOnce, FlowsAssumption
  <2>4. Flows!Spec => []Flows!CountsAreSightings
    BY Flows!CountsSightings, FlowsAssumption
  <2>5. Flows!Spec => []Flows!SlotsCoverSightings
    BY Flows!SlotsCover, FlowsAssumption
  <2> QED
    BY <2>1, <2>2, <2>3, <2>4, <2>5, FlowsRun, PTL DEF Spec, Flows!Spec
<1>2. Spec => [](scene = "crossed" => (CrossedFlows!TypeOK /\ CrossedFlows!NothingLost /\ CrossedFlows!FoldedOnce
       /\ CrossedFlows!CountsAreSightings /\ CrossedFlows!SlotsCoverSightings))
  <2>1. CrossedFlows!Spec => []CrossedFlows!TypeOK
    BY CrossedFlows!FlowTypeOK, CrossedFlowsAssumption
  <2>2. CrossedFlows!Spec => []CrossedFlows!NothingLost
    BY CrossedFlows!ConnectionsKept, CrossedFlowsAssumption
  <2>3. CrossedFlows!Spec => []CrossedFlows!FoldedOnce
    BY CrossedFlows!ConnectionsFoldedOnce, CrossedFlowsAssumption
  <2>4. CrossedFlows!Spec => []CrossedFlows!CountsAreSightings
    BY CrossedFlows!CountsSightings, CrossedFlowsAssumption
  <2>5. CrossedFlows!Spec => []CrossedFlows!SlotsCoverSightings
    BY CrossedFlows!SlotsCover, CrossedFlowsAssumption
  <2> QED
    BY <2>1, <2>2, <2>3, <2>4, <2>5, CrossedFlowsRun, PTL DEF Spec, CrossedFlows!Spec
<1>3. /\ (scene = "flows" => (Flows!TypeOK /\ Flows!NothingLost /\ Flows!FoldedOnce
       /\ Flows!CountsAreSightings /\ Flows!SlotsCoverSightings))
       /\ (scene = "crossed" => (CrossedFlows!TypeOK /\ CrossedFlows!NothingLost /\ CrossedFlows!FoldedOnce
       /\ CrossedFlows!CountsAreSightings /\ CrossedFlows!SlotsCoverSightings))
       => FlowsAreKept
  BY DEF FlowsAreKept
<1> QED
  BY <1>1, <1>2, <1>3, PTL

\* No one is logged in without an event of the trail, and no attempt has two, whatever
\* fails and whoever dies (auth.py, audit_hook.py).
THEOREM LoginsInTrail == Spec => []LoginsAreRecorded
<1>1. Spec => [](scene = "logins" => (Logged!TypeOK /\ Logged!LoginsAreRecorded))
  <2>1. Logged!Spec => []Logged!TypeOK
    BY Logged!KindsHold, LoggedAssumption
  <2>2. Logged!Spec => []Logged!LoginsAreRecorded
    BY Logged!LoginsRecorded, LoggedAssumption
  <2> QED
    BY <2>1, <2>2, LoggedRun, PTL DEF Spec, Logged!Spec
<1>2. Spec => [](scene = "approval" => (Approved!TypeOK /\ Approved!LoginsAreRecorded))
  <2>1. Approved!Spec => []Approved!TypeOK
    BY Approved!KindsHold, ApprovedAssumption
  <2>2. Approved!Spec => []Approved!LoginsAreRecorded
    BY Approved!LoginsRecorded, ApprovedAssumption
  <2> QED
    BY <2>1, <2>2, ApprovedRun, PTL DEF Spec, Approved!Spec
<1>3. /\ (scene = "logins" => (Logged!TypeOK /\ Logged!LoginsAreRecorded))
       /\ (scene = "approval" => (Approved!TypeOK /\ Approved!LoginsAreRecorded))
       => LoginsAreRecorded
  BY DEF LoginsAreRecorded
<1> QED
  BY <1>1, <1>2, <1>3, PTL

\* A link lets one request in, only those who may are let in, and no more links are sent
\* than the limits and those that ask at once allow (auth.py, send_magic_link).
THEOREM LoginsEarn == Spec => []LoginsAreEarned
<1>1. Spec => [](scene = "logins" => Logged!LoginsAreEarned)
  <2>1. Logged!Spec => []Logged!LoginsAreEarned
    BY Logged!LoginsEarned, LoggedAssumption
  <2> QED
    BY <2>1, LoggedRun, PTL DEF Spec, Logged!Spec
<1>2. Spec => [](scene = "approval" => Approved!LoginsAreEarned)
  <2>1. Approved!Spec => []Approved!LoginsAreEarned
    BY Approved!LoginsEarned, ApprovedAssumption
  <2> QED
    BY <2>1, ApprovedRun, PTL DEF Spec, Approved!Spec
<1>3. Spec => [](scene = "asking" => (Asked!LoginsAreEarned /\ Asked!MailsAreBounded))
  <2>1. Asked!Spec => []Asked!LoginsAreEarned
    BY Asked!LoginsEarned, AskedAssumption
  <2>2. Asked!Spec => []Asked!MailsAreBounded
    BY Asked!MailsBounded, AskedAssumption
  <2> QED
    BY <2>1, <2>2, AskedRun, PTL DEF Spec, Asked!Spec
<1>4. /\ (scene = "logins" => Logged!LoginsAreEarned)
       /\ (scene = "approval" => Approved!LoginsAreEarned)
       /\ (scene = "asking" => (Asked!LoginsAreEarned /\ Asked!MailsAreBounded))
       => LoginsAreEarned
  BY DEF LoginsAreEarned
<1> QED
  BY <1>1, <1>2, <1>3, <1>4, PTL

=============================================================================
