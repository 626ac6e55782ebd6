----------------------------- MODULE ViewStore -----------------------------
(***************************************************************************)
(* Storing hosts into the view (MongoDBView.store_or_merge_host on top of    *)
(* DBView.merge_host).                                                      *)
(*                                                                          *)
(* The view is meant to have one document per address.  To store a host is  *)
(* to find the document of its address, insert the merge of both, and then  *)
(* remove the document that was found: three operations on the collection,  *)
(* with no transaction and no unique index, that interleave with those of   *)
(* the other processes storing hosts: the workers of db2view, scan2db with  *)
(* --update-view, the web application on an upload.                         *)
(*                                                                          *)
(* A document stands for the results merged into it; what merge_host_docs   *)
(* makes of their fields is the subject of HostMerge.                       *)
(***************************************************************************)
EXTENDS Naturals, FiniteSets

CONSTANTS Workers,       \* processes that store hosts
          Addrs,         \* host addresses
          Results,       \* scan results and passive records
          NoMerge,       \* whether calls may be made with --no-merge
          MaxCalls,      \* bound: how many calls are made in all
          MaxRefusals,   \* bound: inserts the server refuses
          MaxDeaths      \* bound: calls cut short by a death or an exception

ASSUME ViewAssumption ==
  /\ Addrs # {}
  /\ NoMerge \in BOOLEAN
  /\ MaxCalls \in Nat /\ MaxRefusals \in Nat /\ MaxDeaths \in Nat

VARIABLES
  docs,       \* the `views' collection
  pc,         \* the next database operation of each worker's call
  host,       \* the host being stored: its address, the results it merges
  found,      \* the document that merge_host found
  ids,        \* how many documents were ever inserted
  stored,     \* history: the results inserted for each address
  calls, refusals, deaths

viewVars == <<docs, pc, host, found, ids, stored, calls, refusals, deaths>>
counts == <<calls, refusals, deaths>>

Hosts == [addr : Addrs, of : SUBSET Results]
NoHost == [addr |-> CHOOSE a \in Addrs : TRUE, of |-> {}]
NoDoc == [id |-> 0, addr |-> NoHost.addr, of |-> {}]

Init ==
  /\ docs = {}
  /\ pc = [w \in Workers |-> "idle"]
  /\ host = [w \in Workers |-> NoHost]
  /\ found = [w \in Workers |-> NoDoc]
  /\ ids = 0
  /\ stored = [a \in Addrs |-> {}]
  /\ calls = 0 /\ refusals = 0 /\ deaths = 0

Goto(w, to) == pc' = [pc EXCEPT ![w] = to]

Busy(w) == pc[w] # "idle"

\* store_or_merge_host is called with host h, or with --no-merge, store_host.
Call(w, h) ==
  /\ pc[w] = "idle"
  /\ calls < MaxCalls
  /\ calls' = calls + 1
  /\ host' = [host EXCEPT ![w] = h]
  /\ \/ Goto(w, "find")
     \/ NoMerge /\ Goto(w, "store")
  /\ UNCHANGED <<docs, found, ids, stored, refusals, deaths>>

\* Slip: what is kept to be removed is the host, not the document found.
FindHost(w) ==
  /\ pc[w] = "find"
  /\ \/ \E d \in docs : /\ d.addr = host[w].addr
                        /\ found' = [found EXCEPT ![w] = host[w]]
                        /\ Goto(w, "store_merged")
     \/ /\ \A d \in docs : d.addr # host[w].addr
        /\ Goto(w, "store")
        /\ UNCHANGED found
  /\ UNCHANGED <<docs, host, ids, stored, counts>>

\* The first document of the address, if there is one.
Find(w) ==
  /\ pc[w] = "find"
  /\ \/ \E d \in docs : /\ d.addr = host[w].addr
                        /\ found' = [found EXCEPT ![w] = d]
                        /\ Goto(w, "store_merged")
     \/ /\ \A d \in docs : d.addr # host[w].addr
        /\ Goto(w, "store")
        /\ UNCHANGED found
  /\ UNCHANGED <<docs, host, ids, stored, counts>>

\* insert_one of a document for the worker's address.
Insert(w, results) ==
  /\ ids' = ids + 1
  /\ docs' = docs \cup {[id |-> ids + 1, addr |-> host[w].addr, of |-> results]}
  /\ stored' = [stored EXCEPT ![host[w].addr] = @ \cup host[w].of]
  /\ UNCHANGED <<host, found, counts>>

\* Slip: the document found is stored back, the host is not merged in.
MergedUnread(w) == found[w].of

\* merge_host_docs(rec, host)
Merged(w) == found[w].of \cup host[w].of

StoreMerged(w) ==
  /\ pc[w] = "store_merged"
  /\ Insert(w, Merged(w))
  /\ Goto(w, "remove")

\* Slip: the failure of store_host goes unnoticed, and the old document goes.
MergedRefusedRemoves(w) ==
  /\ pc[w] = "store_merged"
  /\ refusals < MaxRefusals
  /\ refusals' = refusals + 1
  /\ Goto(w, "remove")
  /\ UNCHANGED <<docs, host, found, ids, stored, calls, deaths>>

\* The server refuses the merged document (it is too large, say): store_host
\* returns None, nothing is removed, and the caller stores the host alone.
MergedRefused(w) ==
  /\ pc[w] = "store_merged"
  /\ refusals < MaxRefusals
  /\ refusals' = refusals + 1
  /\ Goto(w, "store")
  /\ UNCHANGED <<docs, host, found, ids, stored, calls, deaths>>

\* Slip: remove by address.
RemoveAddr(w) ==
  /\ pc[w] = "remove"
  /\ docs' = {d \in docs : d.addr # host[w].addr \/ d.id = ids}
  /\ Goto(w, "idle")
  /\ UNCHANGED <<host, found, ids, stored, counts>>

\* Slip: nothing is removed, as when the document found has lost its _id.
RemoveNone(w) ==
  /\ pc[w] = "remove"
  /\ Goto(w, "idle")
  /\ UNCHANGED <<docs, host, found, ids, stored, counts>>

\* delete_one by _id: another worker may have removed that document already.
Remove(w) ==
  /\ pc[w] = "remove"
  /\ docs' = {d \in docs : d.id # found[w].id}
  /\ Goto(w, "idle")
  /\ UNCHANGED <<host, found, ids, stored, counts>>

Store(w) ==
  /\ pc[w] = "store"
  /\ Insert(w, host[w].of)
  /\ Goto(w, "idle")

StoreRefused(w) ==
  /\ pc[w] = "store"
  /\ refusals < MaxRefusals
  /\ refusals' = refusals + 1
  /\ Goto(w, "idle")
  /\ UNCHANGED <<docs, host, found, ids, stored, calls, deaths>>

\* The process dies or an operation raises: the rest of the call is not run.
Die(w) ==
  /\ Busy(w)
  /\ deaths < MaxDeaths
  /\ deaths' = deaths + 1
  /\ Goto(w, "idle")
  /\ UNCHANGED <<docs, host, found, ids, stored, calls, refusals>>

merge_host(w) == Find(w) \/ StoreMerged(w) \/ MergedRefused(w) \/ Remove(w)
store_host(w) == Store(w) \/ StoreRefused(w)

Step(w) == merge_host(w) \/ store_host(w) \/ Die(w)

Next == \E w \in Workers : \/ \E h \in Hosts : Call(w, h)
                           \/ Step(w)

Spec == Init /\ [][Next]_viewVars

\* Callers that keep the calls on one address apart, as those of one db2view are meant to.
Free(a) == \A v \in Workers : Busy(v) => host[v].addr # a
SerialNext == \E w \in Workers : \/ \E h \in Hosts : Free(h.addr) /\ Call(w, h)
                                 \/ Step(w)
SerialSpec == Init /\ [][SerialNext]_viewVars

-----------------------------------------------------------------------------
(* Correctness                                                             *)

Docs == [id : Nat, addr : Addrs, of : SUBSET Results]

\* Every variable holds a value of its kind; identifiers are not reused.
TypeOK ==
  /\ docs \subseteq Docs
  /\ pc \in [Workers -> {"idle", "find", "store_merged", "remove", "store"}]
  /\ host \in [Workers -> Hosts]
  /\ found \in [Workers -> Docs]
  /\ ids \in Nat
  /\ \A d \in docs : d.id <= ids
  /\ stored \in [Addrs -> SUBSET Results]
  /\ calls \in 0..MaxCalls /\ refusals \in 0..MaxRefusals /\ deaths \in 0..MaxDeaths

DocsOf(a) == {d \in docs : d.addr = a}

\* The results the view accounts for, whichever document they are in.
known == [a \in Addrs |-> UNION {d.of : d \in DocsOf(a)}]

\* Whatever the collection took in for an address is still in a document of
\* that address: no interleaving of merge_host by several processes, no
\* refused insert and no death makes merge_host drop the results of another.
NothingForgotten == \A a \in Addrs : stored[a] \subseteq known[a]

\* The document that is about to be removed is covered: a newer document of
\* its address has all its results.  This is what makes the removal safe.
Covered(w) ==
  \E d \in DocsOf(host[w].addr) : d.id > found[w].id /\ found[w].of \subseteq d.of

RemovalsAreCovered == \A w \in Workers : pc[w] = "remove" => Covered(w)

\* Calls that never overlap on an address, as those of one db2view, leave one
\* document of it, and one more at most for each refused insert and each call
\* cut short; a call in progress may show one more.
OneDocPerAddress ==
  \A a \in Addrs :
    Cardinality(DocsOf(a)) <= 1 + refusals + deaths
      + Cardinality({w \in Workers : pc[w] = "remove" /\ host[w].addr = a})

\* The collection, read as the results known of each address, behaves as the
\* indivisible register of HostView, though merge_host is three operations.
View == INSTANCE HostView
ImplementsHostView == View!HSpec
=============================================================================
