-------------------------- MODULE ViewBuildProofs --------------------------
(***************************************************************************)
(* Proofs about the view store and db2view, which stores into it.           *)
(*                                                                          *)
(* The store, for any number of processes, addresses, results, calls,       *)
(* refused inserts and deaths: nothing that was stored is ever forgotten,   *)
(* and the collection implements the register of HostView.  A process       *)
(* removes the document it found long after it read it, when others may     *)
(* have replaced that document, or the one that replaced it.  The argument  *)
(* orders documents by age: the document that a process is about to remove  *)
(* is covered by a newer one, and when the covering one is removed first,   *)
(* it was covered by a newer one still.                                     *)
(*                                                                          *)
(* The build, for any sources, records and number of builds too: one that   *)
(* ends well is complete, no two workers ever hold one address, and the     *)
(* view keeps one document of each.  The argument follows the address       *)
(* being gathered through the sources: the usable records a source has      *)
(* handed out are at or below it, those to come at or above it.  So what is *)
(* gathered is all there is of the address when it is yielded, and an       *)
(* address is yielded once.                                                 *)
(***************************************************************************)
EXTENDS ViewBuild, FiniteSetTheorems, SequenceTheorems, WellFoundedInduction, TLAPS

-----------------------------------------------------------------------------
(* The store                                                               *)

LEMMA TypeInit == Init => TypeOK
<1> SUFFICES ASSUME Init PROVE TypeOK
  OBVIOUS
<1>1. NoHost \in Hosts
  BY ViewAssumption DEF NoHost, Hosts
<1>2. NoDoc \in Docs
  BY <1>1 DEF NoDoc, Docs, Hosts
<1> QED
  BY <1>1, <1>2, ViewAssumption DEF Init, TypeOK

\* What an insert does to the collection is well typed.
LEMMA InsertType ==
  ASSUME TypeOK, NEW w \in Workers, NEW new \in SUBSET Results, Insert(w, new)
  PROVE  /\ docs' \subseteq Docs
         /\ ids' \in Nat
         /\ \A d \in docs' : d.id <= ids'
         /\ stored' \in [Addrs -> SUBSET Results]
<1>1. [id |-> ids + 1, addr |-> host[w].addr, of |-> new] \in Docs
  BY DEF TypeOK, Docs, Hosts
<1>2. \A d \in docs : d.id \in Nat /\ d.id <= ids + 1
  BY DEF TypeOK, Docs
<1>3. docs' \subseteq Docs /\ ids' \in Nat
  BY <1>1 DEF TypeOK, Insert
<1>4. \A d \in docs' : d.id <= ids'
  BY <1>2 DEF TypeOK, Insert
<1>5. stored' \in [Addrs -> SUBSET Results]
  BY DEF TypeOK, Insert, Hosts
<1> QED
  BY <1>3, <1>4, <1>5

LEMMA TypeStep == TypeOK /\ [Next]_viewVars => TypeOK'
<1> SUFFICES ASSUME TypeOK, [Next]_viewVars PROVE TypeOK'
  OBVIOUS
<1>1. CASE UNCHANGED viewVars
  BY <1>1 DEF viewVars, TypeOK
<1>2. ASSUME NEW w \in Workers, NEW h \in Hosts, Call(w, h) PROVE TypeOK'
  BY ViewAssumption, <1>2 DEF TypeOK, Call, Goto
<1>3. ASSUME NEW w \in Workers, Find(w) PROVE TypeOK'
  BY <1>3 DEF TypeOK, Find, Goto, counts
<1>4. ASSUME NEW w \in Workers, StoreMerged(w) PROVE TypeOK'
  <2>1. Merged(w) \in SUBSET Results
    BY DEF TypeOK, Merged, Docs, Hosts
  <2>2. Insert(w, Merged(w))
    BY <1>4 DEF StoreMerged
  <2> QED
    BY <1>4, <2>1, <2>2, InsertType DEF TypeOK, StoreMerged, Insert, Goto, counts
<1>5. ASSUME NEW w \in Workers, Store(w) PROVE TypeOK'
  <2>1. host[w].of \in SUBSET Results
    BY DEF TypeOK, Hosts
  <2>2. Insert(w, host[w].of)
    BY <1>5 DEF Store
  <2> QED
    BY <1>5, <2>1, <2>2, InsertType DEF TypeOK, Store, Insert, Goto, counts
<1>6. ASSUME NEW w \in Workers, MergedRefused(w) PROVE TypeOK'
  BY ViewAssumption, <1>6 DEF TypeOK, MergedRefused, Goto
<1>7. ASSUME NEW w \in Workers, StoreRefused(w) PROVE TypeOK'
  BY ViewAssumption, <1>7 DEF TypeOK, StoreRefused, Goto
<1>8. ASSUME NEW w \in Workers, Remove(w) PROVE TypeOK'
  BY <1>8 DEF TypeOK, Remove, Goto, counts
<1>9. ASSUME NEW w \in Workers, Die(w) PROVE TypeOK'
  BY ViewAssumption, <1>9 DEF TypeOK, Die, Goto
<1> QED
  BY <1>1, <1>2, <1>3, <1>4, <1>5, <1>6, <1>7, <1>8, <1>9
  DEF Next, Step, merge_host, store_host

\* The collection and the state of every call stay within their kinds, and
\* no document has an identifier that a later insert may take.
THEOREM TypeCorrect == Spec => []TypeOK
<1>1. QED
  BY TypeInit, TypeStep, PTL DEF Spec

-----------------------------------------------------------------------------
(* The inductive invariant                                                 *)

DistinctIds == \A d, e \in docs : d.id = e.id => d = e

\* What a worker found is a document of the address it works on, and if it is
\* still there it has not changed: documents are only inserted and removed.
FoundIsADoc ==
  \A w \in Workers : pc[w] \in {"store_merged", "remove"} =>
    /\ found[w].addr = host[w].addr
    /\ found[w].id <= ids
    /\ \A d \in docs : d.id = found[w].id => d = found[w]

IInv ==
  /\ TypeOK
  /\ DistinctIds
  /\ FoundIsADoc
  /\ RemovalsAreCovered
  /\ NothingForgotten

\* The results known of an address, one by one.
LEMMA KnownIs ==
  ASSUME NEW a \in Addrs, NEW r
  PROVE  r \in known[a] <=> \E d \in docs : d.addr = a /\ r \in d.of
  BY DEF known, DocsOf

LEMMA KnownIsNext ==
  ASSUME NEW a \in Addrs, NEW r
  PROVE  r \in known'[a] <=> \E d \in docs' : d.addr = a /\ r \in d.of
  BY DEF known, DocsOf

\* An insert adds its results to what is known of its address.
LEMMA InsertAdds ==
  ASSUME TypeOK, NEW w \in Workers, NEW new \in SUBSET Results, Insert(w, new)
  PROVE  known' = [known EXCEPT ![host[w].addr] = @ \cup new]
<1> DEFINE doc == [id |-> ids + 1, addr |-> host[w].addr, of |-> new]
<1>1. docs' = docs \cup {doc} /\ doc.addr = host[w].addr /\ doc.of = new
  BY DEF Insert
<1> HIDE DEF doc
<1>2. ASSUME NEW a \in Addrs, NEW r
      PROVE  r \in known'[a] <=> r \in known[a] \/ (a = host[w].addr /\ r \in new)
  BY <1>1, KnownIs, KnownIsNext
<1>3. ASSUME NEW a \in Addrs
      PROVE  known'[a] = IF a = host[w].addr THEN known[a] \cup new ELSE known[a]
  BY <1>2
<1>4. known = [a \in Addrs |-> known[a]] /\ known' = [a \in Addrs |-> known'[a]]
  BY DEF known
<1> QED
  BY <1>3, <1>4 DEF known

\* A removal takes nothing away from what is known.
LEMMA RemoveKeeps ==
  ASSUME IInv, NEW w \in Workers, Remove(w)
  PROVE  known' = known
<1>1. PICK e \in docs : /\ e.addr = host[w].addr
                        /\ e.id > found[w].id
                        /\ found[w].of \subseteq e.of
  BY DEF IInv, RemovalsAreCovered, Covered, DocsOf, Remove
<1>2. docs' = {d \in docs : d.id # found[w].id}
  BY DEF Remove
<1>3. e \in docs'
  BY <1>1, <1>2 DEF IInv, TypeOK, Docs
<1>4. \A d \in docs : d.id = found[w].id => d.addr = e.addr /\ d.of \subseteq e.of
  BY <1>1 DEF IInv, FoundIsADoc, Remove
<1>5. ASSUME NEW a \in Addrs, NEW r
      PROVE  r \in known'[a] <=> r \in known[a]
  BY <1>2, <1>3, <1>4, KnownIs, KnownIsNext
<1>6. \A a \in Addrs : known'[a] = known[a]
  BY <1>5
<1> QED
  BY <1>6 DEF known

\* A step is an insert by a worker that has found its document or stores the
\* host alone, a removal, or leaves the collection alone.
LEMMA StepKinds ==
  ASSUME [Next]_viewVars
  PROVE  \/ UNCHANGED viewVars
         \/ \E w \in Workers : \/ \E h \in Hosts : Call(w, h)
                               \/ Find(w)
                               \/ StoreMerged(w)
                               \/ Remove(w)
                               \/ Store(w)
                               \/ MergedRefused(w) \/ StoreRefused(w) \/ Die(w)
  BY DEF Next, Step, merge_host, store_host

LEMMA InitInv == Init => IInv
<1> SUFFICES ASSUME Init PROVE IInv
  OBVIOUS
<1>1. NothingForgotten
  BY DEF Init, NothingForgotten
<1> QED
  BY <1>1, TypeInit
  DEF Init, IInv, DistinctIds, FoundIsADoc, RemovalsAreCovered

LEMMA InsertInv ==
  ASSUME IInv, TypeOK', NEW w \in Workers, NEW new \in SUBSET Results, Insert(w, new),
         host[w].of \subseteq new,
         \/ Goto(w, "idle")
         \/ pc[w] = "store_merged" /\ found[w].of \subseteq new /\ Goto(w, "remove")
  PROVE  IInv'
<1> DEFINE doc == [id |-> ids + 1, addr |-> host[w].addr, of |-> new]
<1>1. /\ docs' = docs \cup {doc} /\ ids' = ids + 1
      /\ doc.id = ids + 1 /\ doc.addr = host[w].addr /\ doc.of = new
      /\ UNCHANGED <<host, found>>
      /\ stored' = [stored EXCEPT ![host[w].addr] = @ \cup host[w].of]
  BY DEF Insert
<1> HIDE DEF doc
<1>2. ids \in Nat /\ \A d \in docs : d.id \in Nat /\ d.id <= ids
  BY DEF IInv, TypeOK, Docs
<1>3. pc' \in [Workers -> {"idle", "find", "store_merged", "remove", "store"}]
      /\ \A v \in Workers : v # w => pc'[v] = pc[v]
  BY DEF IInv, TypeOK, Goto
<1>4. pc'[w] \in {"idle", "remove"} /\ (pc'[w] = "remove" =>
                                   pc[w] = "store_merged" /\ found[w].of \subseteq new)
  BY DEF IInv, TypeOK, Goto
<1>5. \A v \in Workers : found[v].id \in Nat
  BY DEF IInv, TypeOK, Docs
<1>6. DistinctIds'
  BY <1>1, <1>2 DEF IInv, DistinctIds
<1>7. \A v \in Workers : pc'[v] \in {"store_merged", "remove"}
                           => pc[v] \in {"store_merged", "remove"}
  BY <1>3, <1>4
<1>8. FoundIsADoc'
  <2> SUFFICES ASSUME NEW v \in Workers, pc'[v] \in {"store_merged", "remove"}
               PROVE  /\ found[v].addr = host[v].addr
                      /\ found[v].id <= ids + 1
                      /\ \A d \in docs \cup {doc} : d.id = found[v].id => d = found[v]
    BY <1>1 DEF FoundIsADoc
  <2>1. /\ found[v].addr = host[v].addr
        /\ found[v].id <= ids
        /\ \A d \in docs : d.id = found[v].id => d = found[v]
    BY <1>7 DEF IInv, FoundIsADoc
  <2> QED
    BY <2>1, <1>1, <1>2, <1>5
<1>9. RemovalsAreCovered'
  <2> SUFFICES ASSUME NEW v \in Workers, pc'[v] = "remove"
               PROVE  \E d \in docs' : /\ d.addr = host[v].addr
                                       /\ d.id > found[v].id
                                       /\ found[v].of \subseteq d.of
    BY <1>1 DEF RemovalsAreCovered, Covered, DocsOf
  <2>1. CASE v = w
    <3>1. found[w].id <= ids /\ found[w].of \subseteq new
      BY <2>1, <1>4 DEF IInv, FoundIsADoc
    <3> QED
      BY <2>1, <3>1, <1>1, <1>2, <1>5
  <2>2. CASE v # w
    BY <2>2, <1>1, <1>3 DEF IInv, RemovalsAreCovered, Covered, DocsOf
  <2> QED
    BY <2>1, <2>2
<1>10. NothingForgotten'
  <2>1. known' = [known EXCEPT ![host[w].addr] = @ \cup new]
    BY InsertAdds DEF IInv
  <2>2. known \in [Addrs -> {known[a] : a \in Addrs}]
    BY DEF known
  <2> SUFFICES ASSUME NEW a \in Addrs PROVE stored'[a] \subseteq known'[a]
    BY DEF NothingForgotten
  <2>3. stored[a] \subseteq known[a]
    BY DEF IInv, NothingForgotten
  <2>4. stored \in [Addrs -> SUBSET Results]
    BY DEF IInv, TypeOK
  <2>5. CASE a = host[w].addr
    <3>1. stored'[a] = stored[a] \cup host[w].of
      BY <1>1, <2>4, <2>5
    <3>2. known'[a] = known[a] \cup new
      BY <2>1, <2>2, <2>5
    <3> QED
      BY <3>1, <3>2, <2>3
  <2>6. CASE a # host[w].addr
    BY <2>6, <2>1, <2>2, <2>3, <2>4, <1>1
  <2> QED
    BY <2>5, <2>6
<1> QED
  BY <1>6, <1>8, <1>9, <1>10 DEF IInv

LEMMA RemoveInv ==
  ASSUME IInv, TypeOK', NEW w \in Workers, Remove(w)
  PROVE  IInv'
<1>1. /\ docs' = {d \in docs : d.id # found[w].id}
      /\ pc[w] = "remove"
      /\ UNCHANGED <<host, found, ids, stored>>
  BY DEF Remove
<1>2. \A v \in Workers : pc'[v] # "idle" => v # w /\ pc'[v] = pc[v]
  BY DEF Remove, Goto, IInv, TypeOK
<1>3. DistinctIds'
  BY <1>1 DEF IInv, DistinctIds
<1>4. FoundIsADoc'
  BY <1>1, <1>2 DEF IInv, FoundIsADoc
<1>5. RemovalsAreCovered'
  <2> SUFFICES ASSUME NEW v \in Workers, pc'[v] = "remove"
               PROVE  \E d \in docs' : /\ d.addr = host[v].addr
                                       /\ d.id > found[v].id
                                       /\ found[v].of \subseteq d.of
    BY <1>1 DEF RemovalsAreCovered, Covered, DocsOf
  <2>1. PICK d \in docs : /\ d.addr = host[v].addr
                          /\ d.id > found[v].id
                          /\ found[v].of \subseteq d.of
    BY <1>2 DEF IInv, RemovalsAreCovered, Covered, DocsOf
  <2>2. PICK e \in docs : /\ e.addr = host[w].addr
                          /\ e.id > found[w].id
                          /\ found[w].of \subseteq e.of
    BY <1>1 DEF IInv, RemovalsAreCovered, Covered, DocsOf
  <2>3. d.id \in Nat /\ e.id \in Nat /\ found[v].id \in Nat /\ found[w].id \in Nat
    BY DEF IInv, TypeOK, Docs
  <2>4. CASE d.id # found[w].id
    BY <2>1, <2>4, <1>1
  <2>5. CASE d.id = found[w].id
    <3>1. d = found[w] /\ found[w].addr = host[w].addr
      BY <2>5, <1>1 DEF IInv, FoundIsADoc
    <3>2. e \in docs' /\ e.id > found[v].id
      BY <2>1, <2>2, <2>3, <2>5, <1>1
    <3> QED
      BY <2>1, <2>2, <3>1, <3>2
  <2> QED
    BY <2>4, <2>5
<1>6. NothingForgotten'
  BY <1>1, RemoveKeeps DEF IInv, NothingForgotten
<1> QED
  BY <1>3, <1>4, <1>5, <1>6 DEF IInv

LEMMA FindInv ==
  ASSUME IInv, TypeOK', NEW w \in Workers, Find(w)
  PROVE  IInv'
<1>1. UNCHANGED <<docs, host, ids, stored>>
  BY DEF Find
<1>2. /\ \A v \in Workers : v # w => pc'[v] = pc[v] /\ found'[v] = found[v]
      /\ pc'[w] # "remove"
      /\ pc'[w] = "store_merged" => found'[w] \in docs /\ found'[w].addr = host[w].addr
  BY DEF Find, Goto, IInv, TypeOK
<1>3. DistinctIds' /\ known' = known
  BY <1>1 DEF IInv, DistinctIds, known, DocsOf
<1>4. FoundIsADoc'
  BY <1>1, <1>2 DEF IInv, FoundIsADoc, DistinctIds, TypeOK
<1>5. RemovalsAreCovered'
  BY <1>1, <1>2 DEF IInv, RemovalsAreCovered, Covered, DocsOf
<1> QED
  BY <1>1, <1>3, <1>4, <1>5 DEF IInv, NothingForgotten

\* The other steps change neither the collection nor what a call has found.
LEMMA OtherInv ==
  ASSUME IInv, TypeOK', UNCHANGED <<docs, found, ids, stored>>,
         \A v \in Workers : pc'[v] \in {"store_merged", "remove"} =>
                              pc'[v] = pc[v] /\ host'[v] = host[v]
  PROVE  IInv'
<1>1. known' = known
  BY DEF known, DocsOf
<1>2. FoundIsADoc'
  BY DEF IInv, FoundIsADoc
<1>3. RemovalsAreCovered'
  BY DEF IInv, RemovalsAreCovered, Covered, DocsOf
<1> QED
  BY <1>1, <1>2, <1>3 DEF IInv, DistinctIds, NothingForgotten

LEMMA StepInv == IInv /\ [Next]_viewVars => IInv'
<1> SUFFICES ASSUME IInv, [Next]_viewVars PROVE IInv'
  OBVIOUS
<1>0. TypeOK'
  BY TypeStep DEF IInv
<1>1. CASE UNCHANGED viewVars
  BY <1>0, <1>1, OtherInv DEF viewVars
<1>2. ASSUME NEW w \in Workers, NEW h \in Hosts, Call(w, h) PROVE IInv'
  <2>1. \A v \in Workers : pc'[v] \in {"store_merged", "remove"} =>
                             pc'[v] = pc[v] /\ host'[v] = host[v]
    BY <1>2 DEF Call, Goto, IInv, TypeOK
  <2> QED
    BY <1>0, <1>2, <2>1, OtherInv DEF Call
<1>3. ASSUME NEW w \in Workers, Find(w) PROVE IInv'
  BY <1>0, <1>3, FindInv
<1>4. ASSUME NEW w \in Workers, StoreMerged(w) PROVE IInv'
  <2>1. Merged(w) \in SUBSET Results
    BY DEF IInv, TypeOK, Merged, Docs, Hosts
  <2> QED
    BY <1>0, <1>4, <2>1, InsertInv DEF StoreMerged, Merged
<1>5. ASSUME NEW w \in Workers, Store(w) PROVE IInv'
  <2>1. host[w].of \in SUBSET Results
    BY DEF IInv, TypeOK, Hosts
  <2> QED
    BY <1>0, <1>5, <2>1, InsertInv DEF Store
<1>6. ASSUME NEW w \in Workers, Remove(w) PROVE IInv'
  BY <1>0, <1>6, RemoveInv
<1>7. ASSUME NEW w \in Workers, MergedRefused(w) \/ StoreRefused(w) \/ Die(w)
      PROVE  IInv'
  <2>1. UNCHANGED <<docs, host, found, ids, stored>>
    BY <1>7 DEF MergedRefused, StoreRefused, Die
  <2>2. \A v \in Workers : pc'[v] \in {"store_merged", "remove"} => pc'[v] = pc[v]
    BY <1>7 DEF MergedRefused, StoreRefused, Die, Goto, IInv, TypeOK
  <2> QED
    BY <1>0, <2>1, <2>2, OtherInv
<1> QED
  BY <1>1, <1>2, <1>3, <1>4, <1>5, <1>6, <1>7, StepKinds

THEOREM InvHolds == Spec => []IInv
<1>1. QED
  BY InitInv, StepInv, PTL DEF Spec

\* A document is only ever removed under cover of a newer one that has all
\* its results, however many processes replace the documents of an address.
THEOREM RemovalIsSafe == Spec => []RemovalsAreCovered
<1>1. IInv => RemovalsAreCovered
  BY DEF IInv
<1> QED
  BY <1>1, InvHolds, PTL

\* What the view took in of a host is never forgotten.
THEOREM NeverForgets == Spec => []NothingForgotten
<1>1. IInv => NothingForgotten
  BY DEF IInv
<1> QED
  BY <1>1, InvHolds, PTL

-----------------------------------------------------------------------------
(* The store implements HostView                                           *)

LEMMA InitMaps == Init => View!HInit
  BY DEF Init, View!HInit, known, DocsOf

LEMMA InsertMaps ==
  ASSUME IInv, NEW w \in Workers, NEW new \in SUBSET Results, Insert(w, new)
  PROVE  View!HNext
<1>1. known' = [known EXCEPT ![host[w].addr] = @ \cup new]
  BY InsertAdds DEF IInv
<1>2. host[w].addr \in Addrs
  BY DEF IInv, TypeOK, Hosts
<1> QED
  BY <1>1, <1>2 DEF View!HNext, View!Add

\* An insert is an addition to the register, and every other step a stutter:
\* the removal of a document is one because the removal is covered.
LEMMA StepMaps == IInv /\ [Next]_viewVars => [View!HNext]_known
<1> SUFFICES ASSUME IInv, [Next]_viewVars PROVE View!HNext \/ known' = known
  OBVIOUS
<1>1. docs' = docs => known' = known
  BY DEF known, DocsOf
<1>2. ASSUME NEW w \in Workers, StoreMerged(w) PROVE View!HNext
  <2>1. Merged(w) \in SUBSET Results
    BY DEF IInv, TypeOK, Merged, Docs, Hosts
  <2> QED
    BY <1>2, <2>1, InsertMaps DEF StoreMerged
<1>3. ASSUME NEW w \in Workers, Store(w) PROVE View!HNext
  <2>1. host[w].of \in SUBSET Results
    BY DEF IInv, TypeOK, Hosts
  <2> QED
    BY <1>3, <2>1, InsertMaps DEF Store
<1>4. ASSUME NEW w \in Workers, Remove(w) PROVE known' = known
  BY <1>4, RemoveKeeps
<1>5. CASE docs' = docs
  BY <1>1, <1>5
<1>6. \/ docs' = docs
      \/ \E w \in Workers : StoreMerged(w) \/ Store(w) \/ Remove(w)
  BY StepKinds
  DEF viewVars, Call, Find, MergedRefused, StoreRefused, Die
<1> QED
  BY <1>2, <1>3, <1>4, <1>5, <1>6

\* Read as the results known of each address, the collection is the register
\* of HostView: storing a host takes effect in one step, and takes nothing
\* away from anyone.
THEOREM StoreImplementsView == Spec => ImplementsHostView
<1>1. Spec => View!HInit /\ [][View!HNext]_known
  BY InitMaps, StepMaps, InvHolds, PTL DEF Spec
<1> QED
  BY <1>1 DEF ImplementsHostView, View!HSpec

-----------------------------------------------------------------------------
(* One document per address                                                *)

\* The documents of an address in a collection, and the calls that are about to
\* remove one of them.
Of(D, a) == {d \in D : d.addr = a}
Removing(p, h, a) == {w \in Workers : p[w] = "remove" /\ h[w].addr = a}

\* Nobody works on the address of a call in progress.
Alone == \A v, w \in Workers : Busy(v) /\ Busy(w) /\ host[v].addr = host[w].addr => v = w

\* So the document a call has found stays until the call removes it, and a
\* call that stores a host alone has found none, or was refused.
FoundIsThere == \A w \in Workers : pc[w] \in {"store_merged", "remove"} => found[w] \in docs
RoomToStore ==
  \A w \in Workers :
    pc[w] = "store" => Cardinality(Of(docs, host[w].addr)) <= refusals + deaths

OneInv == IInv /\ Alone /\ FoundIsThere /\ IsFiniteSet(docs) /\ RoomToStore /\ OneDocPerAddress

\* A step of a call leaves the other calls and their addresses alone.
OthersStand(w) ==
  \A v \in Workers \ {w} : pc'[v] = pc[v] /\ host'[v] = host[v] /\ found'[v] = found[v]

\* The documents of an address are counted, and those removing one of an
\* address where a call is in progress are that call or nobody.
LEMMA DocsAreCounted ==
  ASSUME IsFiniteSet(docs), NEW a
  PROVE  IsFiniteSet(Of(docs, a)) /\ Cardinality(Of(docs, a)) \in Nat
<1>1. Of(docs, a) \in SUBSET docs
  BY DEF Of
<1> QED
  BY <1>1, FS_Subset, FS_CardinalityType

LEMMA RemoversAreFew ==
  ASSUME Alone, NEW a
  PROVE  Cardinality(Removing(pc, host, a)) \in {0, 1}
<1>1. CASE Removing(pc, host, a) = {}
  BY <1>1, FS_EmptySet
<1>2. ASSUME NEW w \in Removing(pc, host, a) PROVE Removing(pc, host, a) = {w}
  BY <1>2 DEF Alone, Removing, Busy
<1> QED
  BY <1>1, <1>2, FS_Singleton

LEMMA RemoverIsAlone ==
  ASSUME Alone, NEW w \in Workers, Busy(w)
  PROVE  /\ pc[w] = "remove" => Cardinality(Removing(pc, host, host[w].addr)) = 1
         /\ pc[w] # "remove" => Cardinality(Removing(pc, host, host[w].addr)) = 0
<1>1. \A v \in Removing(pc, host, host[w].addr) : v = w
  BY DEF Alone, Removing, Busy
<1>2. CASE pc[w] = "remove"
  <2>1. Removing(pc, host, host[w].addr) = {w}
    BY <1>1, <1>2 DEF Removing
  <2> QED
    BY <1>2, <2>1, FS_Singleton
<1>3. CASE pc[w] # "remove"
  <2>1. Removing(pc, host, host[w].addr) = {}
    BY <1>1, <1>3 DEF Removing
  <2> QED
    BY <1>3, <2>1, FS_EmptySet
<1> QED
  BY <1>2, <1>3

LEMMA RemoverIsAloneNext ==
  ASSUME Alone, NEW w \in Workers, Busy(w), OthersStand(w), host' = host
  PROVE  /\ pc'[w] = "remove" => Cardinality(Removing(pc', host', host[w].addr)) = 1
         /\ pc'[w] # "remove" => Cardinality(Removing(pc', host', host[w].addr)) = 0
<1>1. \A v \in Removing(pc', host', host[w].addr) : v = w
  BY DEF Alone, Removing, Busy, OthersStand
<1>2. CASE pc'[w] = "remove"
  <2>1. Removing(pc', host', host[w].addr) = {w}
    BY <1>1, <1>2 DEF Removing
  <2> QED
    BY <1>2, <2>1, FS_Singleton
<1>3. CASE pc'[w] # "remove"
  <2>1. Removing(pc', host', host[w].addr) = {}
    BY <1>1, <1>3 DEF Removing
  <2> QED
    BY <1>3, <2>1, FS_EmptySet
<1> QED
  BY <1>2, <1>3

\* The bound of another address stands.
LEMMA ElsewhereStands ==
  ASSUME NEW w \in Workers, OthersStand(w), host' = host, NEW a, a # host[w].addr
  PROVE  Removing(pc', host', a) = Removing(pc, host, a)
BY DEF OthersStand, Removing

LEMMA BoundGrows ==
  \A x, c, r, d, s, e \in Nat : x <= 1 + r + d + c /\ r + d <= s + e => x <= 1 + s + e + c
OBVIOUS

\* A step of a call that is in progress keeps the invariant, if it keeps what
\* there is to keep of its own address.
LEMMA CallKeepsOne ==
  ASSUME OneInv, IInv', NEW w \in Workers, Busy(w), OthersStand(w), host' = host,
         IsFiniteSet(docs'),
         refusals + deaths <= refusals' + deaths',
         refusals \in Nat, deaths \in Nat, refusals' \in Nat, deaths' \in Nat,
         \A a \in Addrs \ {host[w].addr} : Of(docs', a) = Of(docs, a),
         pc'[w] \in {"store_merged", "remove"} => found'[w] \in docs',
         pc'[w] = "store" =>
           Cardinality(Of(docs', host[w].addr)) <= refusals' + deaths',
         pc'[w] = "remove" =>
           Cardinality(Of(docs', host[w].addr)) <= 2 + refusals' + deaths',
         pc'[w] # "remove" =>
           Cardinality(Of(docs', host[w].addr)) <= 1 + refusals' + deaths'
  PROVE  OneInv'
<1>0. \A v \in Workers : host[v].addr \in Addrs
  BY DEF OneInv, IInv, TypeOK, Hosts
<1>1. Alone'
  BY DEF OneInv, Alone, Busy, OthersStand
<1>2. FoundIsThere'
  <2> SUFFICES ASSUME NEW v \in Workers \ {w}, pc[v] \in {"store_merged", "remove"}
               PROVE  found[v] \in docs'
    BY DEF FoundIsThere, OthersStand
  <2>1. found[v] \in docs /\ found[v].addr = host[v].addr /\ host[v].addr # host[w].addr
    BY DEF OneInv, IInv, FoundIsADoc, FoundIsThere, Alone, Busy
  <2> QED
    BY <1>0, <2>1 DEF Of
<1>3. RoomToStore'
  <2> SUFFICES ASSUME NEW v \in Workers \ {w}, pc[v] = "store"
               PROVE  Cardinality(Of(docs', host[v].addr)) <= refusals' + deaths'
    BY DEF RoomToStore, OthersStand
  <2>1. host[v].addr # host[w].addr
    BY DEF OneInv, Alone, Busy
  <2>2. Cardinality(Of(docs, host[v].addr)) <= refusals + deaths
    BY DEF OneInv, RoomToStore
  <2>3. Cardinality(Of(docs, host[v].addr)) \in Nat
    BY DocsAreCounted DEF OneInv
  <2>4. Of(docs', host[v].addr) = Of(docs, host[v].addr)
    BY <1>0, <2>1
  <2> QED
    BY <2>2, <2>3, <2>4
<1>4. OneDocPerAddress'
  <2> SUFFICES ASSUME NEW a \in Addrs
               PROVE  Cardinality(Of(docs', a))
                        <= 1 + refusals' + deaths' + Cardinality(Removing(pc', host', a))
    BY DEF OneDocPerAddress, Removing, DocsOf, Of
  <2>1. CASE a = host[w].addr
    BY <2>1, RemoverIsAloneNext DEF OneInv
  <2>2. CASE a # host[w].addr
    <3>1. Cardinality(Of(docs, a)) <= 1 + refusals + deaths + Cardinality(Removing(pc, host, a))
      BY DEF OneInv, OneDocPerAddress, Removing, DocsOf, Of
    <3>2. Removing(pc', host', a) = Removing(pc, host, a) /\ Of(docs', a) = Of(docs, a)
      BY <2>2, ElsewhereStands
    <3>3. Cardinality(Removing(pc, host, a)) \in Nat /\ Cardinality(Of(docs, a)) \in Nat
      BY DocsAreCounted, RemoversAreFew DEF OneInv
    <3>4. refusals + deaths <= refusals' + deaths'
      OBVIOUS
    <3>5. Cardinality(Of(docs, a))
            <= 1 + refusals' + deaths' + Cardinality(Removing(pc, host, a))
      BY <3>1, <3>3, <3>4, BoundGrows
    <3> QED
      BY <3>2, <3>5
  <2> QED
    BY <2>1, <2>2
<1> QED
  BY <1>1, <1>2, <1>3, <1>4 DEF OneInv

\* What is known of the documents of the address of a call in progress.
LEMMA OwnAddress ==
  ASSUME OneInv, NEW w \in Workers, Busy(w)
  PROVE  /\ Cardinality(Of(docs, host[w].addr)) \in Nat
         /\ refusals \in Nat /\ deaths \in Nat
         /\ pc[w] = "remove" => Cardinality(Of(docs, host[w].addr)) <= 2 + refusals + deaths
         /\ pc[w] # "remove" => Cardinality(Of(docs, host[w].addr)) <= 1 + refusals + deaths
<1>1. host[w].addr \in Addrs /\ refusals \in Nat /\ deaths \in Nat
  BY ViewAssumption DEF OneInv, IInv, TypeOK, Hosts
<1>2. Cardinality(Of(docs, host[w].addr)) \in Nat
  BY DocsAreCounted DEF OneInv
<1>3. Cardinality(Of(docs, host[w].addr))
        <= 1 + refusals + deaths + Cardinality(Removing(pc, host, host[w].addr))
  BY <1>1 DEF OneInv, OneDocPerAddress, Removing, DocsOf, Of
<1> QED
  BY <1>1, <1>2, <1>3, RemoverIsAlone DEF OneInv

\* An insert makes one more document of the address.
LEMMA InsertCounts ==
  ASSUME IInv, IsFiniteSet(docs), NEW w \in Workers, NEW new, Insert(w, new)
  PROVE  /\ IsFiniteSet(docs')
         /\ \A a \in Addrs \ {host[w].addr} : Of(docs', a) = Of(docs, a)
         /\ Cardinality(Of(docs', host[w].addr)) = Cardinality(Of(docs, host[w].addr)) + 1
<1> DEFINE doc == [id |-> ids + 1, addr |-> host[w].addr, of |-> new]
<1>1. docs' = docs \cup {doc} /\ doc.addr = host[w].addr /\ doc.id = ids + 1
  BY DEF Insert
<1>2. doc \notin docs
  BY <1>1 DEF IInv, TypeOK
<1> HIDE DEF doc
<1>3. IsFiniteSet(docs')
  BY <1>1, FS_AddElement
<1>4. Of(docs', host[w].addr) = Of(docs, host[w].addr) \cup {doc}
  BY <1>1 DEF Of
<1>5. doc \notin Of(docs, host[w].addr)
  BY <1>2 DEF Of
<1>6. \A a \in Addrs \ {host[w].addr} : Of(docs', a) = Of(docs, a)
  BY <1>1 DEF Of
<1> QED
  BY <1>3, <1>4, <1>5, <1>6, DocsAreCounted, FS_AddElement

LEMMA StoreMergedOne ==
  ASSUME OneInv, IInv', NEW w \in Workers, StoreMerged(w)
  PROVE  OneInv'
<1>1. Busy(w) /\ pc[w] = "store_merged"
  BY DEF StoreMerged, Busy
<1>2. /\ host' = host /\ found' = found /\ refusals' = refusals /\ deaths' = deaths
      /\ OthersStand(w) /\ pc'[w] = "remove"
  BY DEF OneInv, IInv, TypeOK, StoreMerged, Insert, counts, Goto, OthersStand
<1>3. /\ IsFiniteSet(docs')
      /\ \A a \in Addrs \ {host[w].addr} : Of(docs', a) = Of(docs, a)
      /\ Cardinality(Of(docs', host[w].addr)) = Cardinality(Of(docs, host[w].addr)) + 1
  BY InsertCounts DEF OneInv, StoreMerged
<1>4. found'[w] \in docs'
  BY <1>1, <1>2 DEF OneInv, FoundIsThere, StoreMerged, Insert
<1>5. Cardinality(Of(docs', host[w].addr)) <= 2 + refusals' + deaths'
  BY <1>1, <1>2, <1>3, OwnAddress
<1> QED
  BY <1>1, <1>2, <1>3, <1>4, <1>5, OwnAddress, CallKeepsOne

LEMMA StoreOne ==
  ASSUME OneInv, IInv', NEW w \in Workers, Store(w)
  PROVE  OneInv'
<1>1. Busy(w) /\ pc[w] = "store"
  BY DEF Store, Busy
<1>2. /\ host' = host /\ refusals' = refusals /\ deaths' = deaths
      /\ OthersStand(w) /\ pc'[w] = "idle"
  BY DEF OneInv, IInv, TypeOK, Store, Insert, counts, Goto, OthersStand
<1>3. /\ IsFiniteSet(docs')
      /\ \A a \in Addrs \ {host[w].addr} : Of(docs', a) = Of(docs, a)
      /\ Cardinality(Of(docs', host[w].addr)) = Cardinality(Of(docs, host[w].addr)) + 1
  BY InsertCounts DEF OneInv, Store
<1>4. Cardinality(Of(docs, host[w].addr)) <= refusals + deaths
  BY <1>1 DEF OneInv, RoomToStore, DocsOf, Of
<1>5. Cardinality(Of(docs', host[w].addr)) <= 1 + refusals' + deaths'
  BY <1>1, <1>2, <1>3, <1>4, OwnAddress
<1> QED
  BY <1>1, <1>2, <1>3, <1>5, OwnAddress, CallKeepsOne

\* The document that was found is still there, and goes.
LEMMA RemoveOne ==
  ASSUME OneInv, IInv', NEW w \in Workers, Remove(w)
  PROVE  OneInv'
<1>1. Busy(w) /\ pc[w] = "remove" /\ docs' = {d \in docs : d.id # found[w].id}
  BY DEF Remove, Busy
<1>2. /\ host' = host /\ refusals' = refusals /\ deaths' = deaths
      /\ OthersStand(w) /\ pc'[w] = "idle"
  BY DEF OneInv, IInv, TypeOK, Remove, counts, Goto, OthersStand
<1>3. found[w] \in docs /\ found[w].addr = host[w].addr
  BY <1>1 DEF OneInv, IInv, FoundIsThere, FoundIsADoc
<1>4. docs' = docs \ {found[w]}
  BY <1>1, <1>3 DEF OneInv, IInv, DistinctIds
<1>5. IsFiniteSet(docs')
  BY <1>4, FS_RemoveElement DEF OneInv
<1>6. \A a \in Addrs \ {host[w].addr} : Of(docs', a) = Of(docs, a)
  BY <1>3, <1>4 DEF Of
<1>7. Of(docs', host[w].addr) = Of(docs, host[w].addr) \ {found[w]}
      /\ found[w] \in Of(docs, host[w].addr)
  BY <1>3, <1>4 DEF Of
<1>8. Cardinality(Of(docs', host[w].addr)) = Cardinality(Of(docs, host[w].addr)) - 1
  <2>1. IsFiniteSet(Of(docs, host[w].addr))
    BY DocsAreCounted DEF OneInv
  <2> QED
    BY <1>7, <2>1, FS_RemoveElement
<1>9. Cardinality(Of(docs', host[w].addr)) <= 1 + refusals' + deaths'
  BY <1>1, <1>2, <1>8, OwnAddress
<1> QED
  BY <1>1, <1>2, <1>5, <1>6, <1>9, OwnAddress, CallKeepsOne

LEMMA FindOne ==
  ASSUME OneInv, IInv', NEW w \in Workers, Find(w)
  PROVE  OneInv'
<1>1. Busy(w) /\ pc[w] = "find"
  BY DEF Find, Busy
<1>2. /\ docs' = docs /\ host' = host /\ refusals' = refusals /\ deaths' = deaths
      /\ OthersStand(w) /\ pc'[w] \in {"store_merged", "store"}
  BY DEF OneInv, IInv, TypeOK, Find, counts, Goto, OthersStand
<1>3. pc'[w] = "store_merged" => found'[w] \in docs'
  BY DEF OneInv, IInv, TypeOK, Find, Goto
<1>4. pc'[w] = "store" => Cardinality(Of(docs, host[w].addr)) = 0
  <2>1. pc'[w] = "store" => Of(docs, host[w].addr) = {}
    BY DEF OneInv, IInv, TypeOK, Find, Goto, Of
  <2> QED
    BY <2>1, FS_EmptySet
<1>5. \A a \in Addrs \ {host[w].addr} : Of(docs', a) = Of(docs, a)
  BY <1>2
<1>6. /\ Cardinality(Of(docs', host[w].addr)) <= 1 + refusals' + deaths'
      /\ pc'[w] = "store" => Cardinality(Of(docs', host[w].addr)) <= refusals' + deaths'
  BY <1>1, <1>2, <1>4, OwnAddress
<1>7. IsFiniteSet(docs')
  BY <1>2 DEF OneInv
<1> QED
  BY <1>1, <1>2, <1>3, <1>5, <1>6, <1>7, OwnAddress, CallKeepsOne

\* What ends a call early, or sends it to store the host alone, counts as a
\* refusal or a death.
LEMMA FailureOne ==
  ASSUME OneInv, IInv', NEW w \in Workers, MergedRefused(w) \/ StoreRefused(w) \/ Die(w)
  PROVE  OneInv'
<1>1. Busy(w) /\ (MergedRefused(w) => pc[w] = "store_merged")
  BY DEF MergedRefused, StoreRefused, Die, Busy
<1>2. /\ docs' = docs /\ host' = host /\ OthersStand(w)
      /\ pc'[w] = "idle" \/ (MergedRefused(w) /\ pc'[w] = "store")
  BY DEF OneInv, IInv, TypeOK, MergedRefused, StoreRefused, Die, Goto, OthersStand
<1>3. \/ refusals' = refusals + 1 /\ deaths' = deaths
      \/ refusals' = refusals /\ deaths' = deaths + 1
  BY DEF MergedRefused, StoreRefused, Die
<1>4. refusals' \in Nat /\ deaths' \in Nat /\ refusals' + deaths' = refusals + deaths + 1
  BY <1>1, <1>3, OwnAddress
<1>5. /\ Cardinality(Of(docs', host[w].addr)) <= 1 + refusals' + deaths'
      /\ pc'[w] = "store" => Cardinality(Of(docs', host[w].addr)) <= refusals' + deaths'
  BY <1>1, <1>2, <1>4, OwnAddress
<1>6. IsFiniteSet(docs') /\ \A a \in Addrs \ {host[w].addr} : Of(docs', a) = Of(docs, a)
  BY <1>2 DEF OneInv
<1>7. refusals + deaths <= refusals' + deaths'
  BY <1>1, <1>4, OwnAddress
<1> QED
  BY <1>1, <1>2, <1>4, <1>5, <1>6, <1>7, OwnAddress, CallKeepsOne

\* A call is made on an address no one works on.
LEMMA CallOne ==
  ASSUME ~NoMerge, OneInv, IInv', NEW w \in Workers, NEW h \in Hosts, Call(w, h),
         Free(h.addr)
  PROVE  OneInv'
<1>1. /\ UNCHANGED <<docs, found, refusals, deaths>>
      /\ pc[w] = "idle" /\ pc'[w] = "find" /\ host'[w] = h
      /\ \A v \in Workers \ {w} : pc'[v] = pc[v] /\ host'[v] = host[v]
      /\ \A v \in Workers : Busy(v) => host[v].addr # h.addr
  BY DEF OneInv, IInv, TypeOK, Call, Goto, Free
<1>2. Alone'
  BY <1>1 DEF OneInv, Alone, Busy
<1>3. FoundIsThere'
  BY <1>1 DEF OneInv, FoundIsThere
<1>4. RoomToStore'
  BY <1>1 DEF OneInv, RoomToStore, DocsOf
<1>5. \A a \in Addrs : Removing(pc', host', a) = Removing(pc, host, a)
  BY <1>1 DEF Removing
<1>6. OneDocPerAddress'
  BY <1>1, <1>5 DEF OneInv, OneDocPerAddress, Removing, DocsOf
<1> QED
  BY <1>1, <1>2, <1>3, <1>4, <1>6 DEF OneInv

LEMMA OneStep ==
  ASSUME ~NoMerge
  PROVE  OneInv /\ [SerialNext]_viewVars => OneInv'
<1> SUFFICES ASSUME OneInv, [SerialNext]_viewVars PROVE OneInv'
  OBVIOUS
<1>0. IInv'
  BY StepInv DEF OneInv, SerialNext, Next
<1>1. CASE UNCHANGED viewVars
  BY <1>0, <1>1
  DEF viewVars, OneInv, Alone, Busy, FoundIsThere, RoomToStore, OneDocPerAddress, DocsOf
<1>2. ASSUME NEW w \in Workers,
             \/ \E h \in Hosts : Free(h.addr) /\ Call(w, h)
             \/ Find(w) \/ StoreMerged(w) \/ Remove(w) \/ Store(w)
             \/ MergedRefused(w) \/ StoreRefused(w) \/ Die(w)
      PROVE  OneInv'
  BY <1>0, <1>2, CallOne, FindOne, StoreMergedOne, RemoveOne, StoreOne, FailureOne
<1> QED
  BY <1>1, <1>2 DEF SerialNext, Step, merge_host, store_host

LEMMA OneInit == Init => OneInv
<1> SUFFICES ASSUME Init PROVE OneInv
  OBVIOUS
<1>1. Alone /\ FoundIsThere /\ RoomToStore
  BY DEF Init, Alone, Busy, FoundIsThere, RoomToStore
<1>2. \A a : DocsOf(a) = {} /\ {w \in Workers : pc[w] = "remove" /\ host[w].addr = a} = {}
  BY DEF Init, DocsOf
<1>3. OneDocPerAddress
  BY <1>2, FS_EmptySet DEF Init, OneDocPerAddress
<1> QED
  BY <1>1, <1>3, InitInv, FS_EmptySet DEF Init, OneInv

\* Calls that never overlap on an address, and are not made with --no-merge,
\* leave one document of it, and one more at most for each refused insert and
\* each call cut short, however many workers and addresses there are.
THEOREM OneDocIsKept ==
  ASSUME ~NoMerge
  PROVE  SerialSpec => []OneDocPerAddress
<1>1. Init => OneInv
  BY OneInit
<1>2. OneInv /\ [SerialNext]_viewVars => OneInv'
  BY OneStep
<1>3. OneInv => OneDocPerAddress
  BY DEF OneInv
<1> QED
  BY <1>1, <1>2, <1>3, PTL DEF SerialSpec

-----------------------------------------------------------------------------
(* The build: the inductive invariant                                      *)

RowsType ==
  \A s \in Sources :
    rows[s] \in Seq(Row) /\ Len(rows[s]) <= MaxRows /\ Sorted(rows[s])

FeedType ==
  /\ RowsType
  /\ pos \in [Sources -> Nat] /\ skip \in [Sources -> Nat]
  /\ stage \in [Sources -> {"fetch", "ready", "end"}]
  /\ cur \in Addrs \cup {0}
  /\ builder \in {"build", "fed", "aborted", "done"}

\* Where a source would open its cursor again is where the record that waits to be
\* gathered is, or where it stands.
CursorStands(s) ==
  /\ skip[s] <= Len(rows[s])
  /\ stage[s] = "fetch" => pos[s] = skip[s]
  /\ stage[s] = "ready" =>
       pos[s] = skip[s] + 1 /\ pos[s] <= Len(rows[s]) /\ rows[s][pos[s]].usable
  /\ stage[s] = "end" => pos[s] = skip[s] /\ skip[s] = Len(rows[s])

CursorsStand == \A s \in Sources : CursorStands(s)

\* The sources are swept up to the address being gathered.
Swept ==
  \A s \in Sources : \A i \in 1 .. Len(rows[s]) :
    /\ i <= skip[s] /\ rows[s][i].usable => rows[s][i].addr <= cur
    /\ i > skip[s] => cur <= rows[s][i].addr

\* What is gathered is what the sources have handed out of it.
GatheredIs ==
  /\ builder = "build" => gathered = {r \in RecordsOf(cur) : r[2] <= skip[r[1]]}
  /\ builder = "fed" => \A s \in Sources : stage[s] = "end"
  /\ gathered \subseteq Results

FeedInv == FeedType /\ CursorsStand /\ Swept /\ GatheredIs

Running == builder \in {"build", "fed"}

\* The addresses that were yielded are those below the one being gathered, and all
\* of them at the end.
Yielded(a) == builder # "build" \/ a < cur

\* The tasks that wait are groups that were yielded, each of another address.
TasksAre ==
  /\ tasks \in Seq(Hosts)
  /\ \A i \in 1 .. Len(tasks) :
       /\ Running /\ Yielded(tasks[i].addr)
       /\ tasks[i].of = RecordsOf(tasks[i].addr)
       /\ \A j \in 1 .. Len(tasks) : tasks[i].addr = tasks[j].addr => i = j

\* So are the calls in progress.
CallsAre ==
  /\ \A w \in Workers : Busy(w) =>
       /\ host[w].of = RecordsOf(host[w].addr)
       /\ Running => Yielded(host[w].addr)
       /\ \A i \in 1 .. Len(tasks) : tasks[i].addr # host[w].addr
  /\ Alone
  /\ builder = "done" => AllIdle /\ ~failed

\* The view has nothing that is not in the sources, under its address.
ViewIsOfRows ==
  /\ \A d \in docs : d.of \subseteq RecordsOf(d.addr)
  /\ \A w \in Workers : pc[w] = "store_merged" => found[w].of \subseteq RecordsOf(host[w].addr)

\* Until an insert is refused or a worker raises, what was yielded of an address is
\* stored, waits for a worker, or is in the hands of one that has still to store it.
ToStore(w) == pc[w] \in {"find", "store_merged", "store"}
OnItsWay(a) ==
  \/ RecordsOf(a) \subseteq stored[a]
  \/ \E i \in 1 .. Len(tasks) : tasks[i].addr = a
  \/ \E w \in Workers : ToStore(w) /\ host[w].addr = a
StoredSoFar ==
  builder # "aborted" /\ ~failed /\ refusals = 0 =>
    \A a \in Addrs : Yielded(a) => OnItsWay(a)

PoolInv == TasksAre /\ CallsAre /\ ViewIsOfRows /\ StoredSoFar

BuildInv == IInv /\ FeedInv /\ PoolInv

-----------------------------------------------------------------------------
(* The sources and what is gathered                                        *)

\* The records of an address, one by one.
LEMMA RecordIs ==
  ASSUME RowsType, NEW a
  PROVE  /\ \A s \in Sources : \A i \in 1 .. Len(rows[s]) :
              <<s, i>> \in RecordsOf(a) <=> rows[s][i].addr = a /\ rows[s][i].usable
         /\ \A r \in RecordsOf(a) :
              \E s \in Sources : \E i \in 1 .. Len(rows[s]) : r = <<s, i>>
<1>0. \A s \in Sources : DOMAIN rows[s] = 1 .. Len(rows[s]) /\ Len(rows[s]) \in Nat
  BY DEF RowsType
<1>1. ASSUME NEW s \in Sources, NEW i \in 1 .. Len(rows[s])
      PROVE  <<s, i>> \in RecordsOf(a) <=> rows[s][i].addr = a /\ rows[s][i].usable
  <2>1. <<s, i>> \in Results
    BY <1>0, BuildAssumption DEF RowsType, RecordsOfSources
  <2>2. rows[s][i] \in Row
    BY <1>0 DEF RowsType
  <2>3. rows[s][i] = [addr |-> a, usable |-> TRUE]
          <=> rows[s][i].addr = a /\ rows[s][i].usable
    <3>1. PICK b \in Addrs, u \in BOOLEAN : rows[s][i] = [addr |-> b, usable |-> u]
      BY <2>2 DEF Row
    <3>2. [addr |-> b, usable |-> u] = [addr |-> a, usable |-> TRUE] <=> b = a /\ u
      OBVIOUS
    <3> QED
      BY <3>1, <3>2
  <2> QED
    BY <1>0, <2>1, <2>3 DEF RecordsOf
<1>2. ASSUME NEW r \in RecordsOf(a)
      PROVE  \E s \in Sources : \E i \in 1 .. Len(rows[s]) : r = <<s, i>>
  <2>1. PICK s \in Sources, i \in 1 .. MaxRows : r = <<s, i>>
    BY BuildAssumption DEF RecordsOf, RecordsOfSources
  <2> QED
    BY <1>0, <2>1 DEF RecordsOf
<1> QED
  BY <1>1, <1>2

\* A set of numbers that is not empty has a least one.
LEMMA LeastOf ==
  ASSUME NEW S \in SUBSET Nat, S # {}
  PROVE  Min(S) \in S /\ \A y \in S : Min(S) <= y
<1> DEFINE T == {0 .. x : x \in S}
<1>1. T \subseteq FiniteSubsetsOf(Nat) /\ T # {}
  <2>1. ASSUME NEW x \in S PROVE 0 .. x \in FiniteSubsetsOf(Nat)
    <3>1. IsFiniteSet(0 .. x) /\ 0 .. x \in SUBSET Nat
      BY FS_Interval
    <3> QED
      BY <3>1 DEF FiniteSubsetsOf
  <2> QED
    BY <2>1
<1>2. PICK t \in T : \A u \in T : ~(<<u, t>> \in StrictSubsetOrdering(Nat))
  BY <1>1, WFMin, FS_StrictSubsetOrderingWellFounded
<1>3. PICK x \in S : t = 0 .. x
  OBVIOUS
<1>4. ASSUME NEW y \in S, y < x PROVE FALSE
  <2>1. 0 .. y \in T /\ 0 .. y \subseteq 0 .. x /\ x \in 0 .. x /\ x \notin 0 .. y
    BY <1>4
  <2>2. 0 .. y \in SUBSET Nat /\ 0 .. x \in SUBSET Nat /\ 0 .. y # 0 .. x
    BY <2>1
  <2>3. <<0 .. y, 0 .. x>> \in StrictSubsetOrdering(Nat)
    BY <2>1, <2>2 DEF StrictSubsetOrdering
  <2> QED
    BY <1>2, <1>3, <2>1, <2>3
<1>5. \A y \in S : x <= y
  BY <1>4
<1> QED
  BY <1>5 DEF Min

\* An address is a number, and not 0.
LEMMA RowFields == \A x \in Row : x.addr \in Addrs /\ x.addr \in Nat \ {0}
BY BuildAssumption DEF Row

\* Before the first record nothing is gathered, and no address is 0.
LEMMA FeedInit == BuildInit => FeedInv
<1> SUFFICES ASSUME BuildInit PROVE FeedInv
  OBVIOUS
<1>1. RowsType
  <2> SUFFICES ASSUME NEW s \in Sources
               PROVE  rows[s] \in Seq(Row) /\ Len(rows[s]) <= MaxRows /\ Sorted(rows[s])
    BY DEF RowsType
  <2>1. rows[s] \in {q \in UNION {[1..n -> Row] : n \in 0..MaxRows} : Sorted(q)}
    BY DEF BuildInit
  <2>2. PICK n \in 0 .. MaxRows : rows[s] \in [1 .. n -> Row]
    BY <2>1
  <2>3. n \in Nat
    BY BuildAssumption
  <2>4. rows[s] \in Seq(Row) /\ Len(rows[s]) = n
    BY <2>2, <2>3, SeqDef, LenProperties
  <2> QED
    BY <2>1, <2>4, BuildAssumption
<1>2. FeedType /\ CursorsStand
  BY <1>1 DEF BuildInit, FeedType, CursorsStand, CursorStands, RowsType
<1>3. \A s \in Sources : \A i \in 1 .. Len(rows[s]) :
        rows[s][i].addr \in Nat \ {0} /\ i \in Nat /\ i > 0
  BY <1>1, RowFields DEF RowsType
<1>4. Swept
  BY <1>3 DEF BuildInit, Swept
<1>5. RecordsOf(cur) = {}
  <2>1. \A r \in RecordsOf(cur) : FALSE
    BY <1>1, <1>3, RecordIs DEF BuildInit
  <2> QED
    BY <2>1
<1> QED
  BY <1>2, <1>4, <1>5 DEF FeedInv, GatheredIs, BuildInit

\* What the invariant says of one record of a source.
LEMMA RowKinds ==
  ASSUME FeedType, NEW s \in Sources
  PROVE  /\ Len(rows[s]) \in Nat /\ skip[s] \in Nat /\ pos[s] \in Nat /\ cur \in Nat
         /\ \A i \in 1 .. Len(rows[s]) :
              rows[s][i] \in Row /\ rows[s][i].addr \in Nat \ {0} /\ rows[s][i].addr \in Addrs
         /\ \A i, j \in 1 .. Len(rows[s]) : i <= j => rows[s][i].addr <= rows[s][j].addr
<1>1. \A i \in 1 .. Len(rows[s]) :
        rows[s][i] \in Row /\ rows[s][i].addr \in Nat \ {0} /\ rows[s][i].addr \in Addrs
  BY RowFields DEF FeedType, RowsType
<1>2. DOMAIN rows[s] = 1 .. Len(rows[s]) /\ Sorted(rows[s])
  BY DEF FeedType, RowsType
<1>3. \A i, j \in 1 .. Len(rows[s]) : i <= j => rows[s][i].addr <= rows[s][j].addr
  <2>1. \A i, j \in 1 .. Len(rows[s]) : i < j => rows[s][i].addr <= rows[s][j].addr
    BY <1>2 DEF Sorted
  <2>2. \A i, j \in 1 .. Len(rows[s]) : i <= j => i < j \/ i = j
    OBVIOUS
  <2> QED
    BY <1>1, <2>1, <2>2
<1> QED
  BY <1>1, <1>3, BuildAssumption DEF FeedType, RowsType

\* A record comes, or the source ends, or its cursor is opened again: nothing is
\* gathered.
LEMMA FetchKeeps ==
  ASSUME FeedInv, NEW s \in Sources, Deliver(s) \/ Exhaust(s) \/ CursorLost(s)
  PROVE  FeedInv'
<1> USE DEF FeedInv
<1>1. rows' = rows /\ skip' = skip /\ cur' = cur /\ gathered' = gathered /\ builder' = builder
  BY DEF Deliver, Exhaust, CursorLost
<1>2. builder = "build"
  BY DEF Deliver, Exhaust, CursorLost, Fetching
<1>3. FeedType'
  BY <1>1, RowKinds DEF FeedType, RowsType, Deliver, Exhaust, CursorLost
<1>4. CursorsStand'
  <2> SUFFICES ASSUME NEW t \in Sources PROVE CursorStands(t)'
    BY DEF CursorsStand
  <2>1. CursorStands(t)
    BY DEF CursorsStand
  <2> QED
    BY <1>1, <2>1, RowKinds
    DEF CursorStands, FeedType, Deliver, Exhaust, CursorLost, Fetching, More, NextUsable
<1>5. Swept' /\ GatheredIs'
  BY <1>1, <1>2 DEF Swept, GatheredIs, RecordsOf
<1> QED
  BY <1>3, <1>4, <1>5

\* An unusable record is passed over.
LEMMA PassOverKeeps ==
  ASSUME FeedInv, NEW s \in Sources, PassOver(s)
  PROVE  FeedInv'
<1> USE DEF FeedInv
<1>1. /\ rows' = rows /\ cur' = cur /\ gathered' = gathered /\ builder' = builder
      /\ stage' = stage /\ builder = "build"
      /\ pos' = [pos EXCEPT ![s] = @ + 1] /\ skip' = [skip EXCEPT ![s] = @ + 1]
  BY DEF PassOver, Fetching
<1>2. /\ pos[s] = skip[s] /\ skip[s] + 1 \in 1 .. Len(rows[s]) /\ stage[s] = "fetch"
      /\ ~rows[s][skip[s] + 1].usable
  BY RowKinds DEF PassOver, Fetching, More, NextUsable, CursorsStand, CursorStands
<1>3. FeedType'
  BY <1>1 DEF FeedType, RowsType
<1>4. CursorsStand'
  BY <1>1, <1>2, RowKinds DEF FeedType, CursorsStand, CursorStands
<1>5. Swept'
  <2> SUFFICES ASSUME NEW t \in Sources, NEW i \in 1 .. Len(rows[t])
               PROVE  /\ i <= skip'[t] /\ rows[t][i].usable => rows[t][i].addr <= cur
                      /\ i > skip'[t] => cur <= rows[t][i].addr
    BY <1>1 DEF Swept
  <2>1. i <= skip'[t] => i <= skip[t] \/ (t = s /\ i = skip[s] + 1)
    BY <1>1, RowKinds DEF FeedType
  <2>2. i > skip'[t] => i > skip[t]
    BY <1>1, RowKinds DEF FeedType
  <2> QED
    BY <1>2, <2>1, <2>2 DEF Swept
<1>6. GatheredIs'
  <2>1. \A r \in RecordsOf(cur) : r[2] <= skip'[r[1]] <=> r[2] <= skip[r[1]]
    <3> SUFFICES ASSUME NEW r \in RecordsOf(cur)
                 PROVE  r[2] <= skip'[r[1]] <=> r[2] <= skip[r[1]]
      OBVIOUS
    <3>0. PICK t \in Sources : \E i \in 1 .. Len(rows[t]) : r = <<t, i>>
      BY RecordIs DEF FeedType
    <3>1. PICK i \in 1 .. Len(rows[t]) : r = <<t, i>>
      BY <3>0
    <3>2. rows[t][i].usable
      BY <3>1, RecordIs DEF FeedType
    <3>3. ~(t = s /\ i = skip[s] + 1)
      BY <1>2, <3>2
    <3> QED
      BY <1>1, <3>1, <3>3, RowKinds DEF FeedType
  <2>2. RecordsOf(cur)' = RecordsOf(cur)
    BY <1>1 DEF RecordsOf
  <2> QED
    BY <1>1, <2>1, <2>2 DEF GatheredIs
<1> QED
  BY <1>3, <1>4, <1>5, <1>6

\* A record of the address being gathered is taken.
LEMMA TakeKeeps ==
  ASSUME FeedInv, NEW s \in Sources, Take(s)
  PROVE  FeedInv'
<1> USE DEF FeedInv
<1>1. /\ rows' = rows /\ cur' = cur /\ builder' = builder /\ pos' = pos
      /\ builder = "build"
      /\ stage' = [stage EXCEPT ![s] = "fetch"] /\ skip' = [skip EXCEPT ![s] = @ + 1]
      /\ gathered' = gathered \cup {<<s, pos[s]>>}
  BY DEF Take, AllFetched, ResultOf
<1>2. /\ pos[s] = skip[s] + 1 /\ pos[s] \in 1 .. Len(rows[s]) /\ stage[s] = "ready"
      /\ rows[s][pos[s]].usable /\ rows[s][pos[s]].addr = cur
  BY RowKinds DEF Take, Ready, AddrAt, CursorsStand, CursorStands
<1>3. FeedType'
  BY <1>1 DEF FeedType, RowsType
<1>4. CursorsStand'
  BY <1>1, <1>2, RowKinds DEF FeedType, CursorsStand, CursorStands
<1>5. Swept'
  <2> SUFFICES ASSUME NEW t \in Sources, NEW i \in 1 .. Len(rows[t])
               PROVE  /\ i <= skip'[t] /\ rows[t][i].usable => rows[t][i].addr <= cur
                      /\ i > skip'[t] => cur <= rows[t][i].addr
    BY <1>1 DEF Swept
  <2>1. i <= skip'[t] => i <= skip[t] \/ (t = s /\ i = skip[s] + 1)
    BY <1>1, RowKinds DEF FeedType
  <2>2. i > skip'[t] => i > skip[t]
    BY <1>1, RowKinds DEF FeedType
  <2>3. cur <= cur
    BY RowKinds
  <2> QED
    BY <1>2, <2>1, <2>2, <2>3 DEF Swept
<1>6. GatheredIs'
  <2>0. RecordsOf(cur)' = RecordsOf(cur)
    BY <1>1 DEF RecordsOf
  <2>1. <<s, pos[s]>> \in RecordsOf(cur) /\ <<s, pos[s]>> \in Results
    BY <1>2, RecordIs DEF FeedType, RecordsOf
  <2>2. \A r \in RecordsOf(cur) :
          r[2] <= skip'[r[1]] <=> r[2] <= skip[r[1]] \/ r = <<s, pos[s]>>
    <3> SUFFICES ASSUME NEW r \in RecordsOf(cur)
                 PROVE  r[2] <= skip'[r[1]] <=> r[2] <= skip[r[1]] \/ r = <<s, pos[s]>>
      OBVIOUS
    <3>0. PICK t \in Sources : \E i \in 1 .. Len(rows[t]) : r = <<t, i>>
      BY RecordIs DEF FeedType
    <3>1. PICK i \in 1 .. Len(rows[t]) : r = <<t, i>>
      BY <3>0
    <3> QED
      BY <1>1, <1>2, <3>1, RowKinds DEF FeedType
  <2> QED
    BY <1>1, <2>0, <2>1, <2>2 DEF GatheredIs
<1> QED
  BY <1>3, <1>4, <1>5, <1>6

\* When the sources are past the address, what is gathered is all there is of it, and
\* there is nothing up to the lowest address left.
LEMMA YieldsAll ==
  ASSUME FeedInv, AllFetched, AddressIsDone
  PROVE  /\ gathered = RecordsOf(cur)
         /\ Ready # {} =>
              /\ Min({AddrAt(s) : s \in Ready}) \in {AddrAt(s) : s \in Ready}
              /\ cur < Min({AddrAt(s) : s \in Ready})
              /\ \A s \in Ready : Min({AddrAt(t) : t \in Ready}) <= AddrAt(s)
         /\ \A a \in Nat :
              a > cur /\ (Ready # {} => a < Min({AddrAt(s) : s \in Ready}))
                => RecordsOf(a) = {}
<1> USE DEF FeedInv
<1> DEFINE A == {AddrAt(s) : s \in Ready}
           m == Min(A)
<1>0. cur \in Nat
  BY BuildAssumption DEF FeedType
<1>1. \A s \in Sources : s \in Ready \/ (stage[s] = "end" /\ skip[s] = Len(rows[s]))
  BY DEF AllFetched, Ready, FeedType, CursorsStand, CursorStands
<1>2. ASSUME NEW s \in Ready
      PROVE  /\ pos[s] \in 1 .. Len(rows[s]) /\ pos[s] = skip[s] + 1
             /\ AddrAt(s) = rows[s][pos[s]].addr /\ AddrAt(s) \in Nat /\ cur < AddrAt(s)
  <2>1. s \in Sources /\ stage[s] = "ready"
    BY DEF Ready
  <2>2. pos[s] \in 1 .. Len(rows[s]) /\ pos[s] = skip[s] + 1
    BY <2>1, RowKinds DEF CursorsStand, CursorStands
  <2>3. AddrAt(s) \in Nat /\ AddrAt(s) # cur /\ cur <= AddrAt(s)
    BY <2>1, <2>2, RowKinds DEF AddrAt, AddressIsDone, Swept
  <2> QED
    BY <1>0, <2>2, <2>3 DEF AddrAt
<1>3. ASSUME NEW s \in Sources, NEW i \in 1 .. Len(rows[s]), i > skip[s]
      PROVE  s \in Ready /\ AddrAt(s) <= rows[s][i].addr
  <2>1. s \in Ready
    BY <1>1, <1>3, RowKinds
  <2>2. pos[s] <= i
    BY <1>2, <1>3, <2>1, RowKinds
  <2> QED
    BY <1>2, <2>1, <2>2, RowKinds DEF AddrAt
<1>4. builder = "build"
  BY DEF AllFetched
<1>5. gathered = RecordsOf(cur)
  <2> SUFFICES ASSUME NEW r \in RecordsOf(cur) PROVE r[2] <= skip[r[1]]
    BY <1>4 DEF GatheredIs
  <2>1. PICK s \in Sources : \E i \in 1 .. Len(rows[s]) : r = <<s, i>>
    BY RecordIs DEF FeedType
  <2>2. PICK i \in 1 .. Len(rows[s]) : r = <<s, i>>
    BY <2>1
  <2>3. rows[s][i].addr = cur
    BY <2>2, RecordIs DEF FeedType
  <2>4. ~(i > skip[s])
    BY <1>0, <1>2, <1>3, <2>3
  <2> QED
    BY <2>2, <2>4, RowKinds
<1>6. ASSUME Ready # {}
      PROVE  m \in A /\ cur < m /\ (\A s \in Ready : m <= AddrAt(s)) /\ m \in Nat
  <2>1. A \in SUBSET Nat /\ A # {}
    BY <1>2, <1>6
  <2> HIDE DEF A
  <2>2. m \in A /\ \A y \in A : m <= y
    BY <2>1, LeastOf
  <2> QED
    BY <1>2, <2>1, <2>2 DEF A
<1>7. ASSUME NEW a \in Nat, a > cur, Ready # {} => a < m
      PROVE  RecordsOf(a) = {}
  <2> SUFFICES ASSUME NEW r \in RecordsOf(a) PROVE FALSE
    OBVIOUS
  <2>1. PICK s \in Sources : \E i \in 1 .. Len(rows[s]) : r = <<s, i>>
    BY RecordIs DEF FeedType
  <2>2. PICK i \in 1 .. Len(rows[s]) : r = <<s, i>>
    BY <2>1
  <2>3. rows[s][i].addr = a /\ rows[s][i].usable
    BY <2>2, RecordIs DEF FeedType
  <2>4. CASE i <= skip[s]
    BY <1>0, <1>7, <2>3, <2>4 DEF Swept
  <2>5. CASE i > skip[s]
    <3>1. s \in Ready /\ AddrAt(s) <= a
      BY <1>3, <2>3, <2>5
    <3>2. m <= AddrAt(s) /\ m \in Nat /\ AddrAt(s) \in Nat /\ a < m
      BY <1>2, <1>6, <1>7, <3>1
    <3> QED
      BY <3>1, <3>2
  <2> QED
    BY <2>4, <2>5, RowKinds
<1> QED
  BY <1>5, <1>6, <1>7

\* The next address is gathered, or the sources are at their end.
LEMMA YieldKeeps ==
  ASSUME FeedInv, Yield
  PROVE  FeedInv'
<1> USE DEF FeedInv
<1>1. /\ rows' = rows /\ pos' = pos /\ skip' = skip /\ stage' = stage
      /\ gathered' = {} /\ builder = "build" /\ AllFetched /\ AddressIsDone
  BY DEF Yield, GatheredReset, AllFetched
<1>2. CursorsStand'
  BY <1>1 DEF CursorsStand, CursorStands
<1>3. CASE Ready # {} /\ cur' = Min({AddrAt(s) : s \in Ready}) /\ builder' = builder
  <2>0. PICK q \in Ready : cur' = AddrAt(q)
    BY <1>1, <1>3, YieldsAll
  <2>1. cur' \in Addrs /\ cur' \in Nat
    BY <2>0, RowKinds DEF Ready, AddrAt, CursorsStand, CursorStands
  <2>2. cur < cur' /\ \A s \in Ready : cur' <= AddrAt(s)
    BY <1>1, <1>3, YieldsAll
  <2>3. FeedType'
    BY <1>1, <1>3, <2>1 DEF FeedType, RowsType
  <2>4. ASSUME NEW s \in Sources, NEW i \in 1 .. Len(rows[s]), i <= skip[s], rows[s][i].usable
        PROVE  rows[s][i].addr < cur'
    <3>1. rows[s][i].addr <= cur
      BY <2>4 DEF Swept
    <3> QED
      BY <2>1, <2>2, <3>1, RowKinds
  <2>5. ASSUME NEW s \in Sources, NEW i \in 1 .. Len(rows[s]), i > skip[s]
        PROVE  cur' <= rows[s][i].addr
    <3>1. s \in Ready /\ pos[s] = skip[s] + 1 /\ pos[s] \in 1 .. Len(rows[s])
      BY <1>1, <2>5, RowKinds DEF AllFetched, Ready, FeedType, CursorsStand, CursorStands
    <3>2. AddrAt(s) <= rows[s][i].addr /\ AddrAt(s) \in Nat
      BY <2>5, <3>1, RowKinds DEF AddrAt
    <3> QED
      BY <2>1, <2>2, <3>1, <3>2, RowKinds
  <2>6. Swept'
    BY <1>1, <2>1, <2>4, <2>5, RowKinds DEF Swept
  <2>7. \A r \in RecordsOf(cur') : ~(r[2] <= skip[r[1]])
    <3> SUFFICES ASSUME NEW r \in RecordsOf(cur'), r[2] <= skip[r[1]] PROVE FALSE
      OBVIOUS
    <3>1. PICK s \in Sources : \E i \in 1 .. Len(rows[s]) : r = <<s, i>>
      BY RecordIs DEF FeedType
    <3>2. PICK i \in 1 .. Len(rows[s]) : r = <<s, i>>
      BY <3>1
    <3>3. rows[s][i].addr = cur' /\ rows[s][i].usable
      BY <3>2, RecordIs DEF FeedType
    <3> QED
      BY <2>1, <2>4, <3>2, <3>3
  <2>8. GatheredIs'
    BY <1>1, <1>3, <2>7 DEF GatheredIs, RecordsOf
  <2> QED
    BY <1>2, <2>3, <2>6, <2>8
<1>4. CASE Ready = {} /\ cur' = cur /\ builder' = "fed"
  <2>1. FeedType' /\ Swept'
    BY <1>1, <1>4 DEF FeedType, RowsType, Swept
  <2>2. \A s \in Sources : stage[s] = "end"
    BY <1>1, <1>4 DEF AllFetched, Ready, FeedType
  <2>3. GatheredIs'
    BY <1>1, <1>4, <2>2 DEF GatheredIs
  <2> QED
    BY <1>2, <2>1, <2>3
<1> QED
  BY <1>3, <1>4 DEF Yield

\* db2view leaves the pool, ends or is run again.
LEMMA EndKeeps ==
  ASSUME FeedInv, Abort \/ Finish
  PROVE  FeedInv'
BY DEF Abort, Finish, feedVars, FeedInv, FeedType, RowsType, CursorsStand, CursorStands,
       Swept, GatheredIs

LEMMA RerunKeeps ==
  ASSUME FeedInv, Rerun
  PROVE  FeedInv'
<1> USE DEF FeedInv
<1>1. /\ rows' = rows /\ pos' = [s \in Sources |-> 0] /\ skip' = [s \in Sources |-> 0]
      /\ stage' = [s \in Sources |-> "fetch"] /\ cur' = 0 /\ gathered' = {}
      /\ builder' = "build"
  BY DEF Rerun
<1>2. FeedType'
  BY <1>1 DEF FeedType, RowsType
<1>3. CursorsStand' /\ Swept'
  BY <1>1, RowKinds DEF CursorsStand, CursorStands, Swept
<1>4. RecordsOf(cur)' = {}
  <2>1. \A r \in RecordsOf(0) : FALSE
    BY RecordIs, RowKinds DEF FeedType
  <2> QED
    BY <1>1, <2>1 DEF RecordsOf
<1> QED
  BY <1>1, <1>2, <1>3, <1>4 DEF GatheredIs

\* Every step keeps what is said of the sources.
LEMMA FeedStep == FeedInv /\ [BuildNext]_allVars => FeedInv'
<1> SUFFICES ASSUME FeedInv, [BuildNext]_allVars PROVE FeedInv'
  OBVIOUS
<1>1. ASSUME UNCHANGED <<feedVars, builder>> PROVE FeedInv'
  BY <1>1
  DEF feedVars, FeedInv, FeedType, RowsType, CursorsStand, CursorStands, Swept, GatheredIs,
      RecordsOf
<1>2. ASSUME NEW w \in Workers, Work(w) \/ Raise(w) \/ Terminate(w) PROVE FeedInv'
  BY <1>1, <1>2 DEF Work, TakeTask, StoreStep, Raise, Terminate, buildVars
<1>3. CASE UNCHANGED allVars
  BY <1>1, <1>3 DEF allVars, buildVars
<1> QED
  BY <1>2, <1>3, FetchKeeps, PassOverKeeps, TakeKeeps, YieldKeeps, EndKeeps, RerunKeeps
  DEF BuildNext, Feed

-----------------------------------------------------------------------------
(* The pool and the view                                                   *)

LEMMA PoolInit == BuildInit => PoolInv
<1> SUFFICES ASSUME BuildInit PROVE PoolInv
  OBVIOUS
<1>1. tasks = <<>> /\ tasks \in Seq(Hosts) /\ Len(tasks) = 0
  BY DEF BuildInit
<1>2. \A w \in Workers : pc[w] = "idle"
  BY DEF BuildInit, Init
<1>3. docs = {} /\ cur = 0 /\ builder = "build"
  BY DEF BuildInit, Init
<1>4. \A a \in Addrs : ~Yielded(a)
  BY <1>3, BuildAssumption DEF Yielded
<1> QED
  BY <1>1, <1>2, <1>3, <1>4
  DEF PoolInv, TasksAre, CallsAre, ViewIsOfRows, StoredSoFar, Alone, Busy

\* What the sources do before they yield is nothing to the pool.
LEMMA PoolStands ==
  ASSUME PoolInv, UNCHANGED <<viewVars, rows, cur, tasks, builder, failed>>
  PROVE  PoolInv'
BY DEF viewVars, PoolInv, TasksAre, CallsAre, ViewIsOfRows, StoredSoFar, Alone, AllIdle, Busy,
       ToStore, OnItsWay, Yielded, Running, RecordsOf

\* The group that is yielded has another address than those before it.
LEMMA YieldPools ==
  ASSUME TypeOK, FeedInv, PoolInv, Yield
  PROVE  PoolInv'
<1> USE DEF PoolInv
<1> DEFINE new == [addr |-> cur, of |-> gathered]
<1>1. /\ UNCHANGED <<viewVars, rows, failed>> /\ AllFetched /\ AddressIsDone
      /\ builder = "build" /\ builder' \in {"build", "fed"}
      /\ tasks' = IF gathered = {} THEN tasks ELSE Append(tasks, new)
      /\ \/ Ready # {} /\ cur' = Min({AddrAt(s) : s \in Ready}) /\ builder' = "build"
         \/ Ready = {} /\ builder' = "fed"
  BY DEF Yield, AllFetched, feedVars
<1>2. UNCHANGED <<docs, pc, host, found, stored, refusals>>
  BY <1>1 DEF viewVars
<1>3. gathered = RecordsOf(cur) /\ cur \in Nat
  <2>1. gathered = RecordsOf(cur)
    BY <1>1, YieldsAll
  <2>2. cur \in Nat
    BY BuildAssumption DEF FeedInv, FeedType
  <2> QED
    BY <2>1, <2>2
<1>4. \A a \in Nat : a <= cur => Yielded(a)'
  <2>1. CASE builder' = "fed"
    BY <2>1 DEF Yielded
  <2>2. CASE Ready # {} /\ cur' = Min({AddrAt(s) : s \in Ready}) /\ builder' = "build"
    <3>1. PICK s \in Ready : cur' = AddrAt(s)
      BY <1>1, <2>2, YieldsAll
    <3>2. cur' \in Nat /\ cur < cur'
      BY <1>1, <2>2, <3>1, YieldsAll, RowKinds
      DEF Ready, AddrAt, FeedInv, CursorsStand, CursorStands
    <3> QED
      BY <1>3, <3>2 DEF Yielded
  <2> QED
    BY <1>1, <2>1, <2>2
<1>5. \A a \in Addrs : Yielded(a)' => Yielded(a) \/ a = cur \/ RecordsOf(a) = {}
  <2> SUFFICES ASSUME NEW a \in Addrs, Yielded(a)', a > cur PROVE RecordsOf(a) = {}
    BY <1>1, <1>3, BuildAssumption DEF Yielded
  <2>1. a \in Nat
    BY BuildAssumption
  <2> QED
    BY <1>1, <2>1, YieldsAll DEF Yielded
<1>6. \A a : RecordsOf(a)' = RecordsOf(a)
  BY <1>1 DEF RecordsOf
<1>7. \A i \in 1 .. Len(tasks) :
        tasks[i].addr \in Addrs /\ tasks[i].addr \in Nat /\ tasks[i].addr < cur
  <2> SUFFICES ASSUME NEW i \in 1 .. Len(tasks)
               PROVE  tasks[i].addr \in Addrs /\ tasks[i].addr \in Nat /\ tasks[i].addr < cur
    OBVIOUS
  <2>1. tasks[i] \in Hosts
    BY DEF TasksAre
  <2>2. tasks[i].addr < cur
    BY <1>1 DEF TasksAre, Yielded
  <2> QED
    BY <2>1, <2>2, BuildAssumption DEF Hosts
<1>8. \A w \in Workers : host[w].addr \in Nat /\ (Busy(w) => host[w].addr < cur)
  BY <1>1, BuildAssumption DEF CallsAre, Running, Yielded, TypeOK, Hosts
<1>9. \A w \in Workers : Busy(w)' = Busy(w) /\ ToStore(w)' = ToStore(w)
  BY <1>2 DEF Busy, ToStore
<1>10. CASE gathered = {}
  <2>1. tasks' = tasks
    BY <1>1, <1>10
  <2>2. TasksAre'
    BY <1>1, <1>3, <1>4, <1>6, <1>7, <2>1 DEF TasksAre, Running
  <2>4. CallsAre'
    BY <1>1, <1>2, <1>3, <1>4, <1>6, <1>8, <1>9, <2>1 DEF CallsAre, Alone, Busy
  <2>5. ViewIsOfRows'
    BY <1>2, <1>6 DEF ViewIsOfRows
  <2>3. StoredSoFar'
    BY <1>1, <1>2, <1>3, <1>5, <1>6, <1>9, <1>10, <2>1 DEF StoredSoFar, OnItsWay
  <2> QED
    BY <2>2, <2>3, <2>4, <2>5
<1>11. CASE gathered # {}
  <2>1. cur \in Addrs
    <3>1. PICK r \in RecordsOf(cur) : TRUE
      BY <1>3, <1>11
    <3>2. PICK s \in Sources : \E i \in 1 .. Len(rows[s]) : r = <<s, i>>
      BY RecordIs DEF FeedInv, FeedType
    <3>3. PICK i \in 1 .. Len(rows[s]) : r = <<s, i>>
      BY <3>2
    <3>4. rows[s][i].addr = cur
      BY <3>3, RecordIs DEF FeedInv, FeedType
    <3> QED
      BY <3>4, RowKinds DEF FeedInv
  <2>2. new \in Hosts
    BY <2>1 DEF Hosts, FeedInv, GatheredIs
  <2>3. /\ tasks \in Seq(Hosts) /\ tasks' \in Seq(Hosts) /\ Len(tasks') = Len(tasks) + 1
        /\ \A i \in 1 .. Len(tasks) : tasks'[i] = tasks[i]
        /\ tasks'[Len(tasks) + 1] = new
    BY <1>1, <1>11, <2>2 DEF TasksAre
  <2>4. \A i \in 1 .. Len(tasks') :
          (i \in 1 .. Len(tasks) /\ tasks'[i] = tasks[i]) \/ (i = Len(tasks) + 1 /\ tasks'[i] = new)
    BY <2>3
  <2>5. \A i, j \in 1 .. Len(tasks') : tasks'[i].addr = tasks'[j].addr => i = j
    BY <1>3, <1>7, <2>3, <2>4 DEF TasksAre
  <2>6. \A i \in 1 .. Len(tasks') :
          tasks'[i].addr <= cur /\ tasks'[i].addr \in Nat
            /\ tasks'[i].of = RecordsOf(tasks'[i].addr)
    BY <1>3, <1>7, <2>4 DEF TasksAre
  <2>7. TasksAre'
    BY <1>1, <1>4, <1>6, <2>3, <2>5, <2>6 DEF TasksAre, Running
  <2>8. CallsAre'
    <3>1. \A w \in Workers : Busy(w) => \A i \in 1 .. Len(tasks') : tasks'[i].addr # host[w].addr
      BY <1>3, <1>8, <2>4 DEF CallsAre
    <3> QED
      BY <1>1, <1>2, <1>3, <1>4, <1>6, <1>8, <1>9, <3>1 DEF CallsAre, Alone, Busy
  <2>9. ViewIsOfRows'
    BY <1>2, <1>6 DEF ViewIsOfRows
  <2>10. StoredSoFar'
    <3> SUFFICES ASSUME ~failed, refusals = 0, NEW a \in Addrs, Yielded(a)' PROVE OnItsWay(a)'
      BY <1>1, <1>2 DEF StoredSoFar
    <3>1. CASE RecordsOf(a) = {}
      BY <1>6, <3>1 DEF OnItsWay
    <3>2. CASE a = cur
      BY <2>3, <3>2 DEF OnItsWay
    <3>3. CASE Yielded(a)
      <4>1. OnItsWay(a)
        BY <1>1, <3>3 DEF StoredSoFar
      <4> QED
        BY <1>2, <1>6, <1>9, <2>3, <2>4, <4>1 DEF OnItsWay
    <3> QED
      BY <1>5, <3>1, <3>2, <3>3
  <2> QED
    BY <2>7, <2>8, <2>9, <2>10
<1> QED
  BY <1>10, <1>11

\* A task goes from the queue to a worker.
LEMMA TakeTaskPools ==
  ASSUME TypeOK, PoolInv, NEW w \in Workers, TakeTask(w)
  PROVE  PoolInv'
<1> USE DEF PoolInv
<1> DEFINE h == Head(tasks)
<1>1. /\ tasks \in Seq(Hosts) /\ Len(tasks) > 0 /\ h = tasks[1] /\ h \in Hosts
      /\ tasks' \in Seq(Hosts) /\ Len(tasks') = Len(tasks) - 1 /\ Len(tasks) \in Nat
      /\ \A i \in 1 .. Len(tasks') : tasks'[i] = tasks[i + 1] /\ i + 1 \in 1 .. Len(tasks)
  BY DEF TasksAre, TakeTask
<1>2. /\ UNCHANGED <<rows, cur, builder, failed, docs, found, stored, refusals>>
      /\ builder \in {"build", "fed"} /\ pc[w] = "idle"
      /\ host' = [host EXCEPT ![w] = h]
  BY DEF TakeTask, Call, feedVars
<1>3. pc' = [pc EXCEPT ![w] = pc'[w]] /\ pc'[w] \in {"find", "store"}
  BY DEF TakeTask, Call, Goto, TypeOK
<1>4. \A a : RecordsOf(a)' = RecordsOf(a) /\ Yielded(a)' = Yielded(a)
  BY <1>2 DEF RecordsOf, Yielded
<1>5. /\ host'[w] = h /\ \A v \in Workers \ {w} : host'[v] = host[v] /\ pc'[v] = pc[v]
  BY <1>2, <1>3 DEF TypeOK
<1>6. /\ 1 \in 1 .. Len(tasks)
      /\ h.of = RecordsOf(h.addr) /\ Running /\ Yielded(h.addr)
      /\ \A i \in 1 .. Len(tasks') : tasks'[i].addr # h.addr
      /\ \A v \in Workers : Busy(v) => host[v].addr # h.addr
  BY <1>1 DEF TasksAre, CallsAre
<1>7. TasksAre'
  <2>1. \A i, j \in 1 .. Len(tasks') : tasks'[i].addr = tasks'[j].addr => i = j
    <3> SUFFICES ASSUME NEW i \in 1 .. Len(tasks'), NEW j \in 1 .. Len(tasks'),
                        tasks'[i].addr = tasks'[j].addr
                 PROVE  i = j
      OBVIOUS
    <3>1. i + 1 = j + 1
      BY <1>1 DEF TasksAre
    <3> QED
      BY <3>1
  <2>2. \A i \in 1 .. Len(tasks') :
          Yielded(tasks'[i].addr) /\ tasks'[i].of = RecordsOf(tasks'[i].addr)
    BY <1>1 DEF TasksAre
  <2>3. Running'
    BY <1>2 DEF Running
  <2> QED
    BY <1>1, <1>4, <2>1, <2>2, <2>3 DEF TasksAre
<1>8. CallsAre'
  <2>1. Alone'
    BY <1>5, <1>6 DEF CallsAre, Alone, Busy
  <2>2. ASSUME NEW v \in Workers, Busy(v)'
        PROVE  /\ host'[v].of = RecordsOf(host'[v].addr)
               /\ Yielded(host'[v].addr)
               /\ \A i \in 1 .. Len(tasks') : tasks'[i].addr # host'[v].addr
    <3>1. CASE v = w
      BY <1>5, <1>6, <3>1
    <3>2. CASE v # w
      BY <1>1, <1>5, <1>6, <2>2, <3>2 DEF CallsAre, Busy
    <3> QED
      BY <3>1, <3>2
  <2> QED
    BY <1>2, <1>4, <2>1, <2>2 DEF CallsAre
<1>9. ViewIsOfRows'
  BY <1>2, <1>3, <1>4, <1>5 DEF ViewIsOfRows
<1>10. StoredSoFar'
  <2> SUFFICES ASSUME ~failed, refusals = 0, NEW a \in Addrs, Yielded(a) PROVE OnItsWay(a)'
    BY <1>2, <1>4 DEF StoredSoFar
  <2>1. OnItsWay(a)
    BY <1>2 DEF StoredSoFar
  <2>2. CASE RecordsOf(a) \subseteq stored[a]
    BY <1>2, <1>4, <2>2 DEF OnItsWay
  <2>3. ASSUME NEW i \in 1 .. Len(tasks), tasks[i].addr = a PROVE OnItsWay(a)'
    <3>1. CASE i = 1
      BY <1>1, <1>3, <1>5, <2>3, <3>1 DEF OnItsWay, ToStore
    <3>2. CASE i # 1
      <4>1. i - 1 \in 1 .. Len(tasks') /\ tasks'[i - 1] = tasks[i]
        BY <1>1, <3>2
      <4> QED
        BY <2>3, <4>1 DEF OnItsWay
    <3> QED
      BY <3>1, <3>2
  <2>4. ASSUME NEW v \in Workers, ToStore(v), host[v].addr = a PROVE OnItsWay(a)'
    BY <1>2, <1>5, <2>4 DEF OnItsWay, ToStore
  <2> QED
    BY <2>1, <2>2, <2>3, <2>4 DEF OnItsWay
<1> QED
  BY <1>7, <1>8, <1>9, <1>10

\* A worker goes on with the host it has, and keeps or ends its call.
LEMMA CallGoesOn ==
  ASSUME TypeOK, PoolInv, NEW w \in Workers, Busy(w),
         UNCHANGED <<rows, cur, tasks, builder, host>>,
         \A v \in Workers \ {w} : pc'[v] = pc[v] /\ found'[v] = found[v],
         docs' \subseteq docs \/ \E d \in docs' :
           docs' = docs \cup {d} /\ d.addr = host[w].addr /\ d.of \subseteq RecordsOf(d.addr),
         pc'[w] = "store_merged" => found'[w].of \subseteq RecordsOf(host[w].addr),
         \A a \in Addrs : stored[a] \subseteq stored'[a],
         builder' # "aborted" /\ ~failed' /\ refusals' = 0 =>
           /\ ~failed /\ refusals = 0
           /\ ToStore(w) => ToStore(w)' \/ RecordsOf(host[w].addr) \subseteq stored'[host[w].addr]
  PROVE  PoolInv'
<1> USE DEF PoolInv
<1>1. \A a : RecordsOf(a)' = RecordsOf(a) /\ Yielded(a)' = Yielded(a)
  BY DEF RecordsOf, Yielded
<1>2. TasksAre'
  BY <1>1 DEF TasksAre, Running
<1>3. \A v \in Workers : Busy(v)' => Busy(v)
  BY DEF Busy
<1>4. CallsAre'
  BY <1>1, <1>3 DEF CallsAre, Running, Alone, AllIdle
<1>5. ViewIsOfRows'
  BY <1>1 DEF ViewIsOfRows
<1>6. StoredSoFar'
  <2> SUFFICES ASSUME builder' # "aborted", ~failed', refusals' = 0,
                      NEW a \in Addrs, Yielded(a)
               PROVE  OnItsWay(a)'
    BY <1>1 DEF StoredSoFar
  <2>1. OnItsWay(a)
    BY DEF StoredSoFar
  <2>2. \A v \in Workers \ {w} : ToStore(v)' = ToStore(v)
    BY DEF ToStore
  <2> QED
    BY <1>1, <2>1, <2>2 DEF OnItsWay
<1> QED
  BY <1>2, <1>4, <1>5, <1>6

LEMMA StoreStepPools ==
  ASSUME IInv, PoolInv, NEW w \in Workers, StoreStep(w)
  PROVE  PoolInv'
<1> USE DEF IInv
<1>1. /\ UNCHANGED <<rows, cur, tasks, builder, failed, host>> /\ Busy(w)
      /\ pc' = [pc EXCEPT ![w] = pc'[w]]
  BY DEF StoreStep, merge_host, store_host, Find, StoreMerged, MergedRefused, Remove, Store,
         StoreRefused, Insert, Goto, Busy, buildVars, feedVars, TypeOK
<1>2. \A v \in Workers \ {w} : pc'[v] = pc[v]
  BY <1>1 DEF TypeOK
<1>3. host[w].of = RecordsOf(host[w].addr) /\ host[w].addr \in Addrs
  BY <1>1 DEF PoolInv, CallsAre, TypeOK, Hosts
<1>4. CASE Find(w)
  <2>1. UNCHANGED <<docs, stored, refusals>> /\ pc'[w] \in {"store_merged", "store"}
    BY <1>4 DEF Find, Goto, counts, TypeOK
  <2>2. /\ \A v \in Workers \ {w} : found'[v] = found[v]
        /\ pc'[w] = "store_merged" => found'[w].of \subseteq RecordsOf(host[w].addr)
    BY <1>4 DEF Find, Goto, TypeOK, PoolInv, ViewIsOfRows
  <2> QED
    BY <1>1, <1>2, <2>1, <2>2, CallGoesOn DEF ToStore
<1>5. ASSUME NEW new \in SUBSET Results, Insert(w, new),
             new \subseteq RecordsOf(host[w].addr), pc'[w] \in {"remove", "idle"}
      PROVE  PoolInv'
  <2> DEFINE doc == [id |-> ids + 1, addr |-> host[w].addr, of |-> new]
  <2>1. docs' = docs \cup {doc} /\ doc.addr = host[w].addr /\ doc.of = new
    BY <1>5 DEF Insert
  <2> HIDE DEF doc
  <2>2. \E d \in docs' : docs' = docs \cup {d} /\ d.addr = host[w].addr
                          /\ d.of \subseteq RecordsOf(d.addr)
    BY <1>5, <2>1
  <2>3. UNCHANGED <<found, refusals>>
    BY <1>5 DEF Insert, counts
  <2>4. /\ \A a \in Addrs : stored[a] \subseteq stored'[a]
        /\ RecordsOf(host[w].addr) \subseteq stored'[host[w].addr]
    BY <1>3, <1>5 DEF Insert, TypeOK
  <2> QED
    BY <1>1, <1>2, <1>5, <2>2, <2>3, <2>4, CallGoesOn
<1>6. CASE StoreMerged(w)
  <2>1. Merged(w) \in SUBSET Results /\ Merged(w) \subseteq RecordsOf(host[w].addr)
    BY <1>3, <1>6 DEF StoreMerged, Merged, TypeOK, Docs, Hosts, PoolInv, ViewIsOfRows
  <2>2. Insert(w, Merged(w)) /\ pc'[w] = "remove"
    BY <1>6 DEF StoreMerged, Goto, TypeOK
  <2> QED
    BY <1>5, <2>1, <2>2
<1>7. CASE Store(w)
  <2>1. host[w].of \in SUBSET Results
    BY DEF TypeOK, Hosts
  <2>2. Insert(w, host[w].of) /\ pc'[w] = "idle"
    BY <1>7 DEF Store, Goto, TypeOK
  <2> QED
    BY <1>3, <1>5, <2>1, <2>2
<1>8. CASE Remove(w)
  <2>1. UNCHANGED <<found, stored, refusals>> /\ docs' \subseteq docs /\ pc'[w] = "idle"
        /\ ~ToStore(w)
    BY <1>8 DEF Remove, Goto, counts, TypeOK, ToStore
  <2> QED
    BY <1>1, <1>2, <2>1, CallGoesOn
<1>9. CASE MergedRefused(w) \/ StoreRefused(w)
  <2>1. UNCHANGED <<docs, found, stored>> /\ refusals' # 0 /\ pc'[w] \in {"store", "idle"}
    BY <1>9, ViewAssumption DEF MergedRefused, StoreRefused, Goto, TypeOK
  <2> QED
    BY <1>1, <1>2, <2>1, CallGoesOn
<1> QED
  BY <1>4, <1>6, <1>7, <1>8, <1>9 DEF StoreStep, merge_host, store_host

\* A task raises, or its process is terminated.
LEMMA DeathPools ==
  ASSUME TypeOK, PoolInv, NEW w \in Workers, Raise(w) \/ Terminate(w)
  PROVE  PoolInv'
<1>1. /\ UNCHANGED <<rows, cur, tasks, builder, host, docs, found, stored>> /\ Busy(w)
      /\ pc' = [pc EXCEPT ![w] = "idle"] /\ (failed' \/ builder' = "aborted")
  BY DEF Raise, Terminate, Die, Goto, buildVars, feedVars
<1>2. pc'[w] = "idle" /\ \A v \in Workers \ {w} : pc'[v] = pc[v]
  BY <1>1 DEF TypeOK
<1> QED
  BY <1>1, <1>2, CallGoesOn

\* db2view leaves the pool, ends or is run again.
LEMMA EndPools ==
  ASSUME FeedType, PoolInv, Abort \/ Finish \/ Rerun
  PROVE  PoolInv'
<1> USE DEF PoolInv
<1>1. /\ UNCHANGED <<rows, docs, pc, host, found, stored, refusals>>
      /\ tasks' = <<>> /\ tasks' \in Seq(Hosts) /\ Len(tasks') = 0
  <2>1. tasks' = <<>>
    <3>1. CASE Abort \/ Finish
      BY <3>1 DEF Abort, Finish
    <3>2. CASE Rerun
      <4>1. tasks' = tasks /\ ~Running
        BY <3>2 DEF Rerun, Running
      <4>2. Len(tasks) = 0
        BY <4>1 DEF TasksAre
      <4> QED
        BY <4>1, <4>2 DEF TasksAre
    <3> QED
      BY <3>1, <3>2
  <2> QED
    BY <2>1 DEF Abort, Finish, Rerun, viewVars, feedVars
<1>2. \A a : RecordsOf(a)' = RecordsOf(a)
  BY <1>1 DEF RecordsOf
<1>3. TasksAre' /\ ViewIsOfRows'
  BY <1>1, <1>2 DEF TasksAre, ViewIsOfRows
<1>4. CASE Abort
  BY <1>1, <1>2, <1>3, <1>4 DEF Abort, CallsAre, Alone, Busy, Running, StoredSoFar
<1>5. CASE Finish
  <2>1. /\ builder = "fed" /\ builder' = "done" /\ failed' = failed /\ ~failed
        /\ tasks = <<>> /\ AllIdle
    BY <1>5 DEF Finish
  <2>2. CallsAre'
    BY <1>1, <2>1 DEF CallsAre, Alone, AllIdle, Busy
  <2>3. StoredSoFar'
    BY <1>1, <1>2, <2>1 DEF StoredSoFar, OnItsWay, Yielded, ToStore
  <2> QED
    BY <1>3, <2>2, <2>3
<1>6. CASE Rerun
  <2>1. AllIdle /\ cur' = 0 /\ builder' = "build"
    BY <1>6 DEF Rerun
  <2>2. CallsAre'
    BY <1>1, <2>1 DEF CallsAre, Alone, AllIdle, Busy
  <2>3. \A a \in Addrs : ~Yielded(a)'
    BY <2>1, BuildAssumption DEF Yielded
  <2> QED
    BY <1>3, <2>2, <2>3 DEF StoredSoFar
<1> QED
  BY <1>4, <1>5, <1>6

-----------------------------------------------------------------------------
(* The theorems                                                            *)

\* A step of the build is one of the store, or leaves the view alone; no other worker
\* is busy with the address of a call it makes.
LEMMA BuildStepIs ==
  ASSUME BuildInv, [BuildNext]_allVars
  PROVE  \/ UNCHANGED viewVars
         \/ \E w \in Workers : Step(w)
         \/ \E w \in Workers : \E h \in Hosts :
              Call(w, h) /\ \A v \in Workers : Busy(v) => host[v].addr # h.addr
<1>1. CASE UNCHANGED allVars
  BY <1>1 DEF allVars
<1>2. CASE Feed \/ Rerun \/ \E s \in Sources : CursorLost(s)
  BY <1>2 DEF Feed, Rerun, CursorLost, Deliver, PassOver, Exhaust, Take, Yield, Abort, Finish
<1>3. ASSUME NEW w \in Workers, TakeTask(w)
      PROVE  \E h \in Hosts : Call(w, h) /\ \A v \in Workers : Busy(v) => host[v].addr # h.addr
  <2>1. /\ tasks \in Seq(Hosts) /\ Head(tasks) \in Hosts /\ Head(tasks) = tasks[1]
        /\ 1 \in 1 .. Len(tasks)
    BY <1>3 DEF BuildInv, PoolInv, TasksAre, TakeTask
  <2>2. Call(w, Head(tasks))
    BY <1>3 DEF TakeTask
  <2>3. \A v \in Workers : Busy(v) => host[v].addr # Head(tasks).addr
    BY <2>1 DEF BuildInv, PoolInv, CallsAre
  <2> QED
    BY <2>1, <2>2, <2>3
<1>4. ASSUME NEW w \in Workers, StoreStep(w) \/ Raise(w) \/ Terminate(w) PROVE Step(w)
  BY <1>4 DEF StoreStep, Raise, Terminate, Step
<1> QED
  BY <1>1, <1>2, <1>3, <1>4 DEF BuildNext, Work

LEMMA BuildInvStep == BuildInv /\ [BuildNext]_allVars => BuildInv'
<1> SUFFICES ASSUME BuildInv, [BuildNext]_allVars PROVE BuildInv'
  OBVIOUS
<1>1. [Next]_viewVars
  BY BuildStepIs DEF Next
<1>2. IInv'
  BY <1>1, StepInv DEF BuildInv
<1>3. FeedInv'
  BY FeedStep DEF BuildInv
<1>4. PoolInv'
  <2> USE DEF BuildInv, IInv, FeedInv
  <2>1. CASE UNCHANGED allVars
    BY <2>1, PoolStands DEF allVars, buildVars, feedVars
  <2>2. ASSUME NEW s \in Sources,
               Deliver(s) \/ PassOver(s) \/ Exhaust(s) \/ Take(s) \/ CursorLost(s)
        PROVE  PoolInv'
    BY <2>2, PoolStands DEF Deliver, PassOver, Exhaust, Take, CursorLost
  <2>3. ASSUME NEW w \in Workers, Work(w) \/ Raise(w) \/ Terminate(w) PROVE PoolInv'
    BY <2>3, TakeTaskPools, StoreStepPools, DeathPools DEF Work
  <2>4. CASE Yield \/ Abort \/ Finish \/ Rerun
    BY <2>4, YieldPools, EndPools
  <2> QED
    BY <2>1, <2>2, <2>3, <2>4 DEF BuildNext, Feed
<1> QED
  BY <1>2, <1>3, <1>4 DEF BuildInv

\* The invariant of the build.
THEOREM BuildInvHolds == BuildSpec => []BuildInv
<1>1. BuildInit => BuildInv
  BY InitInv, FeedInit, PoolInit DEF BuildInit, BuildInv
<1> QED
  BY <1>1, BuildInvStep, PTL DEF BuildSpec

\* Type correctness, and no cursor ever stands before the place where its source would
\* open it again or after its records.
LEMMA BuildTypes == BuildInv => BuildTypeOK
<1> SUFFICES ASSUME BuildInv PROVE BuildTypeOK
  OBVIOUS
<1> USE DEF BuildInv, FeedInv
<1>1. \A s \in Sources : skip[s] \in 0..pos[s] /\ pos[s] \in 0..Len(rows[s])
  BY RowKinds DEF FeedType, CursorsStand, CursorStands
<1>2. \A i \in DOMAIN tasks : tasks[i] \in Hosts
  BY DEF PoolInv, TasksAre
<1> QED
  BY <1>1, <1>2 DEF BuildTypeOK, IInv, FeedType, GatheredIs

\* A build that is done with no insert refused has stored the records of every address,
\* and the view has nothing else.
LEMMA DoneIsComplete == BuildInv => BuildIsComplete
<1> SUFFICES ASSUME BuildInv, builder = "done", refusals = 0, NEW a \in Addrs
             PROVE  known[a] = RecordsOf(a)
  BY DEF BuildIsComplete
<1> USE DEF BuildInv, PoolInv
<1>1. known[a] \subseteq RecordsOf(a)
  BY KnownIs DEF ViewIsOfRows
<1>2. Len(tasks) = 0 \/ Running
  BY DEF TasksAre
<1>3. AllIdle /\ ~failed
  BY DEF CallsAre
<1>4. RecordsOf(a) \subseteq stored[a]
  BY <1>2, <1>3 DEF StoredSoFar, OnItsWay, Yielded, ToStore, AllIdle, Busy, TasksAre, Running
<1>5. stored[a] \subseteq known[a]
  BY DEF IInv, NothingForgotten
<1> QED
  BY <1>1, <1>4, <1>5

\* However many sources, records, workers and builds there are and whatever fails, a
\* build that ends well, with no host refused, has put all the usable records into the
\* view, each under its address (to_view_parallel of view.py, db2view.py).
THEOREM BuildsHold == BuildSpec => []BuildHolds
<1>1. BuildInv => BuildHolds
  BY BuildTypes, DoneIsComplete DEF BuildHolds
<1> QED
  BY <1>1, BuildInvHolds, PTL

\* A build stores into the view as processes would that never store two hosts of one
\* address at a time, although nothing but the order of the sources sees to it.
THEOREM BuildsDoNotOverlap == BuildSpec => CallsNeverOverlap
<1>1. BuildInit => Init
  BY DEF BuildInit
<1>2. BuildInv /\ [BuildNext]_allVars => [SerialNext]_viewVars
  BY BuildStepIs DEF SerialNext, Free
<1> QED
  BY <1>1, <1>2, BuildInvHolds, PTL DEF BuildSpec, CallsNeverOverlap, SerialSpec

\* So db2view keeps one document of each address, and one more at most for each refused
\* insert, each worker that raised or was terminated and the call in progress, whoever
\* else may not exclude anyone (store_or_merge_host of mongo.py, run by db2view.py).
THEOREM BuildsKeepOne ==
  ASSUME ~NoMerge
  PROVE  BuildSpec => []OneDocPerAddress
  BY BuildsDoNotOverlap, OneDocIsKept, PTL DEF CallsNeverOverlap
=============================================================================
