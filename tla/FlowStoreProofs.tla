-------------------------- MODULE FlowStoreProofs --------------------------
(***************************************************************************)
(* Proofs about the flow store, for any number of importers, records,       *)
(* cleanups, roundings and failures: no connection is lost or folded twice  *)
(* that no race and no failure puts at risk, the counts are at least those  *)
(* of the connections, and the slots of a flow cover its records.           *)
(*                                                                          *)
(* The argument follows a connection.  It waits until it is folded, into a  *)
(* flow of its own key.  A cleanup dooms that flow, and carries what was in *)
(* it; from then on the connection may be in two flows, but one of them is  *)
(* doomed and the other, of the key turned around, has several source ports *)
(* and no cleanup turns it again.                                           *)
(***************************************************************************)
EXTENDS FlowStore, FiniteSetTheorems, TLAPS

-----------------------------------------------------------------------------
(* The invariant.                                                           *)

Hosts == {src[r] : r \in Records} \cup {dst[r] : r \in Records}
Ports == {sport[r] : r \in Records} \cup {dport[r] : r \in Records}
Keys == Hosts \X Hosts \X Ports
Conns == Records \ Metas
Slots == DOMAIN Rounded

FlowDocs ==
  [_id : Nat, key : Keys, sports : SUBSET Ports, times : SUBSET Slots,
   conns : SUBSET Conns, metas : SUBSET Metas, count : Nat]
AddOps ==
  [op : {"add"}, job : Nat, ids : SUBSET Nat, key : Keys, sports : SUBSET Ports,
   times : SUBSET Slots, conns : SUBSET Conns, count : Nat]
RemoveOps == [op : {"remove"}, job : Nat, ids : SUBSET Nat]
SetOps == [op : {"set"}, job : Nat, ids : SUBSET Nat, times : SUBSET Slots]

Adds == {op \in todo : op.op = "add"}
Removes == {op \in todo : op.op = "remove"}
Sets == {op \in todo : op.op = "set"}

\* Its removal is among the operations to come.
Doomed(f) == \E op \in Removes : f._id \in op.ids
\* No importer has folded it yet.
Waiting(r) == r \in unread \/ \E i \in Importers : r \in bulk[i]
\* The key of the flow that a cleanup adds it to.
Reverse(r) == <<dst[r], src[r], sport[r]>>
\* It has several source ports: no cleanup turns it.
Several(ports) == \E p, q \in ports : p # q
\* Where a connection may be: in its own flow, or in that of the other way.
Directed(key, ports, r) ==
  \/ key = Key(r) /\ sport[r] \in ports
  \/ key = Reverse(r) /\ Several(ports)
\* All of them have one time slot, that no rounding makes.
Exact(times, conns) ==
  /\ conns \cap risked = {}
  /\ \E t \in Slots : times \subseteq {t} /\ \A u \in Slots : Rounded[u] # t
Counted(times, conns, count) ==
  /\ count >= Cardinality(conns \ risked)
  /\ Exact(times, conns) => count = Cardinality(conns)
Covered(r, times) == \A t \in slots[r] : t \in times \/ Rounded[t] \in times

Typed ==
  /\ flows \in SUBSET FlowDocs /\ IsFiniteSet(flows) /\ ids \in Nat
  /\ todo \subseteq AddOps \cup RemoveOps \cup SetOps
  /\ unread \subseteq Records /\ risked \subseteq Records
  /\ bulk \in [Importers -> SUBSET Records] /\ sent \subseteq Importers
  /\ insert \in [Importers -> Nat]
  /\ jobs \in 0 .. MaxJobs /\ faults \in 0 .. MaxFaults
\* Identifiers are given once, to flows and to jobs.
Identified ==
  /\ \A f \in flows : f._id \in 1 .. ids
  /\ \A f, g \in flows : f._id = g._id => f = g
  /\ \A op \in todo : op.ids \subseteq 1 .. ids /\ op.job <= jobs
  /\ \A op, o \in todo : op.op = "set" /\ op.job = o.job => o.op = "set"
\* A record waits in one place, and is nowhere else.
Queued ==
  /\ \A i \in Importers :
       /\ bulk[i] \cap unread = {}
       /\ insert[i] \in bulk[i] \cup {0}
       /\ \A j \in Importers : i # j => bulk[i] \cap bulk[j] = {}
  /\ \A r \in Records :
       Waiting(r) => /\ \A f \in flows : r \notin f.conns \cup f.metas
                     /\ \A op \in Adds : r \notin op.conns
Turned ==
  /\ \A f \in flows : f.times # {} /\ \A r \in f.conns : Directed(f.key, f.sports, r)
  /\ \A op \in Adds :
       /\ op.times # {} /\ Several(op.sports)
       /\ \A r \in op.conns : op.key = Reverse(r)
  /\ \A op \in Sets : op.times # {} /\ op.times \subseteq {Rounded[t] : t \in Slots}
Kept ==
  \A r \in Conns \ risked :
    \/ Waiting(r)
    \/ \E f \in flows : r \in f.conns /\ ~Doomed(f)
    \/ \E op \in Adds : r \in op.conns
\* Of two flows that hold a connection one is doomed, and the other is turned for good.
Moved(f, g, r) == Doomed(f) /\ g.key = Reverse(r) /\ Several(g.sports)
Once ==
  /\ \A f, g \in flows : \A r \in (f.conns \cap g.conns) \ risked :
       f = g \/ Moved(f, g, r) \/ Moved(g, f, r)
  /\ \A op \in Adds, g \in flows : \A r \in (op.conns \cap g.conns) \ risked :
       Doomed(g) \/ g.key = op.key
Summing ==
  /\ \A f \in flows : Counted(f.times, f.conns, f.count)
  /\ \A op \in Adds : Counted(op.times, op.conns, op.count)
Covering ==
  /\ \A f \in flows : \A r \in (f.conns \cup f.metas) \ risked : Covered(r, f.times)
  /\ \A op \in Adds : \A r \in op.conns \ risked : Covered(r, op.times)
  /\ \A op \in Sets, f \in flows :
       f._id \in op.ids =>
         \A r \in (f.conns \cup f.metas) \ risked : \A t \in slots[r] : Rounded[t] \in op.times

Inv ==
  Typed /\ Identified /\ Queued /\ Turned /\ Kept /\ Once /\ Summing /\ Covering

-----------------------------------------------------------------------------
(* Counting.                                                                *)

\* Cardinalities are natural numbers, and those of subsets are not greater.
LEMMA Sizes ==
  ASSUME FlowAssumption, NEW C \in SUBSET Records, NEW R
  PROVE  /\ IsFiniteSet(C) /\ Cardinality(C) \in Nat
         /\ IsFiniteSet(C \ R) /\ Cardinality(C \ R) \in Nat
<1>1. IsFiniteSet(C) /\ IsFiniteSet(C \ R)
  BY FS_Subset DEF FlowAssumption
<1> QED
  BY <1>1, FS_CardinalityType

\* What is risked more is counted less, and is exact less often.
LEMMA CountedStays ==
  ASSUME FlowAssumption, NEW times, NEW conns \in SUBSET Conns, NEW count \in Nat,
         risked \subseteq risked', Counted(times, conns, count)
  PROVE  Counted(times, conns, count)'
<1>1. conns \in SUBSET Records
  BY DEF Conns
<1>2. conns \ risked' \subseteq conns \ risked
  OBVIOUS
<1>3. Cardinality(conns \ risked') <= Cardinality(conns \ risked)
  BY <1>1, <1>2, Sizes, FS_Subset
<1>4. Cardinality(conns \ risked') \in Nat /\ Cardinality(conns \ risked) \in Nat
  BY <1>1, Sizes
<1>5. Exact(times, conns)' => Exact(times, conns)
  BY DEF Exact
<1> QED
  BY <1>3, <1>4, <1>5 DEF Counted

LEMMA DisjointUnion ==
  ASSUME NEW A, NEW B, IsFiniteSet(A), IsFiniteSet(B), A \cap B = {}
  PROVE  Cardinality(A \cup B) = Cardinality(A) + Cardinality(B)
<1>1. Cardinality(A) \in Nat /\ Cardinality(B) \in Nat /\ Cardinality({}) = 0
  BY FS_CardinalityType, FS_EmptySet
<1>2. Cardinality(A \cup B) = Cardinality(A) + Cardinality(B) - Cardinality(A \cap B)
  BY FS_Union
<1>3. Cardinality(A \cap B) = 0
  BY <1>1, Zenon
<1> QED
  BY <1>1, <1>2, <1>3

\* Two counts that share nothing but what is risked add up.
LEMMA CountsAdd ==
  ASSUME FlowAssumption,
         NEW T, NEW C \in SUBSET Conns, NEW n \in Nat, Counted(T, C, n)',
         NEW U, NEW D \in SUBSET Conns, NEW m \in Nat, Counted(U, D, m)',
         C \cap D \subseteq risked'
  PROVE  Counted(T \cup U, C \cup D, n + m)'
<1> DEFINE R == risked'
<1>1. C \in SUBSET Records /\ D \in SUBSET Records
  BY DEF Conns
<1>2. /\ IsFiniteSet(C) /\ IsFiniteSet(D) /\ IsFiniteSet(C \ R) /\ IsFiniteSet(D \ R)
      /\ Cardinality(C \ R) \in Nat /\ Cardinality(D \ R) \in Nat
      /\ Cardinality(C) \in Nat /\ Cardinality(D) \in Nat
  BY <1>1, Sizes
<1>3. n + m >= Cardinality((C \cup D) \ R)
  <2>1. (C \cup D) \ R = (C \ R) \cup (D \ R) /\ (C \ R) \cap (D \ R) = {}
    OBVIOUS
  <2>2. Cardinality((C \ R) \cup (D \ R)) = Cardinality(C \ R) + Cardinality(D \ R)
    BY <1>2, <2>1, DisjointUnion
  <2>3. n >= Cardinality(C \ R) /\ m >= Cardinality(D \ R)
    BY DEF Counted
  <2> QED
    BY <1>2, <2>1, <2>2, <2>3
<1>4. ASSUME Exact(T \cup U, C \cup D)' PROVE n + m = Cardinality(C \cup D)
  <2>1. Exact(T, C)' /\ Exact(U, D)' /\ C \cap D = {}
    BY <1>4 DEF Exact
  <2>2. n = Cardinality(C) /\ m = Cardinality(D)
    BY <2>1 DEF Counted
  <2>3. Cardinality(C \cup D) = Cardinality(C) + Cardinality(D)
    BY <1>2, <2>1, DisjointUnion
  <2> QED
    BY <2>2, <2>3
<1> QED
  BY <1>3, <1>4 DEF Counted

-----------------------------------------------------------------------------
(* A flow that gains something.                                             *)

LEMMA AddedFields ==
  ASSUME NEW f \in FlowDocs, NEW P, NEW T, NEW C, NEW M, NEW n
  PROVE  /\ Added(f, P, T, C, M, n)._id = f._id /\ Added(f, P, T, C, M, n).key = f.key
         /\ Added(f, P, T, C, M, n).sports = f.sports \cup P
         /\ Added(f, P, T, C, M, n).times = f.times \cup T
         /\ Added(f, P, T, C, M, n).conns = f.conns \cup C
         /\ Added(f, P, T, C, M, n).metas = f.metas \cup M
         /\ Added(f, P, T, C, M, n).count = f.count + n
  BY DEF Added, FlowDocs

LEMMA AddedType ==
  ASSUME NEW f \in FlowDocs, NEW P \in SUBSET Ports, NEW T \in SUBSET Slots,
         NEW C \in SUBSET Conns, NEW M \in SUBSET Metas, NEW n \in Nat
  PROVE  Added(f, P, T, C, M, n) \in FlowDocs
<1> DEFINE sports == f.sports \cup P
           times == f.times \cup T
           conns == f.conns \cup C
           metas == f.metas \cup M
           count == f.count + n
<1>1. /\ sports \in SUBSET Ports /\ times \in SUBSET Slots /\ conns \in SUBSET Conns
      /\ metas \in SUBSET Metas /\ count \in Nat
  BY DEF FlowDocs
<1>2. Added(f, P, T, C, M, n)
        = [f EXCEPT !.sports = sports, !.times = times, !.conns = conns, !.metas = metas,
                    !.count = count]
  BY DEF Added
<1> HIDE DEF sports, times, conns, metas, count
<1> QED
  BY <1>1, <1>2 DEF FlowDocs

LEMMA EmptyFields ==
  ASSUME ids \in Nat, NEW key \in Keys
  PROVE  /\ Empty(key) \in FlowDocs
         /\ Empty(key)._id = ids + 1 /\ Empty(key).key = key /\ Empty(key).sports = {}
         /\ Empty(key).times = {} /\ Empty(key).conns = {} /\ Empty(key).metas = {}
         /\ Empty(key).count = 0
  BY DEF Empty, FlowDocs

\* Something is added to f, which is there or is made for it.
Gains(f, P, T, C, M, n) ==
  /\ \/ f \in flows /\ ids' = ids
     \/ ids' = ids + 1 /\ \E key \in Keys : f = Empty(key)
  /\ flows' = (flows \ {f}) \cup {Added(f, P, T, C, M, n)}

\* It fits the flow, and what it holds is nowhere else but in doomed flows.
Fits(f, P, T, C, M, n) ==
  /\ P \in SUBSET Ports /\ T \in SUBSET Slots /\ T # {}
  /\ C \in SUBSET Conns /\ M \in SUBSET Metas /\ n \in Nat
  /\ \A r \in C : Directed(f.key, P, r)
  /\ \A r \in (C \cup M) \ risked' : Covered(r, T)
  /\ Counted(T, C, n)'
  /\ risked \subseteq risked' /\ risked' \subseteq Records
  /\ f._id \in Pending => C \cup M \subseteq risked'
  /\ C \cap f.conns \subseteq risked'
  /\ \A r \in C \ risked', g \in flows \ {f} :
       r \in g.conns => Doomed(g) /\ f.key = Reverse(r) /\ Several(P)
  /\ \A op \in Adds' : \A r \in (C \cap op.conns) \ risked' : f.key = op.key
  /\ todo' \subseteq todo /\ Removes' = Removes /\ Sets' = Sets /\ jobs' = jobs

\* The documents after it, and the flow it was added to before it.
LEMMA GainedFlows ==
  ASSUME Typed, Identified, Summing, Turned, Covering, NEW f, NEW P, NEW T, NEW C, NEW M, NEW n,
         Gains(f, P, T, C, M, n), Fits(f, P, T, C, M, n)
  PROVE  /\ f \in FlowDocs
         /\ Counted(f.times, f.conns, f.count)
         /\ f._id \in 1 .. ids' /\ ids <= ids' /\ ids' \in Nat
         /\ \A g \in flows \ {f} : g._id # f._id
         /\ \A r \in f.conns : Directed(f.key, f.sports, r)
         /\ \A r \in (f.conns \cup f.metas) \ risked : Covered(r, f.times)
         /\ f \notin flows => f.conns = {} /\ f.metas = {}
<1>1. CASE f \in flows /\ ids' = ids
  BY <1>1 DEF Typed, Identified, Summing, Turned, Covering
<1>2. CASE ids' = ids + 1 /\ \E key \in Keys : f = Empty(key)
  <2>1. PICK key \in Keys : f = Empty(key)
    BY <1>2
  <2>2. ids \in Nat
    BY DEF Typed
  <2>3. /\ f \in FlowDocs /\ f._id = ids + 1 /\ f.times = {} /\ f.conns = {}
        /\ f.metas = {} /\ f.count = 0
    BY <2>1, <2>2, EmptyFields
  <2>4. Counted({}, {}, 0)
    <3>1. {} \ risked = {}
      OBVIOUS
    <3> QED
      BY <3>1, FS_EmptySet DEF Counted
  <2>5. \A g \in flows : g._id # ids + 1
    BY <2>2 DEF Identified
  <2> QED
    BY <1>2, <2>2, <2>3, <2>4, <2>5
<1> QED
  BY <1>1, <1>2 DEF Gains

\* The flow that gained, and the others.
LEMMA Gained ==
  ASSUME Typed, Identified, Summing, Turned, Covering, NEW f, NEW P, NEW T, NEW C, NEW M, NEW n,
         Gains(f, P, T, C, M, n), Fits(f, P, T, C, M, n)
  PROVE  LET h == Added(f, P, T, C, M, n)
         IN  /\ flows' = (flows \ {f}) \cup {h}
             /\ h \in FlowDocs /\ h._id = f._id /\ h.key = f.key
             /\ h.sports = f.sports \cup P /\ h.times = f.times \cup T
             /\ h.conns = f.conns \cup C /\ h.metas = f.metas \cup M
             /\ h.count = f.count + n
             /\ \A g \in flows' : g # h => g \in flows \ {f} /\ g._id # h._id
<1>1. f \in FlowDocs /\ \A g \in flows \ {f} : g._id # f._id
  BY GainedFlows
<1>2. Added(f, P, T, C, M, n) \in FlowDocs
  BY <1>1, AddedType DEF Fits
<1> QED
  BY <1>1, <1>2, AddedFields DEF Gains

LEMMA GainTyped ==
  ASSUME Typed, Identified, Summing, Turned, Covering, NEW f, NEW P, NEW T, NEW C, NEW M, NEW n,
         Gains(f, P, T, C, M, n), Fits(f, P, T, C, M, n)
  PROVE  /\ flows' \in SUBSET FlowDocs /\ IsFiniteSet(flows') /\ ids' \in Nat
         /\ Identified'
<1> DEFINE h == Added(f, P, T, C, M, n)
<1>1. /\ flows' = (flows \ {f}) \cup {h} /\ h \in FlowDocs /\ h._id = f._id
      /\ \A g \in flows' : g # h => g \in flows \ {f} /\ g._id # h._id
  BY Gained
<1> HIDE DEF h
<1>2. f._id \in 1 .. ids' /\ ids <= ids' /\ ids' \in Nat /\ ids \in Nat
  BY GainedFlows DEF Typed
<1>3. flows' \in SUBSET FlowDocs /\ IsFiniteSet(flows')
  <2>1. IsFiniteSet(flows \ {f})
    BY FS_Subset DEF Typed
  <2> QED
    BY <1>1, <2>1, FS_AddElement DEF Typed
<1>4. \A g \in flows' : g._id \in 1 .. ids'
  <2>1. \A g \in flows : g._id \in 1 .. ids'
    BY <1>2 DEF Identified
  <2> QED
    BY <1>1, <1>2, <2>1
<1>5. \A g, k \in flows' : g._id = k._id => g = k
  BY <1>1 DEF Identified
<1>6. /\ \A op \in todo' : op.ids \subseteq 1 .. ids' /\ op.job <= jobs'
      /\ \A op, o \in todo' : op.op = "set" /\ op.job = o.job => o.op = "set"
  <2>1. todo' \subseteq todo /\ jobs' = jobs
    BY DEF Fits
  <2> QED
    BY <1>2, <2>1 DEF Identified
<1> QED
  BY <1>2, <1>3, <1>4, <1>5, <1>6 DEF Identified

LEMMA GainTurned ==
  ASSUME Typed, Identified, Summing, Turned, Covering, NEW f, NEW P, NEW T, NEW C, NEW M, NEW n,
         Gains(f, P, T, C, M, n), Fits(f, P, T, C, M, n)
  PROVE  Turned'
<1> DEFINE h == Added(f, P, T, C, M, n)
<1>1. /\ flows' = (flows \ {f}) \cup {h} /\ h.key = f.key /\ h.sports = f.sports \cup P
      /\ h.times = f.times \cup T /\ h.conns = f.conns \cup C
  BY Gained
<1> HIDE DEF h
<1>2. h.times # {}
  BY <1>1 DEF Fits
<1>3. \A r \in f.conns : Directed(f.key, f.sports, r)
  BY GainedFlows
<1>4. \A r \in C : Directed(f.key, P, r)
  BY DEF Fits
<1>5. \A r \in h.conns : Directed(h.key, h.sports, r)
  BY <1>1, <1>3, <1>4 DEF Directed, Several
<1>6. Adds' \subseteq Adds /\ Sets' = Sets
  BY DEF Fits, Adds
<1> QED
  BY <1>1, <1>2, <1>5, <1>6 DEF Turned

LEMMA GainOnce ==
  ASSUME Typed, Identified, Summing, Turned, Covering, Once,
         NEW f, NEW P, NEW T, NEW C, NEW M, NEW n,
         Gains(f, P, T, C, M, n), Fits(f, P, T, C, M, n)
  PROVE  Once'
<1> DEFINE h == Added(f, P, T, C, M, n)
<1>1. /\ flows' = (flows \ {f}) \cup {h} /\ h._id = f._id /\ h.key = f.key
      /\ h.sports = f.sports \cup P /\ h.conns = f.conns \cup C
  BY Gained
<1> HIDE DEF h
<1>2. /\ Adds' \subseteq Adds /\ \A g : Doomed(g)' <=> Doomed(g)
      /\ risked \subseteq risked'
  BY DEF Fits, Adds, Doomed
<1>3. Doomed(h) <=> Doomed(f)
  BY <1>1 DEF Doomed
<1>4. f \notin flows => f.conns = {}
  BY GainedFlows
<1>5. ASSUME NEW g \in flows \ {f}, NEW r \in h.conns \cap g.conns, r \notin risked'
      PROVE  Moved(h, g, r) \/ Moved(g, h, r)
  <2>1. CASE r \in f.conns
    <3>1. Moved(f, g, r) \/ Moved(g, f, r)
      BY <1>2, <1>4, <1>5, <2>1 DEF Once
    <3> QED
      BY <1>1, <1>3, <3>1 DEF Moved, Several
  <2>2. CASE r \in C
    <3>1. Doomed(g) /\ f.key = Reverse(r) /\ Several(P)
      BY <1>5, <2>2 DEF Fits
    <3> QED
      BY <1>1, <3>1 DEF Moved, Several
  <2> QED
    BY <1>1, <1>5, <2>1, <2>2
<1>6. ASSUME NEW g \in flows', NEW k \in flows', NEW r \in (g.conns \cap k.conns) \ risked', g # k
      PROVE  Moved(g, k, r) \/ Moved(k, g, r)
  <2>1. CASE g = h
    BY <1>1, <1>5, <1>6, <2>1
  <2>2. CASE k = h
    BY <1>1, <1>5, <1>6, <2>2
  <2>3. CASE g # h /\ k # h
    BY <1>1, <1>2, <1>6, <2>3 DEF Once
  <2> QED
    BY <2>1, <2>2, <2>3
<1>7. ASSUME NEW op \in Adds', NEW g \in flows', NEW r \in (op.conns \cap g.conns) \ risked'
      PROVE  Doomed(g) \/ g.key = op.key
  <2>1. CASE g # h
    BY <1>1, <1>2, <1>7, <2>1 DEF Once
  <2>2. CASE g = h /\ r \in f.conns
    <3>1. Doomed(f) \/ f.key = op.key
      BY <1>2, <1>4, <1>7, <2>2 DEF Once
    <3> QED
      BY <1>1, <1>3, <2>2, <3>1
  <2>3. CASE g = h /\ r \in C
    <3>1. f.key = op.key
      BY <1>7, <2>3 DEF Fits
    <3> QED
      BY <1>1, <2>3, <3>1
  <2> QED
    BY <1>1, <1>7, <2>1, <2>2, <2>3
<1>8. \A g, k, r : Moved(g, k, r)' <=> Moved(g, k, r)
  BY <1>2 DEF Moved
<1> QED
  BY <1>2, <1>6, <1>7, <1>8 DEF Once

LEMMA GainSummed ==
  ASSUME FlowAssumption, Typed, Identified, Summing, Turned, Covering,
         NEW f, NEW P, NEW T, NEW C, NEW M, NEW n,
         Gains(f, P, T, C, M, n), Fits(f, P, T, C, M, n)
  PROVE  Summing'
<1> DEFINE h == Added(f, P, T, C, M, n)
<1>1. /\ flows' = (flows \ {f}) \cup {h} /\ h.times = f.times \cup T
      /\ h.conns = f.conns \cup C /\ h.count = f.count + n
  BY Gained
<1> HIDE DEF h
<1>2. risked \subseteq risked' /\ todo' \subseteq todo
  BY DEF Fits
<1>3. ASSUME NEW g \in flows PROVE Counted(g.times, g.conns, g.count)'
  <2>1. g.conns \in SUBSET Conns /\ g.count \in Nat
    BY <1>3 DEF Typed, FlowDocs
  <2>2. Counted(g.times, g.conns, g.count)
    BY <1>3 DEF Summing
  <2> QED
    BY <1>2, <2>1, <2>2, CountedStays
<1>4. ASSUME NEW op \in Adds' PROVE Counted(op.times, op.conns, op.count)'
  <2>1. op \in Adds /\ op \in AddOps
    BY <1>2, <1>4 DEF Adds, Typed, RemoveOps, SetOps
  <2>2. op.conns \in SUBSET Conns /\ op.count \in Nat
    BY <2>1 DEF AddOps
  <2>3. Counted(op.times, op.conns, op.count)
    BY <2>1 DEF Summing
  <2> QED
    BY <1>2, <2>2, <2>3, CountedStays
<1>5. Counted(h.times, h.conns, h.count)'
  <2>1. f \in FlowDocs /\ Counted(f.times, f.conns, f.count)
    BY GainedFlows
  <2>2. f.conns \in SUBSET Conns /\ f.count \in Nat
    BY <2>1 DEF FlowDocs
  <2>3. Counted(f.times, f.conns, f.count)'
    BY <1>2, <2>1, <2>2, CountedStays
  <2>4. /\ C \in SUBSET Conns /\ n \in Nat /\ Counted(T, C, n)'
        /\ f.conns \cap C \subseteq risked'
    BY DEF Fits
  <2>5. Counted(f.times \cup T, f.conns \cup C, f.count + n)'
    BY <2>2, <2>3, <2>4, CountsAdd
  <2> QED
    BY <1>1, <2>5
<1> QED
  BY <1>1, <1>3, <1>4, <1>5 DEF Summing

LEMMA GainCovered ==
  ASSUME Typed, Identified, Summing, Turned, Covering, NEW f, NEW P, NEW T, NEW C, NEW M, NEW n,
         Gains(f, P, T, C, M, n), Fits(f, P, T, C, M, n)
  PROVE  Covering'
<1> DEFINE h == Added(f, P, T, C, M, n)
<1>1. /\ flows' = (flows \ {f}) \cup {h} /\ h._id = f._id /\ h.times = f.times \cup T
      /\ h.conns = f.conns \cup C /\ h.metas = f.metas \cup M
  BY Gained
<1> HIDE DEF h
<1>2. risked \subseteq risked' /\ Adds' \subseteq Adds /\ Sets' = Sets /\ Sets \subseteq todo
  BY DEF Fits, Adds, Sets
<1>3. \A r \in (h.conns \cup h.metas) \ risked' : Covered(r, h.times)
  <2>1. \A r \in (f.conns \cup f.metas) \ risked : Covered(r, f.times)
    BY GainedFlows
  <2>2. \A r \in (C \cup M) \ risked' : Covered(r, T)
    BY DEF Fits
  <2> QED
    BY <1>1, <1>2, <2>1, <2>2 DEF Covered
<1>4. ASSUME NEW op \in Sets, h._id \in op.ids, NEW r \in (h.conns \cup h.metas) \ risked'
      PROVE  \A t \in slots[r] : Rounded[t] \in op.times
  <2>1. f._id \in Pending
    BY <1>1, <1>2, <1>4 DEF Pending
  <2>2. r \in f.conns \cup f.metas
    BY <1>1, <1>4, <2>1 DEF Fits
  <2>3. f \in flows
    BY <2>2, GainedFlows
  <2> QED
    BY <1>1, <1>2, <1>4, <2>2, <2>3 DEF Covering
<1>5. \A g \in flows : \A r \in (g.conns \cup g.metas) \ risked' : Covered(r, g.times)
  BY <1>2 DEF Covering
<1>6. \A op \in Sets, g \in flows :
        g._id \in op.ids =>
          \A r \in (g.conns \cup g.metas) \ risked' : \A t \in slots[r] : Rounded[t] \in op.times
  BY <1>2 DEF Covering
<1>7. \A op \in Adds' : \A r \in op.conns \ risked' : Covered(r, op.times)
  BY <1>2 DEF Covering
<1> QED
  BY <1>1, <1>2, <1>3, <1>4, <1>5, <1>6, <1>7 DEF Covering, Covered

\* What was safe in a flow still is, and what was added is safe unless it is risked.
LEMMA GainKept ==
  ASSUME Typed, Identified, Summing, Turned, Covering, NEW f, NEW P, NEW T, NEW C, NEW M, NEW n,
         Gains(f, P, T, C, M, n), Fits(f, P, T, C, M, n)
  PROVE  /\ \A r : (\E g \in flows : r \in g.conns /\ ~ Doomed(g))
                   => (\E g \in flows : r \in g.conns /\ ~ Doomed(g))'
         /\ \A r \in C \ risked' : (\E g \in flows : r \in g.conns /\ ~ Doomed(g))'
<1> DEFINE h == Added(f, P, T, C, M, n)
<1>1. flows' = (flows \ {f}) \cup {h} /\ h._id = f._id /\ h.conns = f.conns \cup C
  BY Gained
<1> HIDE DEF h
<1>2. \A g : Doomed(g)' <=> Doomed(g)
  BY DEF Fits, Doomed
<1>3. Doomed(h) <=> Doomed(f)
  BY <1>1 DEF Doomed
<1>4. Doomed(f) => f._id \in Pending
  BY DEF Doomed, Removes, Pending
<1>5. C # {} /\ Doomed(f) => C \subseteq risked'
  BY <1>4 DEF Fits
<1> QED
  BY <1>1, <1>2, <1>3, <1>5

-----------------------------------------------------------------------------
(* Steps that lose flows and operations, or only risk what they hold.       *)

\* What is waiting still is, no safe flow goes, and an operation that goes was applied
\* or leaves its connections at risk.
Loses ==
  /\ flows' \subseteq flows /\ ids' = ids /\ jobs' = jobs
  /\ todo' \subseteq todo
  /\ risked \subseteq risked' /\ risked' \subseteq Records
  /\ \A r : Waiting(r)' <=> Waiting(r)
  /\ \A f \in flows : ~ Doomed(f) => f \in flows'
  /\ \A f \in flows' : f.conns \subseteq risked' \/ (Doomed(f)' <=> Doomed(f))
  /\ \A op \in Adds \ Adds' : op.conns \subseteq risked'

LEMMA LossStep ==
  ASSUME FlowAssumption, Inv, Loses
  PROVE  /\ flows' \in SUBSET FlowDocs /\ IsFiniteSet(flows') /\ ids' \in Nat
         /\ todo' \subseteq AddOps \cup RemoveOps \cup SetOps
         /\ \A r \in Records :
              Waiting(r)' => /\ \A f \in flows' : r \notin f.conns \cup f.metas
                             /\ \A op \in Adds' : r \notin op.conns
         /\ Identified' /\ Turned' /\ Kept' /\ Once' /\ Summing' /\ Covering'
<1> USE DEF Inv
<1>1. /\ flows' \subseteq flows /\ ids' = ids /\ jobs' = jobs /\ todo' \subseteq todo /\ risked \subseteq risked'
      /\ Adds' \subseteq Adds /\ Sets' \subseteq Sets
  BY DEF Loses, Adds, Sets
<1>2. /\ flows' \in SUBSET FlowDocs /\ IsFiniteSet(flows') /\ ids' \in Nat
      /\ todo' \subseteq AddOps \cup RemoveOps \cup SetOps
  BY <1>1, FS_Subset DEF Typed
<1>3. \A r \in Records :
        Waiting(r)' => /\ \A f \in flows' : r \notin f.conns \cup f.metas
                       /\ \A op \in Adds' : r \notin op.conns
  BY <1>1 DEF Loses, Queued
<1>4. Identified'
  BY <1>1 DEF Identified
<1>5. Turned'
  BY <1>1 DEF Turned
<1>6. Kept'
  <2> SUFFICES ASSUME NEW r \in Conns \ risked', ~ Waiting(r)',
                      ~ (\E op \in Adds : r \in op.conns)'
               PROVE  (\E f \in flows : r \in f.conns /\ ~ Doomed(f))'
    BY DEF Kept
  <2>1. ~ Waiting(r) /\ ~ \E op \in Adds : r \in op.conns
    BY DEF Loses
  <2>2. PICK f \in flows : r \in f.conns /\ ~ Doomed(f)
    BY <1>1, <2>1 DEF Kept
  <2> QED
    BY <2>2 DEF Loses
<1>7. Once'
  <2>1. ASSUME NEW f \in flows', NEW g \in flows', NEW r \in (f.conns \cap g.conns) \ risked'
        PROVE  (f = g \/ Moved(f, g, r) \/ Moved(g, f, r))'
    <3>1. f = g \/ Moved(f, g, r) \/ Moved(g, f, r)
      BY <1>1, <2>1 DEF Once
    <3>2. (Doomed(f)' <=> Doomed(f)) /\ (Doomed(g)' <=> Doomed(g))
      BY <2>1 DEF Loses
    <3> QED
      BY <3>1, <3>2 DEF Moved
  <2>2. ASSUME NEW op \in Adds', NEW g \in flows', NEW r \in (op.conns \cap g.conns) \ risked'
        PROVE  Doomed(g)' \/ g.key = op.key
    <3>1. Doomed(g) \/ g.key = op.key
      BY <1>1, <2>2 DEF Once
    <3>2. Doomed(g)' <=> Doomed(g)
      BY <2>2 DEF Loses
    <3> QED
      BY <3>1, <3>2
  <2> QED
    BY <2>1, <2>2 DEF Once
<1>8. Summing'
  <2>1. ASSUME NEW f \in flows' PROVE Counted(f.times, f.conns, f.count)'
    <3>1. f.conns \in SUBSET Conns /\ f.count \in Nat
      BY <1>2 DEF FlowDocs
    <3>2. Counted(f.times, f.conns, f.count)
      BY <1>1, <2>1 DEF Summing
    <3> QED
      BY <1>1, <3>1, <3>2, CountedStays
  <2>2. ASSUME NEW op \in Adds' PROVE Counted(op.times, op.conns, op.count)'
    <3>1. op \in AddOps
      BY <1>2, <2>2 DEF Adds, RemoveOps, SetOps
    <3>2. op.conns \in SUBSET Conns /\ op.count \in Nat
      BY <3>1 DEF AddOps
    <3>3. Counted(op.times, op.conns, op.count)
      BY <1>1, <2>2 DEF Summing
    <3> QED
      BY <1>1, <3>2, <3>3, CountedStays
  <2> QED
    BY <2>1, <2>2 DEF Summing
<1>9. Covering'
  BY <1>1 DEF Covering, Covered
<1> QED
  BY <1>2, <1>3, <1>4, <1>5, <1>6, <1>7, <1>8, <1>9

LEMMA ParseStep ==
  ASSUME FlowAssumption, Inv, NEW i \in Importers, Parse(i)
  PROVE  Inv'
<1>1. PICK r \in unread : unread' = unread \ {r} /\ bulk' = [bulk EXCEPT ![i] = @ \cup {r}]
  BY DEF Parse
<1>2. UNCHANGED <<flows, ids, sent, insert, todo, risked, jobs, faults>>
  BY DEF Parse
<1>3. bulk \in [Importers -> SUBSET Records] /\ r \in Records /\ unread \subseteq Records
  BY DEF Inv, Typed
<1>4. /\ bulk' \in [Importers -> SUBSET Records]
      /\ bulk'[i] = bulk[i] \cup {r} /\ \A j \in Importers : j # i => bulk'[j] = bulk[j]
  BY <1>1, <1>3
<1>5. \A q : Waiting(q)' <=> Waiting(q)
  BY <1>1, <1>4 DEF Waiting
<1>6. \A f : Doomed(f)' <=> Doomed(f)
  BY <1>2 DEF Doomed, Removes
<1>7. Loses
  BY <1>2, <1>5, <1>6 DEF Loses, Adds, Inv, Typed
<1>8. Queued'
  <2>1. \A j \in Importers :
          /\ bulk'[j] \cap unread' = {}
          /\ insert'[j] \in bulk'[j] \cup {0}
          /\ \A k \in Importers : j # k => bulk'[j] \cap bulk'[k] = {}
    BY <1>1, <1>2, <1>4 DEF Inv, Queued
  <2> QED
    BY <1>7, <2>1, LossStep DEF Queued
<1> QED
  BY <1>1, <1>2, <1>3, <1>4, <1>7, <1>8, LossStep DEF Inv, Typed

\* Nothing moves when a bulk is sent, or finds no flow for a record of it.
LEMMA SendStep ==
  ASSUME FlowAssumption, Inv, NEW i \in Importers, bulk_commit(i) \/ Miss(i)
  PROVE  Inv'
<1>1. UNCHANGED <<flows, ids, unread, bulk, todo, risked, jobs, faults>>
  BY DEF bulk_commit, Miss
<1>2. (\A q : Waiting(q)' <=> Waiting(q)) /\ \A f : Doomed(f)' <=> Doomed(f)
  BY <1>1 DEF Waiting, Doomed, Removes
<1>3. Loses
  BY <1>1, <1>2 DEF Loses, Adds, Inv, Typed
<1>4. sent' \subseteq Importers
  BY DEF bulk_commit, Miss, Inv, Typed
<1>5. insert' \in [Importers -> Nat] /\ \A j \in Importers : insert'[j] \in bulk[j] \cup {0}
  <2>1. CASE bulk_commit(i)
    BY <2>1 DEF bulk_commit, Inv, Typed, Queued
  <2>2. CASE Miss(i)
    <3>1. PICK r \in bulk[i] : insert' = [insert EXCEPT ![i] = r]
      BY <2>2 DEF Miss
    <3>2. r \in Nat
      BY <3>1 DEF Inv, Typed, FlowAssumption
    <3> QED
      BY <3>1, <3>2 DEF Inv, Typed, Queued
  <2> QED
    BY <2>1, <2>2
<1>6. Queued'
  <2>1. \A j \in Importers :
          /\ bulk'[j] \cap unread' = {}
          /\ insert'[j] \in bulk'[j] \cup {0}
          /\ \A k \in Importers : j # k => bulk'[j] \cap bulk'[k] = {}
    BY <1>1, <1>5 DEF Inv, Queued
  <2> QED
    BY <1>3, <2>1, LossStep DEF Queued
<1> QED
  BY <1>1, <1>3, <1>4, <1>5, <1>6, LossStep DEF Inv, Typed

-----------------------------------------------------------------------------
(* A record that is folded.                                                 *)

\* What the update of a record adds to its flow.
AddsFor(f, r, P, C, M, n) ==
  /\ Folded(f, r) = Added(f, P, slots[r], C, M, n)
  /\ P \in SUBSET {sport[r]} /\ C \in SUBSET Conns /\ M \in SUBSET Metas /\ C \cup M = {r}
  /\ r \in Conns => r \in C /\ sport[r] \in P
  /\ n \in Nat /\ n = Cardinality(C) /\ IsFiniteSet(C)

LEMMA FoldedGains ==
  ASSUME NEW f, NEW r \in Records
  PROVE  \E P, C, M, n : AddsFor(f, r, P, C, M, n)
<1>1. CASE r \in Metas
  <2>1. Folded(f, r) = Added(f, {}, slots[r], {}, {r}, 0)
    BY <1>1 DEF Folded
  <2>2. Cardinality({}) = 0 /\ IsFiniteSet({})
    BY FS_EmptySet
  <2> QED
    BY <1>1, <2>1, <2>2 DEF AddsFor, Conns
<1>2. CASE r \notin Metas
  <2>1. Folded(f, r) = Added(f, {sport[r]}, slots[r], {r}, {}, 1)
    BY <1>2 DEF Folded
  <2>2. Cardinality({r}) = 1 /\ IsFiniteSet({r})
    BY FS_Singleton
  <2> QED
    BY <1>2, <2>1, <2>2 DEF AddsFor, Conns
<1> QED
  BY <1>1, <1>2

\* A record of a bulk goes into the flow of its key, which is there or is made.
Folds(i, r, f) ==
  /\ r \in bulk[i] /\ f.key = Key(r)
  /\ \/ f \in flows /\ ids' = ids
     \/ ids' = ids + 1 /\ f = Empty(Key(r))
  /\ flows' = (flows \ {f}) \cup {Folded(f, r)}
  /\ risked \subseteq risked' /\ risked' \subseteq risked \cup {r}
  /\ f._id \in Pending => r \in risked'
  /\ Done(i, r)
  /\ insert' \in [Importers -> Nat]
  /\ insert'[i] = 0 /\ \A j \in Importers : j # i => insert'[j] = insert[j]
  /\ UNCHANGED <<unread, todo, jobs, faults>>

LEMMA FoldStep ==
  ASSUME FlowAssumption, Inv, NEW i \in Importers, NEW r \in Records, NEW f, Folds(i, r, f)
  PROVE  Inv'
<1> USE DEF Inv
<1>0. PICK P, C, M, n : AddsFor(f, r, P, C, M, n)
  BY FoldedGains
<1>1. /\ Folded(f, r) = Added(f, P, slots[r], C, M, n)
      /\ P \in SUBSET {sport[r]} /\ C \in SUBSET Conns /\ M \in SUBSET Metas /\ C \cup M = {r}
      /\ r \in Conns => r \in C /\ sport[r] \in P
      /\ n \in Nat /\ n = Cardinality(C) /\ IsFiniteSet(C)
  BY <1>0 DEF AddsFor
<1>2. /\ slots[r] # {} /\ slots[r] \in SUBSET Slots
      /\ sport[r] \in Ports /\ Key(r) \in Keys
  BY DEF FlowAssumption, Slots, Ports, Keys, Key, Hosts
<1>3. bulk \in [Importers -> SUBSET Records] /\ Waiting(r)
  BY DEF Typed, Waiting, Folds
<1>4. /\ \A g \in flows : r \notin g.conns \cup g.metas
      /\ \A op \in Adds : r \notin op.conns
  BY <1>3 DEF Queued
<1>5. Gains(f, P, slots[r], C, M, n)
  BY <1>1, <1>2 DEF Gains, Folds
<1>6. r \notin f.conns
  <2>1. CASE f \in flows
    BY <1>4, <2>1
  <2>2. CASE f = Empty(Key(r))
    BY <1>2, <2>2, EmptyFields DEF Typed
  <2> QED
    BY <2>1, <2>2 DEF Folds
<1>7. /\ todo' = todo /\ Adds' = Adds /\ Removes' = Removes /\ Sets' = Sets
      /\ jobs' = jobs
  BY DEF Folds, Adds, Removes, Sets
<1>8. Counted(slots[r], C, n)'
  <2>1. Cardinality(C \ risked') <= Cardinality(C) /\ Cardinality(C \ risked') \in Nat
    BY <1>1, FS_Subset, FS_CardinalityType
  <2> QED
    BY <1>1, <2>1 DEF Counted
<1>9. Fits(f, P, slots[r], C, M, n)
  <2>1. \A q \in C : Directed(f.key, P, q)
    BY <1>1 DEF Directed, Folds
  <2>2. \A q \in (C \cup M) \ risked' : Covered(q, slots[r])
    BY <1>1 DEF Covered
  <2>3. P \in SUBSET Ports
    BY <1>1, <1>2
  <2>4. risked \subseteq risked' /\ risked' \subseteq Records
    BY DEF Folds, Typed
  <2>5. f._id \in Pending => C \cup M \subseteq risked'
    BY <1>1 DEF Folds
  <2>6. C \cap f.conns \subseteq risked' /\ \A g \in flows : C \cap g.conns = {}
    BY <1>1, <1>4, <1>6
  <2>7. \A op \in Adds' : C \cap op.conns = {}
    BY <1>1, <1>4, <1>7
  <2> QED
    BY <1>1, <1>2, <1>7, <1>8, <2>1, <2>2, <2>3, <2>4, <2>5, <2>6, <2>7 DEF Fits
<1>10. /\ bulk' \in [Importers -> SUBSET Records] /\ bulk'[i] = bulk[i] \ {r}
       /\ \A j \in Importers : j # i => bulk'[j] = bulk[j]
       /\ sent' \subseteq Importers
  BY <1>3 DEF Folds, Done, Typed
<1>11. r \notin unread /\ \A j \in Importers : j # i => r \notin bulk[j]
  BY DEF Queued, Folds
<1>12. \A q : Waiting(q)' <=> Waiting(q) /\ q # r
  BY <1>10, <1>11 DEF Waiting, Folds
<1>13. Queued'
  <2>1. \A j \in Importers :
          /\ bulk'[j] \cap unread' = {}
          /\ insert'[j] \in bulk'[j] \cup {0}
          /\ \A k \in Importers : j # k => bulk'[j] \cap bulk'[k] = {}
    BY <1>10 DEF Folds, Queued
  <2>2. ASSUME NEW q \in Records, Waiting(q)'
        PROVE  /\ \A g \in flows' : q \notin g.conns \cup g.metas
               /\ \A op \in Adds' : q \notin op.conns
    <3> DEFINE h == Added(f, P, slots[r], C, M, n)
    <3>1. /\ flows' = (flows \ {f}) \cup {h} /\ h.conns = f.conns \cup C
          /\ h.metas = f.metas \cup M
      BY <1>5, <1>9, Gained
    <3> HIDE DEF h
    <3>2. Waiting(q) /\ q # r
      BY <1>12, <2>2
    <3>3. /\ \A g \in flows : q \notin g.conns \cup g.metas
          /\ \A op \in Adds : q \notin op.conns
      BY <3>2 DEF Queued
    <3>4. q \notin f.conns \cup f.metas
      BY <1>5, <1>9, <3>3, GainedFlows
    <3> QED
      BY <1>1, <1>7, <3>1, <3>2, <3>3, <3>4
  <2> QED
    BY <2>1, <2>2 DEF Queued
<1>14. Kept'
  <2> SUFFICES ASSUME NEW q \in Conns \ risked', ~ Waiting(q)',
                      ~ (\E op \in Adds : q \in op.conns)'
               PROVE  (\E g \in flows : q \in g.conns /\ ~ Doomed(g))'
    BY DEF Kept
  <2>1. CASE q = r
    BY <1>1, <1>5, <1>9, <2>1, GainKept
  <2>2. CASE q # r
    <3>1. ~ Waiting(q) /\ ~ \E op \in Adds : q \in op.conns
      BY <1>7, <1>12, <2>2
    <3>2. \E g \in flows : q \in g.conns /\ ~ Doomed(g)
      BY <3>1 DEF Kept, Folds
    <3> QED
      BY <1>5, <1>9, <3>2, GainKept
  <2> QED
    BY <2>1, <2>2
<1>15. Typed'
  <2>1. flows' \in SUBSET FlowDocs /\ IsFiniteSet(flows') /\ ids' \in Nat
    BY <1>5, <1>9, GainTyped
  <2>2. /\ todo' \subseteq AddOps \cup RemoveOps \cup SetOps /\ unread' \subseteq Records
        /\ risked' \subseteq Records /\ insert' \in [Importers -> Nat]
        /\ jobs' \in 0 .. MaxJobs /\ faults' \in 0 .. MaxFaults
    BY DEF Folds, Typed
  <2> QED
    BY <1>10, <2>1, <2>2 DEF Typed
<1>16. Identified' /\ Turned' /\ Once' /\ Summing' /\ Covering'
  BY <1>5, <1>9, GainTyped, GainTurned, GainOnce, GainSummed, GainCovered
<1> QED
  BY <1>13, <1>14, <1>15, <1>16

LEMMA ImportStep ==
  ASSUME FlowAssumption, Inv, NEW i \in Importers, Fold(i) \/ Insert(i)
  PROVE  Inv'
<1>1. /\ bulk \in [Importers -> SUBSET Records] /\ insert \in [Importers -> Nat]
      /\ insert[i] \in bulk[i] \cup {0} /\ ids \in Nat
  BY DEF Inv, Typed, Queued
<1>2. CASE Fold(i)
  <2>1. PICK r \in bulk[i], f \in flows :
          /\ f.key = Key(r)
          /\ Replaced(f, Folded(f, r))
          /\ risked' = IF f._id \in Pending THEN risked \cup {r} ELSE risked
          /\ Done(i, r)
    BY <1>2 DEF Fold
  <2>2. insert[i] = 0 /\ UNCHANGED <<ids, unread, insert, todo, jobs, faults>>
    BY <1>2 DEF Fold
  <2>3. Folds(i, r, f)
    BY <1>1, <2>1, <2>2 DEF Folds, Replaced
  <2> QED
    BY <1>1, <2>3, FoldStep
<1>3. CASE Insert(i)
  <2> DEFINE r == insert[i]
             f == Empty(Key(r))
  <2>1. /\ r # 0 /\ flows' = flows \cup {Folded(f, r)} /\ ids' = ids + 1
        /\ insert' = [insert EXCEPT ![i] = 0] /\ Done(i, r)
        /\ UNCHANGED <<unread, todo, risked, jobs, faults>>
    BY <1>3 DEF Insert
  <2>2. r \in bulk[i] /\ r \in Records
    BY <1>1, <2>1
  <2>3. Key(r) \in Keys
    BY <2>2 DEF Keys, Key, Hosts, Ports
  <2>4. f._id = ids + 1 /\ f.key = Key(r)
    BY <1>1, <2>3, EmptyFields
  <2>5. f \notin flows /\ f._id \notin Pending
    BY <1>1, <2>4 DEF Inv, Identified, Pending
  <2>6. flows' = (flows \ {f}) \cup {Folded(f, r)}
    BY <2>1, <2>5
  <2>7. /\ insert' \in [Importers -> Nat] /\ insert'[i] = 0
        /\ \A j \in Importers : j # i => insert'[j] = insert[j]
    BY <1>1, <2>1
  <2>8. Folds(i, r, f)
    BY <2>1, <2>2, <2>4, <2>5, <2>6, <2>7 DEF Folds
  <2> QED
    BY <2>2, <2>8, FoldStep
<1> QED
  BY <1>2, <1>3

-----------------------------------------------------------------------------
(* The operations of the jobs.                                              *)

\* What an operation leaves alone.
LEMMA WaitingStays ==
  ASSUME UNCHANGED <<unread, bulk>>
  PROVE  \A r : Waiting(r)' <=> Waiting(r)
  BY DEF Waiting

\* A record waits where it did, and its importers do what they did.
LEMMA QueuesStay ==
  ASSUME Typed, Queued, UNCHANGED <<unread, bulk, sent, insert>>
  PROVE  /\ unread' \subseteq Records /\ bulk' \in [Importers -> SUBSET Records]
         /\ sent' \subseteq Importers /\ insert' \in [Importers -> Nat]
         /\ \A i \in Importers :
              /\ bulk'[i] \cap unread' = {}
              /\ insert'[i] \in bulk'[i] \cup {0}
              /\ \A j \in Importers : i # j => bulk'[i] \cap bulk'[j] = {}
  BY DEF Typed, Queued

\* The sums of a group go to f, which has the key of the operation.
LEMMA SumsFit ==
  ASSUME FlowAssumption, Inv, NEW op \in Adds, NEW f \in FlowDocs, f.key = op.key,
         risked \subseteq risked', risked' \subseteq Records,
         op.conns \cap f.conns \subseteq risked',
         \A g \in flows : g.key = op.key => op.conns \cap g.conns \subseteq risked',
         f._id \in Pending => op.conns \subseteq risked',
         todo' = todo \ {op}, jobs' = jobs
  PROVE  Fits(f, op.sports, op.times, op.conns, {}, op.count)
<1> USE DEF Inv
<1>1. op \in AddOps /\ op.op = "add"
  BY DEF Adds, Typed, RemoveOps, SetOps
<1>2. /\ op.sports \in SUBSET Ports /\ op.times \in SUBSET Slots /\ op.conns \in SUBSET Conns
      /\ op.count \in Nat
  BY <1>1 DEF AddOps
<1>3. /\ op.times # {} /\ Several(op.sports)
      /\ \A r \in op.conns : op.key = Reverse(r)
  BY DEF Turned
<1>4. \A r \in op.conns : Directed(f.key, op.sports, r)
  BY <1>3 DEF Directed
<1>5. \A r \in (op.conns \cup {}) \ risked' : Covered(r, op.times)
  BY DEF Covering
<1>6. Counted(op.times, op.conns, op.count)'
  <2>1. Counted(op.times, op.conns, op.count)
    BY DEF Summing
  <2> QED
    BY <1>2, <2>1, CountedStays
<1>7. \A r \in op.conns \ risked', g \in flows \ {f} :
        r \in g.conns => Doomed(g) /\ f.key = Reverse(r) /\ Several(op.sports)
  BY <1>3 DEF Once
<1>8. \A o \in Adds' : \A r \in (op.conns \cap o.conns) \ risked' : f.key = o.key
  BY <1>3 DEF Turned, Adds
<1>9. todo' \subseteq todo /\ Removes' = Removes /\ Sets' = Sets
  BY <1>1 DEF Removes, Sets
<1> QED
  BY <1>2, <1>3, <1>4, <1>5, <1>6, <1>7, <1>8, <1>9 DEF Fits

LEMMA AddStep ==
  ASSUME FlowAssumption, Inv, NEW op \in todo, AddReversed(op), todo' = todo \ {op},
         UNCHANGED <<unread, bulk, sent, insert, jobs, faults>>
  PROVE  Inv'
<1> USE DEF Inv
<1> DEFINE reversed == {f \in flows : f.key = op.key}
           twice == op.conns \cap UNION {f.conns : f \in reversed}
           Into(f) == Added(f, op.sports, op.times, op.conns, {}, op.count)
<1>1. op \in Adds /\ op \in AddOps
  BY DEF AddReversed, Adds, Typed, RemoveOps, SetOps
<1>2. op.conns \in SUBSET Conns /\ op.key \in Keys
  BY <1>1 DEF AddOps
<1>3. \E f : /\ Gains(f, op.sports, op.times, op.conns, {}, op.count)
             /\ Fits(f, op.sports, op.times, op.conns, {}, op.count)
  <2>1. CASE \E f \in reversed :
               /\ Replaced(f, Into(f))
               /\ risked' = risked \cup twice \cup (IF f._id \in Pending THEN op.conns ELSE {})
               /\ UNCHANGED ids
    <3>1. PICK f \in reversed :
               /\ Replaced(f, Into(f))
               /\ risked' = risked \cup twice \cup (IF f._id \in Pending THEN op.conns ELSE {})
               /\ UNCHANGED ids
      BY <2>1
    <3>2. f \in flows /\ f \in FlowDocs /\ f.key = op.key
      BY DEF Typed
    <3>3. risked \subseteq risked' /\ f._id \in Pending => op.conns \subseteq risked'
      BY <3>1
    <3>4. \A g \in flows : g.key = op.key => op.conns \cap g.conns \subseteq risked'
      BY <3>1
    <3>5. risked' \subseteq Records
      BY <1>2, <3>1 DEF Typed, Conns
    <3>6. risked \subseteq risked' /\ op.conns \cap f.conns \subseteq risked'
      BY <3>1, <3>2, <3>4
    <3>7. Fits(f, op.sports, op.times, op.conns, {}, op.count)
      BY <1>1, <3>2, <3>3, <3>4, <3>5, <3>6, SumsFit
    <3> QED
      BY <3>1, <3>2, <3>7 DEF Gains, Replaced
  <2>2. CASE /\ reversed = {}
             /\ flows' = flows \cup {Into(Empty(op.key))}
             /\ ids' = ids + 1
             /\ UNCHANGED risked
    <3> DEFINE f == Empty(op.key)
    <3>1. ids \in Nat
      BY DEF Typed
    <3>2. f \in FlowDocs /\ f._id = ids + 1 /\ f.key = op.key /\ f.conns = {}
      BY <1>2, <3>1, EmptyFields
    <3>3. f \notin flows /\ f._id \notin Pending
      BY <3>1, <3>2 DEF Identified, Pending
    <3>4. /\ risked \subseteq risked' /\ risked' \subseteq Records
          /\ \A g \in flows : g.key # op.key
      BY <2>2 DEF Typed
    <3>5. Fits(f, op.sports, op.times, op.conns, {}, op.count)
      BY <1>1, <3>2, <3>3, <3>4, SumsFit
    <3>6. flows' = (flows \ {f}) \cup {Into(f)}
      BY <2>2, <3>3
    <3> QED
      BY <1>2, <2>2, <3>5, <3>6 DEF Gains
  <2> QED
    BY <2>1, <2>2 DEF AddReversed
<1>4. PICK f : /\ Gains(f, op.sports, op.times, op.conns, {}, op.count)
               /\ Fits(f, op.sports, op.times, op.conns, {}, op.count)
  BY <1>3
<1>5. flows' \in SUBSET FlowDocs /\ IsFiniteSet(flows') /\ ids' \in Nat
  BY <1>4, GainTyped
<1>6. Identified' /\ Turned' /\ Once' /\ Summing' /\ Covering'
  BY <1>4, GainTyped, GainTurned, GainOnce, GainSummed, GainCovered
<1>7. \A q : Waiting(q)' <=> Waiting(q)
  BY WaitingStays
<1>8. Queued'
  <2>1. ASSUME NEW q \in Records, Waiting(q)'
        PROVE  /\ \A g \in flows' : q \notin g.conns \cup g.metas
               /\ \A o \in Adds' : q \notin o.conns
    <3> DEFINE h == Added(f, op.sports, op.times, op.conns, {}, op.count)
    <3>1. /\ flows' = (flows \ {f}) \cup {h} /\ h.conns = f.conns \cup op.conns
          /\ h.metas = f.metas
      <4>1. f \in FlowDocs
        BY <1>4, GainedFlows
      <4>2. flows' = (flows \ {f}) \cup {h}
        BY <1>4 DEF Gains
      <4>3. h.conns = f.conns \cup op.conns
        BY <4>1, AddedFields
      <4>4. h.metas = f.metas
        BY <4>1 DEF Added, FlowDocs
      <4> QED
        BY <4>2, <4>3, <4>4
    <3> HIDE DEF h
    <3>2. /\ \A g \in flows : q \notin g.conns \cup g.metas
          /\ \A o \in Adds : q \notin o.conns
      BY <1>7, <2>1 DEF Queued
    <3>3. q \notin f.conns \cup f.metas
      BY <1>4, <3>2, GainedFlows
    <3>4. Adds' \subseteq Adds
      BY DEF Adds
    <3> QED
      BY <1>1, <3>1, <3>2, <3>3, <3>4
  <2> QED
    BY <2>1, QueuesStay DEF Queued
<1>9. Kept'
  <2> SUFFICES ASSUME NEW q \in Conns \ risked', ~ Waiting(q)',
                      ~ (\E o \in Adds : q \in o.conns)'
               PROVE  (\E g \in flows : q \in g.conns /\ ~ Doomed(g))'
    BY DEF Kept
  <2>1. CASE q \in op.conns
    BY <1>4, <2>1, GainKept
  <2>2. CASE q \notin op.conns
    <3>1. ~ Waiting(q) /\ ~ \E o \in Adds : q \in o.conns
      BY <1>7, <2>2 DEF Adds
    <3>2. risked \subseteq risked'
      BY <1>4 DEF Fits
    <3>3. \E g \in flows : q \in g.conns /\ ~ Doomed(g)
      BY <3>1, <3>2 DEF Kept
    <3> QED
      BY <1>4, <3>3, GainKept
  <2> QED
    BY <2>1, <2>2
<1>10. Typed'
  <2>1. risked' \subseteq Records
    BY <1>4 DEF Fits
  <2>2. todo' \subseteq AddOps \cup RemoveOps \cup SetOps
    BY DEF Typed
  <2>3. jobs' \in 0 .. MaxJobs /\ faults' \in 0 .. MaxFaults
    BY DEF Typed
  <2> QED
    BY <1>5, <2>1, <2>2, <2>3, QueuesStay DEF Typed
<1> QED
  BY <1>6, <1>8, <1>9, <1>10

\* A step of the jobs that loses something.
LEMMA LosingStep ==
  ASSUME FlowAssumption, Inv, Loses, UNCHANGED <<unread, bulk, sent, insert, jobs>>,
         faults' \in 0 .. MaxFaults
  PROVE  Inv'
<1>1. Typed'
  <2>1. risked' \subseteq Records /\ jobs' \in 0 .. MaxJobs
    BY DEF Loses, Inv, Typed
  <2> QED
    BY <2>1, LossStep, QueuesStay DEF Inv, Typed
<1>2. Queued'
  BY LossStep, QueuesStay DEF Inv, Queued
<1> QED
  BY <1>1, <1>2, LossStep DEF Inv

LEMMA RemoveStep ==
  ASSUME FlowAssumption, Inv, NEW op \in todo, RemoveSwitched(op), todo' = todo \ {op},
         UNCHANGED <<unread, bulk, sent, insert, jobs, faults>>
  PROVE  Inv'
<1>1. /\ op \in Removes /\ flows' = {f \in flows : f._id \notin op.ids}
      /\ UNCHANGED <<ids, risked>>
  BY DEF RemoveSwitched, Removes
<1>2. \A f \in flows : ~ Doomed(f) => f \in flows'
  BY <1>1 DEF Doomed
<1>3. \A f \in flows' : Doomed(f)' <=> Doomed(f)
  BY <1>1 DEF Doomed, Removes
<1>4. Adds' = Adds
  BY <1>1 DEF Adds, Removes
<1>5. Loses
  BY <1>1, <1>2, <1>3, <1>4, WaitingStays DEF Loses, Inv, Typed
<1> QED
  BY <1>5, LosingStep DEF Inv, Typed

LEMMA FailStep ==
  ASSUME FlowAssumption, Inv, OperationFails
  PROVE  Inv'
<1>1. faults < MaxFaults /\ faults' = faults + 1
  BY DEF OperationFails
<1>2. faults' \in 0 .. MaxFaults
  BY <1>1 DEF Inv, Typed, FlowAssumption
<1>3. UNCHANGED <<flows, ids, unread, bulk, sent, insert, jobs>>
  BY DEF OperationFails
<1>4. PICK op \in todo :
        /\ todo' = IF op.op = "set" THEN {o \in todo : o.job # op.job} ELSE todo \ {op}
        /\ risked' = risked \cup
             (CASE op.op = "add" -> op.conns
                [] op.op = "remove" -> UNION {f.conns : f \in {g \in flows : g._id \in op.ids}}
                [] OTHER -> {})
  BY DEF OperationFails
<1>5. Loses
  <2>1. CASE op.op = "add"
    <3>1. todo' = todo \ {op} /\ risked' = risked \cup op.conns
      BY <1>4, <2>1
    <3>2. op.conns \subseteq Records
      BY <2>1 DEF Inv, Typed, AddOps, RemoveOps, SetOps, Conns
    <3>3. \A f : Doomed(f)' <=> Doomed(f)
      BY <2>1, <3>1 DEF Doomed, Removes
    <3>4. Adds \ Adds' \subseteq {op}
      BY <3>1 DEF Adds
    <3> QED
      BY <1>3, <3>1, <3>2, <3>3, <3>4, WaitingStays DEF Loses, Inv, Typed
  <2>2. CASE op.op = "remove"
    <3>1. /\ todo' = todo \ {op}
          /\ risked' = risked \cup UNION {f.conns : f \in {g \in flows : g._id \in op.ids}}
      BY <1>4, <2>2
    <3>2. risked' \subseteq Records
      BY <3>1 DEF Inv, Typed, FlowDocs, Conns
    <3>3. \A f \in flows' : f.conns \subseteq risked' \/ (Doomed(f)' <=> Doomed(f))
      BY <1>3, <2>2, <3>1 DEF Doomed, Removes
    <3>4. Adds' = Adds
      BY <2>2, <3>1 DEF Adds
    <3> QED
      BY <1>3, <3>1, <3>2, <3>3, <3>4, WaitingStays DEF Loses
  <2>3. CASE op.op = "set"
    <3>1. todo' = {o \in todo : o.job # op.job} /\ risked' = risked
      BY <1>4, <2>3
    <3>2. \A o \in todo : o.op # "set" => o \in todo'
      BY <2>3, <3>1 DEF Inv, Identified
    <3>3. (\A f : Doomed(f)' <=> Doomed(f)) /\ Adds' = Adds
      BY <3>1, <3>2 DEF Doomed, Removes, Adds
    <3> QED
      BY <1>3, <3>1, <3>3, WaitingStays DEF Loses, Inv, Typed
  <2> QED
    BY <2>1, <2>2, <2>3 DEF Inv, Typed, AddOps, RemoveOps, SetOps
<1> QED
  BY <1>2, <1>3, <1>5, LosingStep

\* The flow after its slots are set.
SetTo(op, f) == IF f._id \in op.ids THEN [f EXCEPT !.times = op.times] ELSE f

LEMMA SetFields ==
  ASSUME NEW op \in SetOps, NEW f \in FlowDocs
  PROVE  /\ SetTo(op, f) \in FlowDocs
         /\ SetTo(op, f)._id = f._id /\ SetTo(op, f).key = f.key
         /\ SetTo(op, f).sports = f.sports /\ SetTo(op, f).conns = f.conns
         /\ SetTo(op, f).metas = f.metas /\ SetTo(op, f).count = f.count
         /\ SetTo(op, f).times = IF f._id \in op.ids THEN op.times ELSE f.times
  BY DEF SetTo, FlowDocs, SetOps

LEMMA SetStep ==
  ASSUME FlowAssumption, Inv, NEW op \in todo, SetTimes(op), todo' = todo \ {op},
         UNCHANGED <<unread, bulk, sent, insert, jobs, faults>>
  PROVE  Inv'
<1> USE DEF Inv
<1>1. op \in Sets /\ op \in SetOps
  BY DEF SetTimes, Sets, Typed, AddOps, RemoveOps
<1>2. flows' = {SetTo(op, f) : f \in flows} /\ UNCHANGED <<ids, risked>>
  BY DEF SetTimes, SetTo
<1>3. \A f \in flows :
         /\ SetTo(op, f) \in FlowDocs
         /\ SetTo(op, f)._id = f._id /\ SetTo(op, f).key = f.key
         /\ SetTo(op, f).sports = f.sports /\ SetTo(op, f).conns = f.conns
         /\ SetTo(op, f).metas = f.metas /\ SetTo(op, f).count = f.count
         /\ SetTo(op, f).times = IF f._id \in op.ids THEN op.times ELSE f.times
  BY <1>1, SetFields DEF Typed
<1>4. Adds' = Adds /\ Removes' = Removes /\ Sets' \subseteq Sets /\ todo' \subseteq todo
  BY <1>1 DEF Adds, Removes, Sets
<1>5. \A f \in flows : Doomed(SetTo(op, f))' <=> Doomed(f)
  BY <1>3, <1>4 DEF Doomed
<1>6. \A q : Waiting(q)' <=> Waiting(q)
  BY WaitingStays
<1>7. IsFiniteSet(flows')
  <2> DEFINE set == [f \in flows |-> SetTo(op, f)]
  <2>1. set \in Surjection(flows, flows')
    BY <1>2 DEF Surjection
  <2> QED
    BY <2>1, FS_Surjection DEF Typed
<1>8. Typed'
  <2>1. flows' \in SUBSET FlowDocs /\ ids' \in Nat /\ risked' \subseteq Records
    BY <1>2, <1>3 DEF Typed
  <2>2. todo' \subseteq AddOps \cup RemoveOps \cup SetOps
    BY <1>4 DEF Typed
  <2>3. jobs' \in 0 .. MaxJobs /\ faults' \in 0 .. MaxFaults
    BY DEF Typed
  <2> QED
    BY <1>7, <2>1, <2>2, <2>3, QueuesStay DEF Typed
<1>9. Identified'
  BY <1>2, <1>3, <1>4 DEF Identified
<1>10. Queued'
  <2>1. \A q \in Records :
          Waiting(q)' => /\ \A g \in flows' : q \notin g.conns \cup g.metas
                         /\ \A o \in Adds' : q \notin o.conns
    BY <1>2, <1>3, <1>4, <1>6 DEF Queued
  <2> QED
    BY <2>1, QueuesStay DEF Queued
<1>11. op.times # {} /\ op.times \subseteq {Rounded[t] : t \in Slots}
  BY <1>1 DEF Turned
<1>12. Turned'
  BY <1>2, <1>3, <1>4, <1>11 DEF Turned
<1>13. Kept'
  <2> SUFFICES ASSUME NEW q \in Conns \ risked', ~ Waiting(q)',
                      ~ (\E o \in Adds : q \in o.conns)'
               PROVE  (\E g \in flows : q \in g.conns /\ ~ Doomed(g))'
    BY DEF Kept
  <2>1. PICK f \in flows : q \in f.conns /\ ~ Doomed(f)
    BY <1>2, <1>4, <1>6 DEF Kept
  <2>2. SetTo(op, f) \in flows' /\ q \in SetTo(op, f).conns /\ ~ Doomed(SetTo(op, f))'
    BY <1>2, <1>3, <1>5, <2>1
  <2> QED
    BY <2>2
<1>14. Once'
  <2>1. ASSUME NEW f \in flows, NEW g \in flows, NEW r \in (f.conns \cap g.conns) \ risked
        PROVE  \/ f = g
               \/ Moved(SetTo(op, f), SetTo(op, g), r)'
               \/ Moved(SetTo(op, g), SetTo(op, f), r)'
    <3>1. f = g \/ Moved(f, g, r) \/ Moved(g, f, r)
      BY <2>1 DEF Once
    <3> QED
      BY <1>3, <1>5, <3>1 DEF Moved
  <2>2. \A f, g \in flows' : \A r \in (f.conns \cap g.conns) \ risked' :
          f = g \/ Moved(f, g, r)' \/ Moved(g, f, r)'
    BY <1>2, <1>3, <2>1
  <2>3. ASSUME NEW o \in Adds', NEW f \in flows, NEW r \in (o.conns \cap f.conns) \ risked
        PROVE  Doomed(SetTo(op, f))' \/ SetTo(op, f).key = o.key
    <3>1. Doomed(f) \/ f.key = o.key
      BY <1>4, <2>3 DEF Once
    <3> QED
      BY <1>3, <1>5, <3>1
  <2>4. \A o \in Adds', f \in flows' : \A r \in (o.conns \cap f.conns) \ risked' :
          Doomed(f)' \/ f.key = o.key
    BY <1>2, <1>3, <2>3
  <2> QED
    BY <2>2, <2>4 DEF Once
<1>15. Summing'
  <2>1. ASSUME NEW f \in flows
        PROVE  Counted(SetTo(op, f).times, f.conns, f.count)
    <3>1. Counted(f.times, f.conns, f.count)
      BY DEF Summing
    <3>2. CASE f._id \in op.ids
      <4>1. ~ Exact(op.times, f.conns)
        BY <1>11 DEF Exact
      <4> QED
        BY <1>3, <3>1, <3>2, <4>1 DEF Counted
    <3>3. CASE f._id \notin op.ids
      BY <1>3, <3>1, <3>3
    <3> QED
      BY <3>2, <3>3
  <2>2. \A times, conns, count : Counted(times, conns, count)' <=> Counted(times, conns, count)
    BY <1>2 DEF Counted, Exact
  <2>3. \A f \in flows' : Counted(f.times, f.conns, f.count)
    BY <1>2, <1>3, <2>1
  <2>4. \A o \in Adds' : Counted(o.times, o.conns, o.count)
    BY <1>4 DEF Summing
  <2> QED
    BY <2>2, <2>3, <2>4 DEF Summing
<1>16. Covering'
  <2>1. ASSUME NEW f \in flows, NEW r \in (f.conns \cup f.metas) \ risked
        PROVE  Covered(r, SetTo(op, f).times)
    BY <1>1, <1>3, <2>1 DEF Covering, Covered
  <2>2. \A f \in flows' : \A r \in (f.conns \cup f.metas) \ risked' : Covered(r, f.times)
    BY <1>2, <1>3, <2>1
  <2>3. \A o \in Adds' : \A r \in o.conns \ risked' : Covered(r, o.times)
    BY <1>2, <1>4 DEF Covering
  <2>4. \A o \in Sets', f \in flows' :
          f._id \in o.ids =>
            \A r \in (f.conns \cup f.metas) \ risked' : \A t \in slots[r] : Rounded[t] \in o.times
    BY <1>2, <1>3, <1>4 DEF Covering
  <2> QED
    BY <2>2, <2>3, <2>4 DEF Covering, Covered
<1> QED
  BY <1>8, <1>9, <1>10, <1>12, <1>13, <1>14, <1>15, <1>16

LEMMA ApplyStep ==
  ASSUME FlowAssumption, Inv, Apply
  PROVE  Inv'
<1>1. PICK op \in todo :
        /\ AddReversed(op) \/ RemoveSwitched(op) \/ SetTimes(op)
        /\ todo' = todo \ {op}
  BY DEF Apply
<1>2. UNCHANGED <<unread, bulk, sent, insert, jobs, faults>>
  BY DEF Apply
<1> QED
  BY <1>1, <1>2, AddStep, RemoveStep, SetStep

-----------------------------------------------------------------------------
(* The rounding and the cleanup.                                            *)

LEMMA RoundStep ==
  ASSUME FlowAssumption, Inv, reduce_precision
  PROVE  Inv'
<1> USE DEF Inv
<1> DEFINE Rounding(f) == [op |-> "set", job |-> jobs + 1, ids |-> {f._id},
                           times |-> {Rounded[t] : t \in f.times}]
<1>1. /\ jobs < MaxJobs /\ jobs' = jobs + 1
      /\ todo' = todo \cup {Rounding(f) : f \in flows}
      /\ UNCHANGED <<flows, ids, unread, bulk, sent, insert, risked, faults>>
  BY DEF reduce_precision
<1>2. jobs \in Nat /\ jobs' \in 0 .. MaxJobs /\ faults' \in 0 .. MaxFaults
  BY <1>1 DEF Typed, FlowAssumption
<1>3. ASSUME NEW f \in flows
      PROVE  /\ Rounding(f) \in SetOps /\ Rounding(f).ids \subseteq 1 .. ids
             /\ Rounding(f).times # {} /\ Rounding(f).times \subseteq {Rounded[t] : t \in Slots}
             /\ Rounding(f).op = "set" /\ Rounding(f).job = jobs + 1
  <2>1. f._id \in Nat /\ f.times \in SUBSET Slots /\ f.times # {} /\ f._id \in 1 .. ids
    BY DEF Typed, FlowDocs, Turned, Identified
  <2>2. {Rounded[t] : t \in f.times} \in SUBSET Slots
    BY <2>1 DEF FlowAssumption, Slots
  <2> QED
    BY <1>2, <2>1, <2>2 DEF SetOps
<1>4. Adds' = Adds /\ Removes' = Removes /\ Sets' = Sets \cup {Rounding(f) : f \in flows}
  BY <1>1 DEF Adds, Removes, Sets
<1>5. (\A q : Waiting(q)' <=> Waiting(q)) /\ \A f : Doomed(f)' <=> Doomed(f)
  BY <1>1, <1>4 DEF Waiting, Doomed
<1>6. Typed'
  <2>1. todo' \subseteq AddOps \cup RemoveOps \cup SetOps
    BY <1>1, <1>3 DEF Typed
  <2> QED
    BY <1>1, <1>2, <2>1, QueuesStay DEF Typed
<1>7. Identified'
  <2>1. \A op \in todo : op.job \in Nat
    BY DEF Typed, AddOps, RemoveOps, SetOps
  <2>2. \A op \in todo' : op.ids \subseteq 1 .. ids /\ op.job <= jobs + 1
    BY <1>1, <1>2, <1>3, <2>1 DEF Identified
  <2>3. \A op, o \in todo' : op.op = "set" /\ op.job = o.job => o.op = "set"
    BY <1>1, <1>2, <1>3, <2>1 DEF Identified
  <2> QED
    BY <1>1, <2>2, <2>3 DEF Identified
<1>8. Queued'
  BY <1>1, <1>4, <1>5, QueuesStay DEF Queued
<1>9. Turned'
  BY <1>1, <1>3, <1>4 DEF Turned
<1>10. Kept' /\ Once'
  BY <1>1, <1>4, <1>5 DEF Kept, Once, Moved
<1>11. Summing'
  BY <1>1, <1>4 DEF Summing, Counted, Exact
<1>12. Covering'
  <2>1. ASSUME NEW f \in flows, NEW g \in flows, g._id \in Rounding(f).ids,
               NEW r \in (g.conns \cup g.metas) \ risked, NEW t \in slots[r]
        PROVE  Rounded[t] \in Rounding(f).times
    <3>1. f = g
      BY <2>1 DEF Identified
    <3>2. t \in f.times \/ Rounded[t] \in f.times
      BY <2>1, <3>1 DEF Covering, Covered
    <3>3. r \in Records
      BY <2>1 DEF Typed, FlowDocs, Conns, FlowAssumption
    <3>4. Rounded[Rounded[t]] = Rounded[t]
      BY <2>1, <3>3 DEF FlowAssumption
    <3> QED
      BY <3>2, <3>4
  <2> QED
    BY <1>1, <1>4, <2>1 DEF Covering, Covered
<1> QED
  BY <1>6, <1>7, <1>8, <1>9, <1>10, <1>11, <1>12

\* What the flows of a group count: one for each count and each slot of each flow.
Units(group) == UNION {{f._id} \X ((1 .. f.count) \X f.times) : f \in group}
All(group) == UNION {f.conns : f \in group}

LEMMA UnitsFinite ==
  ASSUME FlowAssumption, Inv, NEW group \in SUBSET flows
  PROVE  IsFiniteSet(Units(group)) /\ Summed(group) = Cardinality(Units(group))
<1> DEFINE units(f) == {f._id} \X ((1 .. f.count) \X f.times)
           every == {units(f) : f \in group}
<1>1. ASSUME NEW f \in group PROVE IsFiniteSet(units(f))
  <2>1. f.count \in Nat /\ f.times \in SUBSET Slots
    BY DEF Inv, Typed, FlowDocs
  <2>2. IsFiniteSet(f.times)
    BY <2>1, FS_Subset DEF FlowAssumption, Slots
  <2>3. IsFiniteSet({f._id})
    BY FS_Singleton
  <2>4. 1 \in Int /\ f.count \in Int
    BY <2>1
  <2>5. IsFiniteSet(1 .. f.count)
    BY <2>4, FS_Interval
  <2>6. IsFiniteSet((1 .. f.count) \X f.times)
    BY <2>2, <2>5, FS_Product
  <2> QED
    BY <2>3, <2>6, FS_Product
<1>2. IsFiniteSet(group)
  BY FS_Subset DEF Inv, Typed
<1>3. [f \in group |-> units(f)] \in Surjection(group, every)
  BY DEF Surjection
<1>4. IsFiniteSet(every)
  BY <1>2, <1>3, FS_Surjection
<1>5. IsFiniteSet(UNION every)
  BY <1>1, <1>4, FS_UNION
<1> QED
  BY <1>5 DEF Units, Summed

\* The sums of a group count its connections, and are exact when each of its flows is
\* and no connection is in two of them.
LEMMA SummedCounts ==
  ASSUME FlowAssumption, Inv, NEW group \in SUBSET flows,
         \A f \in group : ~ Several(f.sports)
  PROVE  /\ Summed(group) \in Nat
         /\ Counted(UNION {f.times : f \in group}, All(group), Summed(group))
<1> USE DEF Inv
<1> DEFINE times == UNION {f.times : f \in group}
           held(f) == f.conns \ risked
           n(f) == Cardinality(held(f))
           D == UNION {{f._id} \X ((1 .. n(f)) \X f.times) : f \in group}
           U == All(group) \ risked
           one(f) == CHOOSE b : b \in Bijection(1 .. n(f), held(f))
           flow(i) == CHOOSE f \in group : f._id = i
           Map == [x \in D |-> one(flow(x[1]))[x[2][1]]]
<1>1. ASSUME NEW f \in group
      PROVE  /\ IsFiniteSet(held(f)) /\ n(f) \in Nat /\ f.count \in Nat /\ n(f) <= f.count
             /\ one(f) \in Bijection(1 .. n(f), held(f))
             /\ flow(f._id) = f /\ f.times # {}
  <2>1. f \in flows /\ f.conns \in SUBSET Records /\ f.count \in Nat
    BY DEF Typed, FlowDocs, Conns
  <2>2. IsFiniteSet(held(f)) /\ n(f) \in Nat
    BY <2>1, Sizes
  <2>3. f.count >= n(f)
    BY <2>1 DEF Summing, Counted
  <2>4. Bijection(1 .. n(f), held(f)) # {}
    BY <2>2, FS_CardinalityType DEF ExistsBijection
  <2>5. one(f) \in Bijection(1 .. n(f), held(f))
    BY <2>4
  <2>6. flow(f._id) = f
    BY <2>1 DEF Identified
  <2>7. f.times # {}
    BY <2>1 DEF Turned
  <2> QED
    BY <2>1, <2>2, <2>3, <2>5, <2>6, <2>7
<1> HIDE DEF one, flow, n
<1>2. ASSUME NEW x \in D
      PROVE  \E f \in group : /\ x[1] = f._id /\ x[2][1] \in 1 .. n(f) /\ x[2][2] \in f.times
                              /\ x = <<f._id, <<x[2][1], x[2][2]>>>>
                              /\ Map[x] = one(f)[x[2][1]] /\ Map[x] \in held(f)
  <2>1. PICK f \in group : x \in {f._id} \X ((1 .. n(f)) \X f.times)
    OBVIOUS
  <2>2. /\ x[1] = f._id /\ x[2][1] \in 1 .. n(f) /\ x[2][2] \in f.times
        /\ x = <<f._id, <<x[2][1], x[2][2]>>>>
    BY <2>1
  <2>3. Map[x] = one(f)[x[2][1]]
    BY <1>1, <2>2
  <2>4. one(f) \in [1 .. n(f) -> held(f)]
    BY <1>1 DEF Bijection, Surjection
  <2> QED
    BY <2>2, <2>3, <2>4
<1>3. Map \in Surjection(D, U)
  <2>1. Map \in [D -> U]
    <3>1. \A f \in group : held(f) \subseteq U
      BY DEF All
    <3>2. \A x \in D : Map[x] \in U
      BY <1>2, <3>1
    <3> HIDE DEF D, U
    <3> QED
      BY <3>2
  <2>2. ASSUME NEW r \in U PROVE \E x \in D : Map[x] = r
    <3>1. PICK f \in group : r \in held(f)
      BY DEF All
    <3>2. PICK k \in 1 .. n(f) : one(f)[k] = r
      BY <1>1, <3>1 DEF Bijection, Surjection
    <3>3. PICK t \in f.times : TRUE
      BY <1>1
    <3> DEFINE x == <<f._id, <<k, t>>>>
    <3>4. x \in D
      BY <3>2, <3>3
    <3>5. Map[x] = one(f)[k]
      BY <1>1, <3>4
    <3> QED
      BY <3>2, <3>4, <3>5
  <2> QED
    BY <2>1, <2>2 DEF Surjection
<1>4. IsFiniteSet(Units(group)) /\ Summed(group) = Cardinality(Units(group))
  BY UnitsFinite
<1>5. D \subseteq Units(group)
  <2>1. ASSUME NEW f \in group PROVE 1 .. n(f) \subseteq 1 .. f.count
    <3>1. n(f) \in Nat /\ f.count \in Nat /\ n(f) <= f.count
      BY <1>1
    <3> HIDE DEF held
    <3> QED
      BY <3>1
  <2> QED
    BY <2>1 DEF Units
<1>6. /\ IsFiniteSet(D) /\ Cardinality(D) <= Summed(group)
      /\ Summed(group) \in Nat /\ Cardinality(D) \in Nat
  BY <1>4, <1>5, FS_Subset, FS_CardinalityType
<1> HIDE DEF Map, D, U
<1>7. /\ IsFiniteSet(U) /\ Cardinality(U) <= Cardinality(D) /\ Cardinality(U) \in Nat
      /\ Map \in Injection(D, U) => Cardinality(U) = Cardinality(D)
  BY <1>3, <1>6, FS_Surjection, FS_CardinalityType
<1>8. Summed(group) >= Cardinality(All(group) \ risked)
  BY <1>6, <1>7 DEF U
<1>9. ASSUME Exact(times, All(group))
      PROVE  Summed(group) = Cardinality(All(group))
  <2>1. All(group) \cap risked = {} /\ U = All(group)
    BY <1>9 DEF Exact, U
  <2>2. PICK t \in Slots : times \subseteq {t} /\ \A u \in Slots : Rounded[u] # t
    BY <1>9 DEF Exact
  <2>3. ASSUME NEW f \in group PROVE f.times = {t} /\ held(f) = f.conns /\ f.count = n(f)
    <3>1. f.times \subseteq {t} /\ f.conns \cap risked = {}
      BY <2>1, <2>2 DEF All
    <3>2. Exact(f.times, f.conns) /\ Counted(f.times, f.conns, f.count)
      BY <2>2, <3>1 DEF Exact, Summing
    <3>3. f.count = Cardinality(f.conns) /\ held(f) = f.conns
      BY <3>1, <3>2 DEF Counted
    <3> QED
      BY <1>1, <3>1, <3>3 DEF n
  <2>4. D = Units(group)
    BY <2>3 DEF D, Units
  <2>5. ASSUME NEW x \in D, NEW y \in D, Map[x] = Map[y] PROVE x = y
    <3>1. PICK f \in group : /\ x[2][1] \in 1 .. n(f) /\ x[2][2] \in f.times
                             /\ x = <<f._id, <<x[2][1], x[2][2]>>>>
                             /\ Map[x] = one(f)[x[2][1]] /\ Map[x] \in held(f)
      BY <1>2 DEF D, Map
    <3>2. PICK g \in group : /\ y[2][1] \in 1 .. n(g) /\ y[2][2] \in g.times
                             /\ y = <<g._id, <<y[2][1], y[2][2]>>>>
                             /\ Map[y] = one(g)[y[2][1]] /\ Map[y] \in held(g)
      BY <1>2 DEF D, Map
    <3>3. f = g
      <4>1. f \in flows /\ g \in flows /\ Map[x] \in (f.conns \cap g.conns) \ risked
        BY <2>5, <3>1, <3>2
      <4> QED
        BY <4>1 DEF Once, Moved
    <3>4. x[2][1] = y[2][1]
      BY <1>1, <2>5, <3>1, <3>2, <3>3 DEF Bijection, Injection, IsInjective
    <3>5. x[2][2] = y[2][2]
      BY <2>3, <3>1, <3>2, <3>3
    <3> QED
      BY <3>1, <3>2, <3>3, <3>4, <3>5
  <2>6. Map \in Injection(D, U)
    BY <1>3, <2>5 DEF Surjection, Injection, IsInjective
  <2> QED
    BY <1>4, <1>7, <2>1, <2>4, <2>6
<1> QED
  BY <1>6, <1>8, <1>9 DEF Counted

\* The operation that adds the sums of a group, under a key.
Sums(group, key) ==
  [op |-> "add", job |-> jobs + 1, ids |-> {}, key |-> key, sports |-> dports(group),
   times |-> UNION {f.times : f \in group}, conns |-> All(group), count |-> Summed(group)]
Removal(group) == [op |-> "remove", job |-> jobs + 1, ids |-> {f._id : f \in group}]

\* The flows of a group have one source port, the same, and the same hosts.
LEMMA GroupFacts ==
  ASSUME FlowAssumption, Inv, NEW group \in Groups
  PROVE  /\ group \in SUBSET flows /\ group # {}
         /\ \E a \in Hosts, b \in Hosts, p \in Ports :
              /\ \A f \in group : f.key[1] = a /\ f.key[2] = b /\ f.sports = {p}
              /\ Switch(group) = {Sums(group, <<b, a, p>>), Removal(group)}
<1> DEFINE single == {f \in flows : Cardinality(f.sports) = 1 /\ f.key[3] \notin Services}
           port(f) == CHOOSE p \in f.sports : TRUE
           of(f) == <<f.key[1], f.key[2], port(f)>>
           one == CHOOSE f \in group : TRUE
<1>1. PICK f0 \in single : group = {f \in single : of(f) = of(f0)}
  BY DEF Groups
<1>2. group \in SUBSET flows /\ group # {} /\ one \in group
  BY <1>1
<1>3. ASSUME NEW f \in single PROVE f.sports = {port(f)} /\ port(f) \in Ports
  <2>1. f.sports \in SUBSET Ports
    BY DEF Inv, Typed, FlowDocs
  <2>2. IsFiniteSet(f.sports)
    <3>1. IsFiniteSet(Ports)
      <4>1. [r \in Records |-> sport[r]] \in Surjection(Records, {sport[r] : r \in Records})
        BY DEF Surjection
      <4>2. [r \in Records |-> dport[r]] \in Surjection(Records, {dport[r] : r \in Records})
        BY DEF Surjection
      <4>3. IsFiniteSet({sport[r] : r \in Records}) /\ IsFiniteSet({dport[r] : r \in Records})
        BY <4>1, <4>2, FS_Surjection DEF FlowAssumption
      <4> QED
        BY <4>3, FS_Union DEF Ports
    <3> QED
      BY <2>1, <3>1, FS_Subset
  <2>3. Cardinality(f.sports) = 1
    OBVIOUS
  <2>4. PICK p : f.sports = {p}
    BY <2>2, <2>3, FS_Singleton
  <2> QED
    BY <2>1, <2>4
<1>4. \A f \in group : f.key[1] = one.key[1] /\ f.key[2] = one.key[2] /\ f.sports = {port(one)}
  <2> SUFFICES ASSUME NEW f \in group
               PROVE  f.key[1] = one.key[1] /\ f.key[2] = one.key[2] /\ f.sports = {port(one)}
    OBVIOUS
  <2>1. of(f) = of(one) /\ f \in single
    BY <1>1, <1>2
  <2>2. f.key[1] = one.key[1] /\ f.key[2] = one.key[2] /\ port(f) = port(one)
    BY <2>1
  <2> QED
    BY <1>3, <2>1, <2>2
<1>5. one.key[1] \in Hosts /\ one.key[2] \in Hosts
  BY <1>2 DEF Inv, Typed, FlowDocs, Keys
<1>6. port(one) \in Ports
  BY <1>1, <1>2, <1>3
<1>7. Switch(group) = {Sums(group, <<one.key[2], one.key[1], port(one)>>), Removal(group)}
  BY DEF Switch, Sums, Removal, All
<1> HIDE DEF single, port, of, one
<1>8. \E a \in Hosts, b \in Hosts, p \in Ports :
        /\ \A f \in group : f.key[1] = a /\ f.key[2] = b /\ f.sports = {p}
        /\ Switch(group) = {Sums(group, <<b, a, p>>), Removal(group)}
  BY <1>4, <1>5, <1>6, <1>7, Zenon
<1> QED
  BY <1>2, <1>8

\* The operations of a group turn its flows under this key.
Turns(group, key) ==
  /\ Switch(group) = {Sums(group, key), Removal(group)}
  /\ group \in SUBSET flows
  /\ \A f \in group : ~ Several(f.sports)
  /\ \A f \in group : \A r \in f.conns : key = Reverse(r)
  /\ Sums(group, key) \in AddOps /\ Removal(group) \in RemoveOps
  /\ Several(dports(group))
  /\ UNION {f.times : f \in group} # {}
  /\ Removal(group).ids \subseteq 1 .. ids

LEMMA SwitchFacts ==
  ASSUME FlowAssumption, Inv, NEW group \in Groups, Cardinality(dports(group)) > FewDports
  PROVE  \E key \in Keys : Turns(group, key)
<1> USE DEF Inv
<1>1. PICK a \in Hosts, b \in Hosts, p \in Ports :
        /\ \A f \in group : f.key[1] = a /\ f.key[2] = b /\ f.sports = {p}
        /\ Switch(group) = {Sums(group, <<b, a, p>>), Removal(group)}
  BY GroupFacts
<1> DEFINE key == <<b, a, p>>
<1>2. group \in SUBSET flows /\ group # {}
  BY GroupFacts
<1>3. \A f \in group : f \in FlowDocs /\ f.times # {} /\ f._id \in 1 .. ids
  BY <1>2 DEF Typed, Turned, Identified
<1>4. \A f \in group : ~ Several(f.sports)
  BY <1>1 DEF Several
<1>5. ASSUME NEW f \in group, NEW r \in f.conns PROVE key = Reverse(r)
  <2>1. f.key = Key(r) /\ sport[r] \in f.sports
    BY <1>2, <1>4, <1>5 DEF Turned, Directed
  <2> QED
    BY <1>1, <2>1 DEF Key, Reverse
<1>6. Summed(group) \in Nat
  BY <1>2, <1>4, SummedCounts
<1>7. dports(group) \in SUBSET Ports
  BY <1>3 DEF dports, FlowDocs, Keys
<1>8. jobs + 1 \in Nat /\ ids \in Nat
  BY DEF Typed, FlowAssumption
<1>9. Sums(group, key) \in AddOps
  <2>1. key \in Keys
    BY DEF Keys
  <2>2. UNION {f.times : f \in group} \in SUBSET Slots /\ All(group) \in SUBSET Conns
    BY <1>3 DEF FlowDocs, All
  <2> QED
    BY <1>6, <1>7, <1>8, <2>1, <2>2 DEF Sums, AddOps
<1>10. Removal(group) \in RemoveOps /\ Removal(group).ids \subseteq 1 .. ids
  BY <1>3, <1>8 DEF Removal, RemoveOps
<1>11. Several(dports(group))
  <2>1. SUFFICES ASSUME ~ Several(dports(group)) PROVE FALSE
    OBVIOUS
  <2>2. PICK f \in group : TRUE
    BY <1>2
  <2>3. dports(group) = {f.key[3]}
    BY <2>1 DEF Several, dports
  <2>4. Cardinality(dports(group)) = 1
    BY <2>3, FS_Singleton
  <2> QED
    BY <2>4 DEF FlowAssumption
<1>12. UNION {f.times : f \in group} # {}
  BY <1>2, <1>3
<1> QED
  BY <1>1, <1>2, <1>4, <1>5, <1>9, <1>10, <1>11, <1>12 DEF Keys, Turns

LEMMA CleanupStep ==
  ASSUME FlowAssumption, Inv, cleanup_flows
  PROVE  Inv'
<1> USE DEF Inv
<1>1. PICK switched \in SUBSET {g \in Groups : Cardinality(dports(g)) > FewDports} :
        todo' = todo \cup UNION {Switch(g) : g \in switched}
  BY DEF cleanup_flows
<1>2. /\ jobs < MaxJobs /\ jobs' = jobs + 1
      /\ UNCHANGED <<flows, ids, unread, bulk, sent, insert, risked, faults>>
  BY DEF cleanup_flows
<1>3. jobs \in Nat /\ jobs' \in 0 .. MaxJobs /\ faults' \in 0 .. MaxFaults
  BY <1>2 DEF Typed, FlowAssumption
<1> DEFINE New(group, key) ==
             /\ Turns(group, key)
             /\ Sums(group, key) \in todo' /\ Removal(group) \in todo'
<1>4. ASSUME NEW op \in todo', op \notin todo
      PROVE  \E group \in SUBSET flows, key \in Keys :
               New(group, key) /\ (op = Sums(group, key) \/ op = Removal(group))
  <2>1. PICK group \in switched : op \in Switch(group)
    BY <1>1, <1>4
  <2>2. PICK key \in Keys : Turns(group, key)
    BY SwitchFacts
  <2>3. Switch(group) = {Sums(group, key), Removal(group)} /\ group \in SUBSET flows
    BY <2>2 DEF Turns
  <2>4. Switch(group) \subseteq todo'
    BY <1>1
  <2> QED
    BY <2>1, <2>2, <2>3, <2>4
<1>5. \A group, key :
        /\ Sums(group, key).op = "add" /\ Sums(group, key).job = jobs + 1
        /\ Sums(group, key).ids = {} /\ Sums(group, key).key = key
        /\ Sums(group, key).sports = dports(group)
        /\ Sums(group, key).times = UNION {f.times : f \in group}
        /\ Sums(group, key).conns = All(group) /\ Sums(group, key).count = Summed(group)
        /\ Removal(group).op = "remove" /\ Removal(group).job = jobs + 1
        /\ Removal(group).ids = {f._id : f \in group}
  BY DEF Sums, Removal
<1> HIDE DEF New
<1>6. \A op \in Adds' :
        op \in Adds \/ \E group \in SUBSET flows, key \in Keys : New(group, key) /\ op = Sums(group, key)
  BY <1>4, <1>5 DEF Adds
<1>7. Sets' = Sets /\ Adds \subseteq Adds' /\ Removes \subseteq Removes'
  <2>1. todo \subseteq todo'
    BY <1>1
  <2> QED
    BY <1>4, <1>5, <2>1 DEF Sets, Adds, Removes
<1>8. \A q : Waiting(q)' <=> Waiting(q)
  BY <1>2 DEF Waiting
<1>9. \A f : Doomed(f) => Doomed(f)'
  BY <1>7 DEF Doomed
<1>10. \A group, key : New(group, key) => \A f \in group : Doomed(f)'
  BY <1>5 DEF New, Doomed, Removes
<1>11. ASSUME NEW f \in flows, Doomed(f)', ~ Doomed(f)
       PROVE  \E group \in SUBSET flows, key \in Keys : New(group, key) /\ f \in group
  <2>1. PICK op \in Removes' : f._id \in op.ids
    BY <1>11 DEF Doomed
  <2>2. op \notin todo /\ op.op = "remove" /\ op \in todo'
    BY <1>11, <2>1 DEF Doomed, Removes
  <2>3. PICK group \in SUBSET flows, key \in Keys : New(group, key) /\ op = Removal(group)
    BY <1>4, <1>5, <2>2
  <2>4. f \in group
    BY <1>5, <2>1, <2>3 DEF Identified
  <2> QED
    BY <2>3, <2>4
<1>12. Typed'
  <2>1. \A op \in todo' : op \in AddOps \cup RemoveOps \cup SetOps
    BY <1>4 DEF Typed, New, Turns
  <2> QED
    BY <1>2, <1>3, <2>1, QueuesStay DEF Typed
<1>13. Identified'
  <2>1. \A op \in todo : op.job \in Nat /\ op.job <= jobs
    BY DEF Typed, AddOps, RemoveOps, SetOps, Identified
  <2>2. ASSUME NEW op \in todo', op \notin todo
        PROVE  op.job = jobs + 1 /\ op.op # "set" /\ op.ids \subseteq 1 .. ids
    <3>1. PICK group \in SUBSET flows, key \in Keys :
            New(group, key) /\ (op = Sums(group, key) \/ op = Removal(group))
      BY <1>4, <2>2
    <3>2. Removal(group).ids \subseteq 1 .. ids
      BY <3>1 DEF New, Turns
    <3> QED
      BY <1>5, <3>1, <3>2
  <2>3. \A op \in todo' : op.ids \subseteq 1 .. ids /\ op.job <= jobs + 1
    BY <1>3, <2>1, <2>2 DEF Identified
  <2>4. \A op, o \in todo' : op.op = "set" /\ op.job = o.job => o.op = "set"
    BY <1>3, <2>1, <2>2 DEF Identified
  <2> QED
    BY <1>2, <2>3, <2>4 DEF Identified
<1>14. Queued'
  <2>1. ASSUME NEW r \in Records, Waiting(r), NEW op \in Adds' PROVE r \notin op.conns
    <3>1. CASE op \in Adds
      BY <2>1, <3>1 DEF Queued
    <3>2. CASE \E group \in SUBSET flows, key \in Keys : New(group, key) /\ op = Sums(group, key)
      <4>1. PICK group \in SUBSET flows : op.conns = All(group)
        BY <1>5, <3>2
      <4> QED
        BY <2>1, <4>1 DEF All, Queued
    <3> QED
      BY <1>6, <3>1, <3>2
  <2> QED
    BY <1>2, <1>8, <2>1, QueuesStay DEF Queued
<1>15. Turned'
  <2>1. ASSUME NEW op \in Adds'
        PROVE  /\ op.times # {} /\ Several(op.sports)
               /\ \A r \in op.conns : op.key = Reverse(r)
    <3>1. CASE op \in Adds
      BY <3>1 DEF Turned
    <3>2. CASE \E group \in SUBSET flows, key \in Keys : New(group, key) /\ op = Sums(group, key)
      BY <1>5, <3>2 DEF New, Turns, All
    <3> QED
      BY <1>6, <3>1, <3>2
  <2> QED
    BY <1>2, <1>7, <2>1 DEF Turned
<1>16. Kept'
  <2> SUFFICES ASSUME NEW q \in Conns \ risked', ~ Waiting(q)',
                      ~ (\E op \in Adds : q \in op.conns)'
               PROVE  (\E g \in flows : q \in g.conns /\ ~ Doomed(g))'
    BY DEF Kept
  <2>1. PICK f \in flows : q \in f.conns /\ ~ Doomed(f)
    BY <1>2, <1>7, <1>8 DEF Kept
  <2>2. ~ Doomed(f)'
    <3>1. SUFFICES ASSUME Doomed(f)' PROVE FALSE
      OBVIOUS
    <3>2. PICK group \in SUBSET flows, key \in Keys : New(group, key) /\ f \in group
      BY <1>11, <2>1, <3>1
    <3>3. Sums(group, key) \in Adds' /\ q \in Sums(group, key).conns
      BY <1>5, <2>1, <3>2 DEF New, Adds, All
    <3> QED
      BY <3>3
  <2> QED
    BY <1>2, <2>1, <2>2
<1>17. Once'
  <2>1. ASSUME NEW f \in flows, NEW g \in flows, NEW r \in (f.conns \cap g.conns) \ risked
        PROVE  (f = g \/ Moved(f, g, r) \/ Moved(g, f, r))'
    <3>1. f = g \/ Moved(f, g, r) \/ Moved(g, f, r)
      BY <2>1 DEF Once
    <3> QED
      BY <1>9, <3>1 DEF Moved
  <2>2. ASSUME NEW op \in Adds', NEW g \in flows, NEW r \in (op.conns \cap g.conns) \ risked
        PROVE  Doomed(g)' \/ g.key = op.key
    <3>1. CASE op \in Adds
      BY <1>9, <2>2, <3>1 DEF Once
    <3>2. CASE \E group \in SUBSET flows, key \in Keys : New(group, key) /\ op = Sums(group, key)
      <4>1. PICK group \in SUBSET flows, key \in Keys : New(group, key) /\ op = Sums(group, key)
        BY <3>2
      <4>2. PICK f \in group : r \in f.conns
        BY <1>5, <2>2, <4>1 DEF All
      <4>3. op.key = Reverse(r) /\ Doomed(f)'
        BY <1>5, <1>10, <4>1, <4>2 DEF New, Turns
      <4>4. f = g \/ Moved(f, g, r) \/ Moved(g, f, r)
        BY <2>2, <4>2 DEF Once
      <4> QED
        BY <1>9, <4>3, <4>4 DEF Moved
    <3> QED
      BY <1>6, <3>1, <3>2
  <2> QED
    BY <1>2, <2>1, <2>2 DEF Once
<1>18. Summing'
  <2>1. \A times, conns, count : Counted(times, conns, count)' <=> Counted(times, conns, count)
    BY <1>2 DEF Counted, Exact
  <2>2. ASSUME NEW op \in Adds' PROVE Counted(op.times, op.conns, op.count)
    <3>1. CASE op \in Adds
      BY <3>1 DEF Summing
    <3>2. CASE \E group \in SUBSET flows, key \in Keys : New(group, key) /\ op = Sums(group, key)
      <4>1. PICK group \in SUBSET flows, key \in Keys : New(group, key) /\ op = Sums(group, key)
        BY <3>2
      <4>2. Counted(UNION {f.times : f \in group}, All(group), Summed(group))
        BY <4>1, SummedCounts DEF New, Turns
      <4> QED
        BY <1>5, <4>1, <4>2
    <3> QED
      BY <1>6, <3>1, <3>2
  <2> QED
    BY <1>2, <2>1, <2>2 DEF Summing
<1>19. Covering'
  <2>1. ASSUME NEW op \in Adds', NEW r \in op.conns \ risked PROVE Covered(r, op.times)
    <3>1. CASE op \in Adds
      BY <2>1, <3>1 DEF Covering
    <3>2. CASE \E group \in SUBSET flows, key \in Keys : New(group, key) /\ op = Sums(group, key)
      <4>1. PICK group \in SUBSET flows, key \in Keys : New(group, key) /\ op = Sums(group, key)
        BY <3>2
      <4>2. PICK f \in group : r \in f.conns
        BY <1>5, <2>1, <4>1 DEF All
      <4>3. Covered(r, f.times)
        BY <2>1, <4>2 DEF Covering
      <4> QED
        BY <1>5, <4>1, <4>2, <4>3 DEF Covered
    <3> QED
      BY <1>6, <3>1, <3>2
  <2> QED
    BY <1>2, <1>7, <2>1 DEF Covering, Covered
<1> QED
  BY <1>12, <1>13, <1>14, <1>15, <1>16, <1>17, <1>18, <1>19

-----------------------------------------------------------------------------
(* Theorems.                                                                *)

LEMMA InvInit ==
  ASSUME FlowAssumption, Init
  PROVE  Inv
<1>1. /\ flows = {} /\ ids = 0 /\ unread = Records /\ bulk = [i \in Importers |-> {}]
      /\ sent = {} /\ insert = [i \in Importers |-> 0]
      /\ todo = {} /\ risked = {} /\ jobs = 0 /\ faults = 0
  BY DEF Init
<1>2. Typed
  BY <1>1, FS_EmptySet DEF Typed, FlowAssumption
<1>3. Adds = {} /\ Sets = {}
  BY <1>1 DEF Adds, Sets
<1>4. Identified /\ Queued /\ Turned /\ Once /\ Summing /\ Covering
  BY <1>1, <1>3 DEF Identified, Queued, Turned, Once, Summing, Covering
<1>5. Kept
  BY <1>1 DEF Kept, Waiting, Conns
<1> QED
  BY <1>2, <1>4, <1>5 DEF Inv

LEMMA InvStays ==
  ASSUME FlowAssumption, Inv, UNCHANGED vars
  PROVE  Inv'
<1>1. /\ UNCHANGED <<flows, ids, unread, bulk, sent, insert, todo, risked, jobs, faults>>
      /\ Adds' = Adds /\ Sets' = Sets /\ Removes' = Removes
  BY DEF vars, Adds, Sets, Removes
<1>2. /\ \A r : Waiting(r)' <=> Waiting(r)
      /\ \A f : Doomed(f)' <=> Doomed(f)
  BY <1>1 DEF Waiting, Doomed
<1>3. Loses
  BY <1>1, <1>2 DEF Loses, Inv, Typed
<1> QED
  BY <1>1, <1>3, LosingStep DEF Inv, Typed

\* The invariant above holds.
THEOREM InvHolds ==
  ASSUME FlowAssumption
  PROVE  Spec => []Inv
<1>1. Init => Inv
  BY InvInit
<1>2. Inv /\ [Next]_vars => Inv'
  <2> SUFFICES ASSUME Inv, [Next]_vars PROVE Inv'
    OBVIOUS
  <2>1. ASSUME NEW i \in Importers, Import(i) PROVE Inv'
    BY <2>1, ParseStep, SendStep, ImportStep DEF Import
  <2>2. CASE cleanup_flows
    BY <2>2, CleanupStep
  <2>3. CASE reduce_precision
    BY <2>3, RoundStep
  <2>4. CASE Apply
    BY <2>4, ApplyStep
  <2>5. CASE OperationFails
    BY <2>5, FailStep
  <2>6. CASE UNCHANGED vars
    BY <2>6, InvStays
  <2> QED
    BY <2>1, <2>2, <2>3, <2>4, <2>5, <2>6 DEF Next
<1> QED
  BY <1>1, <1>2, PTL DEF Spec

\* Every variable holds a value of its kind.
THEOREM FlowTypeOK ==
  ASSUME FlowAssumption
  PROVE  Spec => []TypeOK
<1>1. ASSUME Inv PROVE TypeOK
  <2>1. insert \in [Importers -> Records \cup {0}]
    BY <1>1 DEF Inv, Typed, Queued
  <2>2. ASSUME NEW f \in flows
        PROVE  /\ f._id \in 1 .. ids /\ f.count \in Nat
               /\ f.conns \cup f.metas \subseteq Records
    <3>1. f \in FlowDocs /\ f._id \in 1 .. ids
      BY <1>1 DEF Inv, Typed, Identified
    <3> QED
      BY <3>1 DEF FlowDocs, Conns, FlowAssumption
  <2> QED
    BY <1>1, <2>1, <2>2 DEF Inv, Typed, TypeOK
<1> QED
  BY <1>1, InvHolds, PTL

\* Whatever turns flows around, a connection that was read is on its way or in a flow
\* of its hosts, unless a race or a failure put it at risk (bulk_commit, cleanup_flows).
THEOREM ConnectionsKept ==
  ASSUME FlowAssumption
  PROVE  Spec => []NothingLost
<1>1. ASSUME Inv PROVE NothingLost
  <2>1. ASSUME NEW f \in flows, NEW r \in f.conns
        PROVE  {f.key[1], f.key[2]} = {src[r], dst[r]}
    BY <1>1, <2>1 DEF Inv, Turned, Directed, Key, Reverse
  <2> QED
    BY <1>1, <2>1 DEF Inv, Kept, Waiting, Conns, Adds, NothingLost
<1> QED
  BY <1>1, InvHolds, PTL

\* A connection is in one flow only, but for one whose removal is to come (cleanup_flows).
THEOREM ConnectionsFoldedOnce ==
  ASSUME FlowAssumption
  PROVE  Spec => []FoldedOnce
<1>1. Inv => FoldedOnce
  BY DEF Inv, Once, Moved, Doomed, Removes, FoldedOnce
<1> QED
  BY <1>1, InvHolds, PTL

\* A flow counts each of its connections, and once when all have the one slot that no
\* rounding has touched: cleanup_flows sums those of several slots for each.
THEOREM CountsSightings ==
  ASSUME FlowAssumption
  PROVE  Spec => []CountsAreSightings
<1>1. ASSUME Inv, NEW f \in flows
      PROVE  /\ f.count >= Cardinality(f.conns \ risked)
             /\ Cardinality(f.times) = 1 /\ f.times \cap {Rounded[t] : t \in DOMAIN Rounded} = {}
                  /\ f.conns \cap risked = {}
                => f.count = Cardinality(f.conns)
  <2>1. Counted(f.times, f.conns, f.count) /\ f.times \in SUBSET Slots
    BY <1>1 DEF Inv, Summing, Typed, FlowDocs
  <2>2. ASSUME Cardinality(f.times) = 1, f.conns \cap risked = {},
               f.times \cap {Rounded[t] : t \in DOMAIN Rounded} = {}
        PROVE  f.count = Cardinality(f.conns)
    <3>1. IsFiniteSet(f.times)
      BY <2>1, FS_Subset DEF FlowAssumption, Slots
    <3>2. PICK t : f.times = {t}
      BY <2>2, <3>1, FS_Singleton
    <3>3. Exact(f.times, f.conns)
      BY <2>1, <2>2, <3>2 DEF Exact, Slots
    <3> QED
      BY <2>1, <3>3 DEF Counted
  <2> QED
    BY <2>1, <2>2 DEF Counted
<1>2. Inv => CountsAreSightings
  BY <1>1 DEF CountsAreSightings
<1> QED
  BY <1>2, InvHolds, PTL

\* The slots of a flow are those of its records, rounded or not, unless a record came in
\* while its flow was being rounded or turned (reduce_precision).
THEOREM SlotsCover ==
  ASSUME FlowAssumption
  PROVE  Spec => []SlotsCoverSightings
<1>1. Inv => SlotsCoverSightings
  BY DEF Inv, Covering, Covered, SlotsCoverSightings
<1> QED
  BY <1>1, InvHolds, PTL
=============================================================================
