-------------------------- MODULE HostMergeProofs --------------------------
(***************************************************************************)
(* Proofs about merge_host_docs, for any scans, ports, services, scripts    *)
(* and times, merged two by two in any order: a document has the window,    *)
(* the ports and the scripts of its scans, gives no service the version of  *)
(* another one, says of a port what its most recent scan says, and when the *)
(* merges follow the order of time says it of every port.                   *)
(*                                                                          *)
(* Each property is that of all the documents.  Good(d) is their            *)
(* conjunction for one document: the ones need the others, since what the   *)
(* newest scan says stands because the end of a document is that of its     *)
(* newest scan, and a script of the older document is dropped only when     *)
(* the scripts of the newer one are all those of its scans.                 *)
(***************************************************************************)
EXTENDS HostMerge, TLAPS

-----------------------------------------------------------------------------
(* What the variables hold.                                                 *)

PortReport ==
  {r \in [name : Names \cup {None}, version : BOOLEAN, scripts : SUBSET Scripts, seen : BOOLEAN] :
     /\ r.version => r.name # None
     /\ ~r.seen => r.scripts = {}}
ReportsOK ==
  reports \in [Scans -> [start : Nat, end : Nat, ports : [Ports -> PortReport]]]

PortDoc ==
  [by : Scans, name : Names \cup {None}, version : Scans \cup {None},
   scripts : SUBSET [id : Scripts, by : Scans]]
Doc ==
  [start : Nat, end : Nat, ports : UNION {[P -> PortDoc] : P \in SUBSET Ports},
   of : SUBSET Scans, ordered : BOOLEAN]

\* The properties, of one document.
Hull(d) ==
  /\ \A s \in d.of : d.start <= reports[s].start /\ reports[s].end <= d.end
  /\ \E s, t \in d.of : d.start = reports[s].start /\ d.end = reports[t].end
HasItsPorts(d) == DOMAIN d.ports = {p \in Ports : \E s \in d.of : HasPort(s, p)}
HasItsScripts(d) ==
  \A p \in DOMAIN d.ports :
    {x.id : x \in d.ports[p].scripts} = UNION {reports[s].ports[p].scripts : s \in d.of}
FromItsScans(d) == \A p \in DOMAIN d.ports : d.ports[p].by \in d.of
Coherent(d) ==
  \A p \in DOMAIN d.ports :
    LET v == d.ports[p].version
    IN  v # None => v \in d.of /\ reports[v].ports[p].name = d.ports[p].name
\* A version comes with a name.
Named(d) == \A p \in DOMAIN d.ports : d.ports[p].version # None => d.ports[p].name # None
Newest(d, s) == \A t \in d.of \ {s} : reports[t].end < reports[s].end
Stands(d, s) ==
  \A p \in Ports : HasPort(s, p) =>
    /\ d.ports[p].by = s
    /\ reports[s].ports[p].name \in {None, d.ports[p].name}
    /\ reports[s].ports[p].version => d.ports[p].version = s
    /\ \A x \in d.ports[p].scripts : x.id \in reports[s].ports[p].scripts => x.by = s
NewestStands(d) == \A s \in d.of : Newest(d, s) => Stands(d, s)
InOrder(d) == d.ordered => PortIsNewest(d)

Good(d) ==
  /\ d \in Doc
  /\ Hull(d) /\ HasItsPorts(d) /\ HasItsScripts(d) /\ FromItsScans(d)
  /\ Coherent(d) /\ Named(d) /\ NewestStands(d) /\ InOrder(d)

IInv == ReportsOK /\ \A d \in docs : Good(d)

-----------------------------------------------------------------------------
(* The document of one scan.                                                *)

LEMMA ReportsTyped ==
  ASSUME MergeAssumption, Init
  PROVE  ReportsOK
<1>1. \A t \in Report : t.start \in Nat /\ t.end \in Nat
  BY DEF MergeAssumption, Report
<1>2. \A x \in Seen : [name |-> x.name, version |-> x.version, scripts |-> x.scripts,
                       seen |-> TRUE] \in PortReport
  BY DEF Seen, PortReport
<1>3. Unseen \in PortReport
  BY DEF Unseen, PortReport
<1> QED
  BY <1>1, <1>2, <1>3 DEF Init, ReportsOK

LEMMA AsDocIsGood ==
  ASSUME MergeAssumption, ReportsOK, NEW s \in Scans
  PROVE  Good(AsDoc(s))
<1> DEFINE d == AsDoc(s)
           Q == {q \in Ports : HasPort(s, q)}
<1>1. reports[s] \in [start : Nat, end : Nat, ports : [Ports -> PortReport]]
  BY DEF ReportsOK
<1>2. \A p \in Ports : reports[s].ports[p] \in PortReport
  BY <1>1
<1>3. /\ d.start = reports[s].start /\ d.end = reports[s].end
      /\ d.of = {s} /\ d.ordered = TRUE
      /\ DOMAIN d.ports = Q
  BY DEF AsDoc
<1>4. \A p \in Q :
        /\ d.ports[p].by = s
        /\ d.ports[p].name = reports[s].ports[p].name
        /\ d.ports[p].version = IF reports[s].ports[p].version THEN s ELSE None
        /\ d.ports[p].scripts = {[id |-> i, by |-> s] : i \in reports[s].ports[p].scripts}
  BY DEF AsDoc
<1>5. d \in Doc
  <2>1. \A p \in Q :
          [by |-> s, name |-> reports[s].ports[p].name,
           version |-> IF reports[s].ports[p].version THEN s ELSE None,
           scripts |-> {[id |-> i, by |-> s] : i \in reports[s].ports[p].scripts}] \in PortDoc
    BY <1>2 DEF PortDoc, PortReport
  <2>2. d.ports \in [Q -> PortDoc]
    BY <2>1 DEF AsDoc
  <2> QED
    BY <1>1, <2>2 DEF AsDoc, Doc
<1>6. Hull(d)
  BY <1>1, <1>3 DEF Hull
<1>7. HasItsPorts(d)
  BY <1>3 DEF HasItsPorts
<1>8. HasItsScripts(d)
  <2> SUFFICES ASSUME NEW p \in Q
               PROVE  {x.id : x \in d.ports[p].scripts}
                        = UNION {reports[t].ports[p].scripts : t \in d.of}
    BY <1>3 DEF HasItsScripts
  <2> DEFINE ids == reports[s].ports[p].scripts
  <2> DEFINE F(i) == [id |-> i, by |-> s]
  <2>1. {x.id : x \in {F(i) : i \in ids}} = ids
    <3>1. \A i \in ids : F(i).id = i
      OBVIOUS
    <3> HIDE DEF F
    <3>2. {x.id : x \in {F(i) : i \in ids}} = {F(i).id : i \in ids}
      OBVIOUS
    <3> QED
      BY <3>1, <3>2
  <2>2. {x.id : x \in d.ports[p].scripts} = ids
    BY <1>4, <2>1
  <2>3. UNION {reports[t].ports[p].scripts : t \in d.of} = ids
    BY <1>3
  <2> QED
    BY <2>2, <2>3
<1>9. FromItsScans(d) /\ Coherent(d) /\ Named(d)
  BY <1>2, <1>3, <1>4 DEF FromItsScans, Coherent, Named, PortReport
<1>10. NewestStands(d)
  BY <1>3, <1>4 DEF NewestStands, Stands
<1>11. InOrder(d)
  BY <1>1, <1>3, <1>4 DEF InOrder, PortIsNewest
<1> QED
  BY <1>5, <1>6, <1>7, <1>8, <1>9, <1>10, <1>11 DEF Good

-----------------------------------------------------------------------------
(* The merge of two documents, the older one first.                         *)

\* What the two arguments of a merge are once they are in the order of time.
Pair(old, new) ==
  /\ ReportsOK
  /\ Good(old) /\ Good(new)
  /\ old.end <= new.end

\* What a merge makes of them, apart from the order of merges.
JoinOf(old, new, m) ==
  /\ m.start = MergedStart(old, new)
  /\ m.end = new.end
  /\ m.ports = MergedPorts(old, new)
  /\ m.of = old.of \cup new.of

LEMMA JoinWindow ==
  ASSUME NEW old, NEW new, NEW m, Pair(old, new), JoinOf(old, new, m)
  PROVE  Hull(m)
<1>1. /\ old.start \in Nat /\ new.start \in Nat /\ old.end \in Nat /\ new.end \in Nat
      /\ old.of \subseteq Scans /\ new.of \subseteq Scans
  BY DEF Pair, Good, Doc
<1>2. \A s \in Scans : reports[s].start \in Nat /\ reports[s].end \in Nat
  BY DEF Pair, ReportsOK
<1>3. Hull(old) /\ Hull(new) /\ old.end <= new.end
  BY DEF Pair, Good
<1>4. m.start \in {old.start, new.start} /\ m.start <= old.start /\ m.start <= new.start
  BY <1>1 DEF JoinOf, MergedStart
<1>5. \A s \in m.of : m.start <= reports[s].start /\ reports[s].end <= m.end
  BY <1>1, <1>2, <1>3, <1>4 DEF JoinOf, Hull
<1>6. \E s \in m.of : m.start = reports[s].start
  BY <1>3, <1>4 DEF JoinOf, Hull
<1>7. \E t \in m.of : m.end = reports[t].end
  BY <1>3 DEF JoinOf, Hull
<1> QED
  BY <1>5, <1>6, <1>7 DEF Hull

\* The fields of the ports of the merge, by the documents that have the port.
LEMMA JoinPort ==
  ASSUME NEW old, NEW new, NEW m, Pair(old, new), JoinOf(old, new, m)
  PROVE  /\ DOMAIN m.ports = DOMAIN old.ports \cup DOMAIN new.ports
         /\ \A p \in DOMAIN m.ports :
              /\ p \notin DOMAIN old.ports => m.ports[p] = new.ports[p]
              /\ p \notin DOMAIN new.ports => m.ports[p] = old.ports[p]
              /\ p \in DOMAIN old.ports /\ p \in DOMAIN new.ports =>
                   m.ports[p] = MergedPort(old.ports[p], new.ports[p])
  BY DEF JoinOf, MergedPorts

LEMMA MergedPortType ==
  ASSUME NEW a \in PortDoc, NEW b \in PortDoc
  PROVE  MergedPort(a, b) \in PortDoc
<1>1. MergedScripts(a, b) \in SUBSET [id : Scripts, by : Scans]
  BY DEF MergedScripts, PortDoc
<1>2. MergedVersion(a, b) \in Scans \cup {None}
  BY DEF MergedVersion, PortDoc
<1> QED
  BY <1>1, <1>2 DEF MergedPort, PortDoc

LEMMA JoinType ==
  ASSUME NEW old, NEW new, NEW m, Pair(old, new), JoinOf(old, new, m)
  PROVE  m.ports \in UNION {[P -> PortDoc] : P \in SUBSET Ports}
<1>1. PICK O \in SUBSET Ports : old.ports \in [O -> PortDoc]
  BY DEF Pair, Good, Doc
<1>2. PICK N \in SUBSET Ports : new.ports \in [N -> PortDoc]
  BY DEF Pair, Good, Doc
<1>3. \A p \in O \cup N : m.ports[p] \in PortDoc
  BY <1>1, <1>2, JoinPort, MergedPortType
<1>4. m.ports = [p \in O \cup N |-> m.ports[p]]
  BY <1>1, <1>2 DEF JoinOf, MergedPorts
<1>5. m.ports \in [O \cup N -> PortDoc]
  BY <1>3, <1>4
<1> QED
  BY <1>5

LEMMA JoinPorts ==
  ASSUME NEW old, NEW new, NEW m, Pair(old, new), JoinOf(old, new, m)
  PROVE  HasItsPorts(m) /\ FromItsScans(m)
<1>1. HasItsPorts(old) /\ HasItsPorts(new) /\ FromItsScans(old) /\ FromItsScans(new)
  BY DEF Pair, Good
<1>2. m.of = old.of \cup new.of
  BY DEF JoinOf
<1>3. HasItsPorts(m)
  BY <1>1, <1>2, JoinPort DEF HasItsPorts
<1>4. ASSUME NEW p \in DOMAIN m.ports PROVE m.ports[p].by \in m.of
  <2>1. CASE p \notin DOMAIN old.ports
    BY <1>1, <1>2, <2>1, JoinPort DEF FromItsScans
  <2>2. CASE p \notin DOMAIN new.ports
    BY <1>1, <1>2, <2>2, JoinPort DEF FromItsScans
  <2>3. CASE p \in DOMAIN old.ports /\ p \in DOMAIN new.ports
    <3>1. m.ports[p] = MergedPort(old.ports[p], new.ports[p])
      BY <2>3, JoinPort
    <3>2. m.ports[p].by = new.ports[p].by
      BY <3>1 DEF MergedPort
    <3> QED
      BY <1>1, <1>2, <2>3, <3>2 DEF FromItsScans
  <2> QED
    BY <2>1, <2>2, <2>3
<1> QED
  BY <1>3, <1>4 DEF FromItsScans

\* A scan without a port has no script of it: what the other document says is all.
LEMMA NoPortNoScript ==
  ASSUME NEW d, ReportsOK, d \in Doc, HasItsPorts(d), NEW p \in Ports, p \notin DOMAIN d.ports
  PROVE  UNION {reports[s].ports[p].scripts : s \in d.of} = {}
<1>1. d.of \subseteq Scans
  BY DEF Doc
<1>2. \A s \in d.of : reports[s].ports[p] \in PortReport /\ ~reports[s].ports[p].seen
  BY <1>1 DEF ReportsOK, HasItsPorts, HasPort
<1>3. \A s \in d.of : reports[s].ports[p].scripts = {}
  BY <1>2 DEF PortReport
<1> QED
  BY <1>3

LEMMA MergedIds ==
  ASSUME NEW a \in PortDoc, NEW b \in PortDoc
  PROVE  {x.id : x \in MergedScripts(a, b)} = {x.id : x \in a.scripts} \cup {x.id : x \in b.scripts}
  BY DEF MergedScripts

LEMMA JoinScripts ==
  ASSUME NEW old, NEW new, NEW m, Pair(old, new), JoinOf(old, new, m)
  PROVE  HasItsScripts(m)
<1> SUFFICES ASSUME NEW p \in DOMAIN m.ports
             PROVE  {x.id : x \in m.ports[p].scripts}
                      = UNION {reports[s].ports[p].scripts : s \in m.of}
  BY DEF HasItsScripts
<1> DEFINE Of(d) == UNION {reports[s].ports[p].scripts : s \in d.of}
           Ids(d) == {x.id : x \in d.ports[p].scripts}
<1>1. /\ old \in Doc /\ new \in Doc /\ ReportsOK
      /\ HasItsPorts(old) /\ HasItsPorts(new) /\ HasItsScripts(old) /\ HasItsScripts(new)
  BY DEF Pair, Good
<1>2. Of(m) = Of(old) \cup Of(new)
  BY DEF JoinOf
<1>3. DOMAIN m.ports = DOMAIN old.ports \cup DOMAIN new.ports
  BY JoinPort
<1>4. p \in Ports
  BY <1>1, <1>3 DEF HasItsPorts
<1>5. CASE p \notin DOMAIN old.ports
  <2>1. Of(old) = {}
    BY <1>1, <1>4, <1>5, NoPortNoScript
  <2>2. Ids(new) = Of(new)
    BY <1>1, <1>3, <1>5 DEF HasItsScripts
  <2>3. m.ports[p] = new.ports[p]
    BY <1>5, JoinPort
  <2> QED
    BY <1>2, <2>1, <2>2, <2>3
<1>6. CASE p \notin DOMAIN new.ports
  <2>1. Of(new) = {}
    BY <1>1, <1>4, <1>6, NoPortNoScript
  <2>2. Ids(old) = Of(old)
    BY <1>1, <1>3, <1>6 DEF HasItsScripts
  <2>3. m.ports[p] = old.ports[p]
    BY <1>6, JoinPort
  <2> QED
    BY <1>2, <2>1, <2>2, <2>3
<1>7. CASE p \in DOMAIN old.ports /\ p \in DOMAIN new.ports
  <2>1. Ids(old) = Of(old) /\ Ids(new) = Of(new)
    BY <1>1, <1>7 DEF HasItsScripts
  <2>2. m.ports[p].scripts = MergedScripts(old.ports[p], new.ports[p])
    <3>1. m.ports[p] = MergedPort(old.ports[p], new.ports[p])
      BY <1>7, JoinPort
    <3> QED
      BY <3>1 DEF MergedPort
  <2>3. old.ports[p] \in PortDoc /\ new.ports[p] \in PortDoc
    BY <1>1, <1>7 DEF Doc
  <2>4. Ids(m) = Ids(old) \cup Ids(new)
    BY <2>2, <2>3, MergedIds
  <2> QED
    BY <1>2, <2>1, <2>4
<1> QED
  BY <1>5, <1>6, <1>7

LEMMA JoinCoherent ==
  ASSUME NEW old, NEW new, NEW m, Pair(old, new), JoinOf(old, new, m)
  PROVE  Coherent(m)
<1> SUFFICES ASSUME NEW p \in DOMAIN m.ports, m.ports[p].version # None
             PROVE  /\ m.ports[p].version \in m.of
                    /\ reports[m.ports[p].version].ports[p].name = m.ports[p].name
  BY DEF Coherent
<1>1. /\ Coherent(old) /\ Coherent(new) /\ Named(new)
      /\ m.of = old.of \cup new.of
  BY DEF Pair, Good, JoinOf
<1>2. CASE p \notin DOMAIN old.ports
  <2>1. m.ports[p] = new.ports[p] /\ p \in DOMAIN new.ports
    BY <1>2, JoinPort
  <2> QED
    BY <1>1, <2>1 DEF Coherent
<1>3. CASE p \notin DOMAIN new.ports
  <2>1. m.ports[p] = old.ports[p] /\ p \in DOMAIN old.ports
    BY <1>3, JoinPort
  <2> QED
    BY <1>1, <2>1 DEF Coherent
<1>4. CASE p \in DOMAIN old.ports /\ p \in DOMAIN new.ports
  <2> DEFINE a == old.ports[p]
             b == new.ports[p]
  <2>1. m.ports[p] = MergedPort(a, b)
    BY <1>4, JoinPort
  <2>2. /\ m.ports[p].version = MergedVersion(a, b)
        /\ m.ports[p].name = IF b.name = None THEN a.name ELSE b.name
    BY <2>1 DEF MergedPort
  <2>3. a.version # None => a.version \in old.of /\ reports[a.version].ports[p].name = a.name
    BY <1>1, <1>4 DEF Coherent
  <2>4. b.version # None => b.version \in new.of /\ reports[b.version].ports[p].name = b.name
    BY <1>1, <1>4 DEF Coherent
  <2>5. b.name = None => b.version = None
    BY <1>1, <1>4 DEF Named
  <2> HIDE DEF a, b
  <2>6. \/ MergedVersion(a, b) = b.version /\ m.ports[p].name = b.name
        \/ MergedVersion(a, b) = a.version /\ m.ports[p].name = a.name
    BY <2>2, <2>5 DEF MergedVersion
  <2> QED
    BY <1>1, <2>2, <2>3, <2>4, <2>6
<1> QED
  BY <1>2, <1>3, <1>4

LEMMA JoinNamed ==
  ASSUME NEW old, NEW new, NEW m, Pair(old, new), JoinOf(old, new, m)
  PROVE  Named(m)
<1> SUFFICES ASSUME NEW p \in DOMAIN m.ports PROVE m.ports[p].version # None => m.ports[p].name # None
  BY DEF Named
<1>1. Named(old) /\ Named(new)
  BY DEF Pair, Good
<1>2. CASE p \notin DOMAIN old.ports
  <2>1. m.ports[p] = new.ports[p] /\ p \in DOMAIN new.ports
    BY <1>2, JoinPort
  <2> QED
    BY <1>1, <2>1 DEF Named
<1>3. CASE p \notin DOMAIN new.ports
  <2>1. m.ports[p] = old.ports[p] /\ p \in DOMAIN old.ports
    BY <1>3, JoinPort
  <2> QED
    BY <1>1, <2>1 DEF Named
<1>4. CASE p \in DOMAIN old.ports /\ p \in DOMAIN new.ports
  <2> DEFINE a == old.ports[p]
             b == new.ports[p]
  <2>1. m.ports[p] = MergedPort(a, b)
    BY <1>4, JoinPort
  <2>2. /\ m.ports[p].version = MergedVersion(a, b)
        /\ m.ports[p].name = IF b.name = None THEN a.name ELSE b.name
    BY <2>1 DEF MergedPort
  <2>3. (a.version # None => a.name # None) /\ (b.version # None => b.name # None)
    BY <1>1, <1>4 DEF Named
  <2> HIDE DEF a, b
  <2> QED
    BY <2>2, <2>3 DEF MergedVersion
<1> QED
  BY <1>2, <1>3, <1>4

\* The newest scan is one of the newer document's: the end of that document is the end
\* of one of its scans, and no older document ends later.
LEMMA NewestIsInTheNewer ==
  ASSUME NEW old, NEW new, NEW m, Pair(old, new), JoinOf(old, new, m),
         NEW s \in m.of, Newest(m, s)
  PROVE  s \in new.of /\ Newest(new, s)
<1>1. m.of = old.of \cup new.of
  BY DEF JoinOf
<1>2. /\ old.of \subseteq Scans /\ new.of \subseteq Scans
      /\ old.end \in Nat /\ new.end \in Nat /\ old.end <= new.end
  BY DEF Pair, Good, Doc
<1>3. \A t \in Scans : reports[t].end \in Nat
  BY DEF Pair, ReportsOK
<1>4. Newest(new, s)
  BY <1>1 DEF Newest
<1>5. ASSUME s \notin new.of PROVE FALSE
  <2>1. s \in old.of
    BY <1>1, <1>5
  <2>2. reports[s].end <= old.end
    BY <2>1 DEF Pair, Good, Hull
  <2>3. PICK t \in new.of : new.end = reports[t].end
    BY DEF Pair, Good, Hull
  <2>4. reports[t].end < reports[s].end
    BY <1>1, <1>5, <2>3 DEF Newest
  <2>5. s \in Scans /\ t \in Scans
    BY <1>2, <2>1, <2>3
  <2> QED
    BY <1>2, <1>3, <2>2, <2>3, <2>4, <2>5
<1> QED
  BY <1>4, <1>5

LEMMA JoinStands ==
  ASSUME MergeAssumption, NEW old, NEW new, NEW m, Pair(old, new), JoinOf(old, new, m)
  PROVE  NewestStands(m)
<1> SUFFICES ASSUME NEW s \in m.of, Newest(m, s), NEW p \in Ports, HasPort(s, p)
             PROVE  /\ m.ports[p].by = s
                    /\ reports[s].ports[p].name \in {None, m.ports[p].name}
                    /\ reports[s].ports[p].version => m.ports[p].version = s
                    /\ \A x \in m.ports[p].scripts :
                         x.id \in reports[s].ports[p].scripts => x.by = s
  BY DEF NewestStands, Stands
<1> DEFINE a == old.ports[p]
           b == new.ports[p]
<1>1. s \in new.of /\ Newest(new, s)
  BY NewestIsInTheNewer
<1>2. Good(new) /\ Good(old) /\ ReportsOK
  BY DEF Pair
<1>3. p \in DOMAIN new.ports
  BY <1>1, <1>2 DEF Good, HasItsPorts
<1>4. /\ b.by = s
      /\ reports[s].ports[p].name \in {None, b.name}
      /\ reports[s].ports[p].version => b.version = s
      /\ \A x \in b.scripts : x.id \in reports[s].ports[p].scripts => x.by = s
  BY <1>1, <1>2 DEF Good, NewestStands, Stands
<1>5. p \in DOMAIN m.ports
  BY <1>3, JoinPort
<1>6. CASE p \notin DOMAIN old.ports
  <2>1. m.ports[p] = new.ports[p]
    BY <1>5, <1>6, JoinPort
  <2> QED
    BY <1>4, <2>1
<1>7. CASE p \in DOMAIN old.ports
  <2>1. m.ports[p] = MergedPort(a, b)
    BY <1>3, <1>5, <1>7, JoinPort
  <2>2. /\ m.ports[p].by = b.by
        /\ m.ports[p].name = IF b.name = None THEN a.name ELSE b.name
        /\ m.ports[p].version = MergedVersion(a, b)
        /\ m.ports[p].scripts = MergedScripts(a, b)
    BY <2>1 DEF MergedPort
  <2>3. s \in Scans
    BY <1>1, <1>2 DEF Good, Doc
  <2>4. reports[s].ports[p] \in PortReport
    BY <1>2, <2>3 DEF ReportsOK
  <2>5. reports[s].ports[p].version => m.ports[p].version = s
    <3> SUFFICES ASSUME reports[s].ports[p].version PROVE MergedVersion(a, b) = s
      BY <2>2
    <3>1. b.version = s /\ b.name # None
      BY <1>4, <2>4 DEF PortReport
    <3>2. s # None
      BY <2>3 DEF MergeAssumption
    <3> HIDE DEF a, b
    <3> QED
      BY <3>1, <3>2 DEF MergedVersion
  <2>6. reports[s].ports[p].scripts \subseteq {x.id : x \in b.scripts}
    BY <1>1, <1>2, <1>3 DEF Good, HasItsScripts
  <2>7. ASSUME NEW x \in MergedScripts(a, b), x.id \in reports[s].ports[p].scripts
        PROVE  x.by = s
    <3>1. PICK y \in b.scripts : y.id = x.id
      BY <2>6, <2>7
    <3>2. x \in b.scripts
      BY <2>7, <3>1 DEF MergedScripts
    <3> QED
      BY <1>4, <2>7, <3>2
  <2> QED
    BY <1>4, <2>2, <2>5, <2>7
<1> QED
  BY <1>6, <1>7

\* A merge keeps the order of time only when its older scans are in the older document.
LEMMA JoinInOrder ==
  ASSUME NEW old, NEW new, NEW m, Pair(old, new), JoinOf(old, new, m),
         m.ordered => /\ old.ordered /\ new.ordered
                      /\ Older(old, new) \/ Older(new, old)
  PROVE  InOrder(m)
<1> SUFFICES ASSUME m.ordered, NEW p \in DOMAIN m.ports, NEW s \in m.of, HasPort(s, p)
             PROVE  reports[s].end <= reports[m.ports[p].by].end
  BY DEF InOrder, PortIsNewest
<1>1. m.of = old.of \cup new.of
  BY DEF JoinOf
<1>2. /\ old.of \subseteq Scans /\ new.of \subseteq Scans
      /\ old.end \in Nat /\ new.end \in Nat /\ old.end <= new.end
  BY DEF Pair, Good, Doc
<1>3. \A t \in Scans : reports[t].end \in Nat
  BY DEF Pair, ReportsOK
<1>4. Older(old, new)
  <2>1. PICK s1 \in old.of : old.end >= reports[s1].end
    BY DEF Pair, Good, Hull
  <2>2. PICK t1 \in new.of : new.end = reports[t1].end
    BY DEF Pair, Good, Hull
  <2>3. reports[s1].end <= reports[t1].end
    BY <1>2, <1>3, <2>1, <2>2
  <2>4. ~Older(new, old)
    BY <1>2, <1>3, <2>3 DEF Older
  <2> QED
    BY <2>4
<1>5. PortIsNewest(old) /\ PortIsNewest(new)
  BY DEF Pair, Good, InOrder
<1>6. FromItsScans(old) /\ FromItsScans(new) /\ HasItsPorts(old) /\ HasItsPorts(new)
  BY DEF Pair, Good
<1>7. p \in Ports
  BY <1>6, JoinPort DEF HasItsPorts
<1>8. CASE p \notin DOMAIN new.ports
  <2>1. m.ports[p] = old.ports[p] /\ p \in DOMAIN old.ports
    BY <1>8, JoinPort
  <2>2. s \in old.of
    BY <1>1, <1>6, <1>7, <1>8 DEF HasItsPorts
  <2> QED
    BY <1>5, <2>1, <2>2 DEF PortIsNewest
<1>9. CASE p \in DOMAIN new.ports
  <2>1. m.ports[p].by = new.ports[p].by
    <3>1. CASE p \notin DOMAIN old.ports
      BY <3>1, JoinPort
    <3>2. CASE p \in DOMAIN old.ports
      <4>1. m.ports[p] = MergedPort(old.ports[p], new.ports[p])
        BY <1>9, <3>2, JoinPort
      <4> QED
        BY <4>1 DEF MergedPort
    <3> QED
      BY <3>1, <3>2
  <2>2. new.ports[p].by \in new.of
    BY <1>6, <1>9 DEF FromItsScans
  <2>3. CASE s \in new.of
    BY <1>5, <1>9, <2>1, <2>3 DEF PortIsNewest
  <2>4. CASE s \in old.of
    BY <1>2, <1>3, <1>4, <2>1, <2>2, <2>4 DEF Older
  <2> QED
    BY <1>1, <2>3, <2>4
<1> QED
  BY <1>8, <1>9

-----------------------------------------------------------------------------
(* The invariant.                                                           *)

LEMMA MergeIsGood ==
  ASSUME MergeAssumption, ReportsOK, NEW d, NEW e, Good(d), Good(e)
  PROVE  Good(merge_host_docs(d, e))
<1> DEFINE old == IF Swapped(d, e) THEN e ELSE d
           new == IF Swapped(d, e) THEN d ELSE e
           m == merge_host_docs(d, e)
<1>1. d \in Doc /\ e \in Doc
  BY DEF Good
<1>2. old.end \in Nat /\ new.end \in Nat /\ old.start \in Nat /\ new.start \in Nat
  BY <1>1 DEF Doc
<1>3. old.end <= new.end
  BY <1>1 DEF Swapped, Doc
<1>4. Pair(old, new)
  BY <1>3 DEF Pair
<1>5. /\ m.start = MergedStart(old, new)
      /\ m.end = IF old.end > new.end THEN old.end ELSE new.end
      /\ m.ports = MergedPorts(old, new)
      /\ m.of = old.of \cup new.of
      /\ m.ordered = (d.ordered /\ e.ordered /\ (Older(d, e) \/ Older(e, d)))
  BY DEF merge_host_docs
<1>6. JoinOf(old, new, m)
  BY <1>2, <1>3, <1>5 DEF JoinOf
<1>7. m.ordered => /\ old.ordered /\ new.ordered
                   /\ Older(old, new) \/ Older(new, old)
  BY <1>5
<1>8. m \in Doc
  <2>1. m.ports \in UNION {[P -> PortDoc] : P \in SUBSET Ports}
    BY <1>4, <1>6, JoinType
  <2>2. m.start \in Nat /\ m.end \in Nat
    BY <1>2, <1>5 DEF MergedStart
  <2>3. m.of \in SUBSET Scans
    BY <1>1, <1>5 DEF Doc
  <2>4. m.ordered \in BOOLEAN
    BY <1>5
  <2>5. m = [start |-> m.start, end |-> m.end, ports |-> m.ports, of |-> m.of,
             ordered |-> m.ordered]
    BY DEF merge_host_docs
  <2> QED
    BY <2>1, <2>2, <2>3, <2>4, <2>5 DEF Doc
<1> HIDE DEF old, new, m
<1>9. Hull(m)
  BY <1>4, <1>6, JoinWindow
<1>10. HasItsPorts(m) /\ FromItsScans(m)
  BY <1>4, <1>6, JoinPorts
<1>11. HasItsScripts(m)
  BY <1>4, <1>6, JoinScripts
<1>12. Coherent(m) /\ Named(m)
  BY <1>4, <1>6, JoinCoherent, JoinNamed
<1>13. NewestStands(m)
  BY <1>4, <1>6, JoinStands
<1>14. InOrder(m)
  BY <1>4, <1>6, <1>7, JoinInOrder
<1>15. Good(m)
  BY <1>8, <1>9, <1>10, <1>11, <1>12, <1>13, <1>14 DEF Good
<1> QED
  BY <1>15 DEF m

LEMMA InvInit ==
  ASSUME MergeAssumption
  PROVE  Init => IInv
<1> SUFFICES ASSUME Init PROVE IInv
  OBVIOUS
<1>1. ReportsOK
  BY ReportsTyped
<1>2. \A s \in Scans : Good(AsDoc(s))
  BY <1>1, AsDocIsGood
<1> QED
  BY <1>1, <1>2 DEF Init, IInv

\* The documents that are not merged stay good: the reports do not change.
LEMMA StaysGood ==
  ASSUME reports' = reports, NEW d, Good(d)
  PROVE  Good(d)'
<1>1. \A s, p : HasPort(s, p)' = HasPort(s, p)
  BY DEF HasPort
<1>2. Hull(d)' /\ HasItsScripts(d)' /\ FromItsScans(d)' /\ Coherent(d)' /\ Named(d)'
  BY DEF Good, Hull, HasItsScripts, FromItsScans, Coherent, Named
<1>3. HasItsPorts(d)'
  BY <1>1 DEF Good, HasItsPorts
<1>4. NewestStands(d)'
  BY <1>1 DEF Good, NewestStands, Newest, Stands
<1>5. InOrder(d)'
  BY <1>1 DEF Good, InOrder, PortIsNewest
<1> QED
  BY <1>2, <1>3, <1>4, <1>5 DEF Good

LEMMA InvStep ==
  ASSUME MergeAssumption
  PROVE  IInv /\ [Next]_vars => IInv'
<1> SUFFICES ASSUME IInv, [Next]_vars PROVE IInv'
  OBVIOUS
<1>1. ReportsOK /\ \A d \in docs : Good(d)
  BY DEF IInv
<1>2. reports' = reports
  BY DEF Next, Merge, vars
<1>3. ReportsOK'
  BY <1>1, <1>2 DEF ReportsOK
<1>4. \A x \in docs' : Good(x)
  <2>1. CASE UNCHANGED vars
    BY <1>1, <2>1 DEF vars
  <2>2. ASSUME NEW d \in docs, NEW e \in docs, Merge(d, e) PROVE \A x \in docs' : Good(x)
    <3>1. Good(merge_host_docs(d, e))
      BY <1>1, MergeIsGood
    <3> QED
      BY <1>1, <2>2, <3>1 DEF Merge
  <2> QED
    BY <2>1, <2>2 DEF Next
<1>5. \A x \in docs' : Good(x)'
  BY <1>2, <1>4, StaysGood
<1> QED
  BY <1>3, <1>5 DEF IInv

\* Whatever the order of the merges, a document has the window of all its scans.
THEOREM WindowsAreHulls ==
  ASSUME MergeAssumption
  PROVE  Spec => []WindowIsHull
<1>1. IInv => WindowIsHull
  BY DEF IInv, Good, Hull, WindowIsHull
<1> QED
  BY <1>1, InvInit, InvStep, PTL DEF Spec

\* Whatever the order of the merges, a document has the ports and the scripts of all its
\* scans, and no others.
THEOREM NothingIsDropped ==
  ASSUME MergeAssumption
  PROVE  Spec => []PortsAreKept
<1>1. IInv => PortsAreKept
  BY DEF IInv, Good, HasItsPorts, HasItsScripts, PortsAreKept
<1> QED
  BY <1>1, InvInit, InvStep, PTL DEF Spec

\* Whatever the order of the merges, what the most recent scan says of its ports stands.
THEOREM NewestIsHeard ==
  ASSUME MergeAssumption
  PROVE  Spec => []NewestScanStands
<1>1. IInv => NewestScanStands
  BY DEF IInv, Good, NewestStands, Newest, Stands, NewestScanStands
<1> QED
  BY <1>1, InvInit, InvStep, PTL DEF Spec

\* Whatever the order of the merges, no service has the version of another one.
THEOREM ServicesAreNotMixed ==
  ASSUME MergeAssumption
  PROVE  Spec => []ServiceIsCoherent
<1>1. IInv => ServiceIsCoherent
  BY DEF IInv, Good, Coherent, ServiceIsCoherent
<1> QED
  BY <1>1, InvInit, InvStep, PTL DEF Spec

\* When the merges follow the order of time, a port is that of the most recent scan that
\* saw it.
THEOREM OrderGivesTheNewest ==
  ASSUME MergeAssumption
  PROVE  Spec => []OrderedMergeIsNewest
<1>1. IInv => OrderedMergeIsNewest
  BY DEF IInv, Good, InOrder, OrderedMergeIsNewest
<1> QED
  BY <1>1, InvInit, InvStep, PTL DEF Spec

\* The five together: what the runs check of a few scans holds of any.
THEOREM MergesAreRight ==
  ASSUME MergeAssumption
  PROVE  Spec => []MergesHold
<1>1. IInv => MergesHold
  BY DEF IInv, Good, Hull, HasItsPorts, HasItsScripts, Coherent, NewestStands, Newest, Stands,
         InOrder, MergesHold, WindowIsHull, PortsAreKept, ServiceIsCoherent, NewestScanStands,
         OrderedMergeIsNewest
<1> QED
  BY <1>1, InvInit, InvStep, PTL DEF Spec
=============================================================================
