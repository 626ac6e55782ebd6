----------------------------- MODULE HostMerge -----------------------------
(***************************************************************************)
(* merge_host_docs: two documents of one host become one.                   *)
(*                                                                          *)
(* The view is made by merging, two by two, the documents of the scans of   *)
(* an address: those that db2view gathered are reduced in the order they    *)
(* came, by address but in no order of time, and the result is merged with  *)
(* the document the view has.  Any binary tree of merges may happen, in     *)
(* either order of the arguments, and that is what the actions do here.     *)
(*                                                                          *)
(* Of a document, the model keeps its window of time and, for each port,    *)
(* the scan it is taken from, the name of its service, the scan that gave   *)
(* the version of it, and the scripts.  The thinning out of hosts with too  *)
(* many names or SYN+ACK ports, which removes ports, is left out.           *)
(***************************************************************************)
EXTENDS Naturals, FiniteSets

CONSTANTS Scans,    \* the scans of one address
          Ports,    \* ports
          Names,    \* names of services
          Scripts,  \* identifiers of scripts
          MaxTime   \* bound: the instants are 1..MaxTime, 0 is no instant

None == "none"

MergeAssumption ==
  /\ MaxTime \in Nat \ {0}
  /\ None \notin Scans

VARIABLES
  reports,  \* what each scan says of the host
  docs      \* the documents there are

vars == <<reports, docs>>

\* What a scan says of a port it has seen: a version comes with a name.
Seen == {p \in [name : Names \cup {None}, version : BOOLEAN, scripts : SUBSET Scripts] :
           p.version => p.name # None}
Unseen == [name |-> None, version |-> FALSE, scripts |-> {}, seen |-> FALSE]

Report == {r \in [start : 1..MaxTime, end : 0..MaxTime] : r.end = 0 \/ r.start <= r.end}

HasPort(s, p) == reports[s].ports[p].seen

\* The document of a scan.  The other fields of a port (its state, say) go
\* with `by'; `of' and `ordered' are history: the scans merged into the
\* document, and whether it was always older ones with newer ones.
AsDoc(s) ==
  [start |-> reports[s].start, end |-> reports[s].end,
   ports |-> [p \in {q \in Ports : HasPort(s, q)} |->
     LET r == reports[s].ports[p]
     IN  [by |-> s, name |-> r.name,
          version |-> IF r.version THEN s ELSE None,
          scripts |-> {[id |-> i, by |-> s] : i \in r.scripts}]],
   of |-> {s}, ordered |-> TRUE]

Init ==
  /\ reports \in [Scans -> {[start |-> t.start, end |-> t.end, ports |-> ps] :
                    t \in Report,
                    ps \in [Ports -> {[name |-> x.name, version |-> x.version,
                                       scripts |-> x.scripts, seen |-> TRUE] : x \in Seen}
                                     \cup {Unseen}]}]
  /\ docs = {AsDoc(s) : s \in Scans}

-----------------------------------------------------------------------------
(* merge_host_docs, once the older document is old and the newer new       *)

\* The scripts of the older port that the newer one has not.
MergedScripts(old, new) ==
  new.scripts \cup {x \in old.scripts : \A y \in new.scripts : y.id # x.id}

\* The service_* fields: those of the older port when the newer one has no
\* service; when they agree on the service, to complete it.
MergedVersion(old, new) ==
  CASE old.name = None -> new.version
    [] old.name # None /\ new.name = None ->
         IF old.version # None THEN old.version ELSE new.version
    [] old.name # None /\ new.name = old.name ->
         IF new.version # None THEN new.version ELSE old.version
    [] OTHER -> new.version

MergedPort(old, new) ==
  [by |-> new.by,
   name |-> IF new.name = None THEN old.name ELSE new.name,
   version |-> MergedVersion(old, new),
   scripts |-> MergedScripts(old, new)]

\* Slip: the ports of the older document are only used to complete the newer.
PortsOfNewer(old, new) ==
  [p \in DOMAIN new.ports |->
     IF p \in DOMAIN old.ports THEN MergedPort(old.ports[p], new.ports[p]) ELSE new.ports[p]]

MergedPorts(old, new) ==
  [p \in DOMAIN old.ports \cup DOMAIN new.ports |->
     CASE p \notin DOMAIN old.ports -> new.ports[p]
       [] p \notin DOMAIN new.ports -> old.ports[p]
       [] OTHER -> MergedPort(old.ports[p], new.ports[p])]

MergedStart(old, new) == IF old.start < new.start THEN old.start ELSE new.start

\* Whether the documents are in the wrong order.
Swapped(d, e) == d.end > e.end

\* History: a merge keeps the order of time when every scan of one document is
\* older than every scan of the other.
Older(d, e) == \A s \in d.of, t \in e.of : reports[s].end < reports[t].end

merge_host_docs(d, e) ==
  LET old == IF Swapped(d, e) THEN e ELSE d
      new == IF Swapped(d, e) THEN d ELSE e
  IN  [start |-> MergedStart(old, new),
       end |-> IF old.end > new.end THEN old.end ELSE new.end,
       ports |-> MergedPorts(old, new),
       of |-> old.of \cup new.of,
       ordered |-> d.ordered /\ e.ordered /\ (Older(d, e) \/ Older(e, d))]

Merge(d, e) ==
  /\ docs' = (docs \ {d, e}) \cup {merge_host_docs(d, e)}
  /\ UNCHANGED reports

Next == \E d, e \in docs : d # e /\ Merge(d, e)

Spec == Init /\ [][Next]_vars

-----------------------------------------------------------------------------
(* Correctness                                                             *)

\* The window of a document is the hull of those of its scans, in whatever
\* order they were merged.
WindowIsHull ==
  \A d \in docs :
    /\ \A s \in d.of : d.start <= reports[s].start /\ reports[s].end <= d.end
    /\ \E s, t \in d.of : d.start = reports[s].start /\ d.end = reports[t].end

\* Merging neither loses a port nor makes one up, and takes every script from
\* a scan of that port.
PortsAreKept ==
  \A d \in docs :
    /\ DOMAIN d.ports = {p \in Ports : \E s \in d.of : HasPort(s, p)}
    /\ \A p \in DOMAIN d.ports :
         {x.id : x \in d.ports[p].scripts}
           = UNION {reports[s].ports[p].scripts : s \in d.of}

\* What the most recent scan of all says of its ports stands, in whatever
\* order the documents were merged.
NewestScanStands ==
  \A d \in docs : \A s \in d.of :
    (\A t \in d.of \ {s} : reports[t].end < reports[s].end) =>
      \A p \in Ports : HasPort(s, p) =>
        /\ d.ports[p].by = s
        /\ reports[s].ports[p].name \in {None, d.ports[p].name}
        /\ reports[s].ports[p].version => d.ports[p].version = s
        /\ \A x \in d.ports[p].scripts : x.id \in reports[s].ports[p].scripts => x.by = s

\* The version of a service was given by a scan that saw that same service:
\* fields of two services are never mixed, in whatever order of merges.
ServiceIsCoherent ==
  \A d \in docs : \A p \in DOMAIN d.ports :
    LET v == d.ports[p].version
    IN  v # None => v \in d.of /\ reports[v].ports[p].name = d.ports[p].name

\* No scan of the document that has the port is more recent than the one the
\* port is taken from.
PortIsNewest(d) ==
  \A p \in DOMAIN d.ports, s \in d.of :
    HasPort(s, p) => reports[s].end <= reports[d.ports[p].by].end

\* Documents merged in the order of time, neighbour with neighbour, keep of each
\* port what the most recent scan that saw it said, on whichever side of the
\* merge the newer document is given.
OrderedMergeIsNewest == \A d \in docs : d.ordered => PortIsNewest(d)

\* Nothing of a scan is lost or made up, and the most recent one is heard.
MergesHold ==
  WindowIsHull /\ PortsAreKept /\ ServiceIsCoherent /\ NewestScanStands /\ OrderedMergeIsNewest

=============================================================================
