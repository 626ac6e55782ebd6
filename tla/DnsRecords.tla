---------------------------- MODULE DnsRecords ----------------------------
(***************************************************************************)
(* The DNS section of the web interface.  The route /dns of the server      *)
(* (get_dns in ivre/web/app.py) sends the same query to the database of     *)
(* active scans and to the passive one, and merges what iter_dns makes of   *)
(* each into rows, one per name and address.  The interface draws a card    *)
(* per row (dns.tsx, DnsRecordCard.tsx), whose name, address and sources    *)
(* are chips that add a filter to the query.                                *)
(*                                                                          *)
(* The databases do not change.  Letters are compared without their case,   *)
(* values are no regular expressions, and filters are not negated.          *)
(***************************************************************************)
EXTENDS Naturals, FiniteSets, SequencesExt

CONSTANTS Scans,        \* the documents of the active database, in order
          Observations, \* the records of the passive database, in order
          IPs,          \* the addresses, among the names and addresses
          Typed,        \* the filters that are typed in the bar
          Limit,        \* the rows of a page
          MaxFilters,   \* bound: the filters of the query
          None,         \* no source, no sensor, no address; nothing clicked
          Loading, Refused \* there are no rows yet, and the request failed

DnsAssumption == Limit \in Nat \ {0} /\ MaxFilters \in Nat

VARIABLES
  filters, \* the filters of the address
  page,    \* the rows that are shown, Loading, or Refused
  clicked  \* the row whose chip was clicked last and the kind of the chip, or None

vars == <<filters, page, clicked>>

Filter(type, value) == [type |-> type, value |-> value]
ValuesOf(fs, types) == {f.value : f \in {g \in fs : g.type \in types}}

-----------------------------------------------------------------------------
(* The server.                                                              *)

\* What is no address is not understood, and the request fails.
Understood(fs) == ValuesOf(fs, {"host"}) \subseteq IPs

\* What only the other database understands is dropped.
ScanMatches(s, f) ==
  CASE f.type = "host" -> s.addr = f.value
    [] f.type = "hostname" -> \E n \in Range(s.hostnames) : n.name = f.value
    [] f.type = "source" -> s.source # None /\ f.value \in s.source
    [] OTHER -> TRUE
\* The source of an observation is its type with the server that answered.
ObservationMatches(o, f) ==
  CASE f.type = "host" -> o.addr = f.value
    [] f.type = "hostname" -> o.value = f.value
    [] f.type = "source" -> o.source = f.value
    [] f.type = "sensor" -> o.sensor = f.value
    [] OTHER -> TRUE

Least(a, b) == IF a < b THEN a ELSE b
Most(a, b) == IF a > b THEN a ELSE b

\* Rows are in a dictionary, in the order of their first insertion.
Extended(row, new) ==
  [row EXCEPT !.types = @ \cup new.types, !.sources = @ \cup new.sources,
              !.firstseen = Least(@, new.firstseen), !.lastseen = Most(@, new.lastseen),
              !.count = @ + new.count]
Place(rows, new) ==
  {i \in DOMAIN rows : rows[i].name = new.name /\ rows[i].addr = new.addr}
Folded(rows, new) ==
  IF Place(rows, new) = {} THEN Append(rows, new)
  ELSE LET i == CHOOSE n \in Place(rows, new) : TRUE IN
         [rows EXCEPT ![i] = Extended(@, new)]

\* Slip: each name of a document counts.
NewInRecEach(s, i) == TRUE
\* A name with several types counts once per document.
NewInRec(s, i) == \A j \in 1..i - 1 : s.hostnames[j].name # s.hostnames[i].name
ScanRows(s) ==
  [i \in DOMAIN s.hostnames |->
     [name |-> s.hostnames[i].name, addr |-> s.addr, types |-> {s.hostnames[i].type},
      sources |-> IF s.source = None THEN {None} ELSE s.source,
      firstseen |-> s.starttime, lastseen |-> s.endtime,
      count |-> IF NewInRec(s, i) THEN 1 ELSE 0]]
ObservationRow(o) ==
  [name |-> o.value, addr |-> IF o.addr # None THEN o.addr ELSE o.targetval,
   types |-> {o.type}, sources |-> {o.sensor},
   firstseen |-> o.firstseen, lastseen |-> o.lastseen, count |-> o.count]

Matching(docs, Matches(_, _), fs) ==
  SelectSeq(docs, LAMBDA d : \A f \in fs : Matches(d, f))
iter_dns_active(fs) ==
  FoldLeft(Folded, <<>>, FlattenSeq(
    [i \in DOMAIN Matching(Scans, ScanMatches, fs) |->
       ScanRows(Matching(Scans, ScanMatches, fs)[i])]))
iter_dns_passive(fs) ==
  FoldLeft(Folded, <<>>,
    [i \in DOMAIN Matching(Observations, ObservationMatches, fs) |->
       ObservationRow(Matching(Observations, ObservationMatches, fs)[i])])

merge_dns_results(target, source) == FoldLeft(Folded, target, source)

Ahead(r, s) == r.lastseen > s.lastseen \/ (r.lastseen = s.lastseen /\ r.count > s.count)
\* The sort is stable.
Sorted(rows) ==
  LET places == SetToSortSeq(DOMAIN rows, LAMBDA i, j :
                  Ahead(rows[i], rows[j]) \/ (~Ahead(rows[j], rows[i]) /\ i < j))
  IN [k \in DOMAIN rows |-> rows[places[k]]]
Merged(fs) == merge_dns_results(iter_dns_active(fs), iter_dns_passive(fs))

\* An observation without a sensor ends the request; so do two sources of a row
\* that cannot be compared.
Fails(fs) ==
  \/ ~Understood(fs)
  \/ \E o \in Range(Matching(Observations, ObservationMatches, fs)) : o.sensor = None
get_dns(fs) ==
  LET rows == Sorted(Merged(fs))
      sent == SubSeq(rows, 1, Least(Limit, Len(rows))) IN
    IF Fails(fs) \/ \E r \in Range(sent) : None \in r.sources /\ r.sources # {None}
    THEN Refused ELSE sent

-----------------------------------------------------------------------------
(* The cards.                                                               *)

Chips(row) ==
  {[kind |-> "name", filter |-> Filter("hostname", row.name)],
   [kind |-> "addr", filter |-> Filter("host", row.addr)]}
  \cup {[kind |-> "source", filter |-> Filter("source", s)] : s \in row.sources}

rowsShown == IF page \in {Loading, Refused} THEN {} ELSE Range(page)

Init == filters \in {{}} \cup {{f} : f \in Typed} /\ page = Loading /\ clicked = None

Answer ==
  /\ page = Loading
  /\ page' = get_dns(filters)
  /\ UNCHANGED <<filters, clicked>>

addFilter(f) ==
  /\ f \notin filters /\ Cardinality(filters) < MaxFilters
  /\ filters' = filters \cup {f} /\ page' = Loading

Click ==
  \E row \in rowsShown : \E chip \in Chips(row) :
    addFilter(chip.filter) /\ clicked' = [row |-> row, kind |-> chip.kind]

\* In the bar: another filter, or one less.
Type == \E f \in Typed : addFilter(f) /\ clicked' = None
removeFilter ==
  /\ \E f \in filters : filters' = filters \ {f}
  /\ page' = Loading /\ clicked' = None

Next == Answer \/ Click \/ Type \/ removeFilter

Spec == Init /\ [][Next]_vars

-----------------------------------------------------------------------------
(* Properties.                                                              *)

\* The page has at most Limit rows, one per name and address.
TypeOK ==
  /\ Cardinality(filters) <= MaxFilters
  /\ page \notin {Loading, Refused} => Len(page) <= Limit /\ Cardinality(rowsShown) = Len(page)
  /\ \A r, s \in rowsShown : r.name = s.name /\ r.addr = s.addr => r = s

\* "A single row aggregates every observation of that pair across both backends, with
\* count being the sum of the per-source counts": of the documents that match, and once
\* per document; and its interval is the smallest that has theirs.
RowsAreSums ==
  \A r \in rowsShown :
    LET scans == {i \in DOMAIN Scans : /\ \A f \in filters : ScanMatches(Scans[i], f)
                                       /\ Scans[i].addr = r.addr
                                       /\ \E n \in Range(Scans[i].hostnames) : n.name = r.name}
        seen == {i \in DOMAIN Observations :
                   /\ \A f \in filters : ObservationMatches(Observations[i], f)
                   /\ Observations[i].value = r.name
                   /\ r.addr \in {Observations[i].addr, Observations[i].targetval}}
        counts == FoldSet(LAMBDA i, n : n + Observations[i].count, 0, seen)
        firsts == {Scans[i].starttime : i \in scans} \cup {Observations[i].firstseen : i \in seen}
        lasts == {Scans[i].endtime : i \in scans} \cup {Observations[i].lastseen : i \in seen}
    IN /\ r.count = Cardinality(scans) + counts
       /\ r.firstseen \in firsts /\ \A t \in firsts : r.firstseen <= t
       /\ r.lastseen \in lasts /\ \A t \in lasts : r.lastseen >= t

\* What is left out of the page is not more recent than what is on it, and was not seen
\* more often when it is as recent.
PageIsNewest ==
  page \notin {Loading, Refused} =>
    \A r \in Range(Merged(filters)) \ rowsShown : \A s \in rowsShown :
      s.lastseen > r.lastseen \/ (s.lastseen = r.lastseen /\ s.count >= r.count)

\* A click on the name of a row leaves the row on the page, as it was: no observation of
\* the pair is lost.
NameKeepsTheRow ==
  clicked # None /\ clicked.kind = "name" /\ page # Loading => clicked.row \in rowsShown

=============================================================================
