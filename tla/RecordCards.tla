---------------------------- MODULE RecordCards ----------------------------
(***************************************************************************)
(* The cards of the Passive and RIR sections of the web interface           *)
(* (passive-list.tsx, PassiveRecordList.tsx, PassiveRecordCard.tsx and      *)
(* lib/passive.ts; rir.tsx, RirRecordCard.tsx and lib/rir.ts).  A record    *)
(* has chips, that add a filter to the query; a card of RIR also has its    *)
(* other fields, once it is expanded.                                       *)
(*                                                                          *)
(* The records do not change.  Values are no regular expressions, filters   *)
(* are not negated, and the server sends the records of a query in order.   *)
(* The value of a filter is the sequence of its words, between colons.      *)
(***************************************************************************)
EXTENDS Naturals, FiniteSets, SequencesExt

CONSTANTS Section,    \* "passive" or "rir"
          Records,    \* the records of the section, in the order of the server:
                      \* functions from their fields to values
          Upper(_),   \* a word in upper case
          Bits,       \* of an address
          Groups, GroupBits, \* of an address that is written in groups
          MaxFilters, \* bound: the filters of the query
          MaxMoves,   \* bound: the changes of query
          None        \* an empty field; no prefix; nothing clicked

RecordsAssumption ==
  /\ Section \in {"passive", "rir"} /\ {Bits, Groups, GroupBits} \subseteq Nat \ {0}
  /\ MaxFilters \in Nat /\ MaxMoves \in Nat

VARIABLES
  filters,  \* the filters of the address
  cached,   \* the queries that were answered
  expanded, \* the keys of the cards that are expanded
  opened,   \* the records expanded, and not collapsed, since their list is shown
  clicked,  \* the record whose chip was clicked last, or None
  moves

vars == <<filters, cached, expanded, opened, clicked, moves>>

Filter(type, value) == [type |-> type, value |-> value]
Has(r, key) == key \in DOMAIN r

-----------------------------------------------------------------------------
(* The server.                                                              *)

Equals(r, key, value) == Has(r, key) /\ r[key] = value
\* A source of Passive comes with its kind of record, or alone.
Matches(r, f) ==
  CASE f.type = "host" -> Equals(r, "addr", Last(f.value))
    [] f.type \in {"sensor", "recontype", "port"} -> Equals(r, f.type, Last(f.value))
    [] f.type = "source" ->
         /\ Equals(r, "source", Last(f.value))
         /\ Len(f.value) = 2 => Equals(r, "recontype", Head(f.value))
    [] f.type = "country" -> Equals(r, "country", Upper(Last(f.value)))
    [] f.type = "asnum" -> Equals(r, "aut-num", Last(f.value))
    [] f.type = "asname" -> Equals(r, "as-name", Last(f.value))
    [] f.type = "sourcefile" -> Equals(r, "source_file", Last(f.value))
\* The records are known by their number.
List(fs) ==
  SelectSeq([i \in DOMAIN Records |-> i], LAMBDA i : \A f \in fs : Matches(Records[i], f))

-----------------------------------------------------------------------------
(* A card of Passive.                                                       *)

Side(r) == IF r.recontype = "SSL_SERVER" THEN "server" ELSE "client"
SourceOf(r, default) == IF Has(r, "source") THEN r.source ELSE default
\* The heading, in words.
describePassiveValue(r) ==
  CASE r.recontype = "DNS_ANSWER" -> <<"DNS", IF Has(r, "rrtype") THEN r.rrtype ELSE "answer">>
    [] r.recontype = "HTTP_SERVER_HEADER" -> <<"HTTP server header", SourceOf(r, "header")>>
    [] r.recontype = "HTTP_CLIENT_HEADER" -> <<"HTTP client header", SourceOf(r, "header")>>
    [] r.recontype = "HTTP_CLIENT_HEADER_SERVER" -> <<"HTTP client", SourceOf(r, "header")>>
    [] r.recontype \in {"SSL_SERVER", "SSL_CLIENT"} ->
         IF SourceOf(r, "?") \in {"ja3", "ja4"} THEN <<r.source, Side(r)>>
         ELSE <<"TLS", Side(r), SourceOf(r, "?")>>
    [] r.recontype = "SSH_SERVER_HOSTKEY" -> <<"SSH host key", SourceOf(r, "")>>
    [] OTHER -> <<r.recontype>>

PassiveChips(r) ==
  {Filter("host", <<r[k]>>) : k \in {"addr"} \cap DOMAIN r}
  \cup {Filter(k, <<r[k]>>) : k \in {"recontype", "sensor", "port"} \cap DOMAIN r}
  \cup {Filter("source", <<r.recontype, r[k]>>) : k \in {"source"} \cap DOMAIN r}

-----------------------------------------------------------------------------
(* A card of RIR.                                                           *)

isRirAutNum(r) == Has(r, "aut-num")
PROMOTED_KEYS ==
  {"start", "stop", "size", "netname", "aut-num", "as-name", "country", "descr", "org",
   "source_file", "source_hash", "source", "schema_version", "_id"}
visibleKeys(r) ==
  {IF isRirAutNum(r) THEN "as-name" ELSE "netname", "descr", "org", "country", "source_file"}
headlineKeys(r) == IF isRirAutNum(r) THEN {"aut-num"} ELSE {"start", "stop"}
Filled(r, keys) == {k \in keys \cap DOMAIN r : r[k] # None}
badges(r) == Filled(r, visibleKeys(r))
collectExtraEntries(r) == Filled(r, DOMAIN r \ PROMOTED_KEYS)

filterTokens == [country |-> "country", source_file |-> "sourcefile"] @@ ("as-name" :> "asname")
RirChips(r) ==
  {Filter(filterTokens[k], <<r[k]>>) : k \in badges(r) \cap DOMAIN filterTokens}
  \cup {Filter("asnum", <<r[k]>>) : k \in {"aut-num"} \cap DOMAIN r}

\* The prefix a range collapses to, or None.
rangeToCidr(start, stop) ==
  LET hostBits == {h \in 0..Bits : stop - start + 1 = 2^h /\ start % 2^h = 0} IN
    IF stop < start \/ hostBits = {} THEN None ELSE Bits - CHOOSE h \in hostBits : TRUE

\* The groups around the double colon, with the zeros it stands for.
ipv6Groups(left, right) == left \o [i \in 1..Groups - Len(left) - Len(right) |-> 0] \o right
ipv6ToInt(groups) == FoldLeft(LAMBDA n, g : n * 2^GroupBits + g, 0, groups)

\* Who the record is, and its place.
rirRecordKey(i, place) ==
  LET r == Records[i] IN
    IF isRirAutNum(r) THEN <<r["aut-num"], place>> ELSE <<r.start, r.stop, place>>

-----------------------------------------------------------------------------
(* The routes.                                                              *)

Chips(r) == IF Section = "passive" THEN PassiveChips(r) ELSE RirChips(r)
\* The filters that are in the map of the highlights: not those on a file.
buildHighlightMap == {f \in filters : f.type # "sourcefile"}
\* A source is also looked up without its kind; a name of AS is not looked up.
Highlighted(chip) ==
  /\ chip.type # "asname"
  /\ \E f \in buildHighlightMap :
       f.type = chip.type /\ (f.value = chip.value \/ f.value = <<Last(chip.value)>>)

records == IF filters \in cached THEN List(filters) ELSE <<>>
KeysOf(list) == IF Section = "rir" THEN {rirRecordKey(list[n], n) : n \in DOMAIN list} ELSE {}

Init ==
  /\ filters = {} /\ cached = {} /\ expanded = {} /\ opened = {}
  /\ clicked = None /\ moves = 0

\* A message takes the place of the cards until the answer is there; cards of the same
\* key are kept from one list to the next.
Show(fs) ==
  LET list == IF fs \in cached THEN List(fs) ELSE <<>> IN
    /\ filters' = fs
    /\ expanded' = expanded \cap KeysOf(list)
    /\ opened' = opened \cap Range(list)

Answer ==
  /\ filters \notin cached /\ cached' = cached \cup {filters}
  /\ UNCHANGED <<filters, expanded, opened, clicked, moves>>

Click ==
  /\ moves < MaxMoves /\ moves' = moves + 1 /\ UNCHANGED cached
  /\ \E i \in Range(records) : \E chip \in Chips(Records[i]) :
       /\ chip \notin filters /\ Cardinality(filters) < MaxFilters
       /\ Show(filters \cup {chip}) /\ clicked' = i

\* In the bar: a filter less, or a source without its kind of record.
removeFilter ==
  /\ moves < MaxMoves /\ moves' = moves + 1 /\ UNCHANGED cached
  /\ \E f \in filters : Show(filters \ {f})
  /\ clicked' = None
TypeSource ==
  /\ moves < MaxMoves /\ moves' = moves + 1 /\ UNCHANGED cached
  /\ Section = "passive" /\ Cardinality(filters) < MaxFilters
  /\ \E r \in {q \in Range(Records) : Has(q, "source")} :
       Filter("source", <<r.source>>) \notin filters
         /\ Show(filters \cup {Filter("source", <<r.source>>)})
  /\ clicked' = None

\* "Show more", and "Show less".
Toggle ==
  /\ Section = "rir"
  /\ \E n \in DOMAIN records :
       LET key == rirRecordKey(records[n], n) IN
         /\ collectExtraEntries(Records[records[n]]) # {}
         /\ IF key \in expanded
            THEN expanded' = expanded \ {key} /\ opened' = opened \ {records[n]}
            ELSE expanded' = expanded \cup {key} /\ opened' = opened \cup {records[n]}
  /\ UNCHANGED <<filters, cached, clicked, moves>>

Next == Answer \/ Click \/ removeFilter \/ TypeSource \/ Toggle

Spec == Init /\ [][Next]_vars

-----------------------------------------------------------------------------
(* Properties.                                                              *)

\* Only cards of the list are expanded.
TypeOK ==
  /\ Cardinality(filters) <= MaxFilters /\ moves \in 0..MaxMoves
  /\ expanded \subseteq KeysOf(records) /\ opened \subseteq Range(records)
  /\ clicked = None \/ clicked \in DOMAIN Records

\* A click on a chip of a record leaves the record in the list.
ClickKeepsTheRecord ==
  clicked # None /\ filters \in cached => clicked \in Range(records)

\* Each filter of the query is highlighted on each card of the list.
QueryIsHighlighted ==
  \A i \in Range(records) : \A f \in filters :
    \E chip \in Chips(Records[i]) : chip.type = f.type /\ Highlighted(chip)

\* Two kinds of record never have the same heading.
KindsAreToldApart ==
  \A i, j \in Range(records) :
    Records[i].recontype # Records[j].recontype =>
      describePassiveValue(Records[i]) # describePassiveValue(Records[j])

\* What was shown of a record before it was expanded is not in the table again, and what
\* is not about the dump itself is shown.
FieldsAreShownOnce ==
  \A i \in Range(records) :
    LET r == Records[i] IN
      /\ (headlineKeys(r) \cup badges(r)) \cap collectExtraEntries(r) = {}
      /\ Filled(r, DOMAIN r) \ {"source", "source_hash", "size", "schema_version"}
           \subseteq headlineKeys(r) \cup badges(r) \cup collectExtraEntries(r)

\* A card is expanded only when its record was.
OnlyOpenedIsExpanded ==
  \A n \in DOMAIN records : rirRecordKey(records[n], n) \in expanded => records[n] \in opened

\* A range has a prefix exactly when its addresses are all those that start as it does.
CidrIsTheRange ==
  \A start, stop \in 0..2^Bits - 1 :
    LET Block(p) == {a \in 0..2^Bits - 1 : a \div 2^(Bits - p) = start \div 2^(Bits - p)}
        prefix == rangeToCidr(start, stop) IN
      IF prefix # None THEN Block(prefix) = start..stop
      ELSE \A p \in 0..Bits : Block(p) # start..stop

\* However an address is shortened, it is the same address.
ShorthandIsRead ==
  \A groups \in [1..Groups -> 0..2^GroupBits - 1] : \A i, j \in 1..Groups :
    i <= j /\ (\A n \in i..j : groups[n] = 0) =>
      ipv6ToInt(ipv6Groups(SubSeq(groups, 1, i - 1), SubSeq(groups, j + 1, Groups)))
        = ipv6ToInt(groups)
=============================================================================
