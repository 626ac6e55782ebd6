---------- MODULE MCLists ----------------------------------------------------
(***************************************************************************)
(* The pages of results of the web interface, together: what a section      *)
(* loads (FacetLoading), its list, pager and sheet (RecordPages), the bar   *)
(* of filters (FilterWords), the Flow section (FlowExplorer), and the cards *)
(* and rows the results are drawn as (HostCards, RecordCards, TimelineCards,*)
(* DnsRecords).                                                             *)
(*                                                                          *)
(* One page is mounted in a tab and its state goes with it: the scene that  *)
(* is chosen at the start says which, and with what data.                   *)
(***************************************************************************)
EXTENDS Integers, Sequences, TLC

CONSTANTS Absent, None, Null, NoParam, NoData, Failed, Typo, Sent, Refused, Loading

VARIABLES scene,
          query, present, status, flight, expanded, loadedCount, seen, cycle, observed, moves, db,
          url, cache, writes, picked, walked, q, filters, draft, asked, flows, history,
          at, shown, canvas, edited, hasty, text, applied, tapped, loaded, cardExpanded,
          treeExpanded, routeAddr, direct, sheetExpanded, clicked, cached, opened,
          cards, ghosts, cardRefs, hoveredIndex, pointer, scrolled, page

vars ==
  <<scene, query, present, status, flight, expanded, loadedCount, seen, cycle, observed,
    moves, db, url, cache, writes, picked, walked, q, filters, draft, asked, flows,
    history, at, shown, canvas, edited, hasty, text, applied, tapped, loaded,
    cardExpanded, treeExpanded, routeAddr, direct, sheetExpanded, clicked, cached,
    opened, cards, ghosts, cardRefs, hoveredIndex, pointer, scrolled, page>>


\* RecordPages: up to four records of two queries, in pages of one to four.
Doc(i, a) == [id |-> i, addr |-> a, name |-> "n" \o ToString(i % 2)]
FourHosts == {Doc(1, "a"), Doc(2, "b"), Doc(3, "c"), Doc(4, "d")}
TwoHosts == {Doc(1, "a"), Doc(2, "b")}
AllOrEven(docs) == [all |-> docs, even |-> {d \in docs : d.id % 2 = 0}]
Url(words, l, a) == [q |-> words, limit |-> l, skip |-> NoParam, addr |-> a]
FirstPages == {Url("all", l, None) : l \in {3, -1}}
Plain == {Url("all", NoParam, None)}
\* The second host is on the second page.
OneSheet == {Url("all", NoParam, "b")}

\* FilterWords: what is typed with five keys, and the rows of the facets of View.
Keys == {"x", ":", " ", "\"", "-"}
Row(field, label) == [field |-> field, label |-> label]
RowsOfView ==
  {Row("country", <<<<"FR">>, <<"France">>>>), Row("port:open", <<<<"tcp">>, <<"443">>>>),
   Row("as", <<<<"3215">>, <<"Orange", " ", "SA">>>>),
   Row("city", <<<<"FR">>, <<"Le", " ", "Mans">>>>),
   Row("product", <<<<"http">>, <<"x", "\"", "y", "'">>>>), Row("product", <<<<"http">>, Null>>),
   Row("tag", <<<<"CDN">>, <<"Some", "\"", "s">>>>)}
Shared == {<<>>, <<"-", "country", ":", "FR", " ", "skip", ":", "100">>}

\* FlowExplorer: two hosts, one of them with an IPv6 address, and their flows.
H == <<"h">>
H6 == <<"h", ":", "6">>
ThreeFlows == (<<"f1">> :> [src |-> H, dst |-> H6]) @@ (<<"f2">> :> [src |-> H, dst |-> H6])
              @@ (<<"f3">> :> [src |-> H6, dst |-> H])
TwoFlows == {<<"f1">>, <<"f2">>}
TwoClauses == (<<"x">> :> {<<"f1">>, <<"f3">>}) @@ (<<"y">> :> {<<"f2">>, <<"f1">>})
PastedTwo == {<<"x">>, <<"x", " ", "\n", "\n", "y">>}
NoOffer == [k \in {} |-> {}]
OrderOffer == [k \in {"orderby"} |-> {None, "src"}]
ModeOffer == [k \in {"mode"} |-> {"default", "flow_map"}]
Blank == [q |-> None, detail |-> None]
Broken == [q |-> Typo, detail |-> <<"edge", ":", "f1">>]
Linked == [q |-> [nodes |-> <<<<"x">>>>, limit |-> 1], detail |-> None]

\* HostCards: a host with more tags than a row holds and a name below another one, a
\* port that is closed, products of an open port and of another.
Tag(value, type) == [value |-> value, type |-> type]
Name(name, domains) == [name |-> name, domains |-> domains]
Port(token, state, service, product) ==
  [token |-> token, state |-> state, service |-> service, product |-> product]
Host(addr, asnum, sources, categories, tags, hostnames, ports) ==
  [addr |-> addr, country |-> "FR", asnum |-> asnum, sources |-> sources,
   categories |-> categories, tags |-> tags, hostnames |-> hostnames, ports |-> ports]
Example == Name("example.com", <<"example.com", "com">>)
WwwExample == Name("www.example.com", <<"www.example.com", "example.com", "com">>)
FourTags == <<Tag("Client a", "client"), Tag("Client b", "client"), Tag("CDN", "info"),
              Tag("Bad", "error")>>
HostsOfCards ==
  <<Host("h1", "3215", {"s1"}, {}, FourTags, <<Example, WwwExample, Example>>,
         <<Port("tcp/80", "open", "http", None), Port("tcp/81", "closed", None, None)>>),
    Host("h2", None, {}, {"c1"},
         <<Tag("Client b", "client"), Tag("Client c", "client"), Tag("Scanner", "warning")>>,
         <<Example>>,
         <<Port("tcp/80", "open", "http", "nginx"), Port("tcp/81", "open", "http", None),
           Port("tcp/82", "filtered", "ssh", "sshd")>>)>>
Tagged(addr, country) == [Host(addr, None, {}, {}, FourTags, <<>>, <<>>) EXCEPT !.country = country]
HostsOfTags == <<Tagged("h1", "FR"), Tagged("h2", "FR"), Tagged("h3", "US")>>

\* RecordCards: a few records of each section.
UpperCase(word) == IF word = "fr" THEN "FR" ELSE word
Record(recontype, source) == [recontype |-> recontype, source |-> source, sensor |-> "s1"]
RecordsOfPassive ==
  <<Record("SSL_SERVER", "cert") @@ [addr |-> "a", port |-> "443"],
    Record("SSL_CLIENT", "cert") @@ [addr |-> "b"],
    Record("SSL_SERVER", "ja3") @@ [addr |-> "a", port |-> "8443"],
    Record("SSL_CLIENT", "ja3") @@ [addr |-> "a"],
    Record("HTTP_SERVER_HEADER", "SERVER") @@ [addr |-> "a", port |-> "443"],
    Record("HTTP_CLIENT_HEADER_SERVER", "SERVER") @@ [addr |-> "b"],
    [recontype |-> "HTTP_CLIENT_HEADER", addr |-> "b", source |-> "SERVER"],
    [recontype |-> "SSH_SERVER", addr |-> "a", port |-> "22"],
    Record("DNS_ANSWER", "A-dns1") @@ [addr |-> "a"],
    Record("DNS_ANSWER", "CNAME-dns1") @@ [targetval |-> "n"]>>
Inet(start, stop, netname, country, file) ==
  [start |-> start, stop |-> stop, netname |-> netname, country |-> country,
   source_file |-> file, source |-> "RIPE", source_hash |-> "h", size |-> stop - start + 1,
   status |-> "ASSIGNED", org |-> "o", remarks |-> None]
Aut(num, name) ==
  ("aut-num" :> num) @@ ("as-name" :> name)
  @@ [country |-> "FR", descr |-> "d", source_file |-> "f1", source |-> "RIPE", admin |-> "c"]
RecordsOfRir ==
  <<Inet(0, 3, "n1", "FR", "f1"), Inet(4, 7, "n2", "FR", "f2"), Inet(0, 6, "n3", "DE", "f1"),
    Aut("1", "one"), Aut("2", "one")>>

\* TimelineCards: one record per key.  Dates are seconds below 100, milliseconds
\* above, ten of them to the second; an instant, a record without a first date.
Rec(id, key, firstseen, lastseen, count) ==
  [id |-> id, key |-> key, firstseen |-> firstseen, lastseen |-> lastseen, count |-> count]
A == Rec("a", "ka", 10, 14, 4)
B == Rec("b", "kb", 12, 12, 1)
C == Rec("c", "kc", 110, 180, 4)
D == Rec("d", "kd", None, 13, 2)
E == Rec("e", "ke", 11, 15, 8)
AnswersOfPairs == [all |-> <<A, B, C, D, E>>, some |-> <<B, D, A>>, none |-> <<>>]

\* DnsRecords: a name with two types, a pair in two documents, one in both databases.
Scan(addr, hostnames, source, starttime, endtime) ==
  [addr |-> addr, hostnames |-> hostnames, source |-> source,
   starttime |-> starttime, endtime |-> endtime]
Named(name, type) == [name |-> name, type |-> type]
Seen(value, addr, targetval, type, source, sensor, firstseen, lastseen, count) ==
  [value |-> value, addr |-> addr, targetval |-> targetval, type |-> type, source |-> source,
   sensor |-> sensor, firstseen |-> firstseen, lastseen |-> lastseen, count |-> count]
ScansOfTwo ==
  <<Scan("a", <<Named("n1", "PTR"), Named("n2", "A"), Named("n1", "user")>>, {"scan1"}, 2, 4),
    Scan("b", <<Named("n2", "A")>>, {"scan1", "scan2"}, 3, 3),
    Scan("a", <<Named("n1", "A")>>, {"scan2"}, 3, 6)>>
ObservationsOfTwo ==
  <<Seen("n1", "a", None, "A", "A-dns1", "s1", 1, 4, 3),
    Seen("n1", "a", None, "A", "A-dns2", "s2", 2, 5, 2),
    Seen("n2", None, "n3", "CNAME", "CNAME-dns1", "s1", 1, 6, 1),
    Seen("n3", "b", None, "A", "A-dns1", "s1", 6, 6, 1),
    Seen("n2", "b", None, "A", "A-dns1", "s2", 5, 6, 4),
    Seen("n2", "a", None, "A", "A-dns2", "s1", 1, 4, 9)>>
TypedOfDns ==
  {[type |-> "sensor", value |-> "s1"], [type |-> "hostname", value |-> "n2"],
   [type |-> "source", value |-> "scan1"], [type |-> "host", value |-> "b"]}

-----------------------------------------------------------------------------
(* The scenes.                                                              *)

Facets == INSTANCE FacetLoading WITH
       Queries <- {"q1", "q2"}, Facets <- 3, HasMap <- TRUE, Sequential <- TRUE,
       MayFail <- TRUE, MaxMoves <- 2
ASSUME FacetsAssumption == Facets!FacetAssumption
Pages == INSTANCE RecordPages WITH
       Docs <- FourHosts, Matches <- AllOrEven(FourHosts), DefaultLimit <- 2,
       MaxResults <- 0, MayFail <- FALSE, MaxWrites <- 0, Section <- "view",
       Links <- FirstPages
ASSUME PagesAssumption == Pages!PagesAssumption
Writes == INSTANCE RecordPages WITH
       Docs <- TwoHosts, Matches <- AllOrEven(TwoHosts), DefaultLimit <- 1, MaxResults <- 0,
       MayFail <- FALSE, MaxWrites <- 1, Section <- "view", Links <- OneSheet
ASSUME WritesAssumption == Writes!PagesAssumption
Names == INSTANCE RecordPages WITH
       Docs <- FourHosts, Matches <- AllOrEven(FourHosts), DefaultLimit <- 4,
       MaxResults <- 0, MayFail <- TRUE, MaxWrites <- 2, Section <- "dns",
       Links <- Plain
ASSUME NamesAssumption == Names!PagesAssumption
WordsTyped == INSTANCE FilterWords WITH
       Keyboard <- Keys, Rows <- {}, Links <- Shared, Paginated <- TRUE, MaxDraft <- 3,
       MaxFilters <- 2
ASSUME WordsTypedAssumption == WordsTyped!WordsAssumption
WordsClicked == INSTANCE FilterWords WITH
       Keyboard <- {"as", "x"}, Rows <- RowsOfView, Links <- Shared, Paginated <- TRUE,
       MaxDraft <- 2, MaxFilters <- 3
ASSUME WordsClickedAssumption == WordsClicked!WordsAssumption
FlowForm == INSTANCE FlowExplorer WITH
       Keystrokes <- {"x", " ", "\n"}, Pasted <- PastedTwo, Offered <- OrderOffer,
       MaxText <- 6, Clauses <- TwoClauses, Flows <- ThreeFlows, Known <- TwoFlows,
       Start <- Broken, MayFail <- FALSE, MaxMoves <- 4, MaxFlows <- 0
ASSUME FlowFormAssumption == FlowForm!FlowAssumption
FlowGraph == INSTANCE FlowExplorer WITH
       Keystrokes <- {"x", " ", "\n"}, Pasted <- {<<"x">>, <<>>}, Offered <- NoOffer,
       MaxText <- 2, Clauses <- TwoClauses, Flows <- ThreeFlows, Known <- TwoFlows,
       Start <- Linked, MayFail <- TRUE, MaxMoves <- 3, MaxFlows <- 1
ASSUME FlowGraphAssumption == FlowGraph!FlowAssumption
FlowCounts == INSTANCE FlowExplorer WITH
       Keystrokes <- {}, Pasted <- {<<"x">>, <<>>}, Offered <- ModeOffer, MaxText <- 0,
       Clauses <- TwoClauses, Flows <- ThreeFlows, Known <- DOMAIN ThreeFlows,
       Start <- Blank, MayFail <- TRUE, MaxMoves <- 3, MaxFlows <- 0
ASSUME FlowCountsAssumption == FlowCounts!FlowAssumption
CardsOfHosts == INSTANCE HostCards WITH
       Hosts <- HostsOfCards, CardLimit <- 2, SheetLimit <- 2, MaxFilters <- 2
ASSUME CardsOfHostsAssumption == CardsOfHosts!CardsAssumption
TagsOfHosts == INSTANCE HostCards WITH
       Hosts <- HostsOfTags, CardLimit <- 2, SheetLimit <- 2, MaxFilters <- 2
ASSUME TagsOfHostsAssumption == TagsOfHosts!CardsAssumption
CardsOfPassive == INSTANCE RecordCards WITH
       Section <- "passive", Records <- RecordsOfPassive, Upper <- UpperCase, Bits <- 4,
       Groups <- 4, GroupBits <- 1, MaxFilters <- 3, MaxMoves <- 4
ASSUME CardsOfPassiveAssumption == CardsOfPassive!RecordsAssumption
CardsOfRir == INSTANCE RecordCards WITH
       Section <- "rir", Records <- RecordsOfRir, Upper <- UpperCase, Bits <- 4, Groups <- 4,
       GroupBits <- 1, MaxFilters <- 2, MaxMoves <- 4
ASSUME CardsOfRirAssumption == CardsOfRir!RecordsAssumption
Timeline == INSTANCE TimelineCards WITH
       Answers <- AnswersOfPairs, Scale <- 10, Threshold <- 100, MaxMoves <- 4
ASSUME TimelineAssumption == Timeline!TimelineAssumption
Dns == INSTANCE DnsRecords WITH
       Scans <- ScansOfTwo, Observations <- ObservationsOfTwo, IPs <- {"a", "b"},
       Typed <- TypedOfDns, Limit <- 4, MaxFilters <- 3
ASSUME DnsAssumption == Dns!DnsAssumption

\* The variables a page does not have.
OnlyFacetLoading ==
  /\ db = Absent /\ url = Absent /\ cache = Absent /\ writes = Absent
  /\ picked = Absent /\ walked = Absent /\ q = Absent /\ filters = Absent
  /\ draft = Absent /\ asked = Absent /\ flows = Absent /\ history = Absent
  /\ at = Absent /\ shown = Absent /\ canvas = Absent /\ edited = Absent
  /\ hasty = Absent /\ text = Absent /\ applied = Absent /\ tapped = Absent
  /\ loaded = Absent /\ cardExpanded = Absent /\ treeExpanded = Absent
  /\ routeAddr = Absent /\ direct = Absent /\ sheetExpanded = Absent
  /\ clicked = Absent /\ cached = Absent /\ opened = Absent /\ cards = Absent
  /\ ghosts = Absent /\ cardRefs = Absent /\ hoveredIndex = Absent
  /\ pointer = Absent /\ scrolled = Absent /\ page = Absent
notFacetLoading ==
  <<db, url, cache, writes, picked, walked, q, filters, draft, asked, flows, history, at,
    shown, canvas, edited, hasty, text, applied, tapped, loaded, cardExpanded,
    treeExpanded, routeAddr, direct, sheetExpanded, clicked, cached, opened, cards,
    ghosts, cardRefs, hoveredIndex, pointer, scrolled, page>>
OnlyRecordPages ==
  /\ query = Absent /\ present = Absent /\ status = Absent /\ expanded = Absent
  /\ loadedCount = Absent /\ seen = Absent /\ cycle = Absent /\ observed = Absent
  /\ moves = Absent /\ q = Absent /\ filters = Absent /\ draft = Absent
  /\ asked = Absent /\ flows = Absent /\ history = Absent /\ at = Absent
  /\ shown = Absent /\ canvas = Absent /\ edited = Absent /\ hasty = Absent
  /\ text = Absent /\ applied = Absent /\ tapped = Absent /\ loaded = Absent
  /\ cardExpanded = Absent /\ treeExpanded = Absent /\ routeAddr = Absent
  /\ direct = Absent /\ sheetExpanded = Absent /\ clicked = Absent
  /\ cached = Absent /\ opened = Absent /\ cards = Absent /\ ghosts = Absent
  /\ cardRefs = Absent /\ hoveredIndex = Absent /\ pointer = Absent
  /\ scrolled = Absent /\ page = Absent
notRecordPages ==
  <<query, present, status, expanded, loadedCount, seen, cycle, observed, moves, q, filters,
    draft, asked, flows, history, at, shown, canvas, edited, hasty, text, applied,
    tapped, loaded, cardExpanded, treeExpanded, routeAddr, direct, sheetExpanded,
    clicked, cached, opened, cards, ghosts, cardRefs, hoveredIndex, pointer, scrolled,
    page>>
OnlyFilterWords ==
  /\ query = Absent /\ present = Absent /\ status = Absent /\ flight = Absent
  /\ expanded = Absent /\ loadedCount = Absent /\ seen = Absent /\ cycle = Absent
  /\ observed = Absent /\ moves = Absent /\ db = Absent /\ url = Absent
  /\ cache = Absent /\ writes = Absent /\ picked = Absent /\ walked = Absent
  /\ flows = Absent /\ history = Absent /\ at = Absent /\ shown = Absent
  /\ canvas = Absent /\ edited = Absent /\ hasty = Absent /\ text = Absent
  /\ applied = Absent /\ tapped = Absent /\ loaded = Absent /\ cardExpanded = Absent
  /\ treeExpanded = Absent /\ routeAddr = Absent /\ direct = Absent
  /\ sheetExpanded = Absent /\ clicked = Absent /\ cached = Absent
  /\ opened = Absent /\ cards = Absent /\ ghosts = Absent /\ cardRefs = Absent
  /\ hoveredIndex = Absent /\ pointer = Absent /\ scrolled = Absent /\ page = Absent
notFilterWords ==
  <<query, present, status, flight, expanded, loadedCount, seen, cycle, observed, moves, db,
    url, cache, writes, picked, walked, flows, history, at, shown, canvas, edited,
    hasty, text, applied, tapped, loaded, cardExpanded, treeExpanded, routeAddr, direct,
    sheetExpanded, clicked, cached, opened, cards, ghosts, cardRefs, hoveredIndex,
    pointer, scrolled, page>>
OnlyFlowExplorer ==
  /\ query = Absent /\ present = Absent /\ status = Absent /\ flight = Absent
  /\ expanded = Absent /\ loadedCount = Absent /\ seen = Absent /\ cycle = Absent
  /\ observed = Absent /\ db = Absent /\ url = Absent /\ writes = Absent
  /\ picked = Absent /\ walked = Absent /\ q = Absent /\ filters = Absent
  /\ asked = Absent /\ loaded = Absent /\ cardExpanded = Absent
  /\ treeExpanded = Absent /\ routeAddr = Absent /\ direct = Absent
  /\ sheetExpanded = Absent /\ clicked = Absent /\ cached = Absent
  /\ opened = Absent /\ cards = Absent /\ ghosts = Absent /\ cardRefs = Absent
  /\ hoveredIndex = Absent /\ pointer = Absent /\ scrolled = Absent /\ page = Absent
notFlowExplorer ==
  <<query, present, status, flight, expanded, loadedCount, seen, cycle, observed, db, url,
    writes, picked, walked, q, filters, asked, loaded, cardExpanded, treeExpanded,
    routeAddr, direct, sheetExpanded, clicked, cached, opened, cards, ghosts, cardRefs,
    hoveredIndex, pointer, scrolled, page>>
OnlyHostCards ==
  /\ query = Absent /\ present = Absent /\ status = Absent /\ flight = Absent
  /\ expanded = Absent /\ loadedCount = Absent /\ seen = Absent /\ cycle = Absent
  /\ observed = Absent /\ moves = Absent /\ db = Absent /\ url = Absent
  /\ cache = Absent /\ writes = Absent /\ picked = Absent /\ walked = Absent
  /\ q = Absent /\ draft = Absent /\ asked = Absent /\ flows = Absent
  /\ history = Absent /\ at = Absent /\ shown = Absent /\ canvas = Absent
  /\ edited = Absent /\ hasty = Absent /\ text = Absent /\ applied = Absent
  /\ tapped = Absent /\ cached = Absent /\ opened = Absent /\ cards = Absent
  /\ ghosts = Absent /\ cardRefs = Absent /\ hoveredIndex = Absent
  /\ pointer = Absent /\ scrolled = Absent /\ page = Absent
notHostCards ==
  <<query, present, status, flight, expanded, loadedCount, seen, cycle, observed, moves, db,
    url, cache, writes, picked, walked, q, draft, asked, flows, history, at, shown,
    canvas, edited, hasty, text, applied, tapped, cached, opened, cards, ghosts,
    cardRefs, hoveredIndex, pointer, scrolled, page>>
OnlyRecordCards ==
  /\ query = Absent /\ present = Absent /\ status = Absent /\ flight = Absent
  /\ loadedCount = Absent /\ seen = Absent /\ cycle = Absent /\ observed = Absent
  /\ db = Absent /\ url = Absent /\ cache = Absent /\ writes = Absent
  /\ picked = Absent /\ walked = Absent /\ q = Absent /\ draft = Absent
  /\ asked = Absent /\ flows = Absent /\ history = Absent /\ at = Absent
  /\ shown = Absent /\ canvas = Absent /\ edited = Absent /\ hasty = Absent
  /\ text = Absent /\ applied = Absent /\ tapped = Absent /\ loaded = Absent
  /\ cardExpanded = Absent /\ treeExpanded = Absent /\ routeAddr = Absent
  /\ direct = Absent /\ sheetExpanded = Absent /\ cards = Absent /\ ghosts = Absent
  /\ cardRefs = Absent /\ hoveredIndex = Absent /\ pointer = Absent
  /\ scrolled = Absent /\ page = Absent
notRecordCards ==
  <<query, present, status, flight, loadedCount, seen, cycle, observed, db, url, cache,
    writes, picked, walked, q, draft, asked, flows, history, at, shown, canvas, edited,
    hasty, text, applied, tapped, loaded, cardExpanded, treeExpanded, routeAddr, direct,
    sheetExpanded, cards, ghosts, cardRefs, hoveredIndex, pointer, scrolled, page>>
OnlyTimelineCards ==
  /\ present = Absent /\ status = Absent /\ flight = Absent /\ expanded = Absent
  /\ loadedCount = Absent /\ seen = Absent /\ cycle = Absent /\ observed = Absent
  /\ db = Absent /\ url = Absent /\ cache = Absent /\ writes = Absent
  /\ picked = Absent /\ walked = Absent /\ q = Absent /\ filters = Absent
  /\ draft = Absent /\ asked = Absent /\ flows = Absent /\ history = Absent
  /\ at = Absent /\ shown = Absent /\ canvas = Absent /\ edited = Absent
  /\ hasty = Absent /\ text = Absent /\ applied = Absent /\ tapped = Absent
  /\ loaded = Absent /\ cardExpanded = Absent /\ treeExpanded = Absent
  /\ routeAddr = Absent /\ direct = Absent /\ sheetExpanded = Absent
  /\ clicked = Absent /\ opened = Absent /\ page = Absent
notTimelineCards ==
  <<present, status, flight, expanded, loadedCount, seen, cycle, observed, db, url, cache,
    writes, picked, walked, q, filters, draft, asked, flows, history, at, shown, canvas,
    edited, hasty, text, applied, tapped, loaded, cardExpanded, treeExpanded, routeAddr,
    direct, sheetExpanded, clicked, opened, page>>
OnlyDnsRecords ==
  /\ query = Absent /\ present = Absent /\ status = Absent /\ flight = Absent
  /\ expanded = Absent /\ loadedCount = Absent /\ seen = Absent /\ cycle = Absent
  /\ observed = Absent /\ moves = Absent /\ db = Absent /\ url = Absent
  /\ cache = Absent /\ writes = Absent /\ picked = Absent /\ walked = Absent
  /\ q = Absent /\ draft = Absent /\ asked = Absent /\ flows = Absent
  /\ history = Absent /\ at = Absent /\ shown = Absent /\ canvas = Absent
  /\ edited = Absent /\ hasty = Absent /\ text = Absent /\ applied = Absent
  /\ tapped = Absent /\ loaded = Absent /\ cardExpanded = Absent
  /\ treeExpanded = Absent /\ routeAddr = Absent /\ direct = Absent
  /\ sheetExpanded = Absent /\ cached = Absent /\ opened = Absent /\ cards = Absent
  /\ ghosts = Absent /\ cardRefs = Absent /\ hoveredIndex = Absent
  /\ pointer = Absent /\ scrolled = Absent
notDnsRecords ==
  <<query, present, status, flight, expanded, loadedCount, seen, cycle, observed, moves, db,
    url, cache, writes, picked, walked, q, draft, asked, flows, history, at, shown,
    canvas, edited, hasty, text, applied, tapped, loaded, cardExpanded, treeExpanded,
    routeAddr, direct, sheetExpanded, cached, opened, cards, ghosts, cardRefs,
    hoveredIndex, pointer, scrolled>>

Init ==
  \/ scene = "facets" /\ Facets!Init /\ OnlyFacetLoading
  \/ scene = "pages" /\ Pages!Init /\ OnlyRecordPages
  \/ scene = "writes" /\ Writes!Init /\ OnlyRecordPages
  \/ scene = "names" /\ Names!Init /\ OnlyRecordPages
  \/ scene = "typed" /\ WordsTyped!Init /\ OnlyFilterWords
  \/ scene = "rows" /\ WordsClicked!Init /\ OnlyFilterWords
  \/ scene = "form" /\ FlowForm!Init /\ OnlyFlowExplorer
  \/ scene = "graph" /\ FlowGraph!Init /\ OnlyFlowExplorer
  \/ scene = "counts" /\ FlowCounts!Init /\ OnlyFlowExplorer
  \/ scene = "hosts" /\ CardsOfHosts!Init /\ OnlyHostCards
  \/ scene = "tags" /\ TagsOfHosts!Init /\ OnlyHostCards
  \/ scene = "passive" /\ CardsOfPassive!Init /\ OnlyRecordCards
  \/ scene = "rir" /\ CardsOfRir!Init /\ OnlyRecordCards
  \/ scene = "timeline" /\ Timeline!Init /\ OnlyTimelineCards
  \/ scene = "dns" /\ Dns!Init /\ OnlyDnsRecords

Next ==
  /\ UNCHANGED scene
  /\ \/ scene = "facets" /\ Facets!Next /\ UNCHANGED notFacetLoading
     \/ scene = "pages" /\ Pages!Next /\ UNCHANGED notRecordPages
     \/ scene = "writes" /\ Writes!Next /\ UNCHANGED notRecordPages
     \/ scene = "names" /\ Names!Next /\ UNCHANGED notRecordPages
     \/ scene = "typed" /\ WordsTyped!Next /\ UNCHANGED notFilterWords
     \/ scene = "rows" /\ WordsClicked!Next /\ UNCHANGED notFilterWords
     \/ scene = "form" /\ FlowForm!Next /\ UNCHANGED notFlowExplorer
     \/ scene = "graph" /\ FlowGraph!Next /\ UNCHANGED notFlowExplorer
     \/ scene = "counts" /\ FlowCounts!Next /\ UNCHANGED notFlowExplorer
     \/ scene = "hosts" /\ CardsOfHosts!Next /\ UNCHANGED notHostCards
     \/ scene = "tags" /\ TagsOfHosts!Next /\ UNCHANGED notHostCards
     \/ scene = "passive" /\ CardsOfPassive!Next /\ UNCHANGED notRecordCards
     \/ scene = "rir" /\ CardsOfRir!Next /\ UNCHANGED notRecordCards
     \/ scene = "timeline" /\ Timeline!Next /\ UNCHANGED notTimelineCards
     \/ scene = "dns" /\ Dns!Next /\ UNCHANGED notDnsRecords

Spec == Init /\ [][Next]_vars

-----------------------------------------------------------------------------
(* The properties.                                                          *)

\* The facets of a page are asked for after its results and its map
\* (FacetSidebar.tsx); the list is that of the address, fits in a page, and is read
\* to its end with the pager; the sheet has the host that was picked
\* (host-list.tsx, paging.ts).
PagesHold ==
  /\ scene = "facets" => Facets!TypeOK /\ Facets!FacetsWaitForResults
  /\ scene = "pages" => /\ Pages!TypeOK /\ Pages!PageFits /\ Pages!WalkSeesAll
                        /\ Pages!BoundsAreExact /\ Pages!SheetShowsPicked
  /\ scene = "writes" => Writes!TypeOK /\ Writes!ListIsOfAddress
  /\ scene = "names" => Names!CardsAreDistinct /\ Names!ListIsOfAddress

\* The filters that are asked for are those the address gives back, and those the
\* server reads; the row of a facet whose filter is active is highlighted, unless it is
\* that of an unknown product or version (filter.ts, field-mapper.ts, FacetGroup.tsx and
\* ivre/web/utils.py).
WordsHold ==
  /\ scene = "typed" => WordsTyped!TypeOK /\ WordsTyped!PlainSurvive
                        /\ WordsTyped!ServerReadsChips
  /\ scene = "rows" => WordsClicked!PlainSurvive /\ WordsClicked!ActiveRowsShow

\* The form of the flows keeps what was typed in it, blanks left out, and is that of the
\* address when nothing was; the graph, the counts and the sheet are of the filter that
\* is applied (flow.tsx).
FlowHolds ==
  /\ scene = "form" => /\ FlowForm!TypeOK /\ FlowForm!TypedIsKept
                       /\ FlowForm!FormIsOfTheAddress /\ FlowForm!AppliedStays
  /\ scene = "graph" => /\ FlowGraph!TypeOK /\ FlowGraph!DrawnIsFiltered
                        /\ FlowGraph!SheetIsOfTapped
  /\ scene = "counts" => FlowCounts!CountsAreOfTheGraph

\* A click on a chip leaves its record in the list, every record of the list has the
\* chips of the query, but for products, which the server does not read, and they are
\* highlighted; what is cut from a card is what matters least (HostCard.tsx,
\* DomainTree.tsx, passive.ts, rir.ts).
CardsHold ==
  /\ scene = "hosts" =>
       /\ CardsOfHosts!TypeOK /\ CardsOfHosts!ClickKeepsHost
       /\ CardsOfHosts!QueryIsHighlighted /\ CardsOfHosts!ResultsHaveTheChip
       /\ CardsOfHosts!ImportantTagsAreShown /\ CardsOfHosts!NodesCountNames
       /\ CardsOfHosts!ServicesAreListedOnce
  /\ scene = "passive" =>
       /\ CardsOfPassive!ClickKeepsTheRecord /\ CardsOfPassive!QueryIsHighlighted
       /\ CardsOfPassive!KindsAreToldApart
  /\ scene = "rir" =>
       /\ CardsOfRir!TypeOK /\ CardsOfRir!FieldsAreShownOnce
       /\ CardsOfRir!OnlyOpenedIsExpanded /\ CardsOfRir!CidrIsTheRange
       /\ CardsOfRir!ShorthandIsRead

\* A row of DNS sums what both databases know of its pair, the page has the newest
\* rows, and a click on a name keeps the row (app.py, dns.tsx); a row of the timeline
\* leads to its card, and is the one that is highlighted (Timeline.tsx).
RowsHold ==
  /\ scene = "timeline" =>
       /\ Timeline!TypeOK /\ Timeline!RowsLeadToTheirCard /\ Timeline!PointedIsHighlighted
       /\ Timeline!RowsAreInView /\ Timeline!DenserIsThicker
  /\ scene = "dns" =>
       Dns!TypeOK /\ Dns!RowsAreSums /\ Dns!PageIsNewest /\ Dns!NameKeepsTheRow

\* The facets of a page are asked for one after the other, but at the first commit of a
\* query that the cache has the results of (FacetSidebar.tsx); no step of the pager
\* leads past the last record, a chip is removed without a change of the others, and a
\* card that stays on the page keeps its tags as the user left them (host-list.tsx,
\* FilterBar.tsx, HostCardList.tsx).
ListSteps ==
  [][/\ scene = "facets" => Facets!FacetsAskedInTurn
     /\ scene = "pages" => Pages!PagesStayInside
     /\ scene = "rows" => WordsClicked!RemovedAlone
     /\ scene = "tags" => TagsOfHosts!CardsKeepTheirTags]_vars
=============================================================================
