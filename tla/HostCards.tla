----------------------------- MODULE HostCards -----------------------------
(***************************************************************************)
(* The hosts of a section of the web interface: one card per host of the    *)
(* list (HostCardList.tsx, HostCard.tsx), with the tree of its names        *)
(* (DomainTree.tsx), and the sheet of one of them (HostDetailSheet.tsx).    *)
(* What is drawn of a host is chips: a click on one adds a filter to the    *)
(* query, and the chips of the filters of the query are highlighted.        *)
(*                                                                          *)
(* The list has one record per address (View), and the hosts do not change. *)
(* A list, or the host of the sheet when the list does not have it, may be  *)
(* in the cache or not: that is left open.  Letters are compared without    *)
(* their case, and filters are not negated.                                 *)
(***************************************************************************)
EXTENDS Naturals, FiniteSets, SequencesExt

CONSTANTS Hosts,       \* the hosts of the server, in the order it sends them
          CardLimit,   \* the tags of a card that is not expanded
          SheetLimit,  \* the tags of the sheet when it is not expanded
          MaxFilters,  \* bound: the filters of the query
          None         \* what a host does not have; the type of a port filter; no sheet

CardsAssumption ==
  /\ CardLimit \in Nat \ {0} /\ SheetLimit \in Nat \ {0} /\ MaxFilters \in Nat

VARIABLES
  filters,       \* the filters of the address
  loaded,        \* the list of the query is there
  cardExpanded,  \* the addresses of the cards with all their tags
  treeExpanded,  \* the nodes that are expanded: address and path
  routeAddr,     \* the host of the sheet, in the address, or None
  direct,        \* the host of the sheet was fetched on its own
  sheetExpanded, \* the sheet has all the tags
  clicked        \* the host whose chip was clicked last, and its filter, or None

vars == <<filters, loaded, cardExpanded, treeExpanded, routeAddr, direct, sheetExpanded,
          clicked>>

Filter(type, value) == [type |-> type, value |-> value]

-----------------------------------------------------------------------------
(* The server: what a filter selects.                                       *)

HasPort(h, P(_)) == \E p \in Range(h.ports) : P(p)
\* A product without its service is not understood, and left out of the query.
flt_from_query(h, f) ==
  CASE f.type = None -> HasPort(h, LAMBDA p : p.token = f.value /\ p.state = "open")
    [] f.type = "country" -> h.country = f.value
    [] f.type = "asnum" -> h.asnum = f.value
    [] f.type = "source" -> f.value \in h.sources
    [] f.type = "category" -> f.value \in h.categories
    [] f.type = "tag" -> \E t \in Range(h.tags) : t.value = f.value
    [] f.type = "hostname" -> \E e \in Range(h.hostnames) : e.name = f.value
    [] f.type = "domain" -> \E e \in Range(h.hostnames) : f.value \in Range(e.domains)
    [] f.type = "service" -> HasPort(h, LAMBDA p : p.service = f.value)
    [] OTHER -> TRUE

Results(fs) == SelectSeq(Hosts, LAMBDA h : \A f \in fs : flt_from_query(h, f))
HostAt(a) == CHOOSE h \in Range(Hosts) : h.addr = a
Addresses == {h.addr : h \in Range(Hosts)}

-----------------------------------------------------------------------------
(* The tags: the highlighted ones first, then by importance, then in the    *)
(* order of the record.                                                     *)

TAG_TYPE_RANK(type) ==
  CASE type = "error" -> 0 [] type = "warning" -> 1 [] type = "success" -> 2
    [] type = "info" -> 3 [] OTHER -> 4

sortTagsByImportance(tags, active) ==
  LET key(t) == (IF t.value \in active THEN 1 ELSE 6) + TAG_TYPE_RANK(t.type) IN
    FlattenSeq([k \in 1..10 |-> SelectSeq(tags, LAMBDA t : k = key(t))])

-----------------------------------------------------------------------------
(* The tree of the names of a host.  A node is the path to it.              *)

Path(entry) ==
  LET path == Reverse(entry.domains) IN
    IF path # <<>> /\ Last(path) = entry.name THEN path ELSE Append(path, entry.name)
buildTree(hostnames) ==
  UNION {{SubSeq(Path(e), 1, n) : n \in DOMAIN Path(e)} : e \in Range(hostnames)}
isLeaf(hostnames, node) == \E e \in Range(hostnames) : Path(e) = node
children(tree, node) == {n \in tree : Front(n) = node}
hasChildren(tree, node) == children(tree, node) # {}

\* The names at or below each node.
tally(hostnames) ==
  LET tree == buildTree(hostnames)
      count[node \in tree] ==
        FoldSet(LAMBDA n, sum : sum + count[n],
                IF isLeaf(hostnames, node) THEN 1 ELSE 0, children(tree, node)) IN
    count

\* A name with nothing below it stands for itself, any other node for its domain.
NodeFilter(hostnames, node) ==
  Filter(IF isLeaf(hostnames, node) /\ ~hasChildren(buildTree(hostnames), node)
           THEN "hostname" ELSE "domain",
         Last(node))
\* The nodes that are drawn: those whose ancestors are all expanded.
DomainTree(h) ==
  {node \in buildTree(h.hostnames) :
     \A n \in 1..Len(node) - 1 : <<h.addr, SubSeq(node, 1, n)>> \in treeExpanded}

-----------------------------------------------------------------------------
(* The chips.                                                               *)

\* Slip: the ports of the query are left out.
HighlightsTyped(fs) == {f \in fs : f.type # None}
buildHighlightMap(fs) ==
  {Filter(IF f.type = None THEN "port" ELSE f.type, f.value) : f \in fs}
Highlighted(fs, type, value) == Filter(type, value) \in buildHighlightMap(fs)

Chip(fs, type, value) ==
  [filter |-> Filter(type, value), highlighted |-> Highlighted(fs, type, value)]
Chips(fs, type, values) == {Chip(fs, type, v) : v \in values \ {None}}

ActiveTags(fs) == {f.value : f \in {g \in fs : g.type = "tag"}}
visibleTags(h, fs, expanded, limit) ==
  LET sorted == sortTagsByImportance(h.tags, ActiveTags(fs)) IN
    IF expanded \/ Len(sorted) <= limit THEN sorted ELSE SubSeq(sorted, 1, limit)
hasOverflow(h, limit) == Len(h.tags) > limit
TagChips(h, fs, expanded, limit) ==
  Chips(fs, "tag", {t.value : t \in Range(visibleTags(h, fs, expanded, limit))})

\* The country, the AS and the sources of a card.
NetworkChips(h, fs) ==
  Chips(fs, "country", {h.country}) \cup Chips(fs, "asnum", {h.asnum})
    \cup Chips(fs, "source", h.sources)
DomainChips(h, fs) ==
  {[filter |-> NodeFilter(h.hostnames, node),
    highlighted |-> NodeFilter(h.hostnames, node) \in buildHighlightMap(fs)] :
     node \in DomainTree(h)}
CategoryChips(h, fs) == Chips(fs, "category", h.categories)

\* A port is marked for itself, its service or its product.
PortMatches(p, fs) ==
  \/ Highlighted(fs, "port", p.token)
  \/ p.service # None /\ Highlighted(fs, "service", p.service)
  \/ p.product # None /\ Highlighted(fs, "product", p.product)
PortChip(p, fs) == [filter |-> Filter(None, p.token), highlighted |-> PortMatches(p, fs)]
PortChips(h, fs) ==
  {PortChip(p, fs) : p \in {q \in Range(h.ports) : q.state = "open"}}

Card(h, fs, expanded) ==
  NetworkChips(h, fs) \cup DomainChips(h, fs) \cup CategoryChips(h, fs)
    \cup TagChips(h, fs, expanded, CardLimit) \cup PortChips(h, fs)

\* The chips of the sheet: the names are a list, and the services are chips.
HostnameChips(h, fs) == Chips(fs, "hostname", {e.name : e \in Range(h.hostnames)})
ServiceChips(h, fs) ==
  LET named == {p \in Range(h.ports) : p.service # None} IN
    Chips(fs, "service", {p.service : p \in named})
      \cup Chips(fs, "product", {p.product : p \in named})
SheetNetwork(h, fs) == NetworkChips(h, fs)
SheetTags(h, fs, expanded) == TagChips(h, fs, expanded, SheetLimit)
SheetCategories(h, fs) == CategoryChips(h, fs)
SheetPorts(h, fs) == PortChips(h, fs) \cup ServiceChips(h, fs)
HostDetailBody(h, fs, expanded) ==
  SheetNetwork(h, fs) \cup HostnameChips(h, fs) \cup SheetTags(h, fs, expanded)
    \cup SheetCategories(h, fs) \cup SheetPorts(h, fs)

formatServices(ports) ==
  FoldLeft(LAMBDA seen, p : IF Contains(seen, <<p.service, p.product>>) THEN seen
                              ELSE Append(seen, <<p.service, p.product>>),
           <<>>, SelectSeq(ports, LAMBDA p : p.service # None /\ p.state = "open"))

-----------------------------------------------------------------------------
(* What is on the page.                                                     *)

List(fs, l) == IF l THEN Results(fs) ELSE <<>>
Mounted(fs, l) == {h.addr : h \in Range(List(fs, l))}
selectedIndex(fs, l, a) ==
  IF a = None THEN 0 ELSE SelectInSeq(List(fs, l), LAMBDA h : h.addr = a)
\* The host of the sheet: that of the list, or the one fetched on its own.
selectedHost(fs, l, a, d) == a # None /\ (a \in Mounted(fs, l) \/ d)
SheetOpen == selectedHost(filters, loaded, routeAddr, direct)

\* Slip: what is expanded stays with the place in the list, not with the host.
KeptByPlace(expanded, l, fs) ==
  LET before == List(filters, loaded)
      after == List(fs, l) IN
    {after[i].addr : i \in {j \in DOMAIN after \cap DOMAIN before : before[j].addr \in expanded}}
\* The state of the cards goes with their host, and is lost with their card.
HostCardList(expanded, l, fs) == expanded \cap Mounted(fs, l)

Render(fs, l, a, d) ==
  /\ filters' = fs /\ loaded' = l /\ routeAddr' = a
  /\ direct' = (d /\ a # None)
  /\ treeExpanded' = {n \in treeExpanded : n[1] \in Mounted(fs, l)}
  /\ cardExpanded' = HostCardList(cardExpanded, l, fs)
  \* The body of the sheet has no key: it is the same for the next host.
  /\ sheetExpanded' = (sheetExpanded /\ SheetOpen /\ selectedHost(fs, l, a, direct'))

-----------------------------------------------------------------------------
(* The steps.                                                               *)

Init ==
  /\ filters = {} /\ loaded = FALSE /\ cardExpanded = {} /\ treeExpanded = {}
  /\ routeAddr \in Addresses \cup {None}
  /\ direct = FALSE /\ sheetExpanded = FALSE /\ clicked = None

AnswerList == ~loaded /\ Render(filters, TRUE, routeAddr, direct) /\ UNCHANGED clicked
AnswerDirect ==
  /\ routeAddr # None /\ routeAddr \notin Mounted(filters, loaded) /\ ~direct
  /\ Render(filters, loaded, routeAddr, TRUE) /\ UNCHANGED clicked

\* A filter that is in the query already is not added again.
addFilter(h, f) ==
  /\ f \notin filters /\ Cardinality(filters) < MaxFilters
  /\ clicked' = [addr |-> h.addr, filter |-> f]
  /\ \E cached \in BOOLEAN, d \in {direct, TRUE} :
       Render(filters \cup {f}, cached, routeAddr,
              routeAddr # None /\ routeAddr \notin Mounted(filters \cup {f}, cached) /\ d)

ClickCard ==
  /\ ~SheetOpen
  /\ \E h \in Range(List(filters, loaded)) :
       \E c \in Card(h, filters, h.addr \in cardExpanded) : addFilter(h, c.filter)
ClickSheet ==
  /\ SheetOpen
  /\ \E c \in HostDetailBody(HostAt(routeAddr), filters, sheetExpanded) :
       addFilter(HostAt(routeAddr), c.filter)
RemoveFilter ==
  /\ ~SheetOpen
  /\ \E f \in filters, cached \in BOOLEAN : Render(filters \ {f}, cached, routeAddr, direct)
  /\ clicked' = None

ToggleTags ==
  /\ ~SheetOpen
  /\ \E h \in Range(List(filters, loaded)) :
       /\ hasOverflow(h, CardLimit)
       /\ cardExpanded' = IF h.addr \in cardExpanded THEN cardExpanded \ {h.addr}
                                                     ELSE cardExpanded \cup {h.addr}
  /\ UNCHANGED <<filters, loaded, treeExpanded, routeAddr, direct, sheetExpanded, clicked>>

\* A node that is collapsed forgets what was expanded below it.
ToggleNode ==
  /\ ~SheetOpen
  /\ \E h \in Range(List(filters, loaded)) : \E node \in DomainTree(h) :
       /\ hasChildren(buildTree(h.hostnames), node)
       /\ treeExpanded' =
            IF <<h.addr, node>> \in treeExpanded
              THEN {n \in treeExpanded : ~(n[1] = h.addr /\ IsPrefix(node, n[2]))}
              ELSE treeExpanded \cup {<<h.addr, node>>}
  /\ UNCHANGED <<filters, loaded, cardExpanded, routeAddr, direct, sheetExpanded, clicked>>

ToggleSheetTags ==
  /\ SheetOpen /\ hasOverflow(HostAt(routeAddr), SheetLimit)
  /\ sheetExpanded' = ~sheetExpanded
  /\ UNCHANGED <<filters, loaded, cardExpanded, treeExpanded, routeAddr, direct, clicked>>

OpenSheet ==
  /\ ~SheetOpen
  /\ \E a \in Mounted(filters, loaded) : Render(filters, loaded, a, FALSE)
  /\ UNCHANGED clicked
\* Previous and next, in the list.
Walk ==
  /\ SheetOpen
  /\ \E step \in {0, 2} :
       LET i == selectedIndex(filters, loaded, routeAddr) IN
         /\ i > 0 /\ i + step - 1 \in DOMAIN List(filters, loaded)
         /\ Render(filters, loaded, List(filters, loaded)[i + step - 1].addr, FALSE)
  /\ UNCHANGED clicked
CloseSheet == SheetOpen /\ Render(filters, loaded, None, FALSE) /\ UNCHANGED clicked

Next ==
  \/ AnswerList \/ AnswerDirect \/ ClickCard \/ ClickSheet \/ RemoveFilter
  \/ ToggleTags \/ ToggleNode \/ ToggleSheetTags \/ OpenSheet \/ Walk \/ CloseSheet

Spec == Init /\ [][Next]_vars

-----------------------------------------------------------------------------
(* Properties.                                                              *)

OnScreen ==
  UNION {Card(h, filters, h.addr \in cardExpanded) : h \in Range(List(filters, loaded))}
    \cup (IF SheetOpen THEN HostDetailBody(HostAt(routeAddr), filters, sheetExpanded) ELSE {})

\* What is expanded is on the page: a card, or a node of one, of the list, and the
\* tags of a sheet that is open.
TypeOK ==
  /\ IsFiniteSet(filters) /\ {loaded, direct, sheetExpanded} \subseteq BOOLEAN
  /\ routeAddr \in Addresses \cup {None}
  /\ cardExpanded \subseteq Mounted(filters, loaded)
  /\ \A n \in treeExpanded :
       n[1] \in Mounted(filters, loaded) /\ n[2] \in buildTree(HostAt(n[1]).hostnames)
  /\ sheetExpanded => SheetOpen

\* A host is not lost by a click on one of its chips: it is in the list of the
\* query that the click makes.
ClickKeepsHost ==
  clicked # None /\ loaded /\ (\A f \in filters \ {clicked.filter} :
                                 flt_from_query(HostAt(clicked.addr), f))
    => clicked.addr \in Mounted(filters, loaded)

\* Every chip on the page whose filter is in the query is highlighted, on the
\* cards and in the sheet, wherever the filter came from.
QueryIsHighlighted ==
  \A c \in OnScreen : c.filter \in filters => c.highlighted

\* A click on a chip leaves hosts that have such a chip only: a filter of the
\* query is, on every host of the list, one of its chips, in its card or its sheet.
\* The products are left out: their chip (HostDetailSheet.tsx:454) adds a word that the
\* server leaves unused (utils.py:755), and the hosts without the product stay.
ResultsHaveTheChip ==
  \A h \in Range(List(filters, loaded)), f \in {g \in filters : g.type # "product"} :
    \/ f \in {c.filter : c \in HostDetailBody(h, filters, TRUE)}
    \/ \E node \in buildTree(h.hostnames) : NodeFilter(h.hostnames, node) = f
    \/ f.type = "domain" /\ Filter("hostname", f.value) \in
         {c.filter : c \in HostDetailBody(h, filters, TRUE)}

\* The tags of the query are not among the hidden ones, unless they fill the row;
\* and an error is not hidden while a tag of no importance, and not of the query,
\* is shown.
ImportantTagsAreShown ==
  \A h \in Range(List(filters, loaded)) :
    LET shown == Range(visibleTags(h, filters, h.addr \in cardExpanded, CardLimit))
        hidden == Range(h.tags) \ shown
        active == ActiveTags(filters) IN
      /\ \A t \in hidden : t.value \in active => \A s \in shown : s.value \in active
      /\ \A t \in hidden, s \in shown :
           s.type = "client" /\ s.value \notin active => t.type # "error"
      /\ hidden # {} => Cardinality(shown) = CardLimit

\* The number on a node of the tree is that of the names it leads to: the names
\* in its domain, once each, its own name among them.
NodesCountNames ==
  \A h \in Range(List(filters, loaded)) :
    \A node \in buildTree(h.hostnames) :
      tally(h.hostnames)[node] =
        Cardinality({e.name : e \in {x \in Range(h.hostnames) :
                                       Last(node) \in Range(x.domains)}})

\* The line of the services names every service of an open port, once, and none
\* of the ports in another state.
ServicesAreListedOnce ==
  \A h \in Range(List(filters, loaded)) :
    /\ IsInjective(formatServices(h.ports))
    /\ Range(formatServices(h.ports)) =
         {<<p.service, p.product>> :
            p \in {x \in Range(h.ports) : x.state = "open" /\ x.service # None}}

\* A card that stays on the page keeps its tags as the user left them, and a card
\* that comes has them collapsed, whatever happens to the list.
CardsKeepTheirTags ==
  \A a \in Addresses :
    (a \in cardExpanded) # (a \in cardExpanded') =>
      \/ a \notin Mounted(filters', loaded')
      \/ filters' = filters /\ loaded' = loaded /\ a \in Mounted(filters, loaded)
=============================================================================
