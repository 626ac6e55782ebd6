---------------------------- MODULE FlowExplorer ----------------------------
(***************************************************************************)
(* The Flow section of the web interface: the form of the filter, the graph *)
(* and the counts of the flows, and the sheet of one host or one flow       *)
(* (flow.tsx, FlowFilterPanel.tsx, FlowGraph.tsx, FlowDetailSheet.tsx, the   *)
(* hooks of api.ts and GET /flows of app.py).                               *)
(*                                                                          *)
(* The address holds the filter that is applied and what the sheet shows;   *)
(* the form holds a draft.  The browser has the address at once, the page   *)
(* is rendered for it a little later, and the user acts on what is rendered,*)
(* before that too.                                                         *)
(*                                                                          *)
(* A filter is a function on the fields that are set.  A text is a sequence *)
(* of characters, of which " " and "\n" matter.  An identifier is a         *)
(* sequence too: the address of a host may hold ":".                        *)
(***************************************************************************)
EXTENDS Integers, FiniteSets, Sequences, SequencesExt, Functions

CONSTANTS Keystrokes, Pasted,   \* what is typed and pasted as node filters
          Offered,              \* what is chosen for the other fields
          MaxText,              \* bound: the length of the text
          Clauses,              \* per clause the server understands, the flows it keeps
          Flows,                \* per flow, its source and its destination
          Known,                \* the flows the server has at the start
          Start,                \* the address that is opened
          MayFail,              \* whether requests may fail
          MaxMoves, MaxFlows,   \* bounds: the user's moves, the flows that are added
          None, Typo, NoData, Sent, Refused

FlowAssumption ==
  /\ MayFail \in BOOLEAN /\ {MaxMoves, MaxFlows, MaxText} \subseteq Nat
  /\ Known \subseteq DOMAIN Flows

VARIABLES
  flows,     \* the flows on the server
  history, at,  \* the addresses of the tab, and which is current
  shown,     \* the address the page is rendered for
  draft,     \* the filter in the form
  cache,     \* per request that was made, its data, its failure and its state
  canvas,    \* the graph that is drawn and what is selected there, or None
  moves,
  edited,    \* the user changed the form since the last filter was applied or gone to
  hasty,     \* something was done before the page followed the address
  text,      \* the text the user means as node filters
  applied,   \* the filter the user applied last, None after another move
  tapped     \* the element that was tapped last, if the sheet is about it

page == <<history, at, shown>>
ghosts == <<edited, hasty, text, applied, tapped>>
vars == <<flows, page, draft, cache, canvas, moves, ghosts>>

Values(f) == {f[x] : x \in DOMAIN f}
Only(f, s) == [x \in DOMAIN f \cap s |-> f[x]]
EmptyFilter == <<>>
Set(f, key, value) == [x \in DOMAIN f \cup {key} |-> IF x = key THEN value ELSE f[x]]
Get(f, key, default) == IF key \in DOMAIN f THEN f[key] ELSE default

-----------------------------------------------------------------------------
(* The form.                                                                *)

Lines(t) ==
  FoldLeft(LAMBDA ls, c : IF c = "\n" THEN Append(ls, <<>>) ELSE [ls EXCEPT ![Len(ls)] = Append(@, c)],
           << <<>> >>, t)
trim(line) ==
  LET ink == {i \in DOMAIN line : line[i] # " "} IN
    IF ink = {} THEN <<>>
    ELSE SubSeq(line, CHOOSE i \in ink : \A j \in ink : i <= j, CHOOSE i \in ink : \A j \in ink : i >= j)
splitFilters(t) == SelectSeq([i \in DOMAIN Lines(t) |-> trim(Lines(t)[i])], LAMBDA l : l # <<>>)
join(clauses) ==
  FoldLeft(LAMBDA t, c : IF t = <<>> THEN c ELSE t \o <<"\n">> \o c, <<>>, clauses)
FlowFilterPanel == [nodes |-> join(Get(draft, "nodes", <<>>)), mode |-> Get(draft, "mode", "default"),
                    orderby |-> Get(draft, "orderby", ""), limit |-> Get(draft, "limit", "")]

Blank(f, k) == IF k = "nodes" THEN f[k] = <<>> ELSE f[k] = None
stripEmpty(f) == Only(f, {k \in DOMAIN f : ~Blank(f, k)})
decodeQuery(q) == IF q \in {None, Typo} THEN EmptyFilter ELSE q

-----------------------------------------------------------------------------
(* The requests.  An answer is about the flows of the time it is computed.  *)

effective(u) == decodeQuery(u.q) @@ [limit |-> 1000]
useFlowGraph(u) == [kind |-> "graph", query |-> effective(u)]
\* Slip: the filter is not part of the key.
useAnyCounts(u) == [kind |-> "counts", query |-> effective(Start)]
useFlowCounts(u) == [kind |-> "counts", query |-> effective(u)]
useFlowDetails(s) == [kind |-> "details", query |-> s]

parseDetail(d) ==
  IF d = None THEN None
  ELSE LET colons == {i \in DOMAIN d : d[i] = ":"}
           idx == CHOOSE i \in colons : \A j \in colons : i <= j
       IN  IF colons = {} THEN None
           ELSE IF idx # 2 \/ d[1] \notin {"node", "edge"} \/ Len(d) = idx THEN None
           ELSE [type |-> d[1], id |-> SubSeq(d, idx + 1, Len(d))]
selection == parseDetail(shown.detail)
Sheet == selection # None

Observed(u) ==
  {useFlowGraph(u), useFlowCounts(u)}
    \cup (IF parseDetail(u.detail) = None THEN {} ELSE {useFlowDetails(parseDetail(u.detail))})

NoEntry == [data |-> NoData, failed |-> FALSE, request |-> None]
Entry(c, k) == IF k \in DOMAIN c THEN c[k] ELSE NoEntry
Fetching == \E k \in {useFlowGraph(shown), useFlowCounts(shown)} : Entry(cache, k).request # None
HasError(k) == Entry(cache, k).failed
isError == HasError(useFlowCounts(shown)) \/ HasError(useFlowGraph(shown))
CountsHeader == IF isError THEN "Failed to load flow counts."
                ELSE IF Entry(cache, useFlowCounts(shown)).data = NoData THEN "Loading" ELSE "Tiles"
FlowDetailSheet ==
  LET e == Entry(cache, useFlowDetails(selection)) IN
    IF e.failed THEN Refused ELSE e.data

-----------------------------------------------------------------------------
(* The server.                                                              *)

from_filters(query) ==
  {f \in flows : \A i \in DOMAIN Get(query, "nodes", <<>>) : f \in Clauses[query.nodes[i]]}
Understood(query) == Values(Get(query, "nodes", <<>>)) \subseteq DOMAIN Clauses

Pair(f) == <<Flows[f].src, Flows[f].dst>>
\* In the two maps, the flows from one host to another are one edge, which has
\* the identifier of the first one.  The order of the flows is any.
cursor2json_graph(sel, mode) ==
  LET edges == IF mode = "default" THEN {{f} : f \in sel}
               ELSE {{f \in sel : Pair(f) = p} : p \in {Pair(f) : f \in sel}}
  IN  {[nodes |-> UNION {{Flows[f].src, Flows[f].dst} : f \in sel}, edges |-> Values(first)]
         : first \in {g \in [edges -> sel] : \A e \in edges : g[e] \in e}}
to_graph(query) ==
  LET sel == from_filters(query)
      n == IF Cardinality(sel) < query.limit THEN Cardinality(sel) ELSE query.limit
  IN  UNION {cursor2json_graph(cut, Get(query, "mode", "default"))
               : cut \in {s \in SUBSET sel : Cardinality(s) = n}}
count(query) == {[flows |-> Cardinality(from_filters(query))]}
\* A host has an answer even when it has no flow.
host_details(addr) ==
  {[elt |-> addr,
    servers |-> {Flows[f].dst : f \in {g \in flows : Flows[g].src = addr}},
    clients |-> {Flows[f].src : f \in {g \in flows : Flows[g].dst = addr /\ Flows[g].src # addr}}]}
flow_details(id) == IF id \in flows THEN {[elt |-> id]} ELSE {Refused}
get_flow(k) ==
  CASE k.kind = "details" /\ k.query.type = "node" -> host_details(k.query.id)
    [] k.kind = "details" /\ k.query.type = "edge" -> flow_details(k.query.id)
    [] k.kind # "details" /\ ~Understood(k.query) -> {Refused}
    [] k.kind = "graph" /\ Understood(k.query) -> to_graph(k.query)
    [] k.kind = "counts" /\ Understood(k.query) -> count(k.query)

-----------------------------------------------------------------------------
Fetch(e) == [data |-> e.data, failed |-> e.data # NoData /\ e.failed, request |-> Sent]

Ask(keys) == [k \in keys |-> Fetch(NoEntry)]
Init ==
  /\ flows = Known /\ history = <<Start>> /\ at = 1 /\ shown = Start
  /\ draft = decodeQuery(Start.q) /\ cache = Ask(Observed(Start)) /\ canvas = None
  /\ moves = 0 /\ edited = FALSE /\ hasty = FALSE /\ text = join(Get(draft, "nodes", <<>>))
  /\ applied = None /\ tapped = None

url == history[at]
Move == moves < MaxMoves /\ moves' = moves + 1
Follows == url = shown
Acts == Move /\ hasty' = (hasty \/ ~Follows)
setSearchParams(u) ==
  /\ history' = Append(SubSeq(history, 1, at), u) /\ at' = at + 1
  /\ UNCHANGED shown

-----------------------------------------------------------------------------
(* The user and the form.                                                   *)

update(key, value) ==
  /\ Acts /\ ~Sheet /\ draft' = Set(draft, key, value) /\ edited' = TRUE
  /\ UNCHANGED <<flows, page, cache, canvas, applied, tapped>>

Choose(key) ==
  /\ \E value \in Offered[key] : value # Get(draft, key, None) /\ update(key, value)
  /\ UNCHANGED text

\* At the end of the text that is shown, which has no blank there.
TypeNode ==
  /\ Len(text) < MaxText
  /\ \E c \in Keystrokes : /\ update("nodes", splitFilters(Append(FlowFilterPanel.nodes, c)))
                           /\ text' = Append(text, c)
\* In place of the whole text.
PasteNodes ==
  \E t \in Pasted : /\ t # FlowFilterPanel.nodes
                     /\ update("nodes", splitFilters(t)) /\ text' = t

\* The button is disabled while something is asked for.
apply ==
  /\ Acts /\ ~Sheet /\ ~Fetching
  /\ LET cleaned == stripEmpty(draft) IN
       /\ setSearchParams([q |-> IF cleaned = EmptyFilter THEN None ELSE cleaned, detail |-> shown.detail])
       /\ applied' = cleaned
  /\ edited' = FALSE
  /\ UNCHANGED <<flows, draft, cache, canvas, text, tapped>>

\* Back and forward.  Another filter is what the user means from then on.
Travel ==
  /\ Move
  /\ at' \in {at - 1, at + 1} \cap DOMAIN history
  /\ applied' = None /\ tapped' = None
  /\ LET q == history[at'].q IN
       IF q = url.q THEN hasty' = (hasty \/ ~Follows) /\ UNCHANGED <<edited, text>>
       ELSE /\ hasty' = ~Follows /\ edited' = FALSE
            /\ text' = join(Get(decodeQuery(q), "nodes", <<>>))
  /\ UNCHANGED <<flows, history, shown, draft, cache, canvas>>

-----------------------------------------------------------------------------
(* The graph and the sheet.                                                 *)

setSelection(next) == setSearchParams([q |-> shown.q, detail |-> next])

Elements(g) == {<<"node", n>> : n \in g.nodes} \cup {<<"edge", e>> : e \in g.edges}
Drawn == IF canvas = None THEN {} ELSE Elements(canvas.graph)
onSelect ==
  /\ Acts /\ ~Sheet
  /\ \E elt \in Drawn :
       /\ setSelection(<<elt[1], ":">> \o elt[2])
       /\ canvas' = [canvas EXCEPT !.selected = {elt}]
       /\ tapped' = [type |-> elt[1], id |-> elt[2]]
  /\ UNCHANGED <<flows, draft, cache, edited, text, applied>>
onClose ==
  /\ Acts /\ Sheet
  /\ setSelection(None) /\ tapped' = None
  /\ UNCHANGED <<flows, draft, cache, canvas, edited, text, applied>>

\* The graph is drawn anew, with nothing selected, when it is another one; there
\* is none while it is loaded, when it failed, or when it is empty.
FlowGraph(c, u) ==
  LET e == Entry(c, useFlowGraph(u)) IN
    IF e.data = NoData \/ e.failed THEN None
    ELSE IF e.data.nodes = {} THEN None ELSE [graph |-> e.data, selected |-> {}]
Redraw(c, u) == canvas' = FlowGraph(c, u)

-----------------------------------------------------------------------------
(* The page.                                                                *)

\* The effect on `q', of which only the text matters.
resync == draft' = IF url.q = shown.q THEN draft ELSE decodeQuery(url.q)

\* What is no longer observed is aborted; what was not observed is fetched when
\* there are no data, and may be when they are old.
Rerender ==
  /\ url # shown /\ shown' = url
  /\ LET new == Observed(url) \ Observed(shown)
         old == Observed(shown) \ Observed(url)
         calm == [k \in DOMAIN cache |-> IF k \in old THEN [cache[k] EXCEPT !.request = None] ELSE cache[k]]
         missing == {k \in new : Entry(calm, k).data = NoData}
     IN  \E stale \in SUBSET (new \ missing) :
           cache' = [k \in DOMAIN cache \cup new |->
                       IF k \in missing \cup stale THEN Fetch(Entry(calm, k)) ELSE Entry(calm, k)]
  /\ resync
  /\ IF useFlowGraph(url) = useFlowGraph(shown) THEN UNCHANGED canvas ELSE Redraw(cache', url)
  /\ UNCHANGED <<flows, history, at, moves, ghosts>>

Serve ==
  /\ \E k \in Observed(shown) :
       /\ Entry(cache, k).request = Sent
       /\ \E v \in get_flow(k) \cup (IF MayFail THEN {Refused} ELSE {}) :
            cache' = [cache EXCEPT ![k].request = v]
  /\ UNCHANGED <<flows, page, draft, canvas, moves, ghosts>>

Settled(e) == IF e.request = Refused THEN [data |-> e.data, failed |-> TRUE, request |-> None]
              ELSE [data |-> e.request, failed |-> FALSE, request |-> None]
Receive ==
  \E k \in Observed(shown) :
    /\ Entry(cache, k).request \notin {None, Sent}
    /\ cache' = [cache EXCEPT ![k] = Settled(@)]
    /\ IF k = useFlowGraph(shown) THEN Redraw(cache', shown) ELSE UNCHANGED canvas
    /\ UNCHANGED <<flows, page, draft, moves, ghosts>>

\* The connection comes back: what is old is asked for again.
refetchOnReconnect ==
  /\ Move /\ url = shown
  /\ \E k \in Observed(shown) :
       /\ Entry(cache, k).request = None
       /\ cache' = [cache EXCEPT ![k] = Fetch(@)]
  /\ UNCHANGED <<flows, page, draft, canvas, ghosts>>

post_flow ==
  /\ Cardinality(flows) < Cardinality(Known) + MaxFlows
  /\ \E f \in DOMAIN Flows \ flows : flows' = flows \cup {f}
  /\ UNCHANGED <<page, draft, cache, canvas, moves, ghosts>>

Next ==
  \/ \E key \in DOMAIN Offered : Choose(key)
  \/ TypeNode \/ PasteNodes \/ apply \/ Travel \/ onSelect \/ onClose
  \/ Rerender \/ Serve \/ Receive \/ refetchOnReconnect \/ post_flow

\* The page is rendered, the server answers, and what was asked for arrives.
Fairness == WF_vars(Rerender) /\ WF_vars(Serve) /\ WF_vars(Receive)
Spec == Init /\ [][Next]_vars /\ Fairness

-----------------------------------------------------------------------------
(* The properties.                                                          *)

Clean(line) == line # <<>> /\ line[1] # " " /\ line[Len(line)] # " " /\ \A i \in DOMAIN line : line[i] # "\n"
Fields == {"nodes", "mode", "orderby", "limit"}

\* The form never holds a clause that is empty or that is not trimmed, and every
\* request is about what the page shows or was aborted (FlowFilterPanel.tsx).
TypeOK ==
  /\ flows \subseteq DOMAIN Flows /\ at \in DOMAIN history
  /\ DOMAIN draft \subseteq Fields /\ \A i \in DOMAIN Get(draft, "nodes", <<>>) : Clean(draft.nodes[i])
  /\ \A k \in DOMAIN cache : cache[k].request # None => k \in Observed(shown)
  /\ canvas # None => canvas.selected \subseteq Drawn /\ Drawn # {}

\* What the user typed or pasted as node filters since a filter was gone to is in the
\* form, whatever was applied, tapped or closed since: not the blanks, of which each one
\* at the end of a line is gone before the next key, so that neither "x y" nor a second
\* line can be typed (FlowFilterPanel.tsx:284, against the comments at 53 and 280); and
\* not what was done before the page followed the address, which the effect of flow.tsx
\* on `q' replaces.
Ink(t) == SelectSeq(t, LAMBDA c : c \notin {" ", "\n"})
TypedIsKept == url = shown /\ ~hasty => Ink(FlowFilterPanel.nodes) = Ink(text)

\* When nothing was put in the form since, it holds the filter that is applied,
\* whichever way that was reached: apply, back, forward or a link (flow.tsx).
FormIsOfTheAddress ==
  url = shown /\ ~edited /\ ~hasty
    => Only(draft, {k \in DOMAIN draft : ~Blank(draft, k)}) = decodeQuery(shown.q)

\* Opening and closing the sheet keep the filter that was applied, but from a page that
\* does not follow the address, whose filter they put back (setSelection).
AppliedStays ==
  url = shown /\ applied # None /\ ~hasty => decodeQuery(shown.q) = applied

\* The sheet is about the element that was tapped, and what it shows too, also for
\* an address with ":" (parseDetail and useFlowDetails); Apply, pressed before the page
\* follows a tap, closes it again.
SheetIsOfTapped ==
  url = shown /\ tapped # None /\ ~hasty =>
    /\ selection = tapped
    /\ FlowDetailSheet \notin {NoData, Refused} => FlowDetailSheet.elt = tapped.id

\* What is drawn is what the filter of the address keeps, no more than its limit,
\* with both ends of each edge and no other host (useFlowGraph, FlowGraph).
DrawnIsFiltered ==
  canvas # None =>
    LET f == decodeQuery(shown.q) IN
      /\ \A e \in canvas.graph.edges : \A i \in DOMAIN Get(f, "nodes", <<>>) : e \in Clauses[f.nodes[i]]
      /\ Cardinality(canvas.graph.edges) <= Get(f, "limit", 1000)
      /\ canvas.graph.nodes = UNION {{Flows[e].src, Flows[e].dst} : e \in canvas.graph.edges}

\* While no flow is added, the tiles and the graph, which are two requests, agree.
CountsAreOfTheGraph ==
  LET f == decodeQuery(shown.q)
      c == Entry(cache, useFlowCounts(shown)).data
  IN  canvas # None /\ CountsHeader = "Tiles" /\ Get(f, "mode", "default") = "default"
        => Cardinality(canvas.graph.edges) =
             IF c.flows < Get(f, "limit", 1000) THEN c.flows ELSE Get(f, "limit", 1000)

\* The page is that of the address, and each request has its answer or its error
\* there.
PageSettled ==
  /\ url = shown
  /\ \A k \in Observed(shown) : /\ Entry(cache, k).request = None
                                /\ Entry(cache, k).data # NoData \/ Entry(cache, k).failed
=============================================================================
