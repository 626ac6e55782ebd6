----------------------------- MODULE LegacyFlow -----------------------------
(***************************************************************************)
(* The classic page of the flows (ivre/flow/controllers.js): its query and  *)
(* the address of the page, the graph and the counts of its answers, the    *)
(* timeline that is hovered and played, the element that is clicked.        *)
(*                                                                          *)
(* An update sends two requests, for the graph and for the counts, whose    *)
(* answers are shown in the order they come.  A play is a chain of timers.  *)
(*                                                                          *)
(* The data of a graph is the sequence of its edges, which are flows, each  *)
(* with its set of times: a start and a length.  A flow that was stored     *)
(* without times has none.  The times become slots, that do not overlap;    *)
(* the timeline has a light over each slot and over each gap between two.   *)
(*                                                                          *)
(* A query is told by how many filters it has and by its first result.  The *)
(* requests are answered; only flows are clicked; what the mouse is over in *)
(* the graph, and the forward button of the browser, are left out.          *)
(***************************************************************************)
EXTENDS Integers, FiniteSets, Sequences, SequencesExt, FiniteSetsExt

CONSTANTS Datas,       \* the graphs that the server may answer
          Formats,     \* the display filters that may be typed
          Limit,       \* query.limit
          MaxFilters,  \* bound: the filters of the query
          MaxSkip,     \* bound: query.skip
          MaxPast,     \* bound: the addresses before
          MaxSends,    \* bound: the updates of the graph
          MaxClicks,   \* bound: the elements that are clicked
          MaxPlays,    \* bound: the plays of the timeline
          All,         \* all the flows are visible
          None         \* no address, no date, no element, no label

FlowPageAssumption ==
  /\ {Limit, MaxFilters, MaxSkip, MaxPast, MaxSends, MaxClicks, MaxPlays} \subseteq Nat
  /\ Formats # {}

VARIABLES
  ready,     \* the query builders that are loaded
  query,     \* the query of the page
  url,       \* the query of its address, or None
  past,      \* the addresses before
  requests,  \* those of the graph, of the counts and of the details
  sent,      \* how many updates were sent
  shown,     \* the graph that is shown: its query, its number and its data
  found,     \* the query that was counted, or None
  dated,     \* date_to_flow
  visible,   \* the flows that are visible, or All
  hovered,   \* the date that is hovered, or None
  playing,   \* the timeline is being played
  chains,    \* the timers: the play they belong to, the dates and the next one
  plays,     \* how many plays there were
  clicked,   \* the element that is clicked, or None
  details,   \* the elements that have details, and of which element they are
  format     \* the display filters

asked == <<ready, query, url, past, sent>>
graph == <<shown, found, dated>>
play == <<visible, hovered, playing, chains, plays>>
element == <<clicked, details>>
vars == <<ready, query, url, past, requests, sent, shown, found, dated, visible, hovered, playing,
          chains, plays, clicked, details, format>>

\* `count' is there once update_graph_data has set it.
Query(filters, skip, count) == [filters |-> filters, skip |-> skip, count |-> count]
Graph(of, id, data) == [query |-> of, id |-> id, data |-> data]

-----------------------------------------------------------------------------
(* The timeline of a graph: draw_timeline.                                  *)

Time(start, len) == [start |-> start, len |-> len]
End(t) == t.start + t.len
Flow(id, times) == [id |-> id, times |-> times]
FlowsOf(data) == {data[i].id : i \in DOMAIN data}
TimesOf(data) == UNION {data[i].times : i \in DOMAIN data}
Stamped(data) == UNION {{data[i].id} \X data[i].times : i \in DOMAIN data}

\* Only the first edge is looked at.
HasTimeline(data) == data # <<>> /\ data[1].times # {}

Detangle(slots, t) ==
  IF slots = <<>> \/ t.start >= End(Last(slots)) THEN Append(slots, t)
  ELSE IF End(t) > End(Last(slots))
  THEN ReplaceAt(slots, Len(slots), [Last(slots) EXCEPT !.len = End(t) - Last(slots).start])
  ELSE slots
Slots(data) ==
  FoldLeft(Detangle, <<>>,
           SetToSortSeq(TimesOf(data),
             LAMBDA a, b : a.start < b.start \/ (a.start = b.start /\ a.len < b.len)))

\* The date of a time is that of the slot before the first that comes later, or its own.
Later(slots, t) == {i \in DOMAIN slots : slots[i].start > t.start}
\* Slip: the slot that comes later.
DateOfNext(slots, t) ==
  IF Later(slots, t) = {} THEN t.start ELSE slots[Min(Later(slots, t))].start
DateOf(slots, t) ==
  IF Later(slots, t) = {} THEN t.start ELSE slots[Min(Later(slots, t)) - 1].start
date_to_flow(data) == {<<DateOf(Slots(data), p[2]), p[1]>> : p \in Stamped(data)}
FlowsAt(dates, date) == {p[2] : p \in {q \in dates : q[1] = date}}

-----------------------------------------------------------------------------
(* The lights.                                                              *)

time_prec(slots) == Min({slots[i].len : i \in DOMAIN slots})
Ceil(a, b) == (a + b - 1) \div b
Round(a, b) == (2 * a + b) \div (2 * b)
Index(slots, t) == Round(t.start - slots[1].start, time_prec(slots)) + 1
Grid(slots) ==
  [i \in 1 .. (Ceil(Last(slots).start - slots[1].start, time_prec(slots)) + 1) |->
     slots[1].start + time_prec(slots) * (i - 1)]
Splice(seq, from, n) ==
  IF from > Len(seq) THEN seq
  ELSE SubSeq(seq, 1, from - 1) \o SubSeq(seq, from + n, Len(seq))
\* The dates that a long slot covers go away, from the last slot to the first.
FromTheLast(seq) == Reverse(seq)
alldates(slots) ==
  FoldLeft(LAMBDA dates, t : Splice(dates, Index(slots, t) + 1, t.len \div time_prec(slots) - 1),
           Grid(slots), FromTheLast(slots))
Lights(data) == IF HasTimeline(data) THEN alldates(Slots(data)) ELSE <<>>
durations(slots, date) ==
  LET own == {i \in DOMAIN slots : Grid(slots)[Index(slots, slots[i])] = date}
  IN IF own = {} THEN time_prec(slots) ELSE slots[Max(own)].len

-----------------------------------------------------------------------------
(* The query.                                                               *)

\* The address follows a query that changes.
Sync(q) ==
  /\ query' = q
  /\ IF q = query THEN UNCHANGED <<url, past>>
     ELSE Len(past) < MaxPast /\ url' = q /\ past' = Append(past, url)
IsReady(builders) == builders = {"nodes", "edges"}
update_graph_data(builders, q) ==
  IF IsReady(builders)
  THEN /\ sent < MaxSends
       /\ sent' = sent + 1
       /\ requests' = requests \cup
            {[kind |-> k, of |-> q, id |-> sent + 1] : k \in {"graph", "counts"}}
  ELSE UNCHANGED <<requests, sent>>
Counted(builders, q) == IF IsReady(builders) THEN [q EXCEPT !.count = TRUE] ELSE q

\* A query builder is loaded.
Load(builder) ==
  /\ builder \notin ready
  /\ ready' = ready \cup {builder}
  /\ Sync(Counted(ready', query))
  /\ update_graph_data(ready', Counted(ready', query))
  /\ UNCHANGED <<graph, play, element, format>>
\* The graph of query p is asked for, and the query becomes q.
Ask(p, q) ==
  /\ Sync(Counted(ready, q))
  /\ update_graph_data(ready, Counted(ready, p))
  /\ UNCHANGED <<ready, graph, play, element, format>>
Update(q) == Ask(q, q)

\* A builder with n filters is submitted, with a new one or not.  The filters that were
\* emptied go away from the query of the page only when the graph has been asked for.
Submit(n) ==
  \E new \in 0 .. 1, emptied \in 0 .. n :
    /\ ready # {} /\ n + new <= MaxFilters
    /\ Ask([query EXCEPT !.filters = n + new, !.skip = 0],
           [query EXCEPT !.filters = n + new - emptied, !.skip = 0])
on_submit == Submit(query.filters)
RemoveFilter == query.filters > 0 /\ Submit(query.filters - 1)
\* A filter is added by the menu of an element: query_attr and query_label.
query_attr ==
  /\ shown.data # <<>> /\ query.filters < MaxFilters
  /\ Update([query EXCEPT !.filters = @ + 1])
Refresh == Update(query)
SkipMore == query.skip + Limit <= MaxSkip /\ Update([query EXCEPT !.skip = @ + Limit])
Fewer(skip) == IF skip - Limit < 0 THEN 0 ELSE skip - Limit
SkipLess == Update([query EXCEPT !.skip = Fewer(@)])
\* The fields of the form are the query itself: nothing is asked for.
TypeSkip ==
  \E skip \in 0 .. MaxSkip :
    /\ Sync([query EXCEPT !.skip = skip])
    /\ UNCHANGED <<ready, requests, sent, graph, play, element, format>>
QueryOf(address) == IF address = None THEN query ELSE address
Back ==
  /\ past # <<>>
  /\ url' = Last(past)
  /\ past' = Front(past)
  /\ query' = QueryOf(Last(past))
  /\ UNCHANGED <<ready, requests, sent, graph, play, element, format>>

-----------------------------------------------------------------------------
(* The answers.                                                             *)

draw_timeline(data) ==
  /\ dated' = IF HasTimeline(data) THEN date_to_flow(data) ELSE dated
  /\ hovered' = None
load_json(r, data) ==
  /\ r.kind = "graph"
  /\ requests' = requests \ {r}
  /\ shown' = Graph(r.of, r.id, data)
  /\ visible' = All
  /\ draw_timeline(data)
  /\ UNCHANGED <<asked, found, playing, chains, plays, element, format>>
ShowCounts(r) ==
  /\ r.kind = "counts"
  /\ requests' = requests \ {r}
  /\ found' = r.of
  /\ UNCHANGED <<asked, shown, dated, play, element, format>>
Detailed(r) == r.of
add_details(r) ==
  /\ r.kind = "details"
  /\ requests' = requests \ {r}
  /\ details' = details \cup {[elt |-> Detailed(r), of |-> r.of]}
  /\ UNCHANGED <<asked, graph, play, clicked, format>>
Answer ==
  \E r \in requests :
    \/ \E data \in Datas : load_json(r, data)
    \/ ShowCounts(r)
    \/ add_details(r)

-----------------------------------------------------------------------------
(* The timeline.                                                            *)

set_visible_from_date(date) ==
  visible' = IF date = None THEN All ELSE FlowsAt(dated, date)
\* A flow of another graph is not found, and the program fails.
InGraph(date) == FlowsAt(dated, date) \subseteq FlowsOf(shown.data)
Hover ==
  \E date \in ToSet(Lights(shown.data)) :
    /\ hovered = None
    /\ hovered' = date
    /\ set_visible_from_date(date)
    /\ UNCHANGED <<asked, requests, graph, playing, chains, plays, element, format>>
Leave ==
  /\ hovered # None
  /\ hovered' = None
  /\ set_visible_from_date(None)
  /\ UNCHANGED <<asked, requests, graph, playing, chains, plays, element, format>>

\* Slip: the play starts again after its last frame.
FollowingAround(c) == [c EXCEPT !.at = IF @ = Len(c.dates) THEN 1 ELSE @ + 1]
Following(c) == [c EXCEPT !.at = @ + 1]
\* One frame of a chain; others are the other chains.
play_next(c, others) ==
  IF ~playing' \/ c.at > Len(c.dates)
  THEN /\ set_visible_from_date(None)
       /\ chains' = others
  ELSE IF InGraph(c.dates[c.at])
  THEN /\ set_visible_from_date(c.dates[c.at])
       /\ chains' = others \cup {Following(c)}
  ELSE visible' = visible /\ chains' = others
\* Its button is that of a form which draws the timeline again.
play_timeline ==
  /\ ~playing /\ plays < MaxPlays
  /\ plays' = plays + 1
  /\ LET c == [play |-> plays + 1, dates |-> Lights(shown.data), at |-> 1] IN
       /\ playing' = (c.dates # <<>>)
       /\ play_next(c, chains)
  /\ hovered' = None
  /\ UNCHANGED <<asked, requests, graph, element, format>>
Ends(c) == ~playing \/ c.at > Len(c.dates)
Timer(c) ==
  /\ playing' = (playing /\ ~Ends(c))
  /\ play_next(c, chains \ {c})
  /\ UNCHANGED <<asked, requests, graph, hovered, plays, element, format>>
StopShows == set_visible_from_date(None)
stop_timeline ==
  /\ playing
  /\ playing' = FALSE
  /\ StopShows
  /\ hovered' = None
  /\ UNCHANGED <<asked, requests, graph, chains, plays, element, format>>

-----------------------------------------------------------------------------
(* The element that is clicked, and the display filters.                    *)

Element(id) == [graph |-> shown.id, elt |-> id]
has_details(e) == \E d \in details : d.elt = e
click_elt ==
  \E id \in FlowsOf(shown.data), force \in BOOLEAN :
    /\ Cardinality({r \in requests : r.kind = "details"}) + Cardinality(details) < MaxClicks
    /\ clicked' = Element(id)
    /\ requests' = requests \cup
         IF has_details(Element(id)) /\ ~force THEN {}
         ELSE {[kind |-> "details", of |-> Element(id), id |-> 0]}
    /\ UNCHANGED <<asked, graph, play, details, format>>
click_stage ==
  /\ clicked' = None
  /\ UNCHANGED <<asked, requests, graph, play, details, format>>

\* A display filter is a sequence of criteria, each of a label or of all.
Criterion(label, of) == [label |-> label, of |-> of]
gfmt_parse_all ==
  \E f \in Formats :
    /\ format' = f
    /\ UNCHANGED <<asked, requests, graph, play, element>>
Specials == {"$in", "$out"}
\* The getters of attributes read the one criterion that was parsed last.
Wanted(type, label) ==
  LET own == {i \in DOMAIN format[type] : format[type][i].label = label}
      common == {i \in DOMAIN format[type] : format[type][i].label = None}
  IN IF own # {} THEN format[type][Max(own)].of
     ELSE IF common # {} THEN format[type][Max(common)].of ELSE None
LastParsed == Last(format.nodes \o format.edges).of
fmt(type, label) ==
  IF Wanted(type, label) \in Specials \cup {None} THEN Wanted(type, label) ELSE LastParsed

-----------------------------------------------------------------------------
Init ==
  /\ ready = {} /\ query = Query(0, 0, FALSE) /\ url = query /\ past = <<None>>
  /\ requests = {} /\ sent = 0
  /\ shown = Graph(None, 0, <<>>) /\ found = None /\ dated = {}
  /\ visible = All /\ hovered = None /\ playing = FALSE /\ chains = {} /\ plays = 0
  /\ clicked = None /\ details = {}
  /\ format \in Formats

Next ==
  \/ \E b \in {"nodes", "edges"} : Load(b)
  \/ on_submit \/ RemoveFilter \/ query_attr \/ Refresh \/ SkipMore \/ SkipLess \/ TypeSkip \/ Back
  \/ Answer
  \/ Hover \/ Leave
  \/ play_timeline \/ stop_timeline \/ \E c \in chains : Timer(c)
  \/ click_elt \/ click_stage
  \/ gfmt_parse_all
Spec == Init /\ [][Next]_vars
\* The timers fire.
FairSpec == Spec /\ WF_vars(\E c \in chains : Timer(c))

-----------------------------------------------------------------------------
(* Properties.                                                              *)

TypeOK ==
  /\ ready \subseteq {"nodes", "edges"}
  /\ query \in [filters : 0 .. MaxFilters, skip : 0 .. MaxSkip, count : BOOLEAN]
  /\ Len(past) <= MaxPast
  /\ visible = All \/ visible \subseteq UNION {FlowsOf(d) : d \in Datas}
  /\ \A c \in chains : c.at \in 1 .. Len(c.dates) + 1 /\ c.play \in 1 .. plays

\* The address of the page is the one of its query.
UrlIsTheQuery == url # None => url = query

\* When nothing is played nor hovered, all the flows are visible.
StoppedShowsAll == (~playing /\ hovered = None) => visible = All

\* The element that is clicked has its details, or they are on their way, and no element
\* has those of another.
ClickedHasDetails ==
  /\ clicked # None =>
       has_details(clicked) \/ \E r \in requests : r.kind = "details" /\ r.of = clicked
  /\ \A d \in details : d.elt = d.of

\* A size is the one of the criterion that was typed for it.
SizeIsTyped ==
  \A type \in {"nodes", "edges"} :
    \A label \in {None, "Flow", "Host"} : fmt(type, label) = Wanted(type, label)

slots == Slots(shown.data)
\* The slots are apart, and each time is in one of them.
SlotsHoldTimes ==
  LET data == shown.data IN
    /\ \A i, j \in DOMAIN slots : i < j => End(slots[i]) <= slots[j].start
    /\ \A t \in TimesOf(data) :
         \E i \in DOMAIN slots : slots[i].start <= t.start /\ End(t) <= End(slots[i])

\* The lights are apart, and there is one over each slot.
LightsAreApart ==
  HasTimeline(shown.data) =>
    LET dates == Lights(shown.data) IN
      /\ \A i \in DOMAIN slots : slots[i].start \in ToSet(dates)
      /\ \A i, j \in DOMAIN dates : i < j => dates[i] + durations(slots, dates[i]) <= dates[j]

LitBy(slot) == FlowsAt(dated, slot.start)
FlowsWith(P(_)) == {p[1] : p \in {q \in Stamped(shown.data) : P(q[2])}}
Within(slot, t) == t.start >= slot.start /\ End(t) <= End(slot)
\* The light of each slot shows the flows of its times, but for the last slot: a time that
\* it took in keeps a date of its own, which no light has, so that its flow is not shown
\* (controllers.js:593-599); the last light shows the flows that start with its slot.
SlotsShowTheirFlows ==
  HasTimeline(shown.data) =>
    /\ \A i \in 1 .. Len(slots) - 1 :
         LitBy(slots[i]) = FlowsWith(LAMBDA t : Within(slots[i], t))
    /\ LitBy(Last(slots)) = FlowsWith(LAMBDA t : t.start = Last(slots).start)
=============================================================================
