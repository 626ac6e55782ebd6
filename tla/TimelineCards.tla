--------------------------- MODULE TimelineCards ---------------------------
(***************************************************************************)
(* The results of Active, Passive and DNS in the web interface are drawn    *)
(* twice: as cards, in a list, and as rows of a timeline (Timeline.tsx and  *)
(* lib/timeline.ts; the wiring is in host-list.tsx, passive-list.tsx and    *)
(* dns.tsx).  The record under the pointer is highlighted in both, and a    *)
(* click on a row scrolls to its card, which is found by its place.         *)
(*                                                                          *)
(* Filters are added and removed by links between queries.  The children of *)
(* the list are reconciled by their keys, the way React does it.            *)
(***************************************************************************)
EXTENDS Integers, FiniteSets, SequencesExt

CONSTANTS Answers,   \* per query, its records: [id, key, firstseen, lastseen, count]
          Scale,     \* the milliseconds of a second (1000)
          Threshold, \* below it, a number is in seconds (10^11)
          MaxMoves,  \* bound: the changes of query
          None       \* nowhere, no hover, not a date, no card

TimelineAssumption ==
  Scale \in Nat \ {0} /\ Threshold \in Nat /\ MaxMoves \in Nat

VARIABLES
  query,    \* the query of the address
  cached,   \* the queries that were answered
  cards,    \* the cards of the list
  ghosts,   \* cards that React lost track of, and that are still on the page
  cardRefs, \* per place, the card
  hoveredIndex,
  pointer,  \* the place and the kind of what is under the pointer, or None
  scrolled, \* the record whose row was clicked last and the card it scrolled to, or None
  moves

vars == <<query, cached, cards, ghosts, cardRefs, hoveredIndex, pointer, scrolled, moves>>

Queries == DOMAIN Answers
records == IF query \in cached THEN Answers[query] ELSE <<>>

-----------------------------------------------------------------------------
(* Dates, widths and places of the rows.                                    *)

timelineDateMs(value) ==
  IF value = None THEN None ELSE IF value < Threshold THEN value * Scale ELSE value
Larger(a, b) == IF a > b THEN a ELSE b
\* In milliseconds.
timelineDuration(r) ==
  LET first == timelineDateMs(r.firstseen) last == timelineDateMs(r.lastseen) IN
    IF None \in {first, last} THEN 0 ELSE Larger(0, last - first)

\* A ratio is a pair: its numerator, and its denominator, which is positive.
Leq(a, b) == a[1] * b[2] <= b[1] * a[2]
\* Per second, an instant counting for one.
timelineDensity(r) == <<r.count * Scale, Larger(timelineDuration(r), Scale)>>
densest(rs) == CHOOSE d \in {timelineDensity(r) : r \in Range(rs)} :
                 \A r \in Range(rs) : Leq(timelineDensity(r), d)

minWidth == 1
maxWidth == 8
timelineStrokeWidths(rs, i) ==
  LET d == timelineDensity(rs[i])
      max == densest(rs) IN
    IF max[1] <= 0 THEN <<minWidth, 1>>
    ELSE LET whole == d[2] * max[1] IN
      <<minWidth * whole + d[1] * max[2] * (maxWidth - minWidth), whole>>

VIEW_WIDTH == 1000
SVG_PADDING_X == 8
usableWidth == VIEW_WIDTH - 2 * SVG_PADDING_X
Valid(rs) ==
  (UNION {{timelineDateMs(r.firstseen), timelineDateMs(r.lastseen)} : r \in Range(rs)}) \ {None}
minMs(rs) == CHOOSE m \in Valid(rs) : \A n \in Valid(rs) : m <= n
maxMs(rs) == CHOOSE m \in Valid(rs) : \A n \in Valid(rs) : m >= n
\* The place of a date, from the left; what is no date is at the left end.
xFor(rs, ms) ==
  LET span == Larger(1, maxMs(rs) - minMs(rs)) IN
    IF ms = None THEN <<SVG_PADDING_X, 1>>
    ELSE <<SVG_PADDING_X * span + (ms - minMs(rs)) * usableWidth, span>>

\* The rows that are drawn: none when no date can be read.
computeLayout(rs) ==
  IF Valid(rs) = {} THEN <<>>
  ELSE [i \in DOMAIN rs |->
    LET x1 == xFor(rs, timelineDateMs(rs[i].firstseen))
        x2 == xFor(rs, timelineDateMs(rs[i].lastseen)) IN
      [kind |-> IF Leq(x1, x2) /\ Leq(x2, x1) THEN "instant" ELSE "line",
       x1 |-> x1, x2 |-> x2, width |-> timelineStrokeWidths(rs, i)]]

-----------------------------------------------------------------------------
(* The cards.                                                               *)

\* React compares the children in order while their keys agree.  From there on the
\* children that were there are looked up by their key, and removed if they were
\* not found: of two with one key, the first can neither be found nor removed.
Agree(old, new) ==
  Cardinality({n \in 1..Len(old) : n <= Len(new) /\ \A i \in 1..n : old[i].key = new[i].key})
Untracked(old, new) ==
  LET p == Agree(old, new) IN
    IF p = Len(new) \/ p = Len(old) THEN {}
    ELSE {old[i].id : i \in {j \in p + 1..Len(old) :
                               \E k \in j + 1..Len(old) : old[k].key = old[j].key}}

\* The functions that register the cards are new with each render: every card of
\* before is taken back first, then those that are there are registered.
registerCardRef(old, new) ==
  [i \in 1..Len(old) \cup 1..Len(new) |-> IF i \in DOMAIN new THEN new[i].id ELSE None]

\* What is under the pointer is still there: a row of the same kind, a card of the
\* same key.
Stays(old, new) ==
  CASE pointer = None -> FALSE
    [] pointer # None /\ pointer[1] = "row" ->
         /\ pointer[2] \in DOMAIN computeLayout(new)
         /\ computeLayout(new)[pointer[2]].kind = computeLayout(old)[pointer[2]].kind
    [] pointer # None /\ pointer[1] = "card" ->
         /\ pointer[2] \in DOMAIN new
         /\ new[pointer[2]].key = old[pointer[2]].key
\* The card under the pointer goes elsewhere in the list: the pointer leaves it.
MovesAway(old, new) ==
  /\ pointer # None /\ pointer[1] = "card" /\ ~Stays(old, new)
  /\ \E r \in Range(new) : r.key = old[pointer[2]].key
\* What is removed does not tell that the pointer leaves it.
hoverAfter(old, new) == IF MovesAway(old, new) THEN None ELSE hoveredIndex

\* The list of the query is drawn; while it is not there, or when it is empty, a
\* message takes its place.
Draw(q, c) ==
  LET new == IF q \in c THEN Answers[q] ELSE <<>> IN
    /\ query' = q /\ cached' = c
    /\ cards' = new
    /\ ghosts' = IF cards # <<>> /\ new # <<>> THEN ghosts \cup Untracked(cards, new) ELSE {}
    /\ cardRefs' = registerCardRef(cards, new)
    /\ pointer' = IF Stays(cards, new) THEN pointer ELSE None
    /\ hoveredIndex' = hoverAfter(cards, new)

Init ==
  /\ query \in Queries
  /\ cached = {} /\ cards = <<>> /\ ghosts = {} /\ cardRefs = <<>>
  /\ hoveredIndex = None /\ pointer = None /\ scrolled = None /\ moves = 0

Answer ==
  /\ query \notin cached
  /\ Draw(query, cached \cup {query})
  /\ UNCHANGED <<scrolled, moves>>

\* A chip, a filter taken away, or the history.
Go ==
  /\ moves < MaxMoves
  /\ \E q \in Queries \ {query} : Draw(q, cached)
  /\ moves' = moves + 1 /\ UNCHANGED scrolled

Move(to, index) ==
  /\ pointer' = to /\ hoveredIndex' = index
  /\ UNCHANGED <<query, cached, cards, ghosts, cardRefs, scrolled, moves>>
EnterCard == \E i \in DOMAIN cards : pointer # <<"card", i>> /\ Move(<<"card", i>>, i)
EnterRow ==
  \E i \in DOMAIN computeLayout(records) : pointer # <<"row", i>> /\ Move(<<"row", i>>, i)
Leave == pointer # None /\ Move(None, None)

\* A click on a row.
scrollToCard ==
  /\ \E i \in DOMAIN computeLayout(records) :
       /\ pointer = <<"row", i>>
       /\ scrolled' = <<records[i].id, IF i \in DOMAIN cardRefs THEN cardRefs[i] ELSE None>>
  /\ UNCHANGED <<query, cached, cards, ghosts, cardRefs, hoveredIndex, pointer, moves>>

Next == Answer \/ Go \/ EnterCard \/ EnterRow \/ Leave \/ scrollToCard

Spec == Init /\ [][Next]_vars

-----------------------------------------------------------------------------
(* Properties.                                                              *)

\* There is a card per record of the query, and the pointer is on one that is there.
TypeOK ==
  /\ query \in Queries /\ cached \subseteq Queries /\ moves \in 0..MaxMoves
  /\ cards = records
  /\ pointer # None => pointer[2] \in DOMAIN records
  /\ scrolled # None => scrolled[1] # None

\* A click on a row scrolls to the card of its record, however the list came to be
\* what it is.
RowsLeadToTheirCard == scrolled # None => scrolled[2] = scrolled[1]

\* What is under the pointer is highlighted, in the list and in the timeline.
PointedIsHighlighted == pointer # None => hoveredIndex = pointer[2]

\* The rows are drawn within the view, from the left to the right when the record
\* has its dates in order, and no thinner or thicker than what the view allows.
RowsAreInView ==
  LET rows == computeLayout(records) IN
    \A i \in DOMAIN rows :
      /\ \A x \in {rows[i].x1, rows[i].x2} :
           Leq(<<SVG_PADDING_X, 1>>, x) /\ Leq(x, <<VIEW_WIDTH - SVG_PADDING_X, 1>>)
      /\ Leq(<<minWidth, 1>>, rows[i].width) /\ Leq(rows[i].width, <<maxWidth, 1>>)

\* "Two records with the same count render with thinner lines when their duration
\* is longer; two records with the same duration render with thicker lines when
\* their count is higher."  What lasts less than a second counts for a second.
DenserIsThicker ==
  LET rows == computeLayout(records)
      lasts(i) == Larger(timelineDuration(records[i]), Scale)
      Thinner(i, j) == Leq(rows[i].width, rows[j].width) /\ ~Leq(rows[j].width, rows[i].width)
  IN \A i, j \in DOMAIN rows :
       /\ records[i].count = records[j].count /\ lasts(i) > lasts(j) => Thinner(i, j)
       /\ lasts(i) = lasts(j) /\ records[i].count < records[j].count => Thinner(i, j)

=============================================================================
