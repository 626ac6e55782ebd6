---------------------------- MODULE LegacyGraphs ----------------------------
(***************************************************************************)
(* The charts of the classic web interface (ivre/graph.js), on the page of  *)
(* the results, on the page that compares two sets and on the report        *)
(* (ivre/controllers.js).                                                   *)
(*                                                                          *)
(* A build empties its chart, shows it and sends a request; the answer      *)
(* draws, whatever has been built since.  The place where it draws is found *)
(* by its name when the answer comes, its title when the request is sent.   *)
(* A map draws in two steps, its data and then the world.                   *)
(*                                                                          *)
(* An address has four parts in base Base (256 in the code).                *)
(***************************************************************************)
EXTENDS Integers, FiniteSets, Sequences, SequencesExt

CONSTANTS Page,        \* "results", "compare" or "report"
          Views,       \* the addresses that each filter selects
          Elements,    \* the elements of the report, the added ones last: their type
          AtFirst,     \* how many of them are there at first
          Base,        \* 256
          Warn,        \* warn_dots_count
          MaxBuilds,   \* bound: the charts that are built
          MaxMoves,    \* bound: the elements of the report that are added, moved or removed
          Null         \* a count that is not known, no title

GraphsAssumption ==
  /\ Page \in {"results", "compare", "report"}
  /\ Base \in Nat \ {0} /\ Warn \in Nat /\ MaxBuilds \in Nat /\ MaxMoves \in Nat
  /\ AtFirst \in 0 .. Len(Elements)

VARIABLES
  filters,    \* the filter of each source: of the page, or of the two sets
  count,      \* the count of its results, or Null
  counting,   \* the counts that were asked for
  elements,   \* the elements of the report, in their order
  content,    \* what is drawn in each chart
  title,      \* its title
  shown,      \* whether it is displayed
  requests,   \* the requests of the charts
  same16,     \* same_slash_16, a global variable
  builds,     \* how many charts were built
  moves,      \* how many elements were moved
  dirty       \* the report was changed since it was built, or built twice at once

vars == <<filters, count, counting, elements, content, title, shown, requests, same16, builds,
          moves, dirty>>
page == <<filters, count, counting>>

Sources == IF Page = "compare" THEN {1, 2} ELSE {1}
Charts == IF Page = "report" THEN {"chart", "map"} \X DOMAIN Elements ELSE {"chart"} \X Sources
HasMap(e) == Elements[e] = "Map + Top-values"

-----------------------------------------------------------------------------
(* What the charts compute.                                                 *)

Least(S) == CHOOSE a \in S : \A b \in S : a <= b
Most(S) == CHOOSE a \in S : \A b \in S : b <= a

\* The plane.  The abscissa is the two high bytes of an address, or three.
SameSlash16(ips) == \A a, b \in ips : a \div (Base * Base) = b \div (Base * Base)
High(same, a) == IF same THEN a \div Base ELSE a \div (Base * Base)
Low(same, a) == IF same THEN a % Base ELSE a % (Base * Base)
PlaneDot(same, a) == <<High(same, a), Low(same, a)>>

BrushRange(kind, same, low, high) ==
  LET size == IF kind = "ports" THEN 1 ELSE IF same THEN Base ELSE Base * Base
  IN (low * size) .. (high * size + size - 1)
Abscissa(kind, same, a) == IF kind = "ports" THEN a ELSE High(same, a)

StepOf(low, high, n, unit) == IF high - low > unit * n THEN high - low ELSE unit * n
Axis(low, high, n, unit) ==
  {m \in (low * n) .. ((high + 1) * n) : (m - low * n) % StepOf(low, high, n, unit) = 0}
PlaneAxis(low, high) == Axis(low, high, 7, 1)
PlaneNetworks(low, high) == Axis(low, high, 7, Base)
PortsAxis(low, high) == Axis(low, high, 10, Base * Base * Base)
TimelineAddresses(low, high) == Axis(low, high, 20, Base * Base * Base)
TimelineDates(low, high) == Axis(low, high, 6, 1)

Hour == 3600
Day == 24 * Hour
DateText(span) ==
  CASE span > 365 * Day -> 31 * Day
    [] span > 28 * Day -> Day
    [] span > Day -> Hour
    [] span > Hour -> 60
    [] OTHER -> 1

-----------------------------------------------------------------------------
(* Building and drawing.                                                    *)

Request(chart, kind, of, query) ==
  [chart |-> chart, div |-> chart, kind |-> kind, of |-> of, query |-> query,
   id |-> builds + 1, step |-> "data"]
\* The request of an element finds the chart of that element, by its place.
Send(new) ==
  /\ builds < MaxBuilds
  /\ builds' = builds + 1
  /\ requests' = requests \cup new
  /\ content' = [c \in Charts |-> IF \E r \in new : r.div = c THEN <<>> ELSE content[c]]

\* Where the name of a chart leads now: in the report, to the element at that place.
Located(r) ==
  IF Page # "report" THEN {r.chart}
  ELSE {<<r.chart[1], elements[i]>> :
          i \in {j \in DOMAIN elements :
                   j = r.chart[2] /\ (r.chart[1] = "map" => HasMap(elements[j]))}}

Drawing(r) == [kind |-> r.kind, of |-> r.of, query |-> r.query, id |-> r.id,
               complete |-> r.kind # "map"]
\* Measuring the values clears the chart, once for each value.
Drawn(r, drawings) ==
  IF r.kind = "top" /\ Views[r.query] # {} THEN <<Drawing(r)>>
  ELSE Append(drawings, Drawing(r))

\* Slip: the title is set by the first drawing only.
TitleOnce(r) == IF title[r.div] = Null THEN [title EXCEPT ![r.div] = r.id] ELSE title
Titled(r) == [title EXCEPT ![r.div] = r.id]
draw(r) ==
  /\ r.step = "data"
  /\ content' = [c \in Charts |-> IF c \in Located(r) THEN Drawn(r, content[c]) ELSE content[c]]
  /\ title' = Titled(r)
  /\ same16' = IF r.kind = "plane" THEN SameSlash16(Views[r.query]) ELSE same16
  /\ requests' = (requests \ {r}) \cup
       IF r.kind = "map" /\ Located(r) # {} THEN {[r EXCEPT !.step = "world"]} ELSE {}
  /\ UNCHANGED <<page, elements, shown, builds, moves, dirty>>
\* The world is drawn where the map is, if it still is.
drawWorld(r) ==
  /\ r.step = "world"
  /\ requests' = requests \ {r}
  /\ content' = [c \in Charts |->
       [i \in DOMAIN content[c] |->
          IF content[c][i].id = r.id /\ content[c][i].kind = "map"
          THEN [content[c][i] EXCEPT !.complete = TRUE] ELSE content[c][i]]]
  /\ UNCHANGED <<page, elements, title, shown, same16, builds, moves, dirty>>
Fail(r) ==
  /\ r.step = "data"
  /\ requests' = requests \ {r}
  /\ dirty' = TRUE
  /\ UNCHANGED <<page, elements, content, title, shown, same16, builds, moves>>
Answer == \E r \in requests : draw(r) \/ drawWorld(r) \/ Fail(r)

-----------------------------------------------------------------------------
(* The filters.                                                             *)

ChartsAfterFilter == IF Page = "results" THEN [c \in Charts |-> FALSE] ELSE shown
ChangeFilter(s) ==
  /\ filters[s] + 1 \in DOMAIN Views
  /\ filters' = [filters EXCEPT ![s] = @ + 1]
  /\ count' = [count EXCEPT ![s] = Null]
  /\ counting' = counting \cup {<<s, filters[s] + 1>>}
  /\ shown' = ChartsAfterFilter
  /\ dirty' = TRUE
  /\ UNCHANGED <<elements, content, title, requests, same16, builds, moves>>
\* A count sets the count, even of a filter that has changed.
Count(c) ==
  /\ counting' = counting \ {c}
  /\ count' = [count EXCEPT ![c[1]] = Cardinality(Views[c[2]])]
  /\ UNCHANGED <<filters, elements, content, title, shown, requests, same16, builds, moves, dirty>>

-----------------------------------------------------------------------------
(* The results and the two sets.                                            *)

Dots == {"plane", "ports", "time"}
is_ready == \A s \in Sources : count[s] # Null
MayBuild(kind) == kind \in Dots => is_ready
Many(kind) == {s \in Sources : kind \in Dots /\ count[s] # Null /\ count[s] >= Warn}
\* The sets that are built take the charts from the first.
Built(refused) == SelectSeq(SetToSortSeq(Sources, <), LAMBDA s : s \notin refused)
BuildCharts(kind, refused) ==
  LET built == Built(refused) IN
    /\ Page # "report"
    /\ MayBuild(kind)
    /\ refused \subseteq Many(kind)
    /\ shown' = [c \in Charts |-> c[2] \in DOMAIN built]
    /\ Send({Request(<<"chart", i>>, kind, built[i], filters[built[i]]) : i \in DOMAIN built})
    /\ UNCHANGED <<page, elements, title, same16, moves, dirty>>
hidecharts ==
  /\ Page # "report"
  /\ shown' = [c \in Charts |-> FALSE]
  /\ UNCHANGED <<page, elements, content, title, requests, same16, builds, moves, dirty>>

-----------------------------------------------------------------------------
(* The report.                                                              *)

Place(i) == i
build_all ==
  LET at(i, part, kind) ==
        [Request(<<part, Place(i)>>, kind, elements[i], filters[1])
           EXCEPT !.div = <<part, elements[i]>>]
      tops == {at(i, "chart", "top") : i \in DOMAIN elements}
      maps == {at(i, "map", "map") : i \in {j \in DOMAIN elements : HasMap(elements[j])}}
  IN /\ Page = "report"
     /\ Send(tops \cup maps)
     /\ dirty' = (requests # {})
     /\ shown' = [c \in Charts |-> TRUE]
     /\ UNCHANGED <<page, elements, title, same16, moves>>
Move(order) ==
  /\ Page = "report" /\ moves < MaxMoves
  /\ elements' = order
  /\ moves' = moves + 1
  /\ dirty' = TRUE
  /\ UNCHANGED <<page, content, title, shown, requests, same16, builds>>
elements_swap ==
  \E i \in 1 .. (Len(elements) - 1) :
    Move([elements EXCEPT ![i] = elements[i + 1], ![i + 1] = elements[i]])
remove == \E i \in DOMAIN elements : Move(RemoveAt(elements, i))
add_element ==
  \E e \in DOMAIN Elements :
    /\ \A i \in DOMAIN elements : elements[i] # e
    /\ content[<<"chart", e>>] = <<>> /\ content[<<"map", e>>] = <<>>
    /\ Move(Append(elements, e))

-----------------------------------------------------------------------------
Init ==
  /\ filters = [s \in Sources |-> IF Page = "compare" THEN s ELSE 1]
  /\ count = [s \in Sources |-> Null]
  /\ counting = {<<s, filters[s]>> : s \in Sources}
  /\ elements = [i \in 1 .. AtFirst |-> i]
  /\ content = [c \in Charts |-> <<>>]
  /\ title = [c \in Charts |-> Null]
  /\ shown = [c \in Charts |-> FALSE]
  /\ requests = {} /\ same16 = FALSE /\ builds = 0 /\ moves = 0 /\ dirty = TRUE

Next ==
  \/ Answer
  \/ \E s \in Sources : ChangeFilter(s)
  \/ \E c \in counting : Count(c)
  \/ \E kind \in Dots \cup {"map", "top"}, refused \in SUBSET Sources : BuildCharts(kind, refused)
  \/ hidecharts
  \/ build_all
  \/ elements_swap
  \/ remove
  \/ add_element
Spec == Init /\ [][Next]_vars

-----------------------------------------------------------------------------
(* Properties.                                                              *)

\* A chart draws what was built, and requests are those of builds.
TypeOK ==
  /\ \A c \in Charts : \A i \in DOMAIN content[c] :
       content[c][i].id \in 1 .. builds /\ content[c][i].query \in DOMAIN Views
  /\ \A r \in requests : r.id \in 1 .. builds /\ r.div \in Charts
  /\ \A s \in Sources : filters[s] \in DOMAIN Views

Displayed == {c \in Charts : shown[c]}

\* On the page of the results, the title of a chart is that of the last drawing.
TitleIsOfTheLast ==
  Page = "results" => \A c \in Displayed : content[c] # <<>> => title[c] = Last(content[c]).id

\* A chart is only shown while what was asked for last is of the filter of the page.
ShownIsAsked ==
  Page = "results" =>
    \A c \in Displayed : requests = {} => \A i \in DOMAIN content[c] :
      content[c][i].id = builds => content[c][i].query = filters[1]

\* On the page that compares two sets, no two charts show the same set, whichever of them
\* was left out and however late the answers are.
SetsAreApart ==
  Page = "compare" =>
    \A c, d \in Displayed : \A i \in DOMAIN content[c], j \in DOMAIN content[d] :
      (c # d /\ content[c][i].id = content[d][j].id) => content[c][i].of # content[d][j].of

\* The top values stand alone in their chart, or above what has come after them.
TopValuesAreFirst ==
  \A c \in Charts : \A i \in DOMAIN content[c] :
    (content[c][i].kind = "top" /\ Views[content[c][i].query] # {}) => i = 1

Selection(c, low, high, d, same) ==
  {a \in Views[d.query] : a \in BrushRange(d.kind, same, low, high)}
\* The words written by a brush select the dots it went over.
BrushSelects ==
  \A c \in Displayed :
    (Len(content[c]) = 1 /\ content[c][1].kind \in {"plane", "ports"}) =>
      LET d == content[c][1]
          ips == Views[d.query]
          own == SameSlash16(ips)
          xs == {Abscissa(d.kind, own, a) : a \in ips}
      IN \A low, high \in xs :
           low <= high =>
             Selection(c, low, high, d, same16)
               = {a \in ips : Abscissa(d.kind, own, a) \in low .. high}

QueriesOf(kinds) ==
  UNION {{content[c][i].query : i \in {j \in DOMAIN content[c] : content[c][j].kind \in kinds}} :
           c \in Charts}
\* Two addresses have two dots on the plane that is drawn.
DotsAreApart ==
  \A q \in QueriesOf({"plane"}) : \A a, b \in Views[q] :
    PlaneDot(SameSlash16(Views[q]), a) = PlaneDot(SameSlash16(Views[q]), b) => a = b

\* An axis has a few marks, from the least value to a step before the last, that are not
\* closer than two values can be.
AxesCover ==
  \A q \in QueriesOf(Dots) : Views[q] # {} =>
    LET low == Least(Views[q]) high == Most(Views[q]) IN
      \A pair \in {<<PlaneAxis(low, high), 7, 1>>, <<PlaneNetworks(low, high), 7, Base>>,
                   <<PortsAxis(low, high), 10, Base * Base * Base>>,
                   <<TimelineAddresses(low, high), 20, Base * Base * Base>>,
                   <<TimelineDates(low, high), 6, 1>>} :
        /\ low * pair[2] \in pair[1]
        /\ Cardinality(pair[1]) <= 2 * pair[2]
        /\ \/ high * pair[2] - Most(pair[1]) < high - low
           \/ high * pair[2] - Most(pair[1]) < pair[2] * pair[3]
        /\ \A a, b \in pair[1] : a < b => b - a >= pair[2] * pair[3]

\* Two marks of the dates of a timeline never have the same text.
DatesAreToldApart ==
  QueriesOf({"time"}) # {} => \A span \in {1, 6, 59, Hour, Hour + 1, Day, Day + 1, 28 * Day, 28 * Day + 1, 365 * Day,
               365 * Day + 1} :
    span > 6 => 6 * DateText(span) <= span

\* The report that was built, and has not been changed, shows each element in its place.
ReportIsComplete ==
  (Page = "report" /\ ~dirty /\ requests = {}) =>
    \A i \in DOMAIN elements :
      LET e == elements[i] IN
        /\ Len(content[<<"chart", e>>]) = 1 /\ content[<<"chart", e>>][1].of = e
        /\ HasMap(e) => /\ Len(content[<<"map", e>>]) = 1
                        /\ content[<<"map", e>>][1].of = e /\ content[<<"map", e>>][1].complete

=============================================================================
