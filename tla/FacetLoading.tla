---------------------------- MODULE FacetLoading ----------------------------
(***************************************************************************)
(* The order in which a page of hosts sends its requests: the results, then *)
(* the map, then the facets of the side bar one after the other             *)
(* (host-list.tsx, FacetSidebar.tsx, FacetGroup.tsx, api.ts).               *)
(*                                                                          *)
(* A request is named by what it is for and the query it is for; the cache  *)
(* keeps how it ended.  The state changes first, then React commits: the    *)
(* effects whose dependencies changed run, those of the facets before those *)
(* of the side bar, and what they set is committed in turn.                 *)
(*                                                                          *)
(* Entries of the cache stay fresh and are not collected.                   *)
(***************************************************************************)
EXTENDS Naturals, FiniteSets, FiniteSetsExt

CONSTANTS Queries,
          Facets,      \* how many facets the section declares
          HasMap,      \* the section has a map endpoint
          Sequential,  \* config.sequential_loading
          MayFail,     \* whether requests may fail
          MaxMoves     \* bound: changes of query, leaves and returns

FacetAssumption ==
  /\ Facets \in Nat \ {0} /\ MaxMoves \in Nat
  /\ {HasMap, Sequential, MayFail} \subseteq BOOLEAN

VARIABLES
  query,     \* the query of the address
  present,   \* the page is mounted
  status,    \* how the last request of each key ended, if it did
  flight,    \* the requests in flight
  expanded,  \* the facets that show more
  loadedCount,
  seen,      \* the dependencies of each facet's effect when it last ran
  cycle,     \* the dependencies of the effect of the side bar
  observed,  \* the requests that are observed, those enabled
  moves

vars == <<query, present, status, flight, expanded, loadedCount, seen, cycle,
          observed, moves>>

Index == 0..(Facets - 1)

\* The keys of the query cache.
Results(q) == <<"hosts", q>>
Map(q) == <<"coordinates", q>>
useTop(i, q, more) == <<"top", q, i, more>>
Keys == {Results(q) : q \in Queries} \cup {Map(q) : q \in Queries}
          \cup {useTop(i, q, m) : i \in Index, q \in Queries, m \in BOOLEAN}

Top(i) == useTop(i, query, i \in expanded)
\* What a render shows of a key: one whose request failed is asked for anew when it
\* is observed anew, and shown as pending from then on.
Shown(k) == IF status[k] = "error" /\ k \notin observed THEN "pending" ELSE status[k]
Settled(k) == Shown(k) # "pending"

Never == <<>>  \* an effect that did not run yet

Init ==
  /\ query \in Queries
  /\ present = TRUE
  /\ status = [k \in Keys |-> "pending"]
  /\ flight = {}
  /\ expanded = {}
  /\ loadedCount = 0
  /\ seen = [i \in Index |-> Never]
  /\ cycle = Never
  /\ observed = {}
  /\ moves = 0

-----------------------------------------------------------------------------
(* What a render computes.                                                  *)

resultsDone == Settled(Results(query))
mapEnabled == ~Sequential \/ resultsDone
mapDone == ~HasMap \/ Settled(Map(query))

facetsEnabled == ~Sequential \/ (resultsDone /\ mapDone)

facetEnabled(i) == IF Sequential THEN facetsEnabled /\ i <= loadedCount ELSE TRUE

\* The queries that are enabled; those of the facets that are not are observed
\* all the same.
gatedEnabled ==
  {Results(query)} \cup (IF HasMap /\ mapEnabled THEN {Map(query)} ELSE {})
    \cup {Top(i) : i \in {j \in Index : facetEnabled(j)}}
Observed == {Results(query), Map(query)} \cup {Top(i) : i \in Index}

\* What is fetched: a query newly enabled, without data.
Fetched == gatedEnabled \ observed

deps(i) == <<facetEnabled(i), Shown(Top(i)), query, i \in expanded>>

\* Slip: a facet that could not be had is not passed over.
LoadedOnSuccess(i) == facetEnabled(i) /\ status[Top(i)] = "success"

\* The facet has its values or its error.
Loaded(i) == facetEnabled(i) /\ Settled(Top(i))

\* The facets whose effect runs and calls onLoaded.
onLoaded == {i \in Index : Sequential /\ deps(i) # seen[i] /\ Loaded(i)}
handleLoaded == Max({loadedCount} \cup {i + 1 : i \in onLoaded})

Rendered == /\ gatedEnabled = observed /\ cycle = query
            /\ \A i \in Index : deps(i) = seen[i]

\* The effects of a commit.  That of the side bar is the last.
Commit ==
  /\ present /\ ~Rendered
  /\ LET asked == {k \in Fetched : status[k] # "success"} IN
       /\ flight' = (flight \cap Observed) \cup asked
       /\ status' = [k \in Keys |-> IF k \in asked THEN "pending" ELSE status[k]]
  /\ loadedCount' = IF cycle # query THEN 0 ELSE handleLoaded
  /\ seen' = [i \in Index |-> deps(i)]
  /\ cycle' = query
  /\ observed' = gatedEnabled
  /\ UNCHANGED <<query, present, expanded, moves>>

\* The answer of a request, or its failure.
Answer(k) ==
  /\ k \in flight
  /\ flight' = flight \ {k}
  /\ \/ status' = [status EXCEPT ![k] = "success"]
     \/ MayFail /\ status' = [status EXCEPT ![k] = "error"]
  /\ UNCHANGED <<query, present, expanded, loadedCount, seen, cycle, observed, moves>>

\* A filter is added or removed, or the user goes back in the history.
setFilters(q) ==
  /\ present /\ q # query /\ moves < MaxMoves
  /\ query' = q /\ moves' = moves + 1
  /\ UNCHANGED <<present, status, flight, expanded, loadedCount, seen, cycle, observed>>

\* "Show more" and "Show less" ask for another number of values.
setExpanded(i) ==
  /\ present /\ status[Top(i)] = "success" /\ moves < MaxMoves
  /\ moves' = moves + 1
  /\ expanded' = IF i \in expanded THEN expanded \ {i} ELSE expanded \cup {i}
  /\ UNCHANGED <<query, present, status, flight, loadedCount, seen, cycle, observed>>

\* The user goes to another section: the requests in flight are aborted.
Leave ==
  /\ present /\ moves < MaxMoves
  /\ present' = FALSE /\ moves' = moves + 1
  /\ flight' = {} /\ observed' = {}
  /\ UNCHANGED <<query, status, expanded, loadedCount, seen, cycle>>

\* And comes back: the components are new, the cache is not.
Return ==
  /\ ~present
  /\ present' = TRUE
  /\ expanded' = {} /\ loadedCount' = 0
  /\ seen' = [i \in Index |-> Never] /\ cycle' = Never
  /\ UNCHANGED <<query, status, flight, observed, moves>>

Next ==
  \/ Commit \/ Leave \/ Return
  \/ \E k \in flight : Answer(k)
  \/ \E q \in Queries : setFilters(q)
  \/ \E i \in Index : setExpanded(i)

\* React commits what changed, and the server answers every request.
Fairness == WF_vars(Commit) /\ \A k \in Keys : WF_vars(Answer(k))

Spec == Init /\ [][Next]_vars /\ Fairness

-----------------------------------------------------------------------------

\* The shapes of the state; only what is not settled is in flight, and only
\* for the page that is mounted.
TypeOK ==
  /\ query \in Queries
  /\ status \in [Keys -> {"pending", "success", "error"}]
  /\ flight \subseteq {k \in Keys : ~Settled(k)}
  /\ flight # {} => present
  /\ expanded \subseteq Index
  /\ loadedCount \in 0..Facets
  /\ moves \in 0..MaxMoves

\* In sequential mode no facet of the query is asked for before its results and
\* its map are there.
FacetsWaitForResults ==
  Sequential => \A i \in Index :
    Top(i) \in flight => Settled(Results(query)) /\ mapDone

\* In sequential mode a facet is asked for while no other one that is released is in
\* flight (FacetSidebar.tsx:12), those that the user expands left out, but at one
\* moment.  The first commit of a query whose results and map are in the cache still has
\* the count of the former query (FacetSidebar.tsx:74) and asks at once for as many
\* facets as that count lets through, where FacetSidebar.tsx:60 says that the sequence
\* is run again from the top; the reset then holds them back, in flight as they are.
FacetsAskedInTurn ==
  LET fresh == {i \in Index \ expanded : Top(i) \in flight' \ flight}
  IN Sequential /\ query' = query =>
       \A i \in fresh, j \in Index \ expanded :
         i # j /\ Top(j) \in flight' \cap observed' =>
           /\ cycle # query /\ resultsDone /\ mapDone
           /\ {i, j} \subseteq 0..loadedCount

\* A facet of the query has its values, or an error, or is not wanted any more
\* because the query changed or the user left.  FacetSidebar.tsx:60 says that the
\* sequence is run again from the top.
FacetWanted(q) == present /\ query = q
FacetGiven(i, q) == FacetWanted(q) => Settled(Top(i))
=============================================================================
