---------------------------- MODULE LegacyCompare ----------------------------
(***************************************************************************)
(* The filters of the page that compares two sets, in the classic           *)
(* interface: common words, the words of each set, and the hosts that are   *)
(* in both (SubFilter of filters.js, compare.js, IvreCompareCtrl).          *)
(*                                                                          *)
(* A filter asks the server for the number of its hosts.  On this page no   *)
(* filter has results to get, so that the callbacks of the end of an        *)
(* update run at once, and those of a filter force the update of the        *)
(* filters it is a part of: the common one of the two sets, a set of all.   *)
(* Words are added to a query by writing them after it: a query is a set    *)
(* of words.  Answers come in any order; paging has no place here.          *)
(***************************************************************************)
EXTENDS Naturals, FiniteSets

CONSTANTS Words,      \* the words the user writes or clicks
          Matches,    \* Matches[W]: the hosts of the view that satisfy W
          MaxMoves,   \* bound: the moves of the user
          MaxFlight,  \* bound: the requests in flight when the user moves
          MaxErrors,  \* bound: the requests that fail
          Undefined

CompareAssumption ==
  /\ MaxMoves \in Nat /\ MaxFlight \in Nat /\ MaxErrors \in Nat
  /\ Matches \in [SUBSET Words -> Nat] /\ Undefined \notin Nat

Sets == {"set1", "set2"}
Filters == Sets \cup {"common", "all"}

VARIABLES
  page,     \* of each filter: its query, the words of its own it last asked with
            \* (prev_query), its count; the requests in flight; and, as history, the
            \* number of its last request, and who ever had two requests in flight
  failed,   \* history: the requests that failed
  touched,  \* history: some update was made since the page was loaded
  moves

vars == <<page, failed, touched, moves>>

Asking(s, f) == \E r \in s.requests : r.of = f

\* beforeSend: the count is unknown until it is answered.
do_count(s, f) ==
  [s EXCEPT !.count[f] = Undefined, !.newest[f] = @ + 1,
            !.crossed = IF Asking(s, f) THEN @ \cup {f} ELSE @,
            !.requests = @ \cup {[of |-> f, query |-> s.query[f], id |-> s.newest[f] + 1]}]

\* The query of a filter is written, and what it last asked with is put on record.
Written(s, f, words) == [s EXCEPT !.query[f] = words]
Recorded(s, f, own) == [s EXCEPT !.prev[f] = own]

\* on_query_update of a filter with words of its own, once it must update: the filters
\* it is a part of come between the request and the record of what was asked.
Update(s, f, own, Parents(_)) ==
  Recorded(Parents(do_count(s, f)), f, own)

\* The filter of both sets has no words: its query is theirs, and it is always forced.
UpdateAll(s) ==
  Update(Written(s, "all", s.query["set1"] \cup s.query["set2"]), "all", {}, LAMBDA t : t)

\* on_param_update of SubFilter.
UpdateSet(s, f, own, forced) ==
  LET asked == Written(s, f, own \cup s.query["common"]) IN
    IF forced \/ own # s.prev[f] THEN Update(asked, f, own, UpdateAll) ELSE asked

\* The common filter, with the words that are in the boxes of the sets by then.
UpdateCommon(s, words, box) ==
  LET asked == Written(s, "common", words)
      BothSets(t) ==
        UpdateSet(UpdateSet(t, "set1", box["set1"], TRUE), "set2", box["set2"], TRUE) IN
    IF words # s.prev["common"] THEN Update(asked, "common", words, BothSets) ELSE asked

-----------------------------------------------------------------------------

\* init_compare: the words of the address go to the common filter, and to the sets with
\* it; the filter of both is made last, and asks with an empty query.
Loaded(words) ==
  LET Ask(f, id) == [of |-> f, query |-> IF f = "all" THEN {} ELSE words, id |-> id] IN
    [query |-> [f \in Filters |-> IF f = "all" THEN {} ELSE words],
     prev |-> [f \in Filters |-> IF f = "common" THEN words ELSE {}],
     count |-> [f \in Filters |-> Undefined],
     requests |-> {Ask(f, 1) : f \in Filters},
     newest |-> [f \in Filters |-> 1], crossed |-> {}]

Init ==
  /\ \E words \in SUBSET Words : page = Loaded(words)
  /\ failed = {} /\ touched = FALSE /\ moves = 0

\* The user does something that makes the page s.
Moves(s) ==
  /\ moves < MaxMoves /\ moves' = moves + 1
  /\ Cardinality(page.requests) <= MaxFlight
  /\ page' = s /\ touched' = (touched \/ s.newest # page.newest)
  /\ UNCHANGED failed

Boxes == [Sets -> SUBSET Words]

\* submitform: the three forms are submitted together, in this order.
submitform ==
  \E words \in SUBSET Words, box \in Boxes :
    LET common == UpdateCommon(page, words, box)
        first == UpdateSet(common, "set1", box["set1"], FALSE) IN
      Moves(UpdateSet(first, "set2", box["set2"], FALSE))

\* A bar or a dot of a chart is clicked: its word goes to the common filter.  What is in
\* the boxes of the sets and was not submitted goes with it.
setparam ==
  \E w \in Words, box \in Boxes :
    Moves(UpdateCommon(page, page.query["common"] \cup {w}, box))

success ==
  /\ \E r \in page.requests :
       page' = [page EXCEPT !.count[r.of] = Matches[r.query], !.requests = @ \ {r}]
  /\ UNCHANGED <<failed, touched, moves>>
error ==
  /\ Cardinality(failed) < MaxErrors
  /\ \E r \in page.requests :
       page' = [page EXCEPT !.requests = @ \ {r}] /\ failed' = failed \cup {<<r.of, r.id>>}
  /\ UNCHANGED <<touched, moves>>

Next == submitform \/ setparam \/ success \/ error
Spec == Init /\ [][Next]_vars

-----------------------------------------------------------------------------
(* Properties.                                                              *)

\* The kinds of the state.
TypeOK ==
  /\ page.query \in [Filters -> SUBSET Words] /\ page.prev \in [Filters -> SUBSET Words]
  /\ page.count \in [Filters -> Nat \cup {Undefined}]
  /\ \A r \in page.requests :
       r.of \in Filters /\ r.query \in SUBSET Words /\ r.id \in 1 .. page.newest[r.of]

\* Whatever is submitted or clicked, a set is of its own words and the common ones, and
\* the hosts in both are of the words of both, once anything was changed.
QueriesCompose ==
  /\ \A f \in Sets : page.query[f] = page.prev[f] \cup page.query["common"]
  /\ touched => page.query["all"] = page.query["set1"] \cup page.query["set2"]

\* No change of a filter goes without its count: the last request of a filter is of its
\* query, until it is answered.
NewestIsTheQuery ==
  \A r \in page.requests : r.id = page.newest[r.of] => r.query = page.query[r.of]

\* A filter that never had two requests in flight shows the count of its query, unless
\* it waits for it or the server failed it.
CountsAreOfTheQueries ==
  \A f \in Filters \ page.crossed :
    ~Asking(page, f) /\ <<f, page.newest[f]>> \notin failed =>
      page.count[f] = Matches[page.query[f]]

-----------------------------------------------------------------------------
(* What the invariants rest on, of a state of the page.                     *)

Pages ==
  [query : [Filters -> SUBSET Words], prev : [Filters -> SUBSET Words],
   count : [Filters -> Nat \cup {Undefined}],
   requests : SUBSET [of : Filters, query : SUBSET Words, id : Nat],
   newest : [Filters -> Nat], crossed : SUBSET Filters]

\* The last request of a filter is of its query, and one that never had two in flight
\* has no other.
Numbered(s) ==
  \A r \in s.requests :
    /\ r.id \in 1..s.newest[r.of]
    /\ r.id = s.newest[r.of] => r.query = s.query[r.of]
    /\ r.of \notin s.crossed => r.id = s.newest[r.of]
Counted(s) ==
  \A f \in Filters \ s.crossed :
    ~Asking(s, f) /\ <<f, s.newest[f]>> \notin failed => s.count[f] = Matches[s.query[f]]
Failed(s) == \A f \in Filters : \A n \in Nat : <<f, n>> \in failed => n <= s.newest[f]
Sound(s) == s \in Pages /\ Numbered(s) /\ Counted(s) /\ Failed(s)

SetComposes(s, f) == s.query[f] = s.prev[f] \cup s.query["common"]
AllComposes(s) == s.query["all"] = s.query["set1"] \cup s.query["set2"]
Composes(s) ==
  /\ s.query["common"] = s.prev["common"]
  /\ SetComposes(s, "set1") /\ SetComposes(s, "set2")

CompareInv == Sound(page) /\ Composes(page) /\ (touched => AllComposes(page))
=============================================================================
