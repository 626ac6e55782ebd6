---------------------------- MODULE LegacyFilter ----------------------------
(***************************************************************************)
(* The main page of the first web interface: the Filter object of           *)
(* filters.js with its requests, the hash of the page it is kept in step    *)
(* with (ivre.js), the list of results and the progress bar                 *)
(* (controllers.js).                                                        *)
(*                                                                          *)
(* A query is a set of words (the criteria) and a skip; the page size stays *)
(* at its default, and `display' is left out since it fetches nothing.      *)
(* Answers come back in any order, and nothing in the code ties an answer   *)
(* to the query it is for.  The handler of hash changes is replaced by one  *)
(* that only puts the former one back whenever the program sets the hash    *)
(* itself: `shots' counts the replacements still in place.                  *)
(***************************************************************************)
EXTENDS Integers, FiniteSets, Sequences

CONSTANTS Words,      \* the criteria a user may write or click
          Matches,    \* Matches[W]: hosts of the view that satisfy W
          Limit,      \* config.dflt_limit
          NoSkip,     \* a query without skip
          NaN,        \* what JavaScript computes from undefined
          Undefined,
          MaxMoves    \* bound: moves of the user

LegacyAssumption ==
  /\ Limit \in Nat \ {0} /\ MaxMoves \in Nat
  /\ Matches \in [SUBSET Words -> Nat]
  /\ {NoSkip, NaN, Undefined} \cap Int = {} /\ NoSkip # NaN
  /\ Undefined \notin [words : SUBSET Words, skip : Int \cup {NoSkip, NaN}]

VARIABLES
  query,     \* filter.query, or Undefined before the page is loaded
  prev,      \* filter.prev_query
  hash,      \* document.location.hash
  pending,   \* hashchange events that are not handled yet
  shots,     \* handlers stacked over the one of sync_hash_filter
  requests,  \* requests in flight
  shown,     \* the answers that are in the list of results
  count,     \* filter.count
  first, last,  \* firstdisplayed, lastdisplayed
  moves,
  newest,    \* the last request for results: its number
  failed,    \* the requests for results that failed
  calm,      \* no query changed while a request was in flight, and no page
             \* had a negative skip
  swallows   \* the hash was set to what it was already: no event follows

vars == <<query, prev, hash, pending, shots, requests, shown, count, first,
          last, moves, newest, failed, calm, swallows>>
hashVars == <<hash, pending, shots>>
ghosts == <<newest, failed, calm, swallows>>

Query == [words : SUBSET Words, skip : Int \cup {NoSkip, NaN}]
Empty == [words |-> {}, skip |-> NoSkip]

Max0(n) == IF n < 0 THEN 0 ELSE n
AtMost(n, m) == IF n < m THEN n ELSE m

\* The server counts from 0 when skip is negative, and refuses NaN.
Offset(q) == IF q.skip \in Int THEN Max0(q.skip) ELSE 0
PageSize(q) == AtMost(Limit, Max0(Matches[q.words] - Offset(q)))

\* count_displayed_hosts
HostCount(list) ==
  Cardinality({p \in (1..Len(list)) \X (1..Limit) : p[2] <= PageSize(list[p[1]].query)})

\* skip:0 is dropped from the query.
load_params(q) == IF q.skip = 0 THEN [q EXCEPT !.skip = NoSkip] ELSE q

need_update(q) == q # prev
need_count(q) == prev = Undefined \/ q.words # prev.words  \* limit, skip: no

Init ==
  /\ query = Undefined /\ prev = Undefined
  /\ hash \in {Empty} \cup [words : SUBSET Words, skip : {0, Limit}]
  /\ pending = 1 /\ shots = 0
  /\ requests = {} /\ shown = <<>>
  /\ count = Undefined /\ first = Undefined /\ last = Undefined
  /\ moves = 0 /\ newest = 0 /\ failed = {}
  /\ calm = TRUE /\ swallows = FALSE

do_count(q) ==
  IF need_count(q) THEN {[kind |-> "count", id |-> newest + 1, query |-> q]} ELSE {}
do_get_results(q) == {[kind |-> "results", id |-> newest + 1, query |-> q]}

\* Emptied when the request is sent, added to when one is answered.
clear_hosts == shown' = <<>>
\* Slip: the list is emptied when an answer comes.
add_hosts_clearing(r) == shown' = <<[id |-> r.id, query |-> r.query]>>

add_hosts(r) == shown' = Append(shown, [id |-> r.id, query |-> r.query])

on_query_update(q) ==
  /\ query' = q
  /\ IF need_update(q)
     THEN /\ requests' = requests \cup do_count(q) \cup do_get_results(q)
          /\ count' = IF need_count(q) THEN Undefined ELSE count
          /\ newest' = newest + 1
          /\ clear_hosts
     ELSE UNCHANGED <<requests, count, shown, newest>>
  /\ calm' = (calm /\ requests = {})
  /\ UNCHANGED <<prev, first, last, failed>>

\* Setting the hash to what it is sends no event.
set_hash(q, consumed) ==
  /\ hash' = q
  /\ pending' = (pending - consumed) + (IF hash = q THEN 0 ELSE 1)
  /\ swallows' = (swallows \/ hash = q)

\* The callback of sync_hash_filter for the queries the program writes.
param_update(q, consumed) == shots' = shots + 1 /\ set_hash(q, consumed)

update_query(q, consumed) ==
  LET loaded == load_params(q)
  IN on_query_update(loaded) /\ param_update(loaded, consumed)

Move == query # Undefined /\ moves < MaxMoves /\ moves' = moves + 1

\* The boxes of the filter are edited and submitted.
on_param_update ==
  /\ Move
  /\ \E W \in SUBSET Words, s \in {query.skip, NoSkip} :
       update_query([words |-> W, skip |-> s], 0)

\* A criterion of a result, of a menu or of a graph is clicked.
setparam_word ==
  /\ Move
  /\ \E w \in Words :
       update_query([words |-> query.words \cup {w}, skip |-> NoSkip], 0)

at_start == first = 1
at_end == last = count
setparam_skip(s) == Move /\ update_query([query EXCEPT !.skip = s], 0)
Sum(a, b) == IF a \in Int /\ b \in Int THEN a + b ELSE NaN
Minus(a, b) == IF a \in Int /\ b \in Int THEN a - b ELSE NaN

goto_start == ~at_start /\ setparam_skip(0)
goto_end == ~at_end /\ setparam_skip(Minus(Sum(Minus(count, last), first), 1))
go_forward == ~at_end /\ setparam_skip(Minus(Sum(first, Limit), 1))
go_back ==
  LET s == Minus(Minus(first, Limit), 1)
  IN ~at_start /\ setparam_skip(IF s \in Int THEN Max0(s) ELSE s)

\* A link, a bookmark, or the Back button.
Navigate ==
  /\ moves < MaxMoves /\ moves' = moves + 1
  /\ \E q \in [words : SUBSET Words, skip : {NoSkip, 0, Limit}] :
       q # hash /\ hash' = q
  /\ pending' = pending + 1
  /\ UNCHANGED <<query, prev, shots, requests, shown, count, first, last>>
  /\ UNCHANGED ghosts

onhashchange ==
  /\ pending > 0
  /\ UNCHANGED moves
  /\ \/ /\ shots > 0                      \* the handler of one use
        /\ shots' = shots - 1 /\ pending' = pending - 1
        /\ UNCHANGED <<query, prev, hash, requests, shown, count, first, last>>
        /\ UNCHANGED ghosts
     \/ /\ shots = 0 /\ load_params(hash) = hash
        /\ pending' = pending - 1
        /\ on_query_update(hash)
        /\ UNCHANGED <<hash, shots, swallows>>
     \/ /\ shots = 0 /\ load_params(hash) # hash
        /\ update_query(hash, 1)

count_success(r) ==
  /\ r \in requests /\ r.kind = "count"
  /\ count' = Matches[r.query.words]
  /\ requests' = requests \ {r}
  /\ UNCHANGED <<query, prev, shown, first, last, moves>>
  /\ UNCHANGED hashVars /\ UNCHANGED ghosts

\* The callback of load for post_get_results, then end_new_query: the bounds
\* are those of what the list holds by now, and the query on record is the
\* current one.  With a negative skip the call of setparam raises and the
\* rest is not run.
complete(list) ==
  LET skip == IF query.skip = NoSkip THEN 0 ELSE query.skip
      n == HostCount(list)
  IN IF skip \in Int /\ skip < 0
     THEN calm' = FALSE /\ UNCHANGED <<prev, first, last>>
     ELSE /\ calm' = calm /\ prev' = query
          /\ IF skip = NaN
             THEN first' = NaN /\ last' = NaN
             ELSE IF n > 0 THEN first' = skip + 1 /\ last' = skip + n
             ELSE UNCHANGED <<first, last>>

get_results_success(r) ==
  /\ r \in requests /\ r.kind = "results" /\ r.query.skip # NaN
  /\ add_hosts(r)
  /\ complete(shown')
  /\ requests' = requests \ {r}
  /\ UNCHANGED <<query, count, moves, newest, failed, swallows>>
  /\ UNCHANGED hashVars

\* A request that fails: no result is added, `complete' runs all the same.
get_results_error(r) ==
  /\ r \in requests /\ r.kind = "results"
  /\ complete(shown)
  /\ failed' = failed \cup {r.id}
  /\ requests' = requests \ {r}
  /\ UNCHANGED <<query, count, shown, moves, newest, swallows>>
  /\ UNCHANGED hashVars

count_error(r) ==
  /\ r \in requests /\ r.kind = "count"
  /\ requests' = requests \ {r}
  /\ UNCHANGED <<query, prev, shown, count, first, last, moves>>
  /\ UNCHANGED hashVars /\ UNCHANGED ghosts

Answer ==
  \E r \in requests : \/ count_success(r) \/ count_error(r)
                      \/ get_results_success(r) \/ get_results_error(r)

Next ==
  \/ on_param_update \/ setparam_word
  \/ goto_start \/ goto_end \/ go_forward \/ go_back
  \/ Navigate \/ onhashchange \/ Answer

\* The browser delivers its events and requests end, one way or the other.
Spec == Init /\ [][Next]_vars /\ WF_vars(onhashchange) /\ WF_vars(Answer)
-----------------------------------------------------------------------------
TypeOK ==
  /\ query \in Query \cup {Undefined} /\ prev \in Query \cup {Undefined}
  /\ hash \in Query
  /\ pending \in Nat /\ shots \in Nat /\ moves \in 0..MaxMoves
  /\ requests \subseteq [kind : {"count", "results"}, id : Nat, query : Query]
  /\ shown \in Seq([id : Nat, query : Query])
  /\ count \in Nat \cup {Undefined}
  /\ first \in Int \cup {Undefined, NaN} /\ last \in Int \cup {Undefined, NaN}
  /\ newest \in Nat /\ failed \subseteq Nat
  /\ calm \in BOOLEAN /\ swallows \in BOOLEAN

InFlight(kind) == {r \in requests : r.kind = kind}
Newest == [id |-> newest, query |-> query]

\* However late the answers of former queries are, they never push out the
\* answer of the newest request: the list is emptied when a request is sent,
\* never when it is answered.
NewestIsNeverLost ==
  \/ newest = 0 \/ newest \in failed
  \/ \E r \in InFlight("results") : r.id = newest
  \/ \E i \in DOMAIN shown : shown[i].id = newest

\* A user who waits for the answers before each move, and never asked for the end from
\* the bounds of a query before this one, gets on every page the results of the query and
\* nothing else, unless the request failed.
CalmShowsTheQuery ==
  calm /\ query # Undefined /\ requests = {} /\ newest \notin failed
    => shown = <<Newest>>

\* The same user is told which results these are, page after page, as long
\* as the page has any.
CalmBoundsAreThePages ==
  /\ calm /\ query # Undefined /\ requests = {} /\ newest \notin failed
  /\ PageSize(query) > 0
  => first = Offset(query) + 1 /\ last = Offset(query) + PageSize(query)

\* As long as the program never set the hash to what it was already, the
\* page and its address show the same query whenever no event is due, however
\* the events of the program's own moves and of the user's interleave.
EventsKeepTheHash ==
  query # Undefined /\ pending = 0 /\ ~swallows => shots = 0 /\ hash = query

-----------------------------------------------------------------------------
(* What the invariants rest on.                                             *)

\* Requests are numbered, and there are none before the page is loaded.
Numbered ==
  /\ \A r \in requests : r.id \in 1..newest
  /\ failed \subseteq 1..newest
  /\ query = Undefined =>
       requests = {} /\ prev = Undefined /\ newest = 0 /\ failed = {}

\* The requests of a user who waits are all of the query; the list is empty until its
\* results are there, and then the query is on record.
CalmIsCurrent ==
  calm /\ query # Undefined =>
    /\ \A r \in requests : r.id = newest /\ r.query = query
    /\ InFlight("results") # {} => shown = <<>> /\ newest \notin failed
    /\ InFlight("results") = {} => prev = query
    /\ InFlight("results") = {} /\ newest \notin failed =>
         /\ shown = <<Newest>>
         /\ PageSize(query) > 0 =>
              first = Offset(query) + 1 /\ last = Offset(query) + PageSize(query)

\* A handler of one use stands for an event that is due, and if they all do the page is
\* at its address.
EventsAreDue ==
  ~swallows => /\ shots <= pending
               /\ shots = pending /\ query # Undefined => hash = query

FilterInv ==
  /\ TypeOK /\ Numbered /\ NewestIsNeverLost /\ CalmIsCurrent /\ EventsAreDue

=============================================================================
