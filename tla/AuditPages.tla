----------------------------- MODULE AuditPages -----------------------------
(***************************************************************************)
(* The audit log page by page (lib/audit.ts): the panel of one's own trail  *)
(* (routes/audit.tsx, AuditEventsPanel.tsx) and the panel of the            *)
(* administrators, which can be narrowed to one user                        *)
(* (AdminAuditEventsPanel.tsx), in front of the routes of the server and of *)
(* a log that grows and is purged.                                          *)
(*                                                                          *)
(* The log is read newest first with an offset, so what is added between    *)
(* two pages shifts the second one.  A page is read by the server when it   *)
(* is answered; the pages of one fetch are read one after the other.        *)
(*                                                                          *)
(* A page is the set of the positions of its events in the log.  The pages  *)
(* of a list are counted and put together: which rows the first one has,    *)
(* which rows there are, how many are shown (an event that was shifted to   *)
(* the next page is there twice) and how many came last.                    *)
(***************************************************************************)
EXTENDS Integers, Sequences, FiniteSets

CONSTANTS Users, NoUser,      \* NoUser: no filter on the user
          Me, IsAdmin,        \* the reader
          AuthEnabled,        \* auth_enabled of /cgi/config
          PageSize,           \* AUDIT_PAGE_SIZE
          MaxResults,         \* WEB_MAXRESULTS of the server
          NoData, NoFetch,
          MaxEvents,          \* bound: length of the log
          MaxFailures,        \* bound: requests that fail
          MaxFetches          \* bound: fetches of the list

\* The pages of a list, put together.
Lists == [pages : Nat, first : SUBSET Nat, rows : SUBSET Nat, shown : Nat, last : Nat]
\* What a fetch is for, what it has and how many pages it asks for.
Fetches == [kind : {"all", "more"}, done : Lists, left : Nat]

AuditAssumption ==
  /\ NoData \notin Lists \cup Nat /\ NoFetch \notin Fetches
  /\ NoUser \notin Users /\ Me \in Users /\ {IsAdmin, AuthEnabled} \subseteq BOOLEAN
  /\ {PageSize, MaxResults} \subseteq Nat \ {0}
  /\ {MaxEvents, MaxFailures, MaxFetches} \subseteq Nat

VARIABLES
  trail,          \* the log: the actor of each event, oldest first
  purged,         \* how many of the oldest events were purged
  me,             \* useAuthMe: "loading", "anonymous" or "signed in"
  draft, applied, \* the text of the filter, and the filter that is applied
  pages,          \* useAuditEvents: the pages of each filter
  failed,         \* the filters whose last fetch failed
  fetch,          \* the fetch of the list that is in flight
  count,          \* useAuditCount
  countAsked,
  failures, fetches

vars == <<trail, purged, me, draft, applied, pages, failed, fetch, count, countAsked,
          failures, fetches>>
logged == <<trail, purged>>
counting == <<count, countAsked>>

Filters == Users \cup {NoUser}

-----------------------------------------------------------------------------
(* The server.                                                              *)

\* A reader who is not an administrator reads the own trail.
scope(f) == IF IsAdmin THEN f ELSE Me

\* The positions of the events in scope, and how many of them are newer than event i.
query(f) == {i \in purged + 1..Len(trail) : scope(f) \in {NoUser, trail[i]}}
newer(f, i) == Cardinality({j \in query(f) : j > i})

limit == IF MaxResults < PageSize THEN MaxResults ELSE PageSize

\* Newest first: the page has those with skip newer ones, and the next ones.
list_audit_events(f, skip) ==
  {i \in query(f) : skip <= newer(f, i) /\ newer(f, i) < skip + limit}

NoRows == [pages |-> 0, first |-> {}, rows |-> {}, shown |-> 0, last |-> 0]

\* A list with one page more.
appended(l, page) ==
  [pages |-> l.pages + 1,
   first |-> IF l.pages = 0 THEN page ELSE l.first,
   rows |-> l.rows \cup page,
   shown |-> l.shown + Cardinality(page),
   last |-> Cardinality(page)]

\* A short page is the last one.
hasNextPage(l) == l.last >= PageSize

-----------------------------------------------------------------------------
(* What is on the screen.                                                   *)

Signed == AuthEnabled /\ me = "signed in"
isLoading == pages[applied] = NoData /\ applied \notin failed
ShowsList == Signed /\ pages[applied] # NoData /\ applied \notin failed

\* The header has the number of rows alone when the count is not above it.
formatResultsCount(loaded, total) ==
  IF total = NoData \/ (total # NoData /\ total <= loaded) THEN <<loaded>> ELSE <<loaded, total>>

isFetchingMore == fetch # NoFetch /\ fetch.kind = "more"

-----------------------------------------------------------------------------
NewFetch(kind, n) == [kind |-> kind, done |-> NoRows, left |-> n]
PagesOf(f) == IF pages[f] = NoData THEN 1 ELSE pages[f].pages

Init ==
  /\ trail = <<>> /\ purged = 0
  /\ me = "loading"
  /\ draft = NoUser /\ applied = NoUser
  /\ pages = [f \in Filters |-> NoData] /\ failed = {} /\ fetch = NoFetch
  /\ count = [f \in Filters |-> NoData] /\ countAsked = FALSE
  /\ failures = 0 /\ fetches = 0

\* The panel begins to show filter f: what the cache has had for 30 s, or does
\* not have, is fetched; all the pages there were are fetched again.
useAuditEvents(f) ==
  \/ /\ fetch' = NewFetch("all", PagesOf(f))
     /\ failed' = IF pages[f] = NoData THEN failed \ {f} ELSE failed
     /\ fetches < MaxFetches /\ fetches' = fetches + 1
  \/ pages[f] # NoData /\ fetch' = NoFetch /\ UNCHANGED <<failed, fetches>>

useAuditCount(f) == countAsked' \in {TRUE, count[f] = NoData}

\* /cgi/auth/me is answered: the panel appears for those who are signed in.
AuthMe ==
  /\ AuthEnabled /\ me = "loading"
  /\ \/ me' = "anonymous" /\ UNCHANGED <<fetch, failed, fetches, countAsked>>
     \/ me' = "signed in" /\ useAuditEvents(applied) /\ useAuditCount(applied)
  /\ UNCHANGED <<logged, draft, applied, pages, count, failures>>

Type(d) ==
  /\ Signed /\ IsAdmin /\ d # draft
  /\ draft' = d
  /\ UNCHANGED <<logged, me, applied, pages, failed, fetch, counting, failures, fetches>>

Applied(f) ==
  /\ applied' = f
  /\ IF f = applied THEN UNCHANGED <<fetch, failed, fetches, countAsked>>
                    ELSE useAuditEvents(f) /\ useAuditCount(f)
  /\ UNCHANGED <<logged, me, pages, count, failures>>

apply == Signed /\ IsAdmin /\ applied # draft /\ Applied(draft) /\ UNCHANGED draft
clear == Signed /\ IsAdmin /\ applied # NoUser /\ draft' = NoUser /\ Applied(NoUser)

\* Load more gives up a fetch of all the pages.
fetchNextPage ==
  /\ ShowsList /\ hasNextPage(pages[applied]) /\ ~isFetchingMore
  /\ fetches < MaxFetches /\ fetches' = fetches + 1
  /\ fetch' = NewFetch("more", 1)
  /\ UNCHANGED <<logged, me, draft, applied, pages, failed, counting, failures>>

\* The network is back, or the panel is left and opened again.
Refetch ==
  /\ Signed /\ fetch = NoFetch /\ fetches < MaxFetches
  /\ fetches' = fetches + 1
  /\ fetch' = NewFetch("all", PagesOf(applied))
  /\ failed' = IF pages[applied] = NoData THEN failed \ {applied} ELSE failed
  /\ countAsked' = TRUE
  /\ UNCHANGED <<logged, me, draft, applied, pages, count, failures>>

Fetched(l) ==
  /\ pages' = [pages EXCEPT ![applied] = l]
  /\ failed' = failed \ {applied}
  /\ fetch' = NoFetch

\* Load more reads after the pages there are, a fetch of all after those it has read.
readSoFar == IF fetch.kind = "more" THEN pages[applied] ELSE fetch.done

\* Slip: a page is taken for one longer than it is.
overshoot == (PageSize + 1) * readSoFar.pages
offset == PageSize * readSoFar.pages

fetchAuditEvents ==
  /\ fetch # NoFetch
  /\ LET l == appended(readSoFar, list_audit_events(applied, offset))
     IN  IF fetch.kind = "more" \/ l.pages = fetch.left \/ ~hasNextPage(l)
         THEN Fetched(l)
         ELSE fetch' = [fetch EXCEPT !.done = l] /\ UNCHANGED <<pages, failed>>
  /\ UNCHANGED <<logged, me, draft, applied, counting, failures, fetches>>

FetchFails ==
  /\ fetch # NoFetch /\ failures < MaxFailures
  /\ failures' = failures + 1
  /\ failed' = failed \cup {applied} /\ fetch' = NoFetch
  /\ UNCHANGED <<logged, me, draft, applied, pages, counting, fetches>>

fetchAuditCount ==
  /\ countAsked
  /\ countAsked' = FALSE
  /\ count' = [count EXCEPT ![applied] = Cardinality(query(applied))]
  /\ UNCHANGED <<logged, me, draft, applied, pages, failed, fetch, failures, fetches>>

\* An upload, an administrative action, a login or a refused query is logged.
Record(u) ==
  /\ Len(trail) < MaxEvents
  /\ trail' = Append(trail, u)
  /\ UNCHANGED <<purged, me, draft, applied, pages, failed, fetch, counting, failures, fetches>>

\* ivre auditcli --purge-older-than
purge_older_than(n) ==
  /\ purged < n
  /\ purged' = n
  /\ UNCHANGED <<trail, me, draft, applied, pages, failed, fetch, counting, failures, fetches>>

Next ==
  \/ AuthMe \/ apply \/ clear \/ fetchNextPage \/ Refetch
  \/ fetchAuditEvents \/ FetchFails \/ fetchAuditCount
  \/ \E d \in Filters : Type(d)
  \/ \E u \in Users : Record(u)
  \/ \E n \in 1..Len(trail) : purge_older_than(n)

\* Requests are answered.
Spec == Init /\ [][Next]_vars /\ WF_vars(AuthMe) /\ WF_vars(fetchAuditEvents)

-----------------------------------------------------------------------------
\* The shapes of the state; a list has a page, and what it shows came from pages of
\* the size of the server.
ListOK(l) ==
  /\ l \in Lists /\ l.first \subseteq l.rows /\ l.rows \subseteq 1..Len(trail)
  /\ l.shown <= PageSize * l.pages /\ (l.pages = 0 => l.rows = {})
TypeOK ==
  /\ trail \in Seq(Users) /\ purged \in 0..Len(trail)
  /\ me \in {"loading", "anonymous", "signed in"}
  /\ draft \in Filters /\ applied \in Filters
  /\ pages \in [Filters -> Lists \cup {NoData}] /\ failed \subseteq Filters
  /\ \A f \in Filters : pages[f] # NoData => ListOK(pages[f]) /\ pages[f].pages > 0
  /\ fetch \in Fetches \cup {NoFetch}
  /\ fetch # NoFetch => ListOK(fetch.done)
  /\ isFetchingMore => pages[applied] # NoData
  /\ count \in [Filters -> Nat \cup {NoData}] /\ countAsked \in BOOLEAN
  /\ failures \in 0..MaxFailures /\ fetches \in 0..MaxFetches

\* What is in the log and not in the list.
Missing(f, l) == query(f) \ l.rows

\* Of the events that were there when the first page was read, the rows leave nothing
\* out between two of them, whatever was logged or purged between two pages
\* (audit.ts, the offset of getNextPageParam).
NoGap ==
  \A f \in Filters : pages[f] # NoData =>
    \A i \in Missing(f, pages[f]) :
      (\E x \in pages[f].first : i <= x) => \A x \in pages[f].rows : i < x

\* When there is no page to load any more, what is missing is newer than every row
\* (audit.ts, getNextPageParam: "A short page (or empty page) means the server
\* has no more rows beyond this offset").
ShortPageIsLast ==
  \A f \in Filters : pages[f] # NoData /\ ~hasNextPage(pages[f]) =>
    \A i \in Missing(f, pages[f]), x \in pages[f].rows : i > x

\* Nobody but an administrator sees the events of others, whatever the filter
\* and the moment (app.py, list_audit_events).
OwnTrailOnly ==
  \A f \in Filters : pages[f] # NoData /\ ~IsAdmin => \A i \in pages[f].rows : trail[i] = Me

\* The rows under a filter are those of that filter, although the filter
\* changes while pages are in flight (AdminAuditEventsPanel.tsx).
RowsFitTheFilter ==
  IsAdmin => \A f \in Users : pages[f] # NoData => \A i \in pages[f].rows : trail[i] = f

\* Load more only adds rows, as long as the list is not fetched again
\* (AuditEventsPanel.tsx).
MoreKeepsRows ==
  (isFetchingMore /\ pages'[applied] # pages[applied])
    => pages[applied].rows \subseteq pages'[applied].rows

\* The panel of a user who is signed in is loading, which it does not stay.
WaitsForEvents == Signed /\ isLoading

\* A header without a total says that every event is there but those that are newer,
\* when the total is the one of the moment (format.ts: "When the page already holds
\* every matching record also drop the redundant /total suffix").
BareCountMeansAll ==
  (ShowsList /\ count[applied] = Cardinality(query(applied))
     /\ Len(formatResultsCount(pages[applied].shown, count[applied])) = 1)
  => \A i \in Missing(applied, pages[applied]), x \in pages[applied].rows : i > x

\* Why: what is missing of a list of pages was not yet there, or comes after its pages.
Reached(f, i, l) == newer(f, i) >= PageSize * l.pages
OfFilter(f, l) == \A i \in l.rows : scope(f) \in {NoUser, trail[i]}
MissingIsBeyond(f, l) ==
  \A i \in Missing(f, l) : Reached(f, i, l) \/ \A x \in l.rows : i > x
OldIsBeyond(f, l) ==
  \A i \in Missing(f, l) :
    (\E x \in l.first : i <= x) => Reached(f, i, l) /\ \A x \in l.rows : i < x
ShortIsLast(f, l) ==
  l.pages > 0 /\ ~hasNextPage(l) => \A i \in Missing(f, l), x \in l.rows : i > x
ListInv(f, l) ==
  /\ OfFilter(f, l)
  /\ PageSize <= MaxResults => MissingIsBeyond(f, l) /\ OldIsBeyond(f, l) /\ ShortIsLast(f, l)
PagesInv ==
  /\ TypeOK
  /\ \A f \in Filters : pages[f] # NoData => ListInv(f, pages[f])
  /\ fetch # NoFetch => ListInv(applied, fetch.done)
=============================================================================
