---------------------------- MODULE RecordPages ----------------------------
(***************************************************************************)
(* The pages of results of the web interface: the list of a section, its    *)
(* pager, its total, and the sheet of one host (host-list.tsx,              *)
(* passive-list.tsx, dns.tsx, rir.tsx, paging.ts and the hooks of api.ts).  *)
(*                                                                          *)
(* The address holds the whole state of a page: query, limit, skip and the  *)
(* host of the sheet.  What the address names is asked for, and shown as    *)
(* soon as the cache has it; what it stops naming is aborted.  The records  *)
(* of the server may change between two requests.                           *)
(*                                                                          *)
(* `picked' and `walked' follow what the user did, for the properties only. *)
(***************************************************************************)
EXTENDS Integers, FiniteSets, SequencesExt

CONSTANTS Section,    \* the name of the section
          Docs,       \* the records: [addr, name, id]
          Matches,    \* per query, the records it matches
          Links,      \* the addresses that are followed
          DefaultLimit,  \* WEB_LIMIT, which is also config.dflt_limit
          MaxResults, \* WEB_MAXRESULTS, or 0
          MayFail,    \* whether requests may fail
          MaxWrites,  \* bound: the records added or removed meanwhile
          NoParam, None, NoData, Failed

PagesAssumption ==
  /\ Section \in {"view", "active", "passive", "dns", "rir"}
  /\ DefaultLimit \in Nat \ {0} /\ MaxResults \in Nat /\ MaxWrites \in Nat

VARIABLES
  db,      \* the server: the records, in the order it sends them
  url,     \* the address of the page
  cache,   \* the requests that were answered
  flight,  \* the requests in flight
  writes,
  picked,  \* the record the user asked the sheet for, or None
  walked   \* the records on the pages shown before, from the first on, or None

vars == <<db, url, cache, flight, writes, picked, walked>>

-----------------------------------------------------------------------------
(* The sections.                                                            *)

HostListRoute == [sheet |-> TRUE, paged |-> Section = "view", counted |-> TRUE]
PassiveRoute == [sheet |-> FALSE, paged |-> FALSE, counted |-> TRUE]
DnsRoute == [sheet |-> FALSE, paged |-> FALSE, counted |-> FALSE]
RirRoute == [sheet |-> FALSE, paged |-> FALSE, counted |-> TRUE]
Route == CASE Section \in {"view", "active"} -> HostListRoute
           [] Section = "passive" -> PassiveRoute
           [] Section = "dns" -> DnsRoute
           [] Section = "rir" -> RirRoute

parseUrlInt(raw, min, fallback) ==
  IF raw = NoParam THEN fallback ELSE IF raw < min THEN fallback ELSE raw

\* The limit of the sections without a pager is taken as it is, but for 0.
rawLimit(u) == IF u.limit \in {NoParam, 0} THEN DefaultLimit ELSE u.limit
limit(u) == IF Route.sheet THEN parseUrlInt(u.limit, 1, DefaultLimit) ELSE rawLimit(u)
skip(u) == IF Route.paged THEN parseUrlInt(u.skip, 0, 0) ELSE 0

-----------------------------------------------------------------------------
(* The requests.                                                            *)

\* Slip: the page is not part of the key.
useHostsWithoutPage(u) == <<"hosts", u.q, limit(u), 0>>
useHosts(u) == <<"hosts", u.q, limit(u), skip(u)>>
usePassiveRecords(u) == <<"passive", u.q, limit(u), 0>>
useDnsRecords(u) == <<"dns", u.q, limit(u), 0>>
useRirRecords(u) == <<"rir", u.q, limit(u), 0>>
Page(u) == CASE Section \in {"view", "active"} -> useHosts(u)
             [] Section = "passive" -> usePassiveRecords(u)
             [] Section = "dns" -> useDnsRecords(u)
             [] Section = "rir" -> useRirRecords(u)
useCount(u) == <<"count", u.q>>
directHost(u) == <<"direct", u.addr>>

Has(c, k) == k \in DOMAIN c /\ c[k] # Failed
Hosts(u, c) == IF Has(c, Page(u)) THEN c[Page(u)] ELSE <<>>
Total(u, c) == IF Route.counted /\ Has(c, useCount(u)) THEN c[useCount(u)] ELSE NoData

\* The first record of the list with the address of the sheet.
selectedIndex(u, c) ==
  IF u.addr = None THEN 0
  ELSE SelectInSeq(Hosts(u, c), LAMBDA d : d.addr = u.addr)

Observed(u, c) ==
  {Page(u)} \cup (IF Route.counted THEN {useCount(u)} ELSE {})
    \cup (IF u.addr # None /\ selectedIndex(u, c) = 0 THEN {directHost(u)} ELSE {})

\* What the user sees in the sheet.
selectedHost(u, c) ==
  LET i == selectedIndex(u, c) IN
    CASE u.addr = None -> None
      [] i > 0 -> Hosts(u, c)[i]
      [] i = 0 /\ u.addr # None /\ Has(c, directHost(u)) /\ c[directHost(u)] # <<>> ->
           c[directHost(u)][1]
      [] OTHER -> None

\* The sheet covers the page: only its own buttons, and the filters of its host,
\* are within reach.
SheetOpen == selectedHost(url, cache) # None

\* A render with another address or other answers: what is new is fetched, if
\* there is nothing in the cache or if it is stale; what is not observed any
\* more is aborted.
Render(u, c, sent) ==
  /\ url' = u
  /\ cache' = c
  /\ LET new == Observed(u, c) \ Observed(url, cache)
         kept == sent \cap Observed(u, c)
         missing == {k \in new : ~Has(c, k)} IN
       \E stale \in SUBSET (IF u # url THEN new \ missing ELSE {}) :
         flight' = kept \cup missing \cup stale

-----------------------------------------------------------------------------
(* The server.                                                              *)

Select(s) == SelectSeq(db, LAMBDA d : d \in s)
Cut(s, from, n) == SubSeq(s, from + 1, IF from + n < Len(s) THEN from + n ELSE Len(s))
resolve_limit(n) == IF MaxResults # 0 /\ (n = 0 \/ n > MaxResults) THEN MaxResults ELSE n

\* Only View writes its limit and its skip in the query; the parameters next to
\* it are not read.
fetchHosts(k) ==
  IF Route.paged
    THEN Cut(Select(Matches[k[2]]), k[4],
             IF k[3] < 0 THEN resolve_limit(DefaultLimit) ELSE resolve_limit(k[3]))
    ELSE Cut(Select(Matches[k[2]]), 0, resolve_limit(DefaultLimit))
fetchCount(k) == Len(Select(Matches[k[2]]))
fetchDirect(k) == Cut(Select({d \in Docs : d.addr = k[2]}), 0, resolve_limit(DefaultLimit))
Reply(k) == CASE k[1] = "count" -> fetchCount(k)
              [] k[1] = "direct" -> fetchDirect(k)
              [] OTHER -> fetchHosts(k)

Kept(k, v) == [x \in DOMAIN cache \cup {k} |-> IF x = k THEN v ELSE cache[x]]

Answer(k) ==
  /\ k \in flight
  /\ \/ Render(url, Kept(k, Reply(k)), flight \ {k})
     \/ MayFail /\ Render(url, Kept(k, Failed), flight \ {k})
  /\ UNCHANGED <<db, writes, picked, walked>>

\* An import, or a removal.
Write ==
  /\ writes < MaxWrites
  /\ writes' = writes + 1
  /\ \/ \E d \in Docs \ Range(db) : db' = <<d>> \o db
     \/ \E d \in Range(db) : db' = SelectSeq(db, LAMBDA x : x # d)
  /\ UNCHANGED <<url, cache, flight, picked, walked>>

-----------------------------------------------------------------------------
(* The pager.                                                               *)

loaded == Len(Hosts(url, cache))
total == Total(url, cache)
last == skip(url) + loaded
atStart == skip(url) = 0
atEnd == IF total # NoData THEN last >= total ELSE loaded < limit(url)
lastSkip == IF total \in {NoData, 0} THEN 0
            ELSE ((total - 1) \div limit(url)) * limit(url)
showPagination == Route.paged /\ Has(cache, Page(url)) /\ (loaded > 0 \/ skip(url) > 0)

Go(u, pick, walk) ==
  /\ Render(u, cache, flight)
  /\ picked' = pick /\ walked' = walk
  /\ UNCHANGED <<db, writes>>
From(u) == IF skip(u) = 0 THEN {} ELSE None

setSkip(n) == [url EXCEPT !.skip = IF n <= 0 THEN NoParam ELSE n]
FirstPage == showPagination /\ ~SheetOpen /\ ~atStart /\ Go(setSkip(0), picked, {})
PreviousPage ==
  /\ showPagination /\ ~SheetOpen /\ ~atStart
  /\ LET u == setSkip(skip(url) - limit(url)) IN Go(u, picked, From(u))
NextPage ==
  /\ showPagination /\ ~SheetOpen /\ ~atEnd
  /\ Go(setSkip(skip(url) + limit(url)), picked,
        IF walked = None THEN None ELSE walked \cup Range(Hosts(url, cache)))
LastPage ==
  /\ showPagination /\ ~SheetOpen /\ ~atEnd /\ total # NoData
  /\ LET u == setSkip(lastSkip) IN Go(u, picked, From(u))

\* The host of the sheet is kept.
setFilters(q) ==
  /\ q # url.q
  /\ LET u == [url EXCEPT !.q = q, !.skip = IF Route.paged THEN NoParam ELSE @] IN
       Go(u, None, From(u))

-----------------------------------------------------------------------------
(* The sheet.                                                               *)

goToHost(d) == Go([url EXCEPT !.addr = d.addr], d, walked)
\* A click on a card.
onSelect(i) ==
  /\ Route.sheet /\ ~SheetOpen
  /\ i \in DOMAIN Hosts(url, cache) /\ goToHost(Hosts(url, cache)[i])
hasPrev == selectedIndex(url, cache) > 1
hasNext == selectedIndex(url, cache) \in 1..(loaded - 1)
PrevHost == hasPrev /\ goToHost(Hosts(url, cache)[selectedIndex(url, cache) - 1])
NextHost == hasNext /\ goToHost(Hosts(url, cache)[selectedIndex(url, cache) + 1])
closeDetail == SheetOpen /\ Go([url EXCEPT !.addr = None], None, walked)

\* An address is followed in a new window: nothing is in the cache.
Opened(u) == /\ url = u /\ cache = <<>> /\ flight = Observed(u, <<>>)
             /\ picked = None /\ walked = From(u)
Init == /\ db \in {s \in SetToSeqs(Docs) : \A i \in 1..(Len(s) - 1) : s[i].id < s[i + 1].id}
        /\ \E u \in Links : Opened(u)
        /\ writes = 0

Next ==
  \/ \E k \in flight : Answer(k)
  \/ Write
  \/ FirstPage \/ PreviousPage \/ NextPage \/ LastPage
  \/ \E q \in DOMAIN Matches : setFilters(q)
  \/ \E i \in DOMAIN Hosts(url, cache) : onSelect(i)
  \/ PrevHost \/ NextHost \/ closeDetail

Fairness == \A k \in {<<"count", q>> : q \in DOMAIN Matches}
                       \cup {<<"direct", d.addr>> : d \in Docs} : WF_vars(Answer(k))
Spec == Init /\ [][Next]_vars
FairSpec == Spec /\ Fairness /\ WF_vars(\E k \in flight : Answer(k))

-----------------------------------------------------------------------------
(* The cards.                                                               *)

\* The keys React tells the cards of a list by.
HostCardList(s) == [i \in DOMAIN s |-> s[i].addr]
PassiveRecordList(s) == [i \in DOMAIN s |-> i]
DnsCards(s) == [i \in DOMAIN s |-> <<s[i].name, s[i].addr>>]
rirRecordKey(s) == [i \in DOMAIN s |-> <<s[i].name, i>>]
Cards(s) == CASE Section \in {"view", "active"} -> HostCardList(s)
              [] Section = "passive" -> PassiveRecordList(s)
              [] Section = "dns" -> DnsCards(s)
              [] Section = "rir" -> rirRecordKey(s)

-----------------------------------------------------------------------------

\* The shapes of the state; nothing is in flight but what the page observes,
\* and what the page observes is there or in flight.
TypeOK ==
  /\ Range(db) \subseteq Docs /\ IsInjective(db)
  /\ flight \subseteq Observed(url, cache)
  /\ \A k \in Observed(url, cache) : k \in flight \/ k \in DOMAIN cache
  /\ writes \in 0..MaxWrites

\* The list shows records of the query of the address, from the page of the
\* address, whatever was shown before and whatever is written meanwhile.
ListIsOfAddress ==
  /\ Range(Hosts(url, cache)) \subseteq Matches[url.q]
  /\ writes = 0 /\ Has(cache, Page(url)) /\ Route.paged /\ MaxResults = 0 =>
       Hosts(url, cache) = Cut(Select(Matches[url.q]), skip(url), limit(url))

\* No page has more records than its limit.
PageFits == loaded <= limit(url)

\* The user who reads a query from its first page and presses Next until the
\* button is disabled has seen every record.
WalkSeesAll ==
  walked # None /\ writes = 0 /\ Has(cache, Page(url)) /\ (Route.paged => total # NoData /\ atEnd) =>
    walked \cup Range(Hosts(url, cache)) = Matches[url.q] \cap Range(db)

\* Once the total is known no button leads past the last record, and another
\* query is read from its first page.  Before that Next may lead to an empty page.
PagesStayInside ==
  writes' = 0 /\ <<url'.q, skip(url')>> # <<url.q, skip(url)>> =>
    \/ skip(url') = 0
    \/ url'.q = url.q /\ (total # NoData => skip(url') < total)

\* paging.ts:75: when the total is known the bounds are exact.  The last record
\* that is shown is not after the last one there is.
BoundsAreExact ==
  showPagination /\ loaded > 0 /\ total # NoData => last <= total

\* host-list.tsx:210: the address says which host is in the sheet.  The user who
\* selects a host, or goes to the next one, gets that one.
SheetShowsPicked ==
  picked # None /\ writes = 0 /\ selectedHost(url, cache) # None =>
    selectedHost(url, cache) = picked

\* Two cards of a list have different keys.
CardsAreDistinct == IsInjective(Cards(Hosts(url, cache)))

\* The address asks for the sheet of a host; the sheet has a host, or the address
\* asks for another one.  The first leads to the second when the host exists.
SheetAsked(d) == url.addr = d.addr
SheetGiven(d) == url.addr # d.addr \/ selectedHost(url, cache) # None
=============================================================================
