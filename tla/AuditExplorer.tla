---------------------------- MODULE AuditExplorer ----------------------------
(***************************************************************************)
(* The explorer of the audit log (AuditExplorer.tsx): filters on the type,  *)
(* the user and the time of the events, the list of those which match, and  *)
(* a sheet for the event that `?event=' names.  Everything is kept in the   *)
(* address of the page.                                                     *)
(*                                                                          *)
(* The router sets the address (`url') and renders it a moment later        *)
(* (`shown').  The updater that is given to setSearchParams is called with  *)
(* the address that was rendered last, and setSearchParams is another       *)
(* function after each change of it.                                        *)
(*                                                                          *)
(* The log does not grow here: AuditPages is about its pages.               *)
(***************************************************************************)
EXTENDS Naturals, Sequences, FiniteSets

CONSTANTS Events,        \* the log: the event identifiers, which are times
          actor, kind,   \* the user and the type of each event
          Users, AnyUser,
          Times, NoTime, \* bounds of the time that can be chosen
          Me, IsAdmin,   \* the reader
          NoEvent,       \* no `event' in the address
          NoData,        \* the query cache has no answer
          PageSize,      \* AUDIT_PAGE_SIZE
          Starts,        \* the addresses the explorer is opened with
          MaxMoves,      \* bound: what the user types, clicks and follows
          MaxFailures    \* bound: requests that fail

AUDIT_EVENT_TYPES == {"upload", "auth"}
NoFilter == [type |-> "all", user |-> AnyUser, since |-> NoTime, until |-> NoTime]
Filters == [type : {"all"} \cup AUDIT_EVENT_TYPES, user : {AnyUser} \cup Users,
            since : Times \cup {NoTime}, until : Times \cup {NoTime}]
Address(f, e) == [filters |-> f, event |-> e]
Urls == [filters : Filters, event : Events \cup {NoEvent}]

ExplorerAssumption ==
  /\ Events \subseteq Nat /\ Times \subseteq Nat /\ NoTime \notin Times
  /\ actor \in [Events -> Users] /\ AnyUser \notin Users /\ Me \in Users
  /\ IsAdmin \in BOOLEAN /\ {NoEvent, NoData} \cap Events = {} /\ Starts \subseteq Urls
  /\ {PageSize, MaxMoves, MaxFailures} \subseteq Nat

VARIABLES
  url, shown,  \* the address of the page, and the one that is rendered
  past,        \* the entries of the history behind `url'
  userInput,   \* the text of the box of the user
  list,        \* useAuditEvents: the rows of each filter
  more,        \* whether there is a page after those rows
  listFailed, listAsked,
  look,        \* useAuditEvent: the event, by its identifier
  lookFailed, lookAsked,
  moves, failures,
  wanted,      \* the address the user asked for: what was typed, chosen, gone to
  raced        \* the timer fired, or a key was pressed, before that was rendered

vars == <<url, shown, past, userInput, list, more, listFailed, listAsked, look,
          lookFailed, lookAsked, moves, failures, wanted, raced>>
rows == <<list, more, listFailed>>
answers == <<list, more, listFailed, look, lookFailed, failures>>

-----------------------------------------------------------------------------
(* The server.                                                              *)

matching(f) ==
  {e \in Events : /\ f.type \in {"all", kind[e]} /\ f.user \in {AnyUser, actor[e]}
                  /\ f.since = NoTime \/ e >= f.since
                  /\ f.until = NoTime \/ e < f.until}

permitted == IF IsAdmin THEN Events ELSE {e \in Events : actor[e] = Me}
refused(f) == ~IsAdmin /\ f.user \notin {AnyUser, Me}
query(f) == matching(f) \cap permitted
firstPage(f) == {e \in query(f) : Cardinality({d \in query(f) : d > e}) < PageSize}

-----------------------------------------------------------------------------
(* What is on the screen.                                                   *)

F(u) == u.filters
events(u, l) == IF l[F(u)] = NoData THEN {} ELSE l[F(u)]
listSelected(u, l) == u.event \in events(u, l)
fallbackEnabled(u, l) == u.event # NoEvent /\ ~listSelected(u, l)

SheetOpen == shown.event # NoEvent
HasEvent == listSelected(shown, list) \/ (SheetOpen /\ look[shown.event] # NoData)
ShowsLoading == fallbackEnabled(shown, list) /\ lookAsked /\ look[shown.event] = NoData
ShowsError == fallbackEnabled(shown, list) /\ shown.event \in lookFailed

\* The rows: none when the request failed.
VirtualEventList == IF F(shown) \in listFailed THEN {} ELSE events(shown, list)
anyFilterActive == F(shown) # NoFilter

-----------------------------------------------------------------------------
Init ==
  /\ url \in Starts /\ shown = url /\ past = <<>>
  /\ userInput = F(url).user
  /\ list = [f \in Filters |-> NoData] /\ more = {} /\ listFailed = {} /\ listAsked = TRUE
  /\ look = [e \in Events |-> NoData] /\ lookFailed = {}
  /\ lookAsked = fallbackEnabled(url, list)
  /\ moves = 0 /\ failures = 0
  /\ wanted = url /\ raced = FALSE

\* The hook asks for another event that is not in the list, unless the cache
\* has it; an error is forgotten.
useAuditEvent(u, l) ==
  LET begins == fallbackEnabled(u, l) /\ ~(fallbackEnabled(shown, list) /\ shown.event = u.event)
  IN  IF begins
        THEN /\ lookAsked' \in {TRUE, look[u.event] = NoData}
             /\ lookFailed' = IF lookAsked' THEN lookFailed \ {u.event} ELSE lookFailed
        ELSE /\ lookAsked' = (lookAsked /\ fallbackEnabled(u, l))
             /\ UNCHANGED lookFailed

\* Slip: the box keeps its text.
KeepsText == UNCHANGED userInput
\* The effect on `userEmail'.
SyncInput ==
  userInput' = IF F(url).user # F(shown).user THEN F(url).user ELSE userInput

Render ==
  /\ url # shown
  /\ shown' = url
  /\ SyncInput
  /\ IF F(url) = F(shown)
       THEN UNCHANGED <<listAsked, listFailed>>
       ELSE /\ listAsked' \in {TRUE, list[F(url)] = NoData}
            /\ listFailed' = IF list[F(url)] = NoData THEN listFailed \ {F(url)} ELSE listFailed
  /\ useAuditEvent(url, list)
  /\ UNCHANGED <<url, past, list, more, look, moves, failures, wanted, raced>>

-----------------------------------------------------------------------------
(* The user, who clicks on what is rendered and types at any time.          *)

Moves == moves < MaxMoves /\ moves' = moves + 1
Push(u) == url' = u /\ past' = Append(past, url)
Replace(u) == url' = u /\ UNCHANGED past
OnlyUrl == UNCHANGED <<shown, userInput, listAsked, lookAsked, answers>>

\* What the user asks for by going to u: the box follows a change of `user'.
Wants(u) ==
  /\ wanted' = IF F(u).user = F(shown).user THEN [u EXCEPT !.filters.user = userInput] ELSE u
  /\ raced' = (raced \/ url # shown)

setFilter(f) ==
  /\ Moves /\ url = shown /\ f # F(shown)
  /\ Push(Address(f, shown.event))
  /\ Wants(Address(f, shown.event)) /\ OnlyUrl

setEventType(t) == setFilter([F(shown) EXCEPT !.type = t])
setSince(t) == setFilter([F(shown) EXCEPT !.since = t])
setUntil(t) == setFilter([F(shown) EXCEPT !.until = t])
clearAll == anyFilterActive /\ setFilter(NoFilter)

Type(x) ==
  /\ Moves /\ x # userInput
  /\ userInput' = x
  /\ wanted' = [wanted EXCEPT !.filters.user = x]
  /\ raced' = (raced \/ F(url).user # F(shown).user)
  /\ UNCHANGED <<url, shown, past, listAsked, lookAsked, answers>>

typedUser == userInput
\* 300 ms after the last change of the box or of the rendered address.
Debounce ==
  /\ userInput # F(shown).user
  /\ url # Address([F(shown) EXCEPT !.user = typedUser], shown.event)
  /\ Replace(Address([F(shown) EXCEPT !.user = typedUser], shown.event))
  /\ raced' = (raced \/ url # shown)
  /\ OnlyUrl /\ UNCHANGED <<moves, wanted>>

openEvent(e) ==
  /\ Moves /\ url = shown /\ ~SheetOpen /\ e \in VirtualEventList
  /\ Push(Address(F(shown), e))
  /\ Wants(Address(F(shown), e)) /\ OnlyUrl

closeSheet ==
  /\ Moves /\ SheetOpen
  /\ Replace(Address(F(shown), NoEvent))
  /\ Wants(Address(F(shown), NoEvent)) /\ OnlyUrl

Back ==
  /\ Moves /\ url = shown /\ past # <<>>
  /\ url' = past[Len(past)] /\ past' = SubSeq(past, 1, Len(past) - 1)
  /\ Wants(past[Len(past)]) /\ OnlyUrl

Retry ==
  /\ F(shown) \in listFailed /\ ~listAsked
  /\ listAsked' = TRUE
  /\ listFailed' = IF list[F(shown)] = NoData THEN listFailed \ {F(shown)} ELSE listFailed
  /\ UNCHANGED <<url, shown, past, userInput, list, more, look, lookFailed, lookAsked,
                 moves, failures, wanted, raced>>

-----------------------------------------------------------------------------
(* The answers.                                                             *)

Listed(l, m, lf) ==
  /\ list' = l /\ more' = m /\ listFailed' = lf /\ listAsked' = FALSE
  /\ useAuditEvent(shown, l)
  /\ UNCHANGED <<url, shown, past, userInput, look, moves, wanted, raced>>

fetchAuditEvents ==
  /\ listAsked
  /\ IF refused(F(shown))
       THEN Listed(list, more, listFailed \cup {F(shown)})
       ELSE LET page == firstPage(F(shown))
            IN  Listed([list EXCEPT ![F(shown)] = page],
                       IF Cardinality(page) < PageSize THEN more \ {F(shown)} ELSE more \cup {F(shown)},
                       listFailed \ {F(shown)})
  /\ UNCHANGED failures

fetchNextPage ==
  /\ ~listAsked /\ F(shown) \in more /\ F(shown) \notin listFailed
  /\ Listed([list EXCEPT ![F(shown)] = query(F(shown))], more \ {F(shown)}, listFailed)
  /\ UNCHANGED failures

ListFails ==
  /\ listAsked /\ failures < MaxFailures
  /\ failures' = failures + 1
  /\ Listed(list, more, listFailed \cup {F(shown)})

LookedUp(k, kf) ==
  /\ look' = k /\ lookFailed' = kf /\ lookAsked' = FALSE
  /\ UNCHANGED <<url, shown, past, userInput, rows, listAsked, moves, wanted, raced>>

failing(e) == {e}

\* An event of another user answers as an event that does not exist.
fetchAuditEvent ==
  /\ lookAsked
  /\ IF shown.event \in permitted
       THEN LookedUp([look EXCEPT ![shown.event] = shown.event], lookFailed \ {shown.event})
       ELSE LookedUp(look, lookFailed \cup failing(shown.event))
  /\ UNCHANGED failures

LookFails ==
  /\ lookAsked /\ failures < MaxFailures
  /\ failures' = failures + 1
  /\ LookedUp(look, lookFailed \cup failing(shown.event))

Next ==
  \/ Render \/ Debounce \/ clearAll \/ closeSheet \/ Back \/ Retry
  \/ fetchAuditEvents \/ fetchNextPage \/ ListFails \/ fetchAuditEvent \/ LookFails
  \/ \E t \in {"all"} \cup AUDIT_EVENT_TYPES : setEventType(t)
  \/ \E t \in Times \cup {NoTime} : setSince(t) \/ setUntil(t)
  \/ \E x \in Users \cup {AnyUser} : Type(x)
  \/ \E e \in Events : openEvent(e)

\* React renders, the timer fires and requests end.
Spec ==
  /\ Init /\ [][Next]_vars
  /\ WF_vars(Render) /\ WF_vars(Debounce)
  /\ WF_vars(fetchAuditEvents) /\ WF_vars(fetchAuditEvent)

-----------------------------------------------------------------------------
TypeOK ==
  /\ url \in Urls /\ shown \in Urls /\ past \in Seq(Urls)
  /\ userInput \in Users \cup {AnyUser} /\ wanted \in Urls
  /\ list \in [Filters -> {NoData} \cup SUBSET Events]
  /\ more \subseteq Filters /\ listFailed \subseteq Filters
  /\ look \in [Events -> {NoData} \cup Events] /\ lookFailed \subseteq Events
  /\ {listAsked, lookAsked, raced} \subseteq BOOLEAN
  /\ lookAsked => fallbackEnabled(shown, list)
  /\ moves \in 0..MaxMoves /\ failures \in 0..MaxFailures

\* The sheet is never empty: it has the event, says that it loads or that it
\* cannot be shown (AuditEventDetailSheet.tsx: "a stale or out-of-scope link
\* surfaces a clear message instead of an empty sheet").
NeverBlank == SheetOpen => (HasEvent \/ ShowsLoading \/ ShowsError)

\* A link to an event ends with the event or with an error.
EventLinked(e) == shown.event = e
EventLinkSettled(e) == EventLinked(e) => HasEvent \/ ShowsError

\* Whatever was asked before, the cache holds no event the reader may not see
\* and no row outside the bounds of its filter (audit.ts, AuditFilters: the
\* lower bound is inclusive and the upper one exclusive).
InScope ==
  /\ \A f \in Filters : \A e \in events(Address(f, NoEvent), list) :
       /\ IsAdmin \/ actor[e] = Me
       /\ f.since = NoTime \/ f.since <= e
       /\ f.until = NoTime \/ e < f.until
  /\ \A e \in Events : IsAdmin \/ actor[e] = Me \/ look[e] = NoData

\* Once the address is rendered the box has the user that was typed or gone to last,
\* and the page the other filters and the event that were chosen or gone to last.  The
\* code does not keep this, and the step is left out, where the timer fires before
\* another address is rendered (it writes from the rendered one,
\* AuditExplorer.tsx:154, which undoes the move), where a key is pressed between the
\* timer and its render (:166, which undoes the key), and where a sheet is closed before
\* the render of another address.  A clear of filters that have no user is a move that
\* keeps the text of the box, which then filters (:176).
AsTheUserWants ==
  ~raced /\ url = shown =>
    /\ userInput = F(wanted).user /\ shown.event = wanted.event
    /\ F(shown) = [F(wanted) EXCEPT !.user = F(shown).user]

\* What the steps keep: only a change of `user' waits for its render to reach the box.
WantedIsOnItsWay ==
  ~raced =>
    /\ url.event = wanted.event /\ F(url) = [F(wanted) EXCEPT !.user = F(url).user]
    /\ \/ userInput = F(wanted).user /\ F(url).user \in {F(shown).user, F(wanted).user}
       \/ F(url).user = F(wanted).user /\ F(url).user # F(shown).user

\* The steps keep these together.
ExplorerInv == TypeOK /\ NeverBlank /\ InScope /\ WantedIsOnItsWay

\* The box, the address and the page have the same user.
FilterSettled == userInput = F(shown).user /\ url = shown
=============================================================================
