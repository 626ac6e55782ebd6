---------------------------- MODULE NotesExplorer ----------------------------
(***************************************************************************)
(* The notes tab of the web interface (routes/notes.tsx): a search box, an  *)
(* entity type, the list of the notes which match, and a sheet for the note *)
(* that `?addr=' names.                                                     *)
(*                                                                          *)
(* The search, the type and the note live in the address of the page.  The  *)
(* router changes the address at once (`url') and renders it in a           *)
(* transition, a moment later (`shown'): until then the handlers and the    *)
(* timers still compute the next address from the one they were rendered    *)
(* with.  Effects run with the render that makes them due.                  *)
(*                                                                          *)
(* An answer is read by the server when it is delivered: what a late answer *)
(* misses is the subject of NotesPanel.  Only hosts have notes today, and   *)
(* the server refuses to list the notes of any other type.                  *)
(***************************************************************************)
EXTENDS Naturals, Sequences, FiniteSets

CONSTANTS Notes,        \* the addresses that can have a note
          NoNote,       \* no `addr' in the address of the page
          Matching,     \* the notes whose text has the word
          Limit,        \* dflt_limit
          NoData,       \* the query cache has no answer
          Links,        \* the addresses the user can follow or start from
          MaxMoves,     \* bound: what the user types, clicks and follows
          MaxFailures,  \* bound: requests that fail
          MaxWrites,    \* bound: notes deleted or created by others
          OthersCreate  \* whether the other users create notes

Texts == {"", "word"}
EntityTypes == {"all", "host", "other"} \* the last one only in a crafted link
Urls == [q : Texts, type : EntityTypes, addr : Notes \cup {NoNote}]

ExplorerAssumption ==
  /\ Matching \subseteq Notes /\ NoNote \notin Notes /\ Links \subseteq Urls
  /\ (\A S \in SUBSET Notes : NoData # S) /\ NoData \notin {"found", "absent"}
  /\ {Limit, MaxMoves, MaxFailures, MaxWrites} \subseteq Nat
  /\ OthersCreate \in BOOLEAN

VARIABLES
  url, shown,  \* the address of the page, and the one that is rendered
  past,        \* the entries of the history behind `url'
  searchInput, \* the text of the search box
  alive,       \* the server: the notes there are
  list,        \* useNotes: the answer for each type and text
  listFailed,  \* useNotes: the types and texts whose last request failed
  listAsked,   \* a request for the list that is shown is in flight
  look,        \* useHostNote: the answer for each note
  lookFailed, lookAsked,
  told,        \* the last toast: the note it is about and why
  moves, failures, writes,
  wanted,      \* the address the user asked for: what was typed, chosen, gone to
  raced        \* the page acted, or a key was pressed, before that was rendered

vars == <<url, shown, past, searchInput, alive, list, listFailed, listAsked, look,
          lookFailed, lookAsked, told, moves, failures, writes, wanted, raced>>
server == <<alive, writes>>
answers == <<list, listFailed, look, lookFailed, failures>>

Keys == Texts \X EntityTypes
keyOf(u) == <<u.q, u.type>>

-----------------------------------------------------------------------------
(* What is on the screen, from what is rendered and what the cache holds.   *)

listLoading(u, l, lf) == l[keyOf(u)] = NoData /\ keyOf(u) \notin lf
listData(u, l) == IF l[keyOf(u)] = NoData THEN {} ELSE l[keyOf(u)]

\* The cards: none while the list loads or when the request failed.
NotesList == IF keyOf(shown) \in listFailed THEN {} ELSE listData(shown, list)

listSelected(u, l) == u.addr \in listData(u, l)

hostLookupEnabled(u, l) ==
  u.addr # NoNote /\ ~listSelected(u, l) /\ u.type \in {"all", "host"}

fallbackFound(u, l, k) == hostLookupEnabled(u, l) /\ k[u.addr] = "found"

SheetOpen == listSelected(shown, list) \/ fallbackFound(shown, list, look)

\* The link leads nowhere: there is no such note, or the request failed.
StaleLink(u, l, k, kf) ==
  /\ hostLookupEnabled(u, l)
  /\ k[u.addr] = "absent" \/ (k[u.addr] # "found" /\ u.addr \in kf)

\* The link names a type that has no request of its own, and the list that
\* was fetched does not have the note.
UnlistedLink(u, l, lf) ==
  /\ u.addr # NoNote /\ ~listSelected(u, l) /\ ~hostLookupEnabled(u, l)
  /\ ~listLoading(u, l, lf) /\ keyOf(u) \notin lf

Dropped(u, l, lf, k, kf) == StaleLink(u, l, k, kf) \/ UnlistedLink(u, l, lf)

Reason(u, kf) == [note |-> u.addr, failed |-> u.addr \in kf]

-----------------------------------------------------------------------------
NoToast == [note |-> NoNote, failed |-> FALSE]

\* The page is opened from a link: both requests leave.
Init ==
  /\ url \in Links /\ shown = url /\ past = <<>>
  /\ searchInput = url.q
  /\ alive \in SUBSET Notes
  /\ list = [k \in Keys |-> NoData] /\ listFailed = {} /\ listAsked = TRUE
  /\ look = [n \in Notes |-> NoData] /\ lookFailed = {}
  /\ lookAsked = hostLookupEnabled(url, list)
  /\ told = NoToast
  /\ moves = 0 /\ failures = 0 /\ writes = 0
  /\ wanted = url /\ raced = FALSE

\* The effects of a render of the address u: a link that leads nowhere is
\* taken out of it, with a toast.  A toast does not outlast the next address.
Effects(u, l, lf, k, kf, due) ==
  IF due /\ Dropped(u, l, lf, k, kf)
    THEN /\ url' = [u EXCEPT !.addr = NoNote]
         /\ told' = Reason(u, kf)
         /\ wanted' = [wanted EXCEPT !.addr = NoNote] /\ raced' = (raced \/ url # u)
    ELSE /\ told' = IF u = shown THEN told ELSE NoToast
         /\ UNCHANGED <<url, wanted, raced>>

\* The effect on `q'.
SyncInput == searchInput' = IF url.q # shown.q THEN url.q ELSE searchInput

\* A hook that looks at another entry asks for it when it is stale; an answer
\* the cache has had for less than 30 s may be kept.  An error is forgotten.
useHostNote(u, l) ==
  LET begins == hostLookupEnabled(u, l) /\ ~(hostLookupEnabled(shown, list) /\ shown.addr = u.addr)
  IN  IF begins
        THEN \/ /\ lookAsked' = TRUE
                /\ lookFailed' = IF look[u.addr] = NoData THEN lookFailed \ {u.addr} ELSE lookFailed
             \/ look[u.addr] # NoData /\ lookAsked' = FALSE /\ UNCHANGED lookFailed
        ELSE /\ lookAsked' = (lookAsked /\ hostLookupEnabled(u, l))
             /\ UNCHANGED lookFailed

\* The address is rendered.  Another list is always fetched; the request for
\* the one that is left is given up.
Render ==
  /\ url # shown
  /\ shown' = url
  /\ SyncInput
  /\ IF keyOf(url) # keyOf(shown)
       THEN /\ listAsked' = TRUE
            /\ listFailed' = IF list[keyOf(url)] = NoData THEN listFailed \ {keyOf(url)} ELSE listFailed
       ELSE UNCHANGED <<listAsked, listFailed>>
  /\ useHostNote(url, list)
  /\ Effects(url, list, listFailed', look, lookFailed', TRUE)
  /\ UNCHANGED <<past, list, look, moves, failures, server>>

-----------------------------------------------------------------------------
(* The user, who waits for the page to be rendered before the next click,   *)
(* but not before the next key.  setSearchParams replaces an entry of the   *)
(* history or pushes one.                                                   *)

Replace(u) == url' = u /\ UNCHANGED past
Push(u) == url' = u /\ past' = Append(past, url)

\* What the user asks for by going to u: the box follows a change of `q'.
Wants(u) ==
  /\ wanted' = IF u.q = shown.q THEN [u EXCEPT !.q = searchInput] ELSE u
  /\ raced' = (raced \/ url # shown)

OnlyUrl == UNCHANGED <<shown, searchInput, listAsked, lookAsked, told, answers, server>>
Moves == moves < MaxMoves /\ moves' = moves + 1

Type(t) ==
  /\ Moves /\ t # searchInput
  /\ searchInput' = t
  /\ wanted' = [wanted EXCEPT !.q = t] /\ raced' = (raced \/ url.q # shown.q)
  /\ UNCHANGED <<url, shown, past, listAsked, lookAsked, told, answers, server>>

\* Slip: an empty box leaves the former text in the address.
keepsFormer == [shown EXCEPT !.q = IF searchInput = "" THEN shown.q ELSE searchInput]
searched == [shown EXCEPT !.q = searchInput]
\* 300 ms after the last change of the box or of the rendered address.
Debounce ==
  /\ searchInput # shown.q
  /\ url # searched
  /\ Replace(searched)
  /\ raced' = (raced \/ url # shown)
  /\ OnlyUrl /\ UNCHANGED <<moves, wanted>>

setEntityType(t) ==
  /\ Moves /\ url = shown /\ t # shown.type
  /\ Push([shown EXCEPT !.type = t])
  /\ Wants([shown EXCEPT !.type = t]) /\ OnlyUrl

onSelectNote(n) ==
  /\ Moves /\ n \in NotesList /\ ~SheetOpen
  /\ Push([shown EXCEPT !.addr = n])
  /\ Wants([shown EXCEPT !.addr = n]) /\ OnlyUrl

closeSheet ==
  /\ Moves /\ SheetOpen
  /\ Replace([shown EXCEPT !.addr = NoNote])
  /\ Wants([shown EXCEPT !.addr = NoNote]) /\ OnlyUrl

Back ==
  /\ Moves /\ url = shown /\ past # <<>>
  /\ url' = past[Len(past)] /\ past' = SubSeq(past, 1, Len(past) - 1)
  /\ Wants(past[Len(past)]) /\ OnlyUrl

FollowLink(u) ==
  /\ Moves /\ url = shown /\ u # url /\ Push(u)
  /\ Wants(u) /\ OnlyUrl

Retry ==
  /\ keyOf(shown) \in listFailed /\ ~listAsked
  /\ listAsked' = TRUE
  /\ listFailed' = IF list[keyOf(shown)] = NoData THEN listFailed \ {keyOf(shown)} ELSE listFailed
  /\ UNCHANGED <<url, shown, past, searchInput, list, look, lookFailed, lookAsked, told,
                 moves, failures, server, wanted, raced>>

-----------------------------------------------------------------------------
(* The answers.                                                             *)

\* What the server lists: the notes which match, Limit of them.
list_notes(k) ==
  LET all == {n \in alive : k[1] = "" \/ n \in Matching}
  IN  {S \in SUBSET all : Cardinality(S) = IF Cardinality(all) < Limit THEN Cardinality(all) ELSE Limit}

\* The list changes what is looked up; a request that is no longer wanted is
\* given up.
Listed(l, lf) ==
  /\ list' = l /\ listFailed' = lf /\ listAsked' = FALSE
  /\ useHostNote(shown, l)
  /\ Effects(shown, l, lf, look, lookFailed',
             hostLookupEnabled(shown, l) # hostLookupEnabled(shown, list) \/ ~hostLookupEnabled(shown, l))
  /\ UNCHANGED <<shown, past, searchInput, look, moves, server>>

ListAnswer ==
  /\ listAsked
  /\ \/ /\ shown.type # "other"
        /\ \E S \in list_notes(keyOf(shown)) :
             Listed([list EXCEPT ![keyOf(shown)] = S], listFailed \ {keyOf(shown)})
        /\ UNCHANGED failures
     \/ shown.type = "other" /\ Listed(list, listFailed \cup {keyOf(shown)}) /\ UNCHANGED failures

ListFails ==
  /\ listAsked /\ shown.type # "other" /\ failures < MaxFailures
  /\ failures' = failures + 1
  /\ Listed(list, listFailed \cup {keyOf(shown)})

LookedUp(k, kf) ==
  /\ look' = k /\ lookFailed' = kf /\ lookAsked' = FALSE
  /\ Effects(shown, list, listFailed, k, kf, TRUE)
  /\ UNCHANGED <<shown, past, searchInput, list, listFailed, listAsked, moves, server>>

LookAnswer ==
  /\ lookAsked
  /\ LookedUp([look EXCEPT ![shown.addr] = IF shown.addr \in alive THEN "found" ELSE "absent"],
              lookFailed \ {shown.addr})
  /\ UNCHANGED failures

LookFails ==
  /\ lookAsked /\ failures < MaxFailures
  /\ failures' = failures + 1
  /\ LookedUp(look, lookFailed \cup {shown.addr})

\* The network is back: what is shown is fetched again.
Reconnect ==
  /\ ~listAsked
  /\ listAsked' = TRUE
  /\ listFailed' = IF list[keyOf(shown)] = NoData THEN listFailed \ {keyOf(shown)} ELSE listFailed
  /\ UNCHANGED <<url, shown, past, searchInput, list, look, lookFailed, lookAsked, told,
                 moves, failures, server, wanted, raced>>

\* Another user removes a note, or writes one.
Other(n) ==
  /\ writes < MaxWrites /\ writes' = writes + 1
  /\ \/ n \in alive /\ alive' = alive \ {n}
     \/ n \notin alive /\ OthersCreate /\ alive' = alive \cup {n}
  /\ UNCHANGED <<url, shown, past, searchInput, listAsked, lookAsked, told, moves, answers, wanted, raced>>

Next ==
  \/ Render \/ Debounce \/ closeSheet \/ Back \/ Retry \/ Reconnect
  \/ ListAnswer \/ ListFails \/ LookAnswer \/ LookFails
  \/ \E t \in Texts : Type(t)
  \/ \E t \in {"all", "host"} : setEntityType(t)
  \/ \E n \in Notes : onSelectNote(n) \/ Other(n)
  \/ \E u \in Links : FollowLink(u)

\* React renders, the timer fires, and requests end; nobody has to type,
\* click or write.
Fairness ==
  /\ WF_vars(Render) /\ WF_vars(Debounce)
  /\ WF_vars(ListAnswer) /\ WF_vars(LookAnswer)

Spec == Init /\ [][Next]_vars /\ Fairness

-----------------------------------------------------------------------------
TypeOK ==
  /\ url \in Urls /\ shown \in Urls /\ past \in Seq(Urls)
  /\ searchInput \in Texts /\ wanted \in Urls /\ alive \subseteq Notes
  /\ list \in [Keys -> {NoData} \cup SUBSET Notes] /\ listFailed \subseteq Keys
  /\ look \in [Notes -> {NoData, "found", "absent"}] /\ lookFailed \subseteq Notes
  /\ {listAsked, lookAsked, raced} \subseteq BOOLEAN
  /\ lookAsked => hostLookupEnabled(shown, list)
  /\ told \in [note : Notes \cup {NoNote}, failed : BOOLEAN]
  /\ moves \in 0..MaxMoves /\ failures \in 0..MaxFailures /\ writes \in 0..MaxWrites

\* Once the address is rendered the box has the text that was typed or gone to last,
\* and the page the type and the note that were chosen or gone to last, less the links
\* that lead nowhere.  The code does not keep this, and the step is left out, where
\* the timer fires, or a link is dropped, before another address is rendered (both
\* write from the rendered one, notes.tsx:81 and :155, which undoes the move), where a
\* key is pressed between the timer and its render (:93, which undoes the key), and
\* where a sheet is closed or opened before the render of another address.
AsTheUserWants ==
  ~raced /\ url = shown =>
    searchInput = wanted.q /\ shown.type = wanted.type /\ shown.addr = wanted.addr

\* What the steps keep: only a change of `q' waits for its render to reach the box.
WantedIsOnItsWay ==
  ~raced =>
    /\ url.type = wanted.type /\ url.addr = wanted.addr
    /\ \/ searchInput = wanted.q /\ url.q \in {shown.q, wanted.q}
       \/ url.q = wanted.q /\ url.q # shown.q

\* The user is told that a note does not exist only when it does not
\* (notes.tsx, the stale link effect waits for the answer).
ToldOfMissingOnly ==
  (told' # told /\ told'.note # NoNote /\ ~told'.failed) => told'.note \notin alive

\* What the toasts are from, where nobody creates a note: an answer that said that
\* a note is absent, since no list of the other types ever comes.
AbsentIsGone ==
  ~OthersCreate => /\ \A n \in Notes : look[n] = "absent" => n \notin alive
                   /\ \A t \in Texts : list[<<t, "other">>] = NoData
TabInv == TypeOK /\ WantedIsOnItsWay /\ AbsentIsGone

\* A link to the note of a host ends with the sheet open or with the link
\* dropped, never with a sheet that stays closed (notes.tsx, lines 46 to 54).
NoteLinked(n) == shown.addr = n /\ shown.type # "other"
NoteLinkSettled(n) == NoteLinked(n) => SheetOpen

\* The box, the address and what is rendered have the same text.
SearchSettled == searchInput = shown.q /\ url = shown
=============================================================================
