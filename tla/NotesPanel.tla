----------------------------- MODULE NotesPanel -----------------------------
(***************************************************************************)
(* The notes panel of the host sheet (HostNotesPanel.tsx with the hooks of  *)
(* lib/api.ts) in front of the note register of the server, which the other *)
(* users write too.                                                         *)
(*                                                                          *)
(* The panel shows what the query cache holds for the host of the sheet.    *)
(* The previous and next buttons of the sheet change that host and keep the *)
(* panel.  React keeps a component as long as it is rendered at the same    *)
(* place with the same key, and the key of the editor is the revision of    *)
(* the note: `Rendered' says what becomes of the editor.  A call in flight  *)
(* outlives the component that made it; what the component wanted to do     *)
(* with the answer does not.                                                *)
(*                                                                          *)
(* Under the note, the history of its revisions is asked for when it is     *)
(* opened.  A query that nothing on the screen wants anew is not fetched    *)
(* when it is invalidated, and one that is on its way still answers.        *)
(*                                                                          *)
(* The user is signed in and the server has a notes backend, whose log has  *)
(* one row for each revision (NotesStore tells what becomes of the rows).   *)
(***************************************************************************)
EXTENDS Naturals, FiniteSets

CONSTANTS Hosts,
          Closed,      \* no sheet is open
          NoData,      \* the cache has nothing for this host
          NoEditor,
          Idle, Asked, \* no fetch in flight; a fetch the server has not read
          MaxWrites,   \* bound: calls of the panel and writes of the others
          MaxFailures, \* bound: requests that are refused or fail
          MaxLooks,    \* bound: how many times the history is opened
          OthersDelete \* whether the other users delete notes

\* A note that does not exist has revision 0.  `id' names the write that made
\* the note (or removed it), `life' the write that created it.
Note == [rev : Nat, id : Nat, life : Nat]
\* The answer of the history, and the state of an editor.
Revisions == [rows : Nat, id : Nat]
Drafts == [host : Hosts, seen : Nat, life : Nat, typed : BOOLEAN]
Editors == [key : Nat, draft : Drafts, pending : 0..MaxWrites,
            conflict : BOOLEAN, copying : BOOLEAN, copied : BOOLEAN]

PanelAssumption ==
  /\ {MaxWrites, MaxFailures, MaxLooks} \subseteq Nat /\ OthersDelete \in BOOLEAN
  /\ Closed \notin Hosts /\ Idle # Asked
  /\ {NoData, Idle, Asked} \cap (Note \cup Revisions) = {} /\ NoEditor \notin Editors

VARIABLES
  note,     \* the server: the note of each host
  at,       \* the host of the open sheet, or Closed
  cache,    \* useHostNote: what the last answer was for each host
  dirty,    \* the hosts whose entry was invalidated since
  failed,   \* the hosts whose last fetch failed
  fetch,    \* the fetch for the host of the sheet
  editing,  \* isEditing of HostNotesBody
  editor,   \* the state of the mounted NoteEditor
  deleting, \* the call of the mounted NoteDisplay that is pending, or 0
  calls,    \* saves and deletions in flight
  opened,   \* showHistory of the mounted NoteDisplay
  log,      \* useHostNoteRevisions: the last answer for each host
  logDirty,  \* the hosts whose revisions were invalidated since
  look,     \* the fetch of the revisions for the host of the sheet
  writes, failures, looks,
  clock,    \* the server: how many writes took effect
  own,      \* history: per host, the last write the panel was told of
  heard     \* history: of these, the last that found no fetch of the revisions to outlive

history == <<opened, log, logDirty, look, looks, heard>>
vars == <<note, at, cache, dirty, failed, fetch, editing, editor, deleting,
          calls, history, writes, failures, clock, own>>

Never == [rev |-> 0, id |-> 0, life |-> 0]
Saved(n, w) == [rev |-> n.rev + 1, id |-> w, life |-> IF n.rev = 0 THEN w ELSE n.life]
Deleted(w) == [rev |-> 0, id |-> w, life |-> 0]

\* What is in the text area: the host and the note it started from.
Draft(h, n) == [host |-> h, seen |-> n.id, life |-> n.life, typed |-> FALSE]

Newer(m, n) == IF m > n THEN m ELSE n

Init ==
  /\ note = [h \in Hosts |-> Never]
  /\ at = Closed
  /\ cache = [h \in Hosts |-> NoData]
  /\ dirty = {} /\ failed = {}
  /\ fetch = Idle
  /\ editing = FALSE /\ editor = NoEditor /\ deleting = 0
  /\ calls = {}
  /\ opened = FALSE /\ log = [h \in Hosts |-> NoData] /\ logDirty = {} /\ look = Idle
  /\ writes = 0 /\ failures = 0 /\ looks = 0 /\ clock = 0
  /\ own = [h \in Hosts |-> 0] /\ heard = [h \in Hosts |-> 0]

-----------------------------------------------------------------------------
(* What is on the screen.                                                   *)

isLoading(h, c, e) == c[h] = NoData /\ h \notin e
HasBody(h, c, e) == h # Closed /\ ~isLoading(h, c, e) /\ h \notin e

ShowsEditor == editing /\ HasBody(at, cache, failed)
ShowsNote == ~editing /\ HasBody(at, cache, failed) /\ cache[at].rev > 0
ShowsEmpty == ~editing /\ HasBody(at, cache, failed) /\ cache[at].rev = 0

InDialog == editor # NoEditor /\ editor.conflict

Fresh(h, n) == [key |-> n.rev, draft |-> Draft(h, n), pending |-> 0,
                conflict |-> FALSE, copying |-> FALSE, copied |-> FALSE]

Keyed(h, n) == IF editor # NoEditor /\ editor.key = n.rev THEN editor ELSE Fresh(h, n)

\* The editor after a step: the same one when it stays with the same key.
Rendered(h, c, e, ed) ==
  IF ed /\ HasBody(h, c, e) THEN Keyed(h, c[h]) ELSE NoEditor

\* The component which made call c is still there.
Mounted(c) == IF c.op = "delete" THEN deleting = c.n
                                 ELSE editor # NoEditor /\ editor.pending = c.n

\* A call takes the host of its component at each render, for what is to be
\* done with its answer.
Readdressed(c, h, kept) == IF Mounted(c) /\ kept THEN [c EXCEPT !.key = h] ELSE c

\* The component that shows the note stays, with the history under it.
NoteStays(h, c, e, ed) == ShowsNote /\ ~ed /\ HasBody(h, c, e) /\ c[h].rev > 0

\* The screen of host h, with cache c, failures e and isEditing ed, while the
\* calls cs are in flight.
Render(h, c, e, ed, cs) ==
  LET noteStays == NoteStays(h, c, e, ed)
      next == Rendered(h, c, e, ed)
      editorStays == editor # NoEditor /\ next # NoEditor /\ next.pending # 0
  IN  /\ at' = h /\ cache' = c /\ failed' = e /\ editing' = ed
      /\ editor' = next
      /\ deleting' = IF noteStays THEN deleting ELSE 0
      /\ opened' = (opened /\ noteStays)
      /\ calls' = {Readdressed(x, h, noteStays \/ editorStays) : x \in cs}

-----------------------------------------------------------------------------
(* The history.                                                             *)

\* What an observer of the revisions of host h makes of their fetch: the one in flight
\* serves it, and an entry that is stale is fetched.
LookUp(h, inFlight) ==
  IF inFlight # Idle THEN {inFlight}
  ELSE IF log[h] = NoData \/ h \in logDirty THEN {Asked} ELSE {Idle, Asked}

\* The fetch of the revisions after a step that shows host h: it is aborted with the
\* component, and when the component goes to another host.
Looking(h, noteStays) ==
  /\ look' \in IF ~noteStays THEN {Idle}
              ELSE IF h = at THEN {look}
              ELSE IF opened THEN LookUp(h, Idle) ELSE {Idle}
  /\ UNCHANGED <<log, logDirty, looks, heard>>

\* A fetch of the revisions that is on its way when they are invalidated goes on, when
\* it is the first one or the history is hidden.
Outlives(h, noteStays) ==
  noteStays /\ h = at /\ look # Idle /\ (log[h] = NoData \/ ~opened)

\* The revisions of host h are invalidated: they are fetched anew when they are on the
\* screen, which the note may leave in this step.
InvalidateLog(h, noteStays) ==
  /\ logDirty' = logDirty \cup {h}
  /\ look' = IF ~noteStays THEN Idle
             ELSE IF h = at /\ opened /\ ~Outlives(h, noteStays) THEN Asked
             ELSE look
  /\ heard' = [heard EXCEPT ![h] = IF Outlives(h, noteStays) THEN @ ELSE own'[h]]
  /\ UNCHANGED <<log, looks>>

-----------------------------------------------------------------------------
(* The query cache.                                                         *)

\* A fetch that is asked for takes the place of the one in flight, unless the
\* entry has no data yet.
Refetched(h) ==
  fetch' = IF fetch # Idle /\ cache[h] = NoData THEN fetch ELSE Asked

\* Slip: a fetch in flight serves those who ask later.
Deduplicated(h) ==
  /\ dirty' = dirty \cup {h}
  /\ IF h = at /\ fetch = Idle THEN Refetched(h) ELSE UNCHANGED fetch
\* Slip: the entry is only marked.
Marked(h) == dirty' = dirty \cup {h} /\ UNCHANGED fetch
\* The entry of host h is invalidated, and fetched anew when it is shown.
Invalidate(h) ==
  /\ dirty' = dirty \cup {h}
  /\ IF h = at THEN Refetched(h) ELSE UNCHANGED fetch

\* The panel begins to observe host h: its entry is fetched when it is stale.
useHostNote(h) ==
  \/ /\ fetch' = Asked
     /\ failed' = IF cache[h] = NoData THEN failed \ {h} ELSE failed
  \/ cache[h] # NoData /\ h \notin dirty /\ fetch' = Idle /\ UNCHANGED failed

\* The sheet opens on host h.
Open(h) ==
  /\ at = Closed
  /\ useHostNote(h)
  /\ at' = h
  /\ UNCHANGED <<note, cache, dirty, editing, editor, deleting, calls, history,
                 writes, failures, clock, own>>

\* The previous or next button of the sheet; the fetch for the host that is
\* left is aborted.
goToHost(h) ==
  /\ at \notin {h, Closed}
  /\ ~InDialog
  /\ fetch' \in {Asked, Idle}
  /\ (cache[h] = NoData \/ h \in dirty) => fetch' = Asked
  /\ LET e == IF cache[h] = NoData THEN failed \ {h} ELSE failed IN
       /\ Render(h, cache, e, editing, calls)
       /\ Looking(h, NoteStays(h, cache, e, editing))
  /\ UNCHANGED <<note, dirty, writes, failures, clock, own>>

closeDetail ==
  /\ at # Closed
  /\ ~InDialog
  /\ fetch' = Idle
  /\ Render(Closed, cache, failed, FALSE, calls)
  /\ Looking(Closed, FALSE)
  /\ UNCHANGED <<note, dirty, writes, failures, clock, own>>

\* The network comes back while the entry, or that of the revisions, is stale.
Reconnect ==
  /\ \/ at # Closed /\ fetch = Idle /\ fetch' = Asked /\ UNCHANGED look
     \/ opened /\ look = Idle /\ look' = Asked /\ UNCHANGED fetch
  /\ UNCHANGED <<note, at, cache, dirty, failed, editing, editor, deleting,
                 calls, opened, log, logDirty, looks, heard, writes, failures, clock, own>>

\* The server reads the note for the fetch in flight.
ServeFetch ==
  /\ fetch = Asked
  /\ fetch' = note[at]
  /\ UNCHANGED <<note, at, cache, dirty, failed, editing, editor, deleting,
                 calls, history, writes, failures, clock, own>>

\* The answer arrives: found or absent.
fetchHostNote ==
  /\ fetch \notin {Idle, Asked}
  /\ LET c == [cache EXCEPT ![at] = fetch] IN
       /\ Render(at, c, failed \ {at}, editing, calls)
       /\ Looking(at, NoteStays(at, c, failed \ {at}, editing))
  /\ dirty' = dirty \ {at}
  /\ fetch' = Idle
  /\ UNCHANGED <<note, writes, failures, clock, own>>

\* The fetch fails: the error takes the place of the note and of the editor.
FetchFails ==
  /\ fetch # Idle /\ failures < MaxFailures
  /\ Render(at, cache, failed \cup {at}, editing, calls)
  /\ Looking(at, FALSE)
  /\ fetch' = Idle
  /\ failures' = failures + 1
  /\ UNCHANGED <<note, dirty, writes, clock, own>>

-----------------------------------------------------------------------------
(* The user.                                                                *)

Rest == <<note, at, cache, dirty, failed, history, writes, failures, clock, own>>

\* Add note, or Edit.
StartEditing ==
  /\ ShowsNote \/ ShowsEmpty
  /\ Render(at, cache, failed, TRUE, calls)
  /\ Looking(at, FALSE)
  /\ UNCHANGED <<note, dirty, fetch, writes, failures, clock, own>>

Type ==
  /\ editor # NoEditor /\ ~editor.conflict /\ ~editor.draft.typed
  /\ editor' = [editor EXCEPT !.draft.typed = TRUE]
  /\ UNCHANGED <<Rest, fetch, editing, deleting, calls>>

Cancel ==
  /\ editor # NoEditor /\ editor.pending = 0 /\ ~editor.conflict
  /\ Render(at, cache, failed, FALSE, calls)
  /\ Looking(at, FALSE)
  /\ UNCHANGED <<note, dirty, fetch, writes, failures, clock, own>>

\* Save: create when the editor was opened without a note, else update.
submit ==
  /\ editor # NoEditor /\ editor.pending = 0 /\ ~editor.conflict /\ editor.draft.typed
  /\ writes < MaxWrites
  /\ writes' = writes + 1
  /\ calls' = calls \cup {[n |-> writes + 1, op |-> "save", host |-> at, key |-> at,
                expected |-> cache[at].rev, draft |-> editor.draft,
                answer |-> "none", over |-> Never, done |-> 0]}
  /\ editor' = [editor EXCEPT !.pending = writes + 1]
  /\ UNCHANGED <<note, at, cache, dirty, failed, fetch, editing, deleting, history,
                 failures, clock, own>>

onDelete ==
  /\ ShowsNote /\ deleting = 0
  /\ writes < MaxWrites
  /\ writes' = writes + 1
  /\ calls' = calls \cup {[n |-> writes + 1, op |-> "delete", host |-> at, key |-> at,
                expected |-> 0, draft |-> Draft(at, cache[at]),
                answer |-> "none", over |-> Never, done |-> 0]}
  /\ deleting' = writes + 1
  /\ UNCHANGED <<note, at, cache, dirty, failed, fetch, editing, editor, history,
                 failures, clock, own>>

\* "History": the trigger of the list of the revisions.
OpenHistory ==
  /\ ShowsNote /\ ~opened /\ looks < MaxLooks
  /\ opened' = TRUE
  /\ looks' = looks + 1
  /\ look' \in LookUp(at, look)
  /\ UNCHANGED <<note, at, cache, dirty, failed, fetch, editing, editor, deleting,
                 calls, log, logDirty, heard, writes, failures, clock, own>>
HideHistory ==
  /\ opened
  /\ opened' = FALSE
  /\ UNCHANGED <<note, at, cache, dirty, failed, fetch, editing, editor, deleting,
                 calls, log, logDirty, look, looks, heard, writes, failures, clock, own>>

\* "Keep editing" of the conflict dialog.
KeepEditing ==
  /\ editor # NoEditor /\ editor.conflict
  /\ editor' = [editor EXCEPT !.conflict = FALSE]
  /\ UNCHANGED <<Rest, fetch, editing, deleting, calls>>

\* "Reload latest version": the draft is copied, then the note is fetched.
onReloadLatest ==
  /\ editor # NoEditor /\ editor.conflict
  /\ editor' = [editor EXCEPT !.conflict = FALSE, !.copying = TRUE]
  /\ UNCHANGED <<Rest, fetch, editing, deleting, calls>>

\* The draft is in the clipboard, or the user was told that it is not.
onReloadNote ==
  /\ editor # NoEditor /\ editor.copying
  /\ editor' = [editor EXCEPT !.copying = FALSE, !.copied = TRUE]
  /\ Refetched(at)
  /\ UNCHANGED <<Rest, editing, deleting, calls>>

-----------------------------------------------------------------------------
(* The server, and the answers of the calls.                                *)

Panel == <<note, at, cache, dirty, failed, fetch, editing, editor, deleting, calls,
           writes, clock, own>>

put_note(c) ==
  LET old == note[c.host]
      kind == CASE old.rev = c.expected -> "saved"
                [] old.rev = 0 -> "not_found"
                [] OTHER -> "conflict"
  IN  /\ c.op = "save" /\ c.answer = "none"
      /\ IF kind = "saved"
         THEN /\ note' = [note EXCEPT ![c.host] = Saved(old, clock + 1)]
              /\ clock' = clock + 1
         ELSE UNCHANGED <<note, clock>>
      /\ calls' = (calls \ {c}) \cup {[c EXCEPT !.answer = kind, !.over = old,
                                        !.done = note'[c.host].id]}
      /\ UNCHANGED <<at, cache, dirty, failed, fetch, editing, editor, deleting,
                     history, writes, failures, own>>

deleteHostNote(old) == IF old.rev > 0 THEN "deleted" ELSE "absent"

delete_note(c) ==
  LET old == note[c.host]
  IN  /\ c.op = "delete" /\ c.answer = "none"
      /\ IF old.rev > 0
         THEN /\ note' = [note EXCEPT ![c.host] = Deleted(clock + 1)]
              /\ clock' = clock + 1
         ELSE UNCHANGED <<note, clock>>
      /\ calls' = (calls \ {c}) \cup
           {[c EXCEPT !.answer = deleteHostNote(old), !.over = old,
                      !.done = note'[c.host].id]}
      /\ UNCHANGED <<at, cache, dirty, failed, fetch, editing, editor, deleting,
                     history, writes, failures, own>>

\* Another user saves or deletes the note of host h.
Other(h) ==
  /\ writes < MaxWrites
  /\ writes' = writes + 1 /\ clock' = clock + 1
  /\ \/ note' = [note EXCEPT ![h] = Saved(@, clock')]
     \/ /\ OthersDelete /\ note[h].rev > 0
        /\ note' = [note EXCEPT ![h] = Deleted(clock')]
  /\ UNCHANGED <<at, cache, dirty, failed, fetch, editing, editor, deleting,
                 calls, history, failures, own>>

\* The server reads the revisions, newest first, and their answer arrives.
list_revisions(n) == [rows |-> n.rev, id |-> n.id]
ServeLook ==
  /\ look = Asked
  /\ look' = list_revisions(note[at])
  /\ UNCHANGED <<Panel, opened, log, logDirty, looks, heard, failures>>
fetchHostNoteRevisions ==
  /\ look \notin {Idle, Asked}
  /\ log' = [log EXCEPT ![at] = look]
  /\ logDirty' = logDirty \ {at}
  /\ look' = Idle
  /\ UNCHANGED <<Panel, opened, looks, heard, failures>>
LookFails ==
  /\ look # Idle /\ failures < MaxFailures
  /\ look' = Idle
  /\ failures' = failures + 1
  /\ UNCHANGED <<Panel, opened, log, logDirty, looks, heard>>

Told(c) == own' = [own EXCEPT ![c.host] = Newer(@, c.done)]

\* saved: the entries of the host are invalidated, and the editor is left.
useSaveHostNote(c) ==
  /\ c.answer = "saved"
  /\ Told(c)
  /\ Invalidate(c.key)
  /\ LET ed == IF Mounted(c) THEN FALSE ELSE editing IN
       /\ Render(at, cache, failed, ed, calls \ {c})
       /\ InvalidateLog(c.key, NoteStays(at, cache, failed, ed))
  /\ UNCHANGED <<note, writes, failures, clock>>

\* conflict: the dialog opens.
Conflict(c) ==
  /\ c.answer = "conflict"
  /\ calls' = calls \ {c}
  /\ editor' = IF Mounted(c) THEN [editor EXCEPT !.pending = 0, !.conflict = TRUE]
                             ELSE editor
  /\ UNCHANGED <<Rest, fetch, editing, deleting>>

\* not_found: as with a reload, the draft is copied and the note is fetched.
handleNotFound(c) ==
  /\ c.answer = "not_found"
  /\ calls' = calls \ {c}
  /\ editor' = IF Mounted(c) THEN [editor EXCEPT !.pending = 0, !.copying = TRUE]
                             ELSE editor
  /\ UNCHANGED <<Rest, fetch, editing, deleting>>

\* deleted, or absent already: the entries of the host are invalidated.
useDeleteHostNote(c) ==
  /\ c.answer \in {"deleted", "absent"}
  /\ Told(c)
  /\ Invalidate(c.key)
  /\ InvalidateLog(c.key, ShowsNote)
  /\ calls' = calls \ {c}
  /\ deleting' = IF Mounted(c) THEN 0 ELSE deleting
  /\ UNCHANGED <<note, at, cache, failed, editing, editor, opened, writes, failures, clock>>

\* The call is refused (signed out, too large) or its answer is lost: a message.
CallFails(c) ==
  /\ failures < MaxFailures
  /\ failures' = failures + 1
  /\ calls' = calls \ {c}
  /\ deleting' = IF Mounted(c) /\ c.op = "delete" THEN 0 ELSE deleting
  /\ editor' = IF Mounted(c) /\ c.op = "save" THEN [editor EXCEPT !.pending = 0]
                                             ELSE editor
  /\ UNCHANGED <<note, at, cache, dirty, failed, fetch, editing, history, writes, clock, own>>

-----------------------------------------------------------------------------

saveHostNote(c) == useSaveHostNote(c) \/ Conflict(c) \/ handleNotFound(c)

NoteEditor == Type \/ Cancel \/ submit \/ KeepEditing \/ onReloadLatest \/ onReloadNote

Sheet == closeDetail \/ \E h \in Hosts : Open(h) \/ goToHost(h)

Next ==
  \/ Sheet \/ NoteEditor \/ StartEditing \/ onDelete
  \/ OpenHistory \/ HideHistory \/ ServeLook \/ fetchHostNoteRevisions \/ LookFails
  \/ Reconnect \/ ServeFetch \/ fetchHostNote \/ FetchFails
  \/ \E h \in Hosts : Other(h)
  \/ \E c \in calls : put_note(c) \/ delete_note(c) \/ saveHostNote(c)
                      \/ useDeleteHostNote(c) \/ CallFails(c)

Spec == Init /\ [][Next]_vars

\* The server answers every fetch.
FairSpec == Spec /\ WF_vars(ServeFetch) /\ WF_vars(fetchHostNote)

-----------------------------------------------------------------------------

Calls == [n : 1..MaxWrites, op : {"save", "delete"}, host : Hosts, key : Hosts,
          expected : Nat, draft : Drafts, over : Note, done : Nat,
          answer : {"none", "saved", "conflict", "not_found", "deleted", "absent"}]

\* What the server says of a save and of a deletion.
Answered(op) ==
  IF op = "save" THEN {"none", "saved", "conflict", "not_found"} ELSE {"none", "deleted", "absent"}
PendingInFlight ==
  /\ (deleting # 0 => \E c \in calls : c.n = deleting /\ c.op = "delete")
  /\ (editor # NoEditor /\ editor.pending # 0) =>
        \E c \in calls : c.n = editor.pending /\ c.op = "save"

\* The shapes of the state; a pending call of a component is in flight, and the
\* editor is there exactly when the screen shows it, with the key of the note.
TypeOK ==
  /\ note \in [Hosts -> Note]
  /\ at \in Hosts \cup {Closed}
  /\ cache \in [Hosts -> Note \cup {NoData}]
  /\ dirty \subseteq Hosts /\ failed \subseteq Hosts
  /\ fetch \in Note \cup {Idle, Asked} /\ (fetch # Idle => at # Closed)
  /\ editing \in BOOLEAN /\ (at = Closed => ~editing) /\ editor \in Editors \cup {NoEditor}
  /\ (editor # NoEditor) <=> ShowsEditor
  /\ editor # NoEditor => editor.key = cache[at].rev
  /\ calls \subseteq Calls /\ \A c \in calls : c.answer \in Answered(c.op)
  /\ PendingInFlight
  /\ opened \in BOOLEAN /\ (opened => ShowsNote)
  /\ log \in [Hosts -> Revisions \cup {NoData}] /\ logDirty \subseteq Hosts
  /\ look \in Revisions \cup {Idle, Asked} /\ (look # Idle => ShowsNote)
  /\ own \in [Hosts -> Nat] /\ heard \in [Hosts -> Nat]
  /\ writes \in 0..MaxWrites /\ failures \in 0..MaxFailures /\ looks \in 0..MaxLooks
  /\ clock \in Nat

\* A save which the server accepted for the host its text was written for, and
\* within the life of the note the text started from, replaced the very text
\* the user started from, and not one the user never saw.
UpdateReplacesWhatWasSeen ==
  \A c \in calls :
    c.answer = "saved" /\ c.draft.host = c.host
      /\ c.over.rev > 0 /\ c.over.life = c.draft.life => c.over.id = c.draft.seen

\* The text in the editor was started for the host of the sheet, whose note it
\* will be.
DraftStaysWithItsHost == editor # NoEditor => editor.draft.host = at

\* What the panel shows as up to date is not older than what it was told of
\* its own saves and deletions.
ReadYourWrites ==
  \A h \in Hosts :
    cache[h] # NoData /\ h \notin dirty \cup failed /\ (h = at => fetch = Idle)
      => cache[h].id >= own[h]

\* The same of the history that is on the screen, but for the writes that a fetch of it
\* outlived: useDeleteHostNote and useSaveHostNote invalidate it as well.
RevisionsList == opened /\ log[at] # NoData
HistoryHasOwnWrites ==
  RevisionsList /\ at \notin logDirty /\ look = Idle => log[at].id >= heard[at]

\* Why a save replaces what was seen.  What was read of a note agrees with it: within
\* one life the revisions grow, and one of them is one text.
Agrees(h, rev, id, life) ==
  rev > 0 =>
    /\ life <= clock
    /\ (note[h].rev > 0 /\ note[h].life = life) =>
         rev <= note[h].rev /\ (rev = note[h].rev => id = note[h].id)
ReadsAgree ==
  /\ \A h \in Hosts : note[h].id <= clock /\ note[h].life <= clock
  /\ \A h \in Hosts : cache[h] # NoData => Agrees(h, cache[h].rev, cache[h].id, cache[h].life)
  /\ fetch \notin {Idle, Asked} => Agrees(at, fetch.rev, fetch.id, fetch.life)
DraftsAgree ==
  /\ editor # NoEditor =>
       Agrees(editor.draft.host, editor.key, editor.draft.seen, editor.draft.life)
  /\ \A c \in calls : c.op = "save" /\ c.answer = "none" =>
       Agrees(c.draft.host, c.expected, c.draft.seen, c.draft.life)
SavesInv == TypeOK /\ ReadsAgree /\ DraftsAgree /\ UpdateReplacesWhatWasSeen

\* Why the panel of one host shows its own writes: what it was told of is in the note,
\* and there is no call before the note was read once.
ToldIsWritten ==
  /\ \A c \in calls : c.done <= note[c.host].id /\ cache[c.host] # NoData
  /\ \A h \in Hosts : heard[h] <= own[h] /\ own[h] <= note[h].id
ReadsAfterTold ==
  /\ \A h \in Hosts : cache[h] # NoData /\ h \notin dirty => cache[h].id >= own[h]
  /\ fetch \notin {Idle, Asked} => fetch.id >= own[at]
LooksAfterHeard ==
  /\ \A h \in Hosts : log[h] # NoData /\ h \notin logDirty => log[h].id >= heard[h]
  /\ look \notin {Idle, Asked} => look.id >= heard[at]
OwnWritesInv == ToldIsWritten /\ ReadsAfterTold /\ LooksAfterHeard

\* The panel was told of a save or deletion, which is shown in the end, unless the
\* sheet goes to another host or the fetch fails.
ToldOfSave(h, w) == at = h /\ own[h] = w
SaveShown(h, w) == at # h \/ h \in failed \/ (cache[h] # NoData /\ cache[h].id >= w)
=============================================================================
