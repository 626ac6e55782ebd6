----------------------------- MODULE NotesStore -----------------------------
(***************************************************************************)
(* The MongoDB store of per-entity notes (MongoDBNotes).                    *)
(*                                                                          *)
(* Two collections: `notes', one document per entity key (a unique index),  *)
(* and `note_revisions', an append-only log without one.  No transaction    *)
(* spans them, so set_note and delete_note are sequences of single-document *)
(* operations, each atomic, that interleave with those of other callers.    *)
(* An action is one such operation together with the code up to the next.   *)
(***************************************************************************)
EXTENDS Naturals, FiniteSets

CONSTANTS Clients,        \* processes that call the store
          Keys,           \* canonical entity keys
          MaxSaves,       \* bound: how many set_note calls are made in all
          WithDeletes,    \* whether callers ever delete notes
          WithFailures    \* whether operations fail and processes die

ASSUME StoreAssumption ==
  /\ MaxSaves \in Nat
  /\ WithDeletes \in BOOLEAN
  /\ WithFailures \in BOOLEAN

VARIABLES
  notes,      \* the `notes' collection: the document of each key
  revisions,  \* the `note_revisions' collection: the rows of each key
  pc,         \* the next database operation of each client's call
  req,        \* the arguments of that call
  reply,      \* what the call has established so far
  saves,      \* how many saves were requested
  life,       \* history: how many times the note of a key was created
  born,       \* history: which life the last write of a client belongs to
  lost        \* history: revisions whose row was never stored, or was swept
              \* from under a live note

vars == <<notes, revisions, pc, req, reply, saves, life, born, lost>>
history == <<life, born, lost>>

Modes == {"lww", "create", "update"}

\* A note document; revision 0 stands for no document.  Every save brings a
\* body of its own, named by the number of the save.
Absent == [revision |-> 0, body |-> 0]
Exists(k) == notes[k].revision > 0

SaveCall(k, m, e, b) ==
  [op |-> "save", key |-> k, mode |-> m, expected |-> e, body |-> b]
DeleteCall(k) ==
  [op |-> "delete", key |-> k, mode |-> "lww", expected |-> 0, body |-> 0]

NoReply == [kind |-> "none", revision |-> 0]
Reply(kind) == [kind |-> kind, revision |-> 0]

\* Client c moves on to operation `to'.
Goto(c, to) == pc' = [pc EXCEPT ![c] = to]
Answer(c, r) == reply' = [reply EXCEPT ![c] = r]

Init ==
  /\ notes = [k \in Keys |-> Absent]
  /\ revisions = [k \in Keys |-> {}]
  /\ pc = [c \in Clients |-> "idle"]
  /\ req \in [Clients -> {DeleteCall(k) : k \in Keys}]
  /\ reply = [c \in Clients |-> NoReply]
  /\ saves = 0
  /\ life = [k \in Keys |-> 0]
  /\ born = [c \in Clients |-> 0]
  /\ lost = {}

-----------------------------------------------------------------------------
(* set_note                                                                *)

\* A call of set_note.  Any revision a client ever saw may be expected, and
\* so may one it never saw.
BeginSave(c) ==
  /\ pc[c] = "idle"
  /\ saves < MaxSaves
  /\ saves' = saves + 1
  /\ \E k \in Keys, m \in Modes, e \in 0..MaxSaves :
       /\ m = "update" <=> e > 0
       /\ req' = [req EXCEPT ![c] = SaveCall(k, m, e, saves + 1)]
  /\ Goto(c, "write")
  /\ Answer(c, NoReply)
  /\ UNCHANGED <<notes, revisions, history>>

\* The body exceeds WEB_HOST_NOTES_MAX_BYTES: nothing is written.
RefuseOversize(c) ==
  /\ pc[c] = "write"
  /\ Answer(c, Reply("too_large"))
  /\ Goto(c, "respond")
  /\ UNCHANGED <<notes, revisions, req, saves, history>>

\* The document of the call's key is replaced, or inserted, by one at revision
\* n; the row that records it is still to be appended.
PersistAt(c, n) ==
  LET k == req[c].key
  IN  /\ notes' = [notes EXCEPT ![k] = [revision |-> n, body |-> req[c].body]]
      /\ life' = [life EXCEPT ![k] = IF Exists(k) THEN @ ELSE @ + 1]
      /\ born' = [born EXCEPT ![c] = life'[k]]
      /\ Answer(c, [kind |-> "saved", revision |-> n])
      /\ Goto(c, "append")
      /\ UNCHANGED <<revisions, req, saves, lost>>

\* Slips: the caller's expectation plus one, in place of the server's own
\* increment; an increment of the wrong sign.
PersistExpected(c) == PersistAt(c, req[c].expected + 1)
PersistDecrement(c) == PersistAt(c, notes[req[c].key].revision - 1)

\* `$inc' makes the next revision: 1 where there was no document.
Persist(c) == PersistAt(c, notes[req[c].key].revision + 1)

\* expected_revision=None: one upsert that increments the revision.
WriteLww(c) ==
  /\ pc[c] = "write"
  /\ req[c].mode = "lww"
  /\ Persist(c)

\* expected_revision<=0: an insert, refused by the unique index when there
\* is a document already.
WriteCreate(c) ==
  /\ pc[c] = "write"
  /\ req[c].mode = "create"
  /\ ~Exists(req[c].key)
  /\ Persist(c)

WriteCollides(c) ==
  /\ pc[c] = "write"
  /\ req[c].mode = "create"
  /\ Exists(req[c].key)
  /\ Answer(c, Reply("exists"))
  /\ Goto(c, "respond")
  /\ UNCHANGED <<notes, revisions, req, saves, history>>

\* Slip: the filter forgets the revision.
MatchesAny(c) == Exists(req[c].key)

\* expected_revision>=1: an update filtered on the stored revision.
Matches(c) == /\ Exists(req[c].key)
              /\ notes[req[c].key].revision = req[c].expected

WriteUpdate(c) ==
  /\ pc[c] = "write"
  /\ req[c].mode = "update"
  /\ Matches(c)
  /\ Persist(c)

WriteMisses(c) ==
  /\ pc[c] = "write"
  /\ req[c].mode = "update"
  /\ ~Matches(c)
  /\ Answer(c, Reply("miss"))
  /\ Goto(c, "classify")
  /\ UNCHANGED <<notes, revisions, req, saves, history>>

\* A second query tells a missing note from one at another revision.
Classify(c) ==
  /\ pc[c] = "classify"
  /\ Answer(c, Reply(IF Exists(req[c].key) THEN "conflict" ELSE "not_found"))
  /\ Goto(c, "respond")
  /\ UNCHANGED <<notes, revisions, req, saves, history>>

\* Slip: the row takes the revision the note has by the time it is appended.
RowReread(c) ==
  [life |-> born[c], revision |-> notes[req[c].key].revision, body |-> req[c].body]

\* The row of the log, made of what the write returned.
Row(c) == [life |-> born[c], revision |-> reply[c].revision, body |-> req[c].body]
Unrecorded(c) == [key |-> req[c].key, life |-> born[c], revision |-> reply[c].revision]

AppendRow(c) ==
  /\ pc[c] = "append"
  /\ revisions' = [revisions EXCEPT ![req[c].key] = @ \cup {Row(c)}]
  /\ Goto(c, "respond")
  /\ UNCHANGED <<notes, req, reply, saves, history>>

\* The insert of the row fails: a warning is logged, the save stands.
AppendFails(c) ==
  /\ WithFailures
  /\ pc[c] = "append"
  /\ lost' = lost \cup {Unrecorded(c)}
  /\ Goto(c, "respond")
  /\ UNCHANGED <<notes, revisions, req, reply, saves, life, born>>

-----------------------------------------------------------------------------
(* delete_note                                                             *)

BeginDelete(c) ==
  /\ WithDeletes
  /\ pc[c] = "idle"
  /\ \E k \in Keys : req' = [req EXCEPT ![c] = DeleteCall(k)]
  /\ Goto(c, "delete")
  /\ Answer(c, NoReply)
  /\ UNCHANGED <<notes, revisions, saves, history>>

DeleteParent(c) ==
  /\ pc[c] = "delete"
  /\ Answer(c, Reply(IF Exists(req[c].key) THEN "deleted" ELSE "missing"))
  /\ notes' = [notes EXCEPT ![req[c].key] = Absent]
  /\ Goto(c, "sweep")
  /\ UNCHANGED <<revisions, req, saves, history>>

\* delete_many on the log, by entity key alone: whatever rows the key has by
\* now, those of a note created since the parent was deleted included.
Sweep(c) ==
  LET k == req[c].key
  IN  /\ pc[c] = "sweep"
      /\ revisions' = [revisions EXCEPT ![k] = {}]
      /\ lost' = lost \cup {[key |-> k, life |-> r.life, revision |-> r.revision] :
                              r \in {x \in revisions[k] : Exists(k) /\ x.life = life[k]}}
      /\ Goto(c, "respond")
      /\ UNCHANGED <<notes, req, reply, saves, life, born>>

-----------------------------------------------------------------------------

\* The call returns, or raises, to its caller.
Respond(c) ==
  /\ pc[c] = "respond"
  /\ Goto(c, "idle")
  /\ UNCHANGED <<notes, revisions, req, reply, saves, history>>

\* The process dies between two operations, or one of the operations on the
\* `notes' collection raises: no further operation of the call is run.
Die(c) ==
  /\ WithFailures
  /\ pc[c] # "idle"
  /\ lost' = IF pc[c] = "append" THEN lost \cup {Unrecorded(c)} ELSE lost
  /\ Answer(c, NoReply)
  /\ Goto(c, "idle")
  /\ UNCHANGED <<notes, revisions, req, saves, life, born>>

set_note(c) ==
  \/ BeginSave(c) \/ RefuseOversize(c)
  \/ WriteLww(c)
  \/ WriteCreate(c) \/ WriteCollides(c)
  \/ WriteUpdate(c) \/ WriteMisses(c) \/ Classify(c)
  \/ AppendRow(c) \/ AppendFails(c)

delete_note(c) == BeginDelete(c) \/ DeleteParent(c) \/ Sweep(c)

Next == \E c \in Clients : set_note(c) \/ delete_note(c) \/ Respond(c) \/ Die(c)

Spec == Init /\ [][Next]_vars

-----------------------------------------------------------------------------
(* Correctness                                                             *)

\* Every variable holds a value of its kind.
TypeOK ==
  /\ notes \in [Keys -> [revision : Nat, body : Nat]]
  /\ revisions \in [Keys -> SUBSET [life : Nat, revision : Nat, body : Nat]]
  /\ pc \in [Clients -> {"idle", "write", "classify", "append", "delete", "sweep",
                         "respond"}]
  /\ req \in [Clients -> [op : {"save", "delete"}, key : Keys, mode : Modes,
                          expected : 0..MaxSaves, body : 0..MaxSaves]]
  /\ reply \in [Clients -> [kind : {"none", "saved", "too_large", "exists", "miss",
                                    "conflict", "not_found", "deleted", "missing"},
                            revision : Nat]]
  /\ saves \in 0..MaxSaves
  /\ life \in [Keys -> Nat]
  /\ born \in [Clients -> Nat]
  /\ lost \subseteq [key : Keys, life : Nat, revision : Nat]

\* Client c owes the log the row of a save of key k.
Owes(c, k) == pc[c] = "append" /\ req[c].key = k

\* Within one life of a note, every accepted save has a revision of its own:
\* no two saves expecting the same revision are both accepted, however the
\* reads and writes of their callers interleave.
OneSavePerRevision ==
  \A k \in Keys :
    /\ \A r, s \in revisions[k] :
         r.life = s.life /\ r.revision = s.revision => r = s
    /\ \A c \in Clients : Owes(c, k) =>
         /\ \A r \in revisions[k] :
              ~(r.life = born[c] /\ r.revision = reply[c].revision)
         /\ \A d \in Clients : Owes(d, k) /\ born[c] = born[d]
                                 /\ reply[c].revision = reply[d].revision => c = d

\* The log never misses a revision of a live note for an unnamed reason: each
\* revision 1..N has its row, or a client that still owes it, or its row was
\* lost to a failed insert, a death, or the sweep of a delete that raced the
\* creation of this note.
HistoryAccounted ==
  \A k \in Keys : \A n \in 1..notes[k].revision :
    \/ \E r \in revisions[k] : r.life = life[k] /\ r.revision = n
    \/ \E c \in Clients : Owes(c, k) /\ born[c] = life[k] /\ reply[c].revision = n
    \/ [key |-> k, life |-> life[k], revision |-> n] \in lost

\* The row of the current revision of a note, once stored, holds the body the
\* note has: a reader of the log and a reader of the note see one text.
NewestRowIsTheNote ==
  \A k \in Keys : \A r \in revisions[k] :
    Exists(k) /\ r.life = life[k] /\ r.revision = notes[k].revision
      => r.body = notes[k].body

\* No call on key k is between two operations.
Quiet(k) == \A c \in Clients : req[c].key = k => pc[c] \in {"idle", "respond"}

\* `Always sweep the audit log: orphan revisions without a parent are
\* meaningless' (delete_note): once no call is in progress, the log has no
\* row for a key that has no note.
NoOrphanRows ==
  \A k \in Keys : Quiet(k) /\ ~Exists(k) => revisions[k] = {}

-----------------------------------------------------------------------------
(* The store implements the register.                                      *)

phaseMap == [c \in Clients |->
  CASE pc[c] = "idle" -> "idle"
    [] pc[c] \in {"write", "delete"} -> "called"
    [] OTHER -> "done"]

\* The four ways a save is turned down are one to the register: which of them
\* the caller is told rests on a second query, made later.
answerMap == [c \in Clients |->
  IF reply[c].kind \in {"exists", "miss", "conflict", "not_found"}
  THEN [kind |-> "rejected", revision |-> 0]
  ELSE reply[c]]

Register == INSTANCE NoteRegister
  WITH cell <- notes, phase <- phaseMap, call <- req, answer <- answerMap

\* set_note and delete_note are linearizable against the note itself: a save
\* is accepted exactly when its expectation holds at one instant within the
\* call, and nothing a dying process leaves behind changes that.
ImplementsRegister == Register!RSpec
=============================================================================
