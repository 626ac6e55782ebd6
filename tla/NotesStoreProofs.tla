-------------------------- MODULE NotesStoreProofs --------------------------
(***************************************************************************)
(* Proofs about the notes store, for any set of callers and of keys and any *)
(* number of saves: type correctness, the relation between the note and its *)
(* log, and that the store implements the register of NoteRegister.         *)
(*                                                                          *)
(* A save first moves the note to its next revision and only later appends  *)
(* the row that records it.  The inductive invariant IInv therefore bounds, *)
(* beside the rows of the log, the rows that clients still owe it.          *)
(***************************************************************************)
EXTENDS NotesStore, TLAPS

USE DEF Exists, Owes

\* Type correctness of the store: the documents, the rows and the local state
\* of every call stay within their kinds.
LEMMA TypeInit == Init => TypeOK
  BY StoreAssumption DEF Init, TypeOK, Absent, NoReply, DeleteCall, Modes

LEMMA TypeStep == TypeOK /\ [Next]_vars => TypeOK'
<1> SUFFICES ASSUME TypeOK, [Next]_vars PROVE TypeOK'
  OBVIOUS
<1> USE StoreAssumption DEF TypeOK, Goto, Answer, Reply, NoReply, history
<1>1. CASE UNCHANGED vars
  BY <1>1 DEF vars
<1>2. ASSUME NEW c \in Clients, PersistAt(c, notes[req[c].key].revision + 1)
      PROVE TypeOK'
  BY <1>2 DEF PersistAt
<1>3. ASSUME NEW c \in Clients, BeginSave(c) PROVE TypeOK'
  BY <1>3 DEF BeginSave, SaveCall
<1>4. ASSUME NEW c \in Clients, AppendRow(c) PROVE TypeOK'
  BY <1>4 DEF AppendRow, Row
<1>5. ASSUME NEW c \in Clients, AppendFails(c) PROVE TypeOK'
  BY <1>5 DEF AppendFails, Unrecorded
<1>6. ASSUME NEW c \in Clients, BeginDelete(c) PROVE TypeOK'
  BY <1>6 DEF BeginDelete, DeleteCall, Modes
<1>7. ASSUME NEW c \in Clients, DeleteParent(c) PROVE TypeOK'
  BY <1>7 DEF DeleteParent, Absent
<1>8. ASSUME NEW c \in Clients, Sweep(c) PROVE TypeOK'
  BY <1>8 DEF Sweep
<1>9. ASSUME NEW c \in Clients, Die(c) PROVE TypeOK'
  BY <1>9 DEF Die, Unrecorded
<1>10. ASSUME NEW c \in Clients,
              RefuseOversize(c) \/ WriteCollides(c) \/ WriteMisses(c)
                \/ Classify(c) \/ Respond(c)
       PROVE TypeOK'
  <2>1. CASE RefuseOversize(c)
    BY <2>1 DEF RefuseOversize
  <2>2. CASE WriteCollides(c)
    BY <2>2 DEF WriteCollides
  <2>3. CASE WriteMisses(c)
    BY <2>3 DEF WriteMisses
  <2>4. CASE Classify(c)
    BY <2>4 DEF Classify
  <2>5. CASE Respond(c)
    BY <2>5 DEF Respond
  <2> QED
    BY <1>10, <2>1, <2>2, <2>3, <2>4, <2>5
<1>11. ASSUME NEW c \in Clients,
              set_note(c) \/ delete_note(c) \/ Respond(c) \/ Die(c)
       PROVE TypeOK'
  <2>1. WriteLww(c) \/ WriteCreate(c) \/ WriteUpdate(c)
          => PersistAt(c, notes[req[c].key].revision + 1)
    BY DEF WriteLww, WriteCreate, WriteUpdate, Persist
  <2> QED
    BY <2>1, <1>2, <1>3, <1>4, <1>5, <1>6, <1>7, <1>8, <1>9, <1>10, <1>11
    DEF set_note, delete_note
<1> QED
  BY <1>1, <1>11 DEF Next

\* Every reachable state of the store is type correct.
THEOREM TypeCorrect == Spec => []TypeOK
<1>1. QED
  BY TypeInit, TypeStep, PTL DEF Spec

-----------------------------------------------------------------------------
(* The inductive invariant                                                 *)

\* No row is of a life to come, nor of a revision the note has not reached.
LogBelow ==
  \A k \in Keys : \A r \in revisions[k] :
    /\ r.life <= life[k]
    /\ Exists(k) /\ r.life = life[k] => r.revision <= notes[k].revision

\* The same of the rows that clients still owe.
OwedBelow ==
  \A k \in Keys, c \in Clients : Owes(c, k) =>
    /\ born[c] <= life[k]
    /\ Exists(k) /\ born[c] = life[k] => reply[c].revision <= notes[k].revision

\* Who owes the row of the current revision wrote the current body.
OwedIsTheNote ==
  \A k \in Keys, c \in Clients :
    Owes(c, k) /\ Exists(k) /\ born[c] = life[k]
      /\ reply[c].revision = notes[k].revision
      => req[c].body = notes[k].body

IInv ==
  /\ TypeOK
  /\ LogBelow
  /\ OwedBelow
  /\ OneSavePerRevision
  /\ HistoryAccounted
  /\ OwedIsTheNote
  /\ NewestRowIsTheNote

\* What a step of client c does to the calls of the others: nothing.
OthersKeep(c) ==
  \A d \in Clients \ {c} : pc'[d] = pc[d] /\ req'[d] = req[d] /\ reply'[d] = reply[d]

\* A step that touches neither collection and neither incurs nor settles a
\* debt to the log.
Idle(c) ==
  /\ UNCHANGED <<notes, revisions, life, born, lost>>
  /\ pc[c] # "append" /\ pc'[c] # "append"
  /\ OthersKeep(c)

LEMMA InvInit == Init => IInv
<1> SUFFICES ASSUME Init PROVE IInv
  OBVIOUS
<1>1. TypeOK
  BY TypeInit
<1>2. \A k \in Keys : notes[k].revision = 0 /\ revisions[k] = {}
  BY DEF Init, Absent
<1>3. \A c \in Clients : pc[c] = "idle"
  BY DEF Init
<1> QED
  BY <1>1, <1>2, <1>3 DEF IInv, LogBelow, OwedBelow, OneSavePerRevision,
     HistoryAccounted, OwedIsTheNote, NewestRowIsTheNote

\* An idle step preserves the invariant.
LEMMA IdleStep ==
  ASSUME IInv, TypeOK', NEW c \in Clients, Idle(c)
  PROVE  IInv'
<1>1. \A d \in Clients, k \in Keys :
        Owes(d, k)' <=> Owes(d, k)
  BY DEF Idle, OthersKeep
<1>2. \A d \in Clients : pc[d] = "append" =>
        req'[d] = req[d] /\ reply'[d] = reply[d] /\ born'[d] = born[d]
  BY DEF Idle, OthersKeep
<1>3. LogBelow' /\ NewestRowIsTheNote'
  BY DEF IInv, LogBelow, NewestRowIsTheNote, Idle
<1>4. OwedBelow' /\ OwedIsTheNote'
  BY <1>1, <1>2 DEF IInv, OwedBelow, OwedIsTheNote, Idle
<1>5. OneSavePerRevision'
  BY <1>1, <1>2 DEF IInv, OneSavePerRevision, Idle
<1>6. HistoryAccounted'
  BY <1>1, <1>2 DEF IInv, HistoryAccounted, Idle
<1> QED
  BY <1>3, <1>4, <1>5, <1>6 DEF IInv

\* The write of a save preserves the invariant: whether it creates the note,
\* in a life no row knows, or moves it on, to a revision none has reached.
LEMMA PersistStep ==
  ASSUME IInv, TypeOK', NEW c \in Clients, pc[c] = "write", Persist(c)
  PROVE  IInv'
<1> DEFINE k == req[c].key
           n == notes[k].revision + 1
<1> USE DEF Persist, PersistAt, Goto, Answer
<1>1. k \in Keys /\ n \in Nat /\ n > 0
  BY DEF IInv, TypeOK
<1>2. /\ notes' = [notes EXCEPT ![k] = [revision |-> n, body |-> req[c].body]]
      /\ life' = [life EXCEPT ![k] = IF Exists(k) THEN @ ELSE @ + 1]
      /\ born' = [born EXCEPT ![c] = life'[k]]
      /\ reply' = [reply EXCEPT ![c] = [kind |-> "saved", revision |-> n]]
      /\ pc' = [pc EXCEPT ![c] = "append"]
      /\ UNCHANGED <<revisions, req, saves, lost>>
  OBVIOUS
<1>3. /\ notes'[k].revision = n /\ notes'[k].body = req[c].body
      /\ born'[c] = life'[k] /\ reply'[c].revision = n /\ Owes(c, k)'
      /\ life'[k] = IF Exists(k) THEN life[k] ELSE life[k] + 1
  BY <1>1, <1>2 DEF IInv, TypeOK
<1>4. \A d \in Clients : d # c => pc'[d] = pc[d] /\ req'[d] = req[d]
                                  /\ reply'[d] = reply[d] /\ born'[d] = born[d]
  BY <1>2 DEF IInv, TypeOK
<1>5. \A j \in Keys : j # k => notes'[j] = notes[j] /\ life'[j] = life[j] /\ ~Owes(c, j)'
  BY <1>1, <1>2 DEF IInv, TypeOK
<1>6. \A d \in Clients, j \in Keys : d # c => (Owes(d, j)' <=> Owes(d, j))
  BY <1>4
<1>7. LogBelow'
  BY <1>1, <1>2, <1>3, <1>5 DEF IInv, TypeOK, LogBelow
<1>8. OwedBelow'
  BY <1>1, <1>2, <1>3, <1>4, <1>5, <1>6 DEF IInv, TypeOK, OwedBelow
<1>9. OneSavePerRevision'
  <2>1. \A r \in revisions[k] : ~(r.life = born'[c] /\ r.revision = reply'[c].revision)
    BY <1>1, <1>3 DEF IInv, TypeOK, LogBelow
  <2>2. \A d \in Clients : d # c /\ Owes(d, k)
          => ~(born'[d] = born'[c] /\ reply'[d].revision = reply'[c].revision)
    BY <1>1, <1>3, <1>4 DEF IInv, TypeOK, OwedBelow
  <2> QED
    BY <2>1, <2>2, <1>2, <1>3, <1>4, <1>5, <1>6 DEF IInv, OneSavePerRevision
<1>10. HistoryAccounted'
  <2>1. SUFFICES ASSUME NEW j \in Keys, NEW m \in 1..notes'[j].revision
        PROVE \/ \E r \in revisions'[j] : r.life = life'[j] /\ r.revision = m
              \/ \E d \in Clients : Owes(d, j)' /\ born'[d] = life'[j]
                                      /\ reply'[d].revision = m
              \/ [key |-> j, life |-> life'[j], revision |-> m] \in lost'
    BY DEF HistoryAccounted
  <2>2. CASE j = k /\ m = n
    BY <2>2, <1>3
  <2>3. CASE j # k \/ m # n
    <3>1. m \in 1..notes[j].revision /\ life'[j] = life[j]
      <4>1. CASE j # k
        BY <4>1, <1>5
      <4>2. CASE j = k /\ m # n
        BY <4>2, <1>1, <1>3 DEF IInv, TypeOK
      <4> QED
        BY <4>1, <4>2, <2>3
    <3>2. \A d \in Clients : Owes(d, j) => d # c
      OBVIOUS
    <3> QED
      BY <3>1, <3>2, <1>2, <1>4, <1>6 DEF IInv, HistoryAccounted
  <2> QED
    BY <2>2, <2>3
<1>11. OwedIsTheNote'
  BY <1>1, <1>2, <1>3, <1>4, <1>5, <1>6 DEF IInv, TypeOK, OwedBelow, OwedIsTheNote
<1>12. NewestRowIsTheNote'
  BY <1>1, <1>2, <1>3, <1>5 DEF IInv, TypeOK, LogBelow, NewestRowIsTheNote
<1> QED
  BY <1>7, <1>8, <1>9, <1>10, <1>11, <1>12 DEF IInv

\* Storing an owed row, or losing the debt, preserves the invariant.
LEMMA SettleStep ==
  ASSUME IInv, TypeOK', NEW c \in Clients,
         AppendRow(c) \/ AppendFails(c) \/ (Die(c) /\ pc[c] = "append")
  PROVE  IInv'
<1> DEFINE k == req[c].key
<1> USE DEF Goto, Answer, Row, Unrecorded, history
<1>1. /\ Owes(c, k) /\ k \in Keys
      /\ \A j \in Keys : ~Owes(c, j)'
      /\ \A d \in Clients : d # c => pc'[d] = pc[d] /\ reply'[d] = reply[d]
      /\ UNCHANGED <<notes, req, life, born>>
  BY DEF AppendRow, AppendFails, Die, IInv, TypeOK
<1>2. \A d \in Clients, j \in Keys :
        Owes(d, j)' => Owes(d, j) /\ d # c /\ reply'[d] = reply[d]
  BY <1>1
<1>3. \A d \in Clients, j \in Keys : d # c /\ Owes(d, j) => Owes(d, j)'
  BY <1>1
<1>4. \/ /\ revisions' = [revisions EXCEPT ![k] = @ \cup {Row(c)}]
         /\ UNCHANGED lost
      \/ /\ lost' = lost \cup {Unrecorded(c)}
         /\ UNCHANGED revisions
  BY DEF AppendRow, AppendFails, Die
<1>5. \A j \in Keys : \A r \in revisions'[j] :
        r \in revisions[j] \/ (j = k /\ r = Row(c))
  BY <1>4, <1>1 DEF IInv, TypeOK
<1>6. \A j \in Keys : \A r \in revisions[j] : r \in revisions'[j]
  <2>1. CASE revisions' = [revisions EXCEPT ![k] = @ \cup {Row(c)}]
    <3> HIDE DEF k
    <3> QED
      BY <2>1 DEF IInv, TypeOK
  <2> QED
    BY <2>1, <1>4
<1>7. LogBelow'
  BY <1>1, <1>5 DEF IInv, LogBelow, OwedBelow
<1>8. OwedBelow' /\ OwedIsTheNote'
  BY <1>1, <1>2 DEF IInv, OwedBelow, OwedIsTheNote
<1>9. OneSavePerRevision'
  <2>1. ASSUME NEW j \in Keys, NEW r \in revisions'[j], NEW s \in revisions'[j],
               r.life = s.life, r.revision = s.revision
        PROVE  r = s
    BY <2>1, <1>1, <1>5 DEF IInv, OneSavePerRevision
  <2>2. ASSUME NEW j \in Keys, NEW d \in Clients, Owes(d, j)',
               NEW r \in revisions'[j]
        PROVE  ~(r.life = born'[d] /\ r.revision = reply'[d].revision)
    <3>1. Owes(d, j) /\ d # c /\ reply'[d] = reply[d] /\ born'[d] = born[d]
      BY <2>2, <1>1, <1>2
    <3>2. CASE r \in revisions[j]
      BY <3>1, <3>2 DEF IInv, OneSavePerRevision
    <3>3. CASE j = k /\ r = Row(c)
      BY <3>1, <3>3, <1>1 DEF IInv, OneSavePerRevision
    <3> QED
      BY <3>2, <3>3, <1>5
  <2>3. ASSUME NEW j \in Keys, NEW d \in Clients, Owes(d, j)',
               NEW e \in Clients, Owes(e, j)', born'[d] = born'[e],
               reply'[d].revision = reply'[e].revision
        PROVE  d = e
    BY <2>3, <1>1, <1>2 DEF IInv, OneSavePerRevision
  <2> QED
    BY <2>1, <2>2, <2>3 DEF OneSavePerRevision
<1>10. HistoryAccounted'
  <2>1. SUFFICES ASSUME NEW j \in Keys, NEW m \in 1..notes[j].revision
        PROVE \/ \E r \in revisions'[j] : r.life = life[j] /\ r.revision = m
              \/ \E d \in Clients : Owes(d, j)' /\ born'[d] = life[j]
                                      /\ reply'[d].revision = m
              \/ [key |-> j, life |-> life[j], revision |-> m] \in lost'
    BY <1>1 DEF HistoryAccounted
  <2>2. CASE \E r \in revisions[j] : r.life = life[j] /\ r.revision = m
    BY <2>2, <1>6
  <2>3. CASE [key |-> j, life |-> life[j], revision |-> m] \in lost
    BY <2>3, <1>4
  <2>4. CASE Owes(c, j) /\ born[c] = life[j] /\ reply[c].revision = m
    <3>1. j = k
      BY <2>4
    <3>2. CASE revisions' = [revisions EXCEPT ![k] = @ \cup {Row(c)}]
      <4>1. Row(c) \in revisions'[j]
        BY <3>1, <3>2, <1>1 DEF IInv, TypeOK
      <4> QED
        BY <4>1, <2>4
    <3>3. CASE lost' = lost \cup {Unrecorded(c)}
      BY <3>1, <3>3, <2>4
    <3> QED
      BY <3>2, <3>3, <1>4
  <2>5. ASSUME NEW d \in Clients, d # c, Owes(d, j), born[d] = life[j],
               reply[d].revision = m
        PROVE  Owes(d, j)' /\ born'[d] = life[j] /\ reply'[d].revision = m
    BY <2>5, <1>1
  <2> QED
    BY <2>2, <2>3, <2>4, <2>5 DEF IInv, HistoryAccounted
<1>11. NewestRowIsTheNote'
  BY <1>1, <1>5 DEF IInv, OwedIsTheNote, NewestRowIsTheNote
<1> QED
  BY <1>7, <1>8, <1>9, <1>10, <1>11 DEF IInv

\* Deleting the document preserves the invariant: nothing is asked of the log
\* of a key that has no note.
LEMMA DeleteStep ==
  ASSUME IInv, TypeOK', NEW c \in Clients, DeleteParent(c)
  PROVE  IInv'
<1> DEFINE k == req[c].key
<1> USE DEF Goto, Answer, Reply, Absent, history
<1>1. /\ k \in Keys /\ notes'[k].revision = 0
      /\ \A j \in Keys : j # k => notes'[j] = notes[j]
      /\ UNCHANGED <<revisions, req, life, born, lost>>
  BY DEF DeleteParent, IInv, TypeOK
<1>2. /\ pc[c] # "append" /\ pc'[c] # "append"
      /\ \A d \in Clients : d # c => pc'[d] = pc[d] /\ reply'[d] = reply[d]
  BY DEF DeleteParent, IInv, TypeOK
<1>3. \A d \in Clients, j \in Keys : Owes(d, j)' <=> Owes(d, j)
  BY <1>1, <1>2
<1>4. \A d \in Clients, j \in Keys : Owes(d, j) => reply'[d] = reply[d]
  BY <1>2
<1>5. LogBelow' /\ OwedBelow'
  BY <1>1, <1>3, <1>4 DEF IInv, LogBelow, OwedBelow
<1>6. OneSavePerRevision'
  BY <1>1, <1>3, <1>4 DEF IInv, OneSavePerRevision
<1>7. HistoryAccounted'
  <2>1. \A j \in Keys : j = k => 1..notes'[j].revision = {}
    BY <1>1
  <2> QED
    BY <2>1, <1>1, <1>3, <1>4 DEF IInv, HistoryAccounted
<1>8. OwedIsTheNote' /\ NewestRowIsTheNote'
  BY <1>1, <1>3, <1>4 DEF IInv, OwedIsTheNote, NewestRowIsTheNote
<1> QED
  BY <1>5, <1>6, <1>7, <1>8 DEF IInv

\* Sweeping the log preserves the invariant: the rows of a live note that it
\* removes are recorded as lost.
LEMMA SweepStep ==
  ASSUME IInv, TypeOK', NEW c \in Clients, Sweep(c)
  PROVE  IInv'
<1> DEFINE k == req[c].key
           Swept == {[key |-> k, life |-> r.life, revision |-> r.revision] :
                       r \in {x \in revisions[k] : Exists(k) /\ x.life = life[k]}}
<1> USE DEF Goto, Answer, history
<1>1. /\ k \in Keys /\ revisions'[k] = {}
      /\ \A j \in Keys : j # k => revisions'[j] = revisions[j]
      /\ lost' = lost \cup Swept
      /\ UNCHANGED <<notes, req, reply, life, born>>
  BY DEF Sweep, IInv, TypeOK
<1>2. /\ pc[c] # "append" /\ pc'[c] # "append"
      /\ \A d \in Clients : d # c => pc'[d] = pc[d]
  BY DEF Sweep, IInv, TypeOK
<1>3. \A d \in Clients, j \in Keys : Owes(d, j)' <=> Owes(d, j)
  BY <1>1, <1>2
<1>4. LogBelow' /\ NewestRowIsTheNote'
  BY <1>1 DEF IInv, LogBelow, NewestRowIsTheNote
<1>5. OwedBelow' /\ OwedIsTheNote'
  BY <1>1, <1>3 DEF IInv, OwedBelow, OwedIsTheNote
<1>6. OneSavePerRevision'
  BY <1>1, <1>3 DEF IInv, OneSavePerRevision
<1>7. HistoryAccounted'
  <2>1. SUFFICES ASSUME NEW j \in Keys, NEW m \in 1..notes[j].revision
        PROVE \/ \E r \in revisions'[j] : r.life = life[j] /\ r.revision = m
              \/ \E d \in Clients : Owes(d, j)' /\ born[d] = life[j]
                                      /\ reply[d].revision = m
              \/ [key |-> j, life |-> life[j], revision |-> m] \in lost'
    BY <1>1 DEF HistoryAccounted
  <2>2. ASSUME j = k, NEW r \in revisions[k], r.life = life[j], r.revision = m
        PROVE  [key |-> j, life |-> life[j], revision |-> m] \in lost'
    <3>1. Exists(k)
      BY <2>2, <1>1 DEF IInv, TypeOK
    <3> QED
      BY <3>1, <2>2, <1>1
  <2> QED
    BY <2>2, <1>1, <1>3 DEF IInv, HistoryAccounted
<1> QED
  BY <1>4, <1>5, <1>6, <1>7 DEF IInv

LEMMA InvStep == IInv /\ [Next]_vars => IInv'
<1> SUFFICES ASSUME IInv, [Next]_vars PROVE IInv'
  OBVIOUS
<1>1. TypeOK'
  BY TypeStep DEF IInv
<1>2. CASE UNCHANGED vars
  BY <1>1, <1>2 DEF vars, IInv, LogBelow, OwedBelow, OneSavePerRevision,
     HistoryAccounted, OwedIsTheNote, NewestRowIsTheNote
<1>3. ASSUME NEW c \in Clients,
             set_note(c) \/ delete_note(c) \/ Respond(c) \/ Die(c)
      PROVE  IInv'
  <2>1. CASE WriteLww(c) \/ WriteCreate(c) \/ WriteUpdate(c)
    BY <2>1, <1>1, PersistStep DEF WriteLww, WriteCreate, WriteUpdate
  <2>2. CASE AppendRow(c) \/ AppendFails(c) \/ (Die(c) /\ pc[c] = "append")
    BY <2>2, <1>1, SettleStep
  <2>3. CASE DeleteParent(c)
    BY <2>3, <1>1, DeleteStep
  <2>4. CASE Sweep(c)
    BY <2>4, <1>1, SweepStep
  <2>5. CASE \/ BeginSave(c) \/ RefuseOversize(c) \/ WriteCollides(c)
             \/ WriteMisses(c) \/ Classify(c) \/ BeginDelete(c) \/ Respond(c)
             \/ (Die(c) /\ pc[c] # "append")
    <3>1. Idle(c)
      BY <2>5 DEF BeginSave, RefuseOversize, WriteCollides, WriteMisses, Classify,
         BeginDelete, Respond, Die, Idle, OthersKeep, Goto, Answer, history,
         IInv, TypeOK
    <3> QED
      BY <3>1, <1>1, IdleStep
  <2> QED
    BY <1>3, <2>1, <2>2, <2>3, <2>4, <2>5 DEF set_note, delete_note
<1> QED
  BY <1>2, <1>3 DEF Next

THEOREM Invariance == Spec => []IInv
<1>1. QED
  BY InvInit, InvStep, PTL DEF Spec

\* No two saves of one life of a note are accepted at the same revision.
THEOREM NoSaveIsOverrun == Spec => []OneSavePerRevision
<1>1. IInv => OneSavePerRevision
  BY DEF IInv
<1> QED
  BY <1>1, Invariance, PTL

\* Every revision of a live note is in the log, on its way to it, or lost to a
\* failure or to the sweep of a racing delete.
THEOREM LogIsAccountedFor == Spec => []HistoryAccounted
<1>1. IInv => HistoryAccounted
  BY DEF IInv
<1> QED
  BY <1>1, Invariance, PTL

\* The newest row of the log and the note agree on the text.
THEOREM LogAgreesWithTheNote == Spec => []NewestRowIsTheNote
<1>1. IInv => NewestRowIsTheNote
  BY DEF IInv
<1> QED
  BY <1>1, Invariance, PTL

-----------------------------------------------------------------------------
(* The store implements the register                                       *)

\* A call that is about to write is a save, one about to delete a delete; one
\* that asks why its update matched nothing has been turned down.
OpFits ==
  \A c \in Clients :
    /\ pc[c] = "write" => req[c].op = "save"
    /\ pc[c] = "delete" => req[c].op = "delete"
    /\ pc[c] = "classify" => reply[c] = Reply("miss")

LEMMA OpInit == Init => OpFits
  BY DEF Init, OpFits

LEMMA OpStep == TypeOK /\ OpFits /\ [Next]_vars => OpFits'
<1> SUFFICES ASSUME TypeOK, OpFits, [Next]_vars PROVE OpFits'
  OBVIOUS
<1> USE DEF Goto, Answer, OpFits
<1>1. CASE UNCHANGED vars
  BY <1>1 DEF vars
<1>2. ASSUME NEW c \in Clients, BeginSave(c) PROVE OpFits'
  BY <1>2 DEF BeginSave, SaveCall, TypeOK
<1>3. ASSUME NEW c \in Clients, BeginDelete(c) PROVE OpFits'
  BY <1>3 DEF BeginDelete, DeleteCall, TypeOK
<1>4. ASSUME NEW c \in Clients, req' = req, reply' = [reply EXCEPT ![c] = reply'[c]],
             \E to \in {"idle", "append", "sweep", "respond"} : Goto(c, to)
      PROVE  OpFits'
  BY <1>4 DEF TypeOK
<1>6. ASSUME NEW c \in Clients, WriteMisses(c) PROVE OpFits'
  BY <1>6 DEF WriteMisses, TypeOK
<1>5. ASSUME NEW c \in Clients,
             set_note(c) \/ delete_note(c) \/ Respond(c) \/ Die(c)
      PROVE  \/ BeginSave(c) \/ BeginDelete(c) \/ WriteMisses(c)
             \/ /\ req' = req /\ reply' = [reply EXCEPT ![c] = reply'[c]]
                /\ \E to \in {"idle", "append", "sweep", "respond"} : Goto(c, to)
  BY <1>5 DEF TypeOK, set_note, delete_note, RefuseOversize, WriteLww, WriteCreate, WriteUpdate,
     Persist, PersistAt, WriteCollides, Classify, AppendRow, AppendFails,
     DeleteParent, Sweep, Respond, Die
<1> QED
  BY <1>1, <1>2, <1>3, <1>4, <1>5, <1>6 DEF Next

\* How one client's move shows in the register: its phase, and its answer.
Phase(s) == CASE s = "idle" -> "idle"
              [] s \in {"write", "delete"} -> "called"
              [] OTHER -> "done"
Shown(r) == IF r.kind \in {"exists", "miss", "conflict", "not_found"}
            THEN [kind |-> "rejected", revision |-> 0]
            ELSE r

LEMMA Maps ==
  /\ phaseMap = [c \in Clients |-> Phase(pc[c])]
  /\ answerMap = [c \in Clients |-> Shown(reply[c])]
  BY DEF phaseMap, answerMap, Phase, Shown

LEMMA PhaseMoves ==
  ASSUME TypeOK, NEW c \in Clients, NEW to, Goto(c, to)
  PROVE  phaseMap' = [phaseMap EXCEPT ![c] = Phase(to)]
<1>1. phaseMap' = [d \in Clients |-> Phase(pc'[d])]
  BY DEF phaseMap, Phase
<1>2. \A d \in Clients : pc'[d] = IF d = c THEN to ELSE pc[d]
  BY DEF TypeOK, Goto
<1> QED
  BY <1>1, <1>2, Maps

LEMMA AnswerMoves ==
  ASSUME TypeOK, NEW c \in Clients, NEW r, Answer(c, r)
  PROVE  answerMap' = [answerMap EXCEPT ![c] = Shown(r)]
<1>1. answerMap' = [d \in Clients |-> Shown(reply'[d])]
  BY DEF answerMap, Shown
<1>2. \A d \in Clients : reply'[d] = IF d = c THEN r ELSE reply[d]
  BY DEF TypeOK, Answer
<1>3. \A d \in Clients : Shown(reply'[d]) = IF d = c THEN Shown(r) ELSE Shown(reply[d])
  BY <1>2
<1>4. answerMap = [d \in Clients |-> Shown(reply[d])]
  BY Maps
<1> HIDE DEF Shown
<1> QED
  BY <1>1, <1>3, <1>4

LEMMA AnswerKept == reply' = reply => answerMap' = answerMap
  BY DEF answerMap

LEMMA NothingShown == Shown(NoReply) = Register!NoAnswer
  BY DEF Shown, NoReply, Register!NoAnswer

LEMMA RegisterInit == Init => Register!RInit
<1> SUFFICES ASSUME Init PROVE Register!RInit
  OBVIOUS
<1>1. phaseMap = [c \in Clients |-> "idle"]
  BY Maps DEF Init, Phase
<1>2. answerMap = [c \in Clients |-> Register!NoAnswer]
  BY Maps DEF Init, Shown, NoReply, Register!NoAnswer
<1>3. req \in [Clients -> Register!Call]
  BY StoreAssumption DEF Init, DeleteCall, Register!Call, Register!Modes
<1> QED
  BY <1>1, <1>2, <1>3 DEF Init, Absent, Register!RInit, Register!Absent

\* The write of a save is the register's effect: its expectation holds.
LEMMA WriteIsEffect ==
  ASSUME TypeOK, OpFits, NEW c \in Clients,
         WriteLww(c) \/ WriteCreate(c) \/ WriteUpdate(c)
  PROVE  Register!Effect(c)
<1> DEFINE k == req[c].key
           n == notes[k].revision + 1
<1>1. /\ pc[c] = "write" /\ Goto(c, "append")
      /\ Answer(c, [kind |-> "saved", revision |-> n])
      /\ notes' = [notes EXCEPT ![k] = [revision |-> n, body |-> req[c].body]]
      /\ UNCHANGED <<req, saves>>
  BY DEF WriteLww, WriteCreate, WriteUpdate, Persist, PersistAt
<1>2. Register!Accepts(req[c], notes[k])
  <2>1. notes[k].revision \in Nat
    BY DEF TypeOK
  <2> QED
    BY <2>1 DEF WriteLww, WriteCreate, WriteUpdate, Matches, Exists, Register!Accepts
<1>3. phaseMap[c] = "called" /\ phaseMap' = [phaseMap EXCEPT ![c] = "done"]
  BY <1>1, Maps, PhaseMoves, AnswerMoves DEF Phase
<1>4. answerMap' = [answerMap EXCEPT ![c] = [kind |-> "saved", revision |-> n]]
  BY <1>1, PhaseMoves, AnswerMoves DEF Shown
<1> QED
  BY <1>1, <1>2, <1>3, <1>4 DEF Register!Effect, OpFits

\* So is a refused write, the expectation failing; or the body too large.
LEMMA RefusalIsEffect ==
  ASSUME TypeOK, OpFits, NEW c \in Clients,
         RefuseOversize(c) \/ WriteCollides(c) \/ WriteMisses(c)
  PROVE  Register!Effect(c)
<1>1. ASSUME NEW to \in {"respond", "classify"}, NEW r, pc[c] = "write",
             Goto(c, to), Answer(c, r), UNCHANGED <<notes, req, saves>>,
             \/ Shown(r) = [kind |-> "too_large", revision |-> 0]
             \/ /\ Shown(r) = [kind |-> "rejected", revision |-> 0]
                /\ ~Register!Accepts(req[c], notes[req[c].key])
      PROVE  Register!Effect(c)
  <2>1. phaseMap[c] = "called" /\ phaseMap' = [phaseMap EXCEPT ![c] = "done"]
    BY <1>1, Maps, PhaseMoves, AnswerMoves DEF Phase
  <2>2. answerMap' = [answerMap EXCEPT ![c] = Shown(r)]
    BY <1>1, PhaseMoves, AnswerMoves
  <2> QED
    BY <1>1, <2>1, <2>2 DEF Register!Effect, OpFits
<1>2. CASE RefuseOversize(c)
  BY <1>1, <1>2 DEF RefuseOversize, Reply, Shown
<1>3. CASE WriteCollides(c)
  <2>1. ~Register!Accepts(req[c], notes[req[c].key])
    BY <1>3 DEF WriteCollides, Register!Accepts, TypeOK
  <2> QED
    BY <1>1, <1>3, <2>1 DEF WriteCollides, Reply, Shown
<1>4. CASE WriteMisses(c)
  <2>1. ~Register!Accepts(req[c], notes[req[c].key])
    BY <1>4 DEF WriteMisses, Matches, Register!Accepts, TypeOK
  <2> QED
    BY <1>1, <1>4, <2>1 DEF WriteMisses, Reply, Shown
<1> QED
  BY <1>2, <1>3, <1>4

\* Removing the document is the effect of a delete.
LEMMA DeleteIsEffect ==
  ASSUME TypeOK, OpFits, NEW c \in Clients, DeleteParent(c)
  PROVE  Register!Effect(c)
<1> DEFINE word == IF Exists(req[c].key) THEN "deleted" ELSE "missing"
<1>1. /\ pc[c] = "delete" /\ Goto(c, "sweep") /\ Answer(c, Reply(word))
      /\ notes' = [notes EXCEPT ![req[c].key] = Absent]
      /\ UNCHANGED <<req, saves>>
  BY DEF DeleteParent
<1>2. phaseMap[c] = "called" /\ phaseMap' = [phaseMap EXCEPT ![c] = "done"]
  BY <1>1, Maps, PhaseMoves, AnswerMoves DEF Phase
<1>3. answerMap' = [answerMap EXCEPT ![c] = Reply(word)]
  <2>1. Shown(Reply(word)) = Reply(word)
    BY DEF Shown, Reply
  <2> HIDE DEF word
  <2> QED
    BY <1>1, <2>1, AnswerMoves
<1> QED
  BY <1>1, <1>2, <1>3
  DEF Register!Effect, Register!Absent, OpFits, Reply, Absent, Exists

LEMMA RegisterStep ==
  TypeOK /\ OpFits /\ [Next]_vars => [Register!RNext]_(Register!regVars)
<1> SUFFICES ASSUME TypeOK, OpFits, [Next]_vars
             PROVE  [Register!RNext]_(Register!regVars)
  OBVIOUS
<1> USE DEF Register!RNext
<1>1. CASE UNCHANGED vars
  BY <1>1 DEF vars, Register!regVars, phaseMap, answerMap
<1>2. ASSUME NEW c \in Clients, BeginSave(c) PROVE Register!Invoke(c)
  <2>1. /\ pc[c] = "idle" /\ Goto(c, "write") /\ Answer(c, NoReply)
        /\ saves < MaxSaves /\ saves' = saves + 1 /\ UNCHANGED notes
        /\ \E k \in Keys, m \in Modes, e \in 0..MaxSaves :
             req' = [req EXCEPT ![c] = SaveCall(k, m, e, saves + 1)]
    BY <1>2 DEF BeginSave
  <2>2. phaseMap[c] = "idle" /\ phaseMap' = [phaseMap EXCEPT ![c] = "called"]
    BY <2>1, Maps, PhaseMoves, AnswerMoves DEF Phase
  <2>3. answerMap' = [answerMap EXCEPT ![c] = Register!NoAnswer]
    BY <2>1, AnswerMoves, NothingShown
  <2> QED
    BY <2>1, <2>2, <2>3 DEF Register!Invoke, Register!SaveCall, SaveCall,
       Register!Modes, Modes
<1>3. ASSUME NEW c \in Clients, BeginDelete(c) PROVE Register!Invoke(c)
  <2>1. /\ pc[c] = "idle" /\ Goto(c, "delete") /\ Answer(c, NoReply)
        /\ UNCHANGED <<notes, saves>>
        /\ \E k \in Keys : req' = [req EXCEPT ![c] = DeleteCall(k)]
    BY <1>3 DEF BeginDelete
  <2>2. phaseMap[c] = "idle" /\ phaseMap' = [phaseMap EXCEPT ![c] = "called"]
    BY <2>1, Maps, PhaseMoves, AnswerMoves DEF Phase
  <2>3. answerMap' = [answerMap EXCEPT ![c] = Register!NoAnswer]
    BY <2>1, AnswerMoves, NothingShown
  <2> QED
    BY <2>1, <2>2, <2>3 DEF Register!Invoke, Register!DeleteCall, DeleteCall
<1>4. ASSUME NEW c \in Clients, AppendRow(c) \/ AppendFails(c) \/ Sweep(c)
      PROVE  UNCHANGED Register!regVars
  <2>1. /\ pc[c] \in {"append", "sweep"} /\ Goto(c, "respond")
        /\ UNCHANGED <<notes, req, reply, saves>>
    BY <1>4 DEF AppendRow, AppendFails, Sweep
  <2>2. phaseMap' = phaseMap
    BY <2>1, Maps, PhaseMoves DEF Phase
  <2> QED
    BY <2>1, <2>2, AnswerKept DEF Register!regVars
<1>5. ASSUME NEW c \in Clients, Classify(c) PROVE UNCHANGED Register!regVars
  <2>1. /\ pc[c] = "classify" /\ Goto(c, "respond")
        /\ UNCHANGED <<notes, req, saves>>
        /\ Answer(c, Reply(IF Exists(req[c].key) THEN "conflict" ELSE "not_found"))
    BY <1>5 DEF Classify
  <2>2. phaseMap' = phaseMap
    BY <2>1, Maps, PhaseMoves DEF Phase
  <2>3. answerMap' = answerMap
    <3>1. reply[c] = Reply("miss") /\ reply \in [Clients -> {reply[d] : d \in Clients}]
      BY <2>1 DEF OpFits, TypeOK
    <3>2. \A kind \in {"miss", "conflict", "not_found"} :
            Shown(Reply(kind)) = [kind |-> "rejected", revision |-> 0]
      BY DEF Shown, Reply
    <3>3. /\ answerMap' = [answerMap EXCEPT ![c] = [kind |-> "rejected", revision |-> 0]]
          /\ answerMap[c] = [kind |-> "rejected", revision |-> 0]
      <4>1. answerMap[c] = Shown(Reply("miss"))
        BY <3>1, Maps
      <4>2. PICK kind \in {"conflict", "not_found"} : Answer(c, Reply(kind))
        BY <2>1
      <4> QED
        BY <3>2, <4>1, <4>2, AnswerMoves
    <3> QED
      BY <3>3, Maps
  <2> QED
    BY <2>1, <2>2, <2>3 DEF Register!regVars
<1>6. ASSUME NEW c \in Clients, Respond(c) PROVE Register!Return(c)
  <2>1. /\ pc[c] = "respond" /\ Goto(c, "idle")
        /\ UNCHANGED <<notes, req, reply, saves>>
    BY <1>6 DEF Respond
  <2>2. phaseMap[c] = "done" /\ phaseMap' = [phaseMap EXCEPT ![c] = "idle"]
    BY <2>1, Maps, PhaseMoves DEF Phase
  <2> QED
    BY <2>1, <2>2, AnswerKept DEF Register!Return
<1>7. ASSUME NEW c \in Clients, Die(c) PROVE Register!Die(c)
  <2>1. /\ pc[c] # "idle" /\ Goto(c, "idle") /\ Answer(c, NoReply)
        /\ UNCHANGED <<notes, req, saves>>
    BY <1>7 DEF Die
  <2>2. phaseMap[c] # "idle" /\ phaseMap' = [phaseMap EXCEPT ![c] = "idle"]
    BY <2>1, Maps, PhaseMoves, AnswerMoves DEF Phase
  <2>3. answerMap' = [answerMap EXCEPT ![c] = Register!NoAnswer]
    BY <2>1, AnswerMoves, NothingShown
  <2> QED
    BY <2>1, <2>2, <2>3 DEF Register!Die
<1>8. ASSUME NEW c \in Clients,
             set_note(c) \/ delete_note(c) \/ Respond(c) \/ Die(c)
      PROVE  [Register!RNext]_(Register!regVars)
  BY <1>2, <1>3, <1>4, <1>5, <1>6, <1>7, <1>8,
     WriteIsEffect, RefusalIsEffect, DeleteIsEffect DEF set_note, delete_note
<1> QED
  BY <1>1, <1>8 DEF Next

\* The two collections, written by operations that interleave and fail, behave
\* as one register per key.
THEOREM StoreImplementsRegister == Spec => ImplementsRegister
<1>1. Init => TypeOK /\ OpFits
  BY TypeInit, OpInit
<1>2. TypeOK /\ OpFits /\ [Next]_vars => TypeOK' /\ OpFits'
  BY TypeStep, OpStep
<1> QED
  BY <1>1, <1>2, RegisterInit, RegisterStep, PTL
  DEF Spec, ImplementsRegister, Register!RSpec
=============================================================================
