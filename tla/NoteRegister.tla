---------------------------- MODULE NoteRegister ----------------------------
(***************************************************************************)
(* What the `notes' purpose promises its callers: for every entity key, one *)
(* register holding the current note, written under optimistic concurrency. *)
(*                                                                          *)
(* A call takes effect in one indivisible step somewhere between the moment *)
(* it is made and the moment it is answered.  A save names what it expects  *)
(* of the register: nothing in particular ("lww", the last writer wins), no *)
(* note at all ("create"), or a note at a given revision ("update").  It is *)
(* accepted exactly when that expectation holds at the instant it takes     *)
(* effect, and then it moves the register to the next revision.  A process  *)
(* may die at any time; its caller gets no answer.                          *)
(*                                                                          *)
(* This module fixes the contract of DBNotes.set_note / delete_note; the    *)
(* module NotesStore is the MongoDB implementation of it.                   *)
(***************************************************************************)
EXTENDS Naturals

CONSTANTS Clients,   \* the callers: web requests, MCP tools, the CLI
          Keys,      \* canonical entity keys
          MaxSaves   \* bound: how many set_note calls are made in all

VARIABLES cell,      \* the register of each key
          phase,     \* where each client's call stands
          call,      \* the call of each client
          answer,    \* what the last call of each client came to
          saves      \* how many saves were requested so far

regVars == <<cell, phase, call, answer, saves>>

Modes == {"lww", "create", "update"}

\* A note is its revision, counted from 1, and its body.  Every save brings
\* a body of its own, so a body is named by the number of the save.
Note == [revision : Nat, body : Nat]
Absent == [revision |-> 0, body |-> 0]

Call == [op : {"save", "delete"}, key : Keys, mode : Modes,
         expected : 0..MaxSaves, body : 0..MaxSaves]
SaveCall(k, m, e, b) ==
  [op |-> "save", key |-> k, mode |-> m, expected |-> e, body |-> b]
DeleteCall(k) ==
  [op |-> "delete", key |-> k, mode |-> "lww", expected |-> 0, body |-> 0]

Answers == [kind : {"none", "saved", "rejected", "too_large", "deleted", "missing"},
            revision : Nat]
NoAnswer == [kind |-> "none", revision |-> 0]

\* The expectation of save s, of a register holding note n.
Accepts(s, n) ==
  \/ s.mode = "lww"
  \/ s.mode = "create" /\ n.revision = 0
  \/ s.mode = "update" /\ n.revision = s.expected /\ n.revision > 0

-----------------------------------------------------------------------------

RInit ==
  /\ cell = [k \in Keys |-> Absent]
  /\ phase = [c \in Clients |-> "idle"]
  /\ call \in [Clients -> Call]
  /\ answer = [c \in Clients |-> NoAnswer]
  /\ saves = 0

\* Client c makes a call.
Invoke(c) ==
  /\ phase[c] = "idle"
  /\ phase' = [phase EXCEPT ![c] = "called"]
  /\ answer' = [answer EXCEPT ![c] = NoAnswer]
  /\ \/ /\ saves < MaxSaves
        /\ saves' = saves + 1
        /\ \E k \in Keys, m \in Modes, e \in 0..MaxSaves :
             call' = [call EXCEPT ![c] = SaveCall(k, m, e, saves + 1)]
     \/ /\ saves' = saves
        /\ \E k \in Keys : call' = [call EXCEPT ![c] = DeleteCall(k)]
  /\ UNCHANGED cell

\* The call of client c takes effect.
Effect(c) ==
  LET op == call[c]
      n  == cell[op.key]
  IN  /\ phase[c] = "called"
      /\ phase' = [phase EXCEPT ![c] = "done"]
      /\ \/ /\ op.op = "save"
            /\ Accepts(op, n)
            /\ cell' = [cell EXCEPT ![op.key] =
                          [revision |-> n.revision + 1, body |-> op.body]]
            /\ answer' = [answer EXCEPT ![c] =
                            [kind |-> "saved", revision |-> n.revision + 1]]
         \/ /\ op.op = "save"
            /\ ~Accepts(op, n)
            /\ answer' = [answer EXCEPT ![c] = [kind |-> "rejected", revision |-> 0]]
            /\ UNCHANGED cell
         \/ /\ op.op = "save"
            /\ answer' = [answer EXCEPT ![c] = [kind |-> "too_large", revision |-> 0]]
            /\ UNCHANGED cell
         \/ /\ op.op = "delete"
            /\ cell' = [cell EXCEPT ![op.key] = Absent]
            /\ answer' = [answer EXCEPT ![c] =
                  [kind |-> IF n.revision > 0 THEN "deleted" ELSE "missing",
                   revision |-> 0]]
      /\ UNCHANGED <<call, saves>>

\* The call returns and the client may make another one.
Return(c) ==
  /\ phase[c] = "done"
  /\ phase' = [phase EXCEPT ![c] = "idle"]
  /\ UNCHANGED <<cell, call, answer, saves>>

\* The process serving client c dies, before or after the call took effect.
Die(c) ==
  /\ phase[c] # "idle"
  /\ phase' = [phase EXCEPT ![c] = "idle"]
  /\ answer' = [answer EXCEPT ![c] = NoAnswer]
  /\ UNCHANGED <<cell, call, saves>>

RNext == \E c \in Clients : Invoke(c) \/ Effect(c) \/ Return(c) \/ Die(c)

RSpec == RInit /\ [][RNext]_regVars
=============================================================================
