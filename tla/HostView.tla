------------------------------ MODULE HostView ------------------------------
(***************************************************************************)
(* What the `view' purpose promises of the results stored into it: for every *)
(* address it knows a set of results, to which results are added, some at a *)
(* time, in one indivisible step, and from which none is ever taken away.   *)
(*                                                                          *)
(* The module ViewStore is the implementation of this by DBView.merge_host, *)
(* which replaces whole documents.                                          *)
(***************************************************************************)
CONSTANTS Addrs,     \* host addresses
          Results    \* scan results and passive records, as stored

VARIABLE known       \* the results the view accounts for, by address

HInit == known = [a \in Addrs |-> {}]

\* New results for the host at address a.
Add(a, new) == known' = [known EXCEPT ![a] = @ \cup new]

HNext == \E a \in Addrs : \E new \in SUBSET Results : Add(a, new)

HSpec == HInit /\ [][HNext]_known
=============================================================================
