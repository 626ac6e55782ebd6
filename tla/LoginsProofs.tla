---------------------------- MODULE LoginsProofs ----------------------------
(***************************************************************************)
(* Proofs about logging in, for any requests, users, links, limits, faults  *)
(* and changes of the accounts: nobody is in without an event of the trail, *)
(* no attempt has two events, a link opens one session, and only those who  *)
(* may are let in; and no more links are sent than the limits and those     *)
(* that ask at once allow.                                                  *)
(*                                                                          *)
(* Where a request is says what the trail has of it, and whether it may     *)
(* have a session (RecordedInv); the link it consumed can be consumed by no    *)
(* one else, since links are numbered in the order they are made (Spent);   *)
(* and every account that is active was known, welcome or approved, even    *)
(* when accounts are deleted while a request waits (Earned).  Who passed a   *)
(* limit and has yet to record it counts against that limit (Bounded).      *)
(***************************************************************************)
EXTENDS Logins, FiniteSetTheorems, TLAPS

\* Stages of a request that has no event yet, and all of them.
Unrecorded == {"new", "find", "register", "reread", "pending", "abort", "open", "stamp", "record"}
Stages == Running \cup {"new", "in", "out", "refused", "error", "lost", "dead"}
Trails == {<<>>, <<"success">>, <<"failure">>}
AskStages == {"idle", "email?", "ip?", "email", "ip", "mail"}
Asking == [at : AskStages, email : Emails]

\* The kinds of what the steps read.
TypeInv ==
  /\ accounts \in [Emails -> {"none", "pending", "active"}]
  /\ sessions \subseteq Attempts /\ cookies \subseteq Attempts
  /\ mailed \in Seq(Emails) /\ links \subseteq Links
  /\ at \in [Attempts -> Stages]
  /\ who \in [Attempts -> Emails]
  /\ via \in [Attempts -> Links \cup {0}]
  /\ asks \in [Askers -> Asking]
  /\ trail \in [Attempts -> Trails]

\* What the trail has of a request, and whether it has a session or a cookie.
TrailFits(a) ==
  /\ at[a] \in Unrecorded => trail[a] = <<>>
  /\ at[a] \in {"cookie", "in", "out"} => trail[a] = <<"success">>
  /\ at[a] = "refused" => trail[a] = <<"failure">>
  /\ a \in cookies => at[a] \in {"in", "out"}
  /\ a \in sessions => at[a] \in {"stamp", "record", "undo", "lost", "dead", "cookie", "in"}
RecordedInv == \A a \in Attempts : TrailFits(a)

\* A link that was consumed is gone, and whoever consumed it is alone and past the start.
Spent ==
  \A a \in Attempts :
    via[a] # 0 => /\ via[a] \notin links
                  /\ at[a] # "new"
                  /\ \A b \in Attempts : via[b] = via[a] => a = b

\* Whoever has a session, or is about to be given one, may have it.
Allowed == Known \cup Welcome \cup approved
Earned ==
  /\ \A e \in Emails : accounts[e] = "active" => e \in Allowed
  /\ \A a \in Attempts : at[a] \in {"open", "stamp"} => who[a] \in Allowed
  /\ \A a \in sessions : who[a] \in Allowed

\* The askers at some stages, for some addresses, and the links sent to one.
Waiting(stages, emails) == {x \in Askers : asks[x].at \in stages /\ asks[x].email \in emails}
SentTo(e) == {l \in Links : mailed[l] = e}

\* A limit that is passed is a record to come and a record is a link to come: each
\* limit, plus one for every other asker, bounds what is recorded and what will be.
Bounded ==
  /\ ledger \in [Emails \cup {"ip"} -> Nat]
  /\ \A e \in Emails :
       /\ ledger[e] + Cardinality(Waiting({"ip?", "email"}, {e}))
            <= RatePerEmail + (Cardinality(Askers) - 1)
       /\ Cardinality(SentTo(e)) + Cardinality(Waiting({"ip", "mail"}, {e})) <= ledger[e]
  /\ ledger["ip"] + Cardinality(Waiting({"email", "ip"}, Emails))
       <= RatePerIP + (Cardinality(Askers) - 1)
  /\ Len(mailed) + Cardinality(Waiting({"mail"}, Emails)) <= ledger["ip"]

\* The inductive invariant.
IInv == TypeInv /\ RecordedInv /\ Spent /\ Earned /\ Bounded

LEMMA InvInit ==
  ASSUME LoginAssumption
  PROVE  Init => IInv
<1> SUFFICES ASSUME Init PROVE IInv
  OBVIOUS
<1>1. (CHOOSE e \in Emails : TRUE) \in Emails
  BY DEF LoginAssumption
<1>2. TypeInv
  <2>1. <<>> \in Trails
    BY DEF Trails
  <2>3. Idle(CHOOSE e \in Emails : TRUE) \in Asking
    BY <1>1 DEF Idle, Asking, AskStages
  <2>2. mailed \in Seq(Emails)
    BY DEF Init
  <2> QED
    BY <1>1, <2>1, <2>2, <2>3 DEF Init, TypeInv, Links, Stages
<1>3. RecordedInv
  BY DEF Init, RecordedInv, TrailFits, Unrecorded
<1>4. Spent
  BY DEF Init, Spent
<1>5. Earned
  BY DEF Init, Earned, Allowed
<1>6. Bounded
  <2>1. /\ \A e \in Emails : /\ Waiting({"ip?", "email"}, {e}) = {}
                             /\ Waiting({"ip", "mail"}, {e}) = {}
                             /\ SentTo(e) = {}
        /\ Waiting({"email", "ip"}, Emails) = {} /\ Waiting({"mail"}, Emails) = {}
    BY DEF Init, Idle, Waiting, SentTo, Links
  <2>2. Len(mailed) = 0 /\ ledger = [k \in Emails \cup {"ip"} |-> 0]
    BY DEF Init
  <2>3. Cardinality(Askers) \in Nat /\ Cardinality({}) = 0
    BY FS_CardinalityType, FS_EmptySet DEF LoginAssumption
  <2>4. RatePerEmail \in Nat \ {0} /\ RatePerIP \in Nat \ {0}
    BY DEF LoginAssumption
  <2>5. ASSUME NEW e \in Emails
        PROVE  /\ ledger[e] + Cardinality(Waiting({"ip?", "email"}, {e}))
                    <= RatePerEmail + (Cardinality(Askers) - 1)
               /\ Cardinality(SentTo(e)) + Cardinality(Waiting({"ip", "mail"}, {e})) <= ledger[e]
    <3>1. ledger[e] = 0
      BY <2>2
    <3>2. /\ Cardinality(Waiting({"ip?", "email"}, {e})) = 0
          /\ Cardinality(Waiting({"ip", "mail"}, {e})) = 0
          /\ Cardinality(SentTo(e)) = 0
      BY <2>1, <2>3, Zenon
    <3> QED
      BY <2>3, <2>4, <3>1, <3>2
  <2>6. ledger["ip"] = 0 /\ ledger \in [Emails \cup {"ip"} -> Nat]
    BY <2>2
  <2>7. /\ Cardinality(Waiting({"email", "ip"}, Emails)) = 0
        /\ Cardinality(Waiting({"mail"}, Emails)) = 0
    BY <2>1, <2>3, Zenon
  <2> QED
    BY <2>2, <2>3, <2>4, <2>5, <2>6, <2>7 DEF Bounded
<1> QED
  BY <1>2, <1>3, <1>4, <1>5, <1>6 DEF IInv

-----------------------------------------------------------------------------
(* Every step keeps the kinds.                                              *)

\* A request that has no event gets its one.
LEMMA OneEvent ==
  ASSUME trail \in [Attempts -> Trails], NEW a \in Attempts, trail[a] = <<>>,
         NEW event \in {"success", "failure"}, Recorded(a, event)
  PROVE  trail' \in [Attempts -> Trails] /\ trail' = [trail EXCEPT ![a] = <<event>>]
<1>1. Append(<<>>, event) = <<event>>
  OBVIOUS
<1>2. trail' = [trail EXCEPT ![a] = <<event>>]
  BY <1>1 DEF Recorded
<1>3. <<event>> \in Trails
  BY DEF Trails
<1> QED
  BY <1>2, <1>3

LEMMA AskMoves ==
  ASSUME asks \in [Askers -> Asking], NEW x \in Askers, NEW s, NEW n \in AskStages, Step(x, s, n)
  PROVE  asks' \in [Askers -> Asking]
<1>1. [asks[x] EXCEPT !.at = n] \in Asking
  BY DEF Asking
<1>2. asks' = [asks EXCEPT ![x] = [asks[x] EXCEPT !.at = n]]
  BY DEF Step
<1> QED
  BY <1>1, <1>2

LEMMA AskStep ==
  ASSUME TypeInv, NEW x \in Askers, Ask(x)
  PROVE  TypeInv'
<1> DEFINE Rest == UNCHANGED <<accounts, sessions, trail, cookies, at, who, via>>
<1>1. ASSUME asks' \in [Askers -> Asking], UNCHANGED mailed, links' \subseteq links, Rest
      PROVE  TypeInv'
  BY <1>1 DEF TypeInv, Links
<1>2. ASSUME NEW s, NEW n \in AskStages, Step(x, s, n)
      PROVE  asks' \in [Askers -> Asking] /\ Rest
  BY <1>2, AskMoves DEF Step, TypeInv
<1>3. CASE send_magic_link(x)
  <2>1. \A e \in Emails : [at |-> "email?", email |-> e] \in Asking
    BY DEF Asking, AskStages
  <2>2. asks' \in [Askers -> Asking]
    BY <1>3, <2>1 DEF send_magic_link, TypeInv
  <2> QED
    BY <1>1, <1>3, <2>2 DEF send_magic_link
<1>4. ASSUME NEW s, NEW n \in AskStages, NEW k, NEW l, is_rate_limited(x, s, k, l, n)
      PROVE  TypeInv'
  <2>1. "idle" \in AskStages
    BY DEF AskStages
  <2>2. CASE ledger[k] >= l
    BY <1>1, <1>2, <1>4, <2>1, <2>2 DEF is_rate_limited
  <2>3. CASE ~(ledger[k] >= l)
    BY <1>1, <1>2, <1>4, <2>3 DEF is_rate_limited
  <2> QED
    BY <2>2, <2>3
<1>5. ASSUME NEW s, NEW n \in AskStages, NEW k, record_rate_limit(x, s, k, n)
      PROVE  TypeInv'
  BY <1>1, <1>2, <1>5 DEF record_rate_limit
<1>6. CASE _send_magic_link_email(x)
  <2>1. asks[x].email \in Emails
    BY DEF TypeInv, Asking
  <2>2. mailed' = Append(mailed, asks[x].email) /\ links' = links \cup {Len(mailed) + 1}
    BY <1>6 DEF _send_magic_link_email
  <2>3. mailed' \in Seq(Emails) /\ Len(mailed') = Len(mailed) + 1 /\ Len(mailed) \in Nat
    BY <2>1, <2>2 DEF TypeInv
  <2>4. links' \subseteq Links' /\ Links \subseteq Links'
    <3> DEFINE n == Len(mailed)
    <3>1. Links = 1 .. n /\ Links' = 1 .. (n + 1) /\ n \in Nat
      BY <2>3 DEF Links
    <3>2. links \subseteq 1 .. n /\ links' = links \cup {n + 1}
      BY <2>2, <3>1 DEF TypeInv
    <3> HIDE DEF n
    <3> QED
      BY <3>1, <3>2
  <2>5. "idle" \in AskStages
    BY DEF AskStages
  <2>6. asks' \in [Askers -> Asking] /\ Rest
    BY <1>2, <1>6, <2>5 DEF _send_magic_link_email
  <2> QED
    BY <2>3, <2>4, <2>6 DEF TypeInv
<1>7. CASE AskFails(x)
  <2>1. "idle" \in AskStages
    BY DEF AskStages
  <2> QED
    BY <1>1, <1>2, <1>7, <2>1 DEF AskFails
<1>8. {"ip?", "email", "ip", "mail"} \subseteq AskStages
  BY DEF AskStages
<1> QED
  BY <1>3, <1>4, <1>5, <1>6, <1>7, <1>8 DEF Ask

LEMMA TypeStep ==
  ASSUME LoginAssumption, TypeInv, RecordedInv, [Next]_vars
  PROVE  TypeInv'
<1> USE DEF TypeInv, Go, Fault, NoFault, Running, Stages, Links, accountVars, askVars, requestVars
<1>1. ASSUME NEW a \in Attempts, callback_provider(a) PROVE TypeInv'
  BY <1>1 DEF callback_provider
<1>2. ASSUME NEW a \in Attempts, verify_magic_link(a) PROVE TypeInv'
  BY <1>2 DEF verify_magic_link
<1>3. ASSUME NEW a \in Attempts, FindUser(a) PROVE TypeInv'
  BY <1>3 DEF FindUser
<1>4. ASSUME NEW a \in Attempts, create_user(a) PROVE TypeInv'
  BY <1>4 DEF create_user
<1>5. ASSUME NEW a \in Attempts, RereadUser(a) PROVE TypeInv'
  BY <1>5 DEF RereadUser
<1>6. ASSUME NEW a \in Attempts, StoreFails(a) PROVE TypeInv'
  BY <1>6 DEF StoreFails
<1>7. ASSUME NEW a \in Attempts, NEW stage \in {"pending", "abort"}, Refuse(a, stage) PROVE TypeInv'
  <2>1. trail[a] = <<>>
    BY <1>7 DEF Refuse, RecordedInv, TrailFits, Unrecorded
  <2>2. Recorded(a, "failure") => trail' \in [Attempts -> Trails]
    BY <2>1, OneEvent
  <2> QED
    BY <1>7, <2>2 DEF Refuse
<1>8. ASSUME NEW a \in Attempts, create_session(a) PROVE TypeInv'
  BY <1>8 DEF create_session
<1>9. ASSUME NEW a \in Attempts, StampLogin(a) PROVE TypeInv'
  BY <1>9 DEF StampLogin
<1>10. ASSUME NEW a \in Attempts, record_auth(a) PROVE TypeInv'
  <2>1. trail[a] = <<>>
    BY <1>10 DEF record_auth, RecordedInv, TrailFits, Unrecorded
  <2>2. Recorded(a, "success") => trail' \in [Attempts -> Trails]
    BY <2>1, OneEvent
  <2> QED
    BY <1>10, <2>2 DEF record_auth
<1>11. ASSUME NEW a \in Attempts, delete_session(a) PROVE TypeInv'
  BY <1>11 DEF delete_session
<1>12. ASSUME NEW a \in Attempts, _set_session_cookie(a) PROVE TypeInv'
  BY <1>12 DEF _set_session_cookie
<1>13. ASSUME NEW a \in Attempts, Die(a) PROVE TypeInv'
  BY <1>13 DEF Die
<1>14. ASSUME NEW a \in Attempts, auth_logout(a) PROVE TypeInv'
  BY <1>14 DEF auth_logout
<1>15. ASSUME NEW x \in Askers, Ask(x) PROVE TypeInv'
  BY <1>15, AskStep
<1>16. CASE LinkExpires
  BY <1>16 DEF LinkExpires
<1>17. ASSUME NEW e \in Emails, admin_update_user(e) PROVE TypeInv'
  BY <1>17 DEF admin_update_user
<1>18. ASSUME NEW e \in Emails, delete_user(e) PROVE TypeInv'
  BY <1>18 DEF delete_user
<1>19. CASE DeleteLinks
  BY <1>19 DEF DeleteLinks
<1>20. CASE DeleteAccount
  BY <1>20 DEF DeleteAccount
<1>21. CASE UNCHANGED vars
  BY <1>21 DEF vars
<1> QED
  BY <1>1, <1>2, <1>3, <1>4, <1>5, <1>6, <1>7, <1>8, <1>9, <1>10, <1>11, <1>12, <1>13, <1>14,
     <1>15, <1>16, <1>17, <1>18, <1>19, <1>20, <1>21
  DEF Next, Attempt, RefusePending, audit_auth
-----------------------------------------------------------------------------
(* Where a request is says what the trail has of it.                        *)

\* A step of a request that leaves what there is of the others, and fits, keeps all fit.
LEMMA OthersFit ==
  ASSUME RecordedInv, NEW a \in Attempts, TrailFits(a)',
         \A b \in Attempts \ {a} : /\ at'[b] = at[b] /\ trail'[b] = trail[b]
                                   /\ b \in sessions' => b \in sessions
                                   /\ b \in cookies' => b \in cookies
  PROVE  RecordedInv'
<1>1. \A b \in Attempts \ {a} : TrailFits(b)'
  BY DEF RecordedInv, TrailFits
<1> QED
  BY <1>1 DEF RecordedInv

LEMMA RecordedStep ==
  ASSUME TypeInv, RecordedInv, [Next]_vars
  PROVE  RecordedInv'
<1>1. ASSUME NEW a \in Attempts, Attempt(a) PROVE RecordedInv'
  <2> USE DEF Go, Fault, NoFault
  <2>1. TrailFits(a)
    BY DEF RecordedInv
  <2>2. at \in [Attempts -> Stages] /\ trail \in [Attempts -> Trails]
    BY DEF TypeInv
  <2>3. ASSUME NEW stage \in {"pending", "abort"}, Refuse(a, stage) PROVE RecordedInv'
    <3>1. trail[a] = <<>>
      BY <2>1, <2>3 DEF Refuse, TrailFits, Unrecorded
    <3>2. Recorded(a, "failure") => trail' = [trail EXCEPT ![a] = <<"failure">>]
      BY <2>2, <3>1, OneEvent
    <3>3. TrailFits(a)'
      BY <2>1, <2>2, <2>3, <3>2 DEF Refuse, TrailFits, Unrecorded
    <3> QED
      BY <2>2, <2>3, <3>2, <3>3, OthersFit DEF Refuse
  <2>4. CASE record_auth(a)
    <3>1. trail[a] = <<>>
      BY <2>1, <2>4 DEF record_auth, TrailFits, Unrecorded
    <3>2. Recorded(a, "success") => trail' = [trail EXCEPT ![a] = <<"success">>]
      BY <2>2, <3>1, OneEvent
    <3>3. TrailFits(a)'
      BY <2>1, <2>2, <2>4, <3>2 DEF record_auth, TrailFits, Unrecorded
    <3> QED
      BY <2>2, <2>4, <3>2, <3>3, OthersFit DEF record_auth
  <2>5. CASE callback_provider(a)
    <3>1. TrailFits(a)'
      BY <2>1, <2>2, <2>5 DEF callback_provider, TrailFits, Unrecorded
    <3> QED
      BY <2>2, <2>5, <3>1, OthersFit DEF callback_provider
  <2>6. CASE verify_magic_link(a)
    <3>1. TrailFits(a)'
      BY <2>1, <2>2, <2>6 DEF verify_magic_link, TrailFits, Unrecorded
    <3> QED
      BY <2>2, <2>6, <3>1, OthersFit DEF verify_magic_link
  <2>7. CASE FindUser(a)
    <3>1. TrailFits(a)'
      BY <2>1, <2>2, <2>7 DEF FindUser, TrailFits, Unrecorded
    <3> QED
      BY <2>2, <2>7, <3>1, OthersFit DEF FindUser
  <2>8. CASE create_user(a)
    <3>1. TrailFits(a)'
      BY <2>1, <2>2, <2>8 DEF create_user, TrailFits, Unrecorded
    <3> QED
      BY <2>2, <2>8, <3>1, OthersFit DEF create_user
  <2>9. CASE RereadUser(a)
    <3>1. TrailFits(a)'
      BY <2>1, <2>2, <2>9 DEF RereadUser, TrailFits, Unrecorded
    <3> QED
      BY <2>2, <2>9, <3>1, OthersFit DEF RereadUser
  <2>10. CASE StoreFails(a)
    <3>1. TrailFits(a)'
      BY <2>1, <2>2, <2>10 DEF StoreFails, TrailFits, Unrecorded
    <3> QED
      BY <2>2, <2>10, <3>1, OthersFit DEF StoreFails
  <2>11. CASE create_session(a)
    <3>1. TrailFits(a)'
      BY <2>1, <2>2, <2>11 DEF create_session, TrailFits, Unrecorded
    <3> QED
      BY <2>2, <2>11, <3>1, OthersFit DEF create_session
  <2>12. CASE StampLogin(a)
    <3>1. TrailFits(a)'
      BY <2>1, <2>2, <2>12 DEF StampLogin, TrailFits, Unrecorded
    <3> QED
      BY <2>2, <2>12, <3>1, OthersFit DEF StampLogin
  <2>13. CASE delete_session(a)
    <3>1. TrailFits(a)'
      BY <2>1, <2>2, <2>13 DEF delete_session, TrailFits, Unrecorded
    <3> QED
      BY <2>2, <2>13, <3>1, OthersFit DEF delete_session
  <2>14. CASE _set_session_cookie(a)
    <3>1. TrailFits(a)'
      BY <2>1, <2>2, <2>14 DEF _set_session_cookie, TrailFits, Unrecorded
    <3> QED
      BY <2>2, <2>14, <3>1, OthersFit DEF _set_session_cookie
  <2>15. CASE Die(a)
    <3>1. TrailFits(a)'
      BY <2>1, <2>2, <2>15 DEF Die, TrailFits, Unrecorded, Running
    <3> QED
      BY <2>2, <2>15, <3>1, OthersFit DEF Die
  <2>16. CASE auth_logout(a)
    <3>1. TrailFits(a)'
      BY <2>1, <2>2, <2>16 DEF auth_logout, TrailFits, Unrecorded
    <3> QED
      BY <2>2, <2>16, <3>1, OthersFit DEF auth_logout
  <2> QED
    BY <1>1, <2>3, <2>4, <2>5, <2>6, <2>7, <2>8, <2>9, <2>10, <2>11, <2>12, <2>13, <2>14,
       <2>15, <2>16 DEF Attempt, RefusePending, audit_auth
<1>2. ASSUME UNCHANGED <<at, trail, cookies>>, sessions' \subseteq sessions PROVE RecordedInv'
  BY <1>2 DEF RecordedInv, TrailFits
<1>3. ASSUME NEW x \in Askers, Ask(x) PROVE UNCHANGED <<at, trail, cookies, sessions>>
  BY <1>3 DEF Ask, send_magic_link, is_rate_limited, record_rate_limit, _send_magic_link_email,
     AskFails, Step
<1>4. CASE LinkExpires
  BY <1>2, <1>4 DEF LinkExpires
<1>5. ASSUME NEW e \in Emails, admin_update_user(e) \/ delete_user(e) PROVE RecordedInv'
  BY <1>2, <1>5 DEF admin_update_user, delete_user
<1>6. CASE DeleteLinks \/ DeleteAccount
  BY <1>2, <1>6 DEF DeleteLinks, DeleteAccount
<1>7. CASE UNCHANGED vars
  BY <1>2, <1>7 DEF vars
<1> QED
  BY <1>1, <1>2, <1>3, <1>4, <1>5, <1>6, <1>7 DEF Next

-----------------------------------------------------------------------------
(* A link that was consumed is never there again, and nobody else has it.   *)

LEMMA SpentStep ==
  ASSUME TypeInv, Spent, [Next]_vars
  PROVE  Spent'
<1>1. ASSUME UNCHANGED via, links' \subseteq links,
             \A a \in Attempts : at'[a] = "new" => at[a] = "new"
      PROVE  Spent'
  BY <1>1 DEF Spent
<1>2. ASSUME NEW a \in Attempts, verify_magic_link(a) PROVE Spent'
  <2>1. via[a] = 0 /\ at \in [Attempts -> Stages] /\ via \in [Attempts -> Links \cup {0}]
    BY <1>2 DEF verify_magic_link, Spent, TypeInv
  <2>2. at' = [at EXCEPT ![a] = at'[a]] /\ at'[a] # "new"
    BY <1>2, <2>1 DEF verify_magic_link, Go
  <2>3. CASE UNCHANGED via
    BY <1>1, <1>2, <2>1, <2>2, <2>3 DEF verify_magic_link
  <2>4. CASE ~UNCHANGED via
    <3>1. PICK l \in Links : /\ l \in links /\ links' = links \ {l}
                             /\ via' = [via EXCEPT ![a] = l]
      BY <1>2, <2>4 DEF verify_magic_link
    <3> QED
      BY <2>1, <2>2, <3>1 DEF Spent
  <2> QED
    BY <2>3, <2>4
<1>3. ASSUME NEW a \in Attempts, Attempt(a), ~verify_magic_link(a) PROVE Spent'
  <2>1. at \in [Attempts -> Stages]
    BY DEF TypeInv
  <2>2. UNCHANGED via /\ links' = links /\ \E stage \in Stages \ {"new"} : Go(a, stage)
    BY <1>3 DEF Attempt, callback_provider, FindUser, create_user, RereadUser, StoreFails,
       RefusePending, audit_auth, Refuse, create_session, StampLogin, record_auth,
       delete_session, _set_session_cookie, auth_logout, Die, requestVars, Stages, Running
  <2> QED
    BY <1>1, <2>1, <2>2 DEF Go
<1>4. ASSUME NEW x \in Askers, Ask(x) PROVE Spent'
  <2>1. CASE _send_magic_link_email(x)
    <3>1. UNCHANGED <<via, at>> /\ links' = links \cup {Len(mailed) + 1}
      BY <2>1 DEF _send_magic_link_email, Step
    <3>2. Len(mailed) \in Nat /\ \A a \in Attempts : via[a] \in (1 .. Len(mailed)) \cup {0}
      BY DEF TypeInv, Links
    <3>3. \A a \in Attempts : via[a] # Len(mailed) + 1
      BY <3>2
    <3> QED
      BY <3>1, <3>3 DEF Spent
  <2>2. CASE ~_send_magic_link_email(x)
    BY <1>1, <1>4, <2>2 DEF Ask, send_magic_link, is_rate_limited, record_rate_limit, AskFails, Step
  <2> QED
    BY <2>1, <2>2
<1>5. CASE LinkExpires
  BY <1>1, <1>5 DEF LinkExpires, requestVars
<1>6. ASSUME NEW e \in Emails, admin_update_user(e) \/ delete_user(e) PROVE Spent'
  BY <1>1, <1>6 DEF admin_update_user, delete_user, requestVars
<1>7. CASE DeleteLinks \/ DeleteAccount
  BY <1>1, <1>7 DEF DeleteLinks, DeleteAccount, requestVars
<1>8. CASE UNCHANGED vars
  BY <1>1, <1>8 DEF vars
<1> QED
  BY <1>2, <1>3, <1>4, <1>5, <1>6, <1>7, <1>8 DEF Next

-----------------------------------------------------------------------------
(* Whoever is let in, or about to be, may be.                               *)

LEMMA EarnedStep ==
  ASSUME LoginAssumption, TypeInv, RecordedInv, Earned, [Next]_vars
  PROVE  Earned'
<1>1. ASSUME approved \subseteq approved', UNCHANGED <<at, who>>, sessions' \subseteq sessions,
             \A e \in Emails : accounts'[e] = "active" => accounts[e] = "active" \/ e \in Allowed'
      PROVE  Earned'
  <2>1. Allowed \subseteq Allowed'
    BY <1>1 DEF Allowed
  <2> QED
    BY <1>1, <2>1 DEF Earned
<1>2. ASSUME NEW a \in Attempts, Attempt(a) PROVE Earned'
  <2> USE DEF Go, accountVars, requestVars
  <2>1. at \in [Attempts -> Stages] /\ who \in [Attempts -> Emails]
        /\ accounts \in [Emails -> {"none", "pending", "active"}]
    BY DEF TypeInv
  <2>2. ASSUME Allowed' = Allowed, UNCHANGED <<accounts, who>>, sessions' \subseteq sessions,
               NEW stage \in Stages \ {"open", "stamp"}, Go(a, stage)
        PROVE  Earned'
    BY <2>1, <2>2 DEF Earned
  <2>3. CASE callback_provider(a) \/ verify_magic_link(a)
    <3>1. a \notin sessions
      BY <2>3 DEF RecordedInv, TrailFits, callback_provider, verify_magic_link
    <3>2. Allowed' = Allowed /\ UNCHANGED <<accounts, sessions>>
      BY <2>3 DEF callback_provider, verify_magic_link, Allowed
    <3>3. /\ \A b \in Attempts \ {a} : at'[b] = at[b] /\ who'[b] = who[b]
          /\ at'[a] \notin {"open", "stamp"}
      BY <2>1, <2>3 DEF callback_provider, verify_magic_link
    <3> QED
      BY <3>1, <3>2, <3>3 DEF Earned, TypeInv
  <2>4. CASE FindUser(a)
    <3>1. Allowed' = Allowed /\ UNCHANGED <<accounts, who, sessions>>
      BY <2>4 DEF FindUser, Allowed
    <3>2. at'[a] = "open" => accounts[who[a]] = "active"
      BY <2>1, <2>4 DEF FindUser
    <3>3. at'[a] # "stamp" /\ \A b \in Attempts \ {a} : at'[b] = at[b]
      BY <2>1, <2>4 DEF FindUser
    <3> QED
      BY <2>1, <3>1, <3>2, <3>3 DEF Earned
  <2>5. CASE create_user(a)
    <3>1. Allowed' = Allowed /\ UNCHANGED <<who, sessions>>
      BY <2>5 DEF create_user, Allowed
    <3>2. \A e \in Emails : accounts'[e] = "active" => accounts[e] = "active" \/ e \in Allowed
      BY <2>1, <2>5 DEF create_user, Allowed
    <3>3. at'[a] \notin {"open", "stamp"} /\ \A b \in Attempts \ {a} : at'[b] = at[b]
      BY <2>1, <2>5 DEF create_user
    <3> QED
      BY <3>1, <3>2, <3>3 DEF Earned
  <2>6. CASE RereadUser(a)
    <3>1. Allowed' = Allowed /\ UNCHANGED <<accounts, who, sessions>>
      BY <2>6 DEF RereadUser, Allowed
    <3>2. at'[a] = "open" => who[a] \in Allowed
      BY <2>1, <2>6 DEF RereadUser, Allowed
    <3>3. at'[a] # "stamp" /\ \A b \in Attempts \ {a} : at'[b] = at[b]
      BY <2>1, <2>6 DEF RereadUser
    <3> QED
      BY <3>1, <3>2, <3>3 DEF Earned
  <2>7. CASE create_session(a)
    <3>1. Allowed' = Allowed /\ UNCHANGED <<accounts, who>> /\ sessions' \subseteq sessions \cup {a}
      BY <2>7 DEF create_session, Allowed
    <3>2. who[a] \in Allowed
      BY <2>7 DEF create_session, Earned
    <3>3. \A b \in Attempts \ {a} : at'[b] = at[b]
      BY <2>1, <2>7 DEF create_session
    <3> QED
      BY <3>1, <3>2, <3>3 DEF Earned
  <2>8. CASE StoreFails(a) \/ (\E stage \in {"pending", "abort"} : Refuse(a, stage))
    BY <2>2, <2>8 DEF StoreFails, Refuse, Allowed, Stages
  <2>9. CASE StampLogin(a) \/ record_auth(a) \/ delete_session(a)
    BY <2>2, <2>9 DEF StampLogin, record_auth, delete_session, Allowed, Stages, Running
  <2>10. CASE _set_session_cookie(a) \/ auth_logout(a) \/ Die(a)
    BY <2>2, <2>10 DEF _set_session_cookie, auth_logout, Die, Allowed, Stages
  <2> QED
    BY <1>2, <2>3, <2>4, <2>5, <2>6, <2>7, <2>8, <2>9, <2>10 DEF Attempt, RefusePending, audit_auth
<1>3. ASSUME NEW x \in Askers, Ask(x) PROVE Earned'
  BY <1>1, <1>3 DEF Ask, send_magic_link, is_rate_limited, record_rate_limit,
     _send_magic_link_email, AskFails, Step
<1>4. CASE LinkExpires
  BY <1>1, <1>4 DEF LinkExpires, accountVars, requestVars
<1>5. ASSUME NEW e \in Emails, admin_update_user(e) \/ delete_user(e) PROVE Earned'
  <2>1. CASE admin_update_user(e)
    <3>1. UNCHANGED <<at, who, sessions>>
      BY <2>1 DEF admin_update_user, requestVars
    <3>2. PICK state \in {"active", "pending"} :
            /\ accounts' = [accounts EXCEPT ![e] = state]
            /\ approved' = IF state = "active" THEN approved \cup {e} ELSE approved
      BY <2>1 DEF admin_update_user
    <3> QED
      BY <1>1, <3>1, <3>2 DEF Allowed, TypeInv
  <2>2. CASE delete_user(e)
    BY <1>1, <2>2 DEF delete_user, accountVars, requestVars
  <2> QED
    BY <1>5, <2>1, <2>2
<1>6. CASE DeleteLinks
  BY <1>1, <1>6 DEF DeleteLinks, accountVars, requestVars
<1>7. CASE DeleteAccount
  BY <1>1, <1>7 DEF DeleteAccount, requestVars, TypeInv
<1>8. CASE UNCHANGED vars
  BY <1>1, <1>8 DEF vars
<1> QED
  BY <1>2, <1>3, <1>4, <1>5, <1>6, <1>7, <1>8 DEF Next

-----------------------------------------------------------------------------
(* No more links are sent than the limits allow.                            *)

LEMMA SomeWait ==
  ASSUME LoginAssumption, NEW stages, NEW emails
  PROVE  /\ IsFiniteSet(Waiting(stages, emails))
         /\ Cardinality(Waiting(stages, emails)) \in Nat
         /\ Cardinality(Waiting(stages, emails)) <= Cardinality(Askers)
<1>1. Waiting(stages, emails) \in SUBSET Askers
  BY DEF Waiting
<1> QED
  BY <1>1, FS_Subset, FS_CardinalityType DEF LoginAssumption

\* One asker moves: it joins those it belongs to now and leaves those it did.
Counts(was, is, count, new) ==
  /\ (was <=> is) => new = count
  /\ (~was /\ is) => new = count + 1
  /\ (was /\ ~is) => new = count - 1
Is(ask, stages, emails) == ask.at \in stages /\ ask.email \in emails

LEMMA OneMoves ==
  ASSUME LoginAssumption, asks \in [Askers -> Asking], NEW x \in Askers, NEW r \in Asking,
         asks' = [asks EXCEPT ![x] = r], NEW stages, NEW emails
  PROVE  /\ Cardinality(Waiting(stages, emails)') \in 0 .. Cardinality(Askers)
         /\ Counts(Is(asks[x], stages, emails), Is(r, stages, emails),
                   Cardinality(Waiting(stages, emails)), Cardinality(Waiting(stages, emails)'))
<1> DEFINE W == Waiting(stages, emails)
           was == Is(asks[x], stages, emails)
           is == Is(r, stages, emails)
<1>1. IsFiniteSet(W) /\ Cardinality(W) \in Nat
  BY SomeWait
<1>2. x \in W <=> was
  BY DEF Waiting, Is
<1>3. W' = IF is THEN W \cup {x} ELSE W \ {x}
  BY DEF Waiting, Is
<1>4. W' \in SUBSET Askers
  BY DEF Waiting
<1>5. Cardinality(W') \in 0 .. Cardinality(Askers)
  BY <1>4, FS_Subset, FS_CardinalityType DEF LoginAssumption
<1> HIDE DEF W, was, is
<1>6. Counts(was, is, Cardinality(W), Cardinality(W'))
  <2>1. CASE is
    BY <1>1, <1>2, <1>3, <2>1, FS_AddElement DEF Counts
  <2>2. CASE ~is
    BY <1>1, <1>2, <1>3, <2>2, FS_RemoveElement DEF Counts
  <2> QED
    BY <2>1, <2>2
<1> QED
  BY <1>5, <1>6 DEF W, was, is

LEMMA LinksAreSent ==
  ASSUME TypeInv, NEW e \in Emails
  PROVE  /\ IsFiniteSet(SentTo(e))
         /\ Cardinality(SentTo(e)) \in Nat
         /\ Len(mailed) \in Nat /\ Cardinality(Links) = Len(mailed)
<1>1. Len(mailed) \in Nat
  BY DEF TypeInv
<1>2. IsFiniteSet(Links) /\ Cardinality(Links) = Len(mailed)
  BY <1>1, FS_Interval DEF Links
<1>3. SentTo(e) \in SUBSET Links
  BY DEF SentTo
<1> QED
  BY <1>1, <1>2, <1>3, FS_Subset, FS_CardinalityType

\* A link that is made is one more for its address.
LEMMA OneMoreIsSent ==
  ASSUME TypeInv, NEW e0 \in Emails, mailed' = Append(mailed, e0), NEW e \in Emails
  PROVE  Cardinality(SentTo(e)') = IF e = e0 THEN Cardinality(SentTo(e)) + 1
                                   ELSE Cardinality(SentTo(e))
<1> DEFINE n == Len(mailed)
<1>1. n \in Nat /\ mailed \in Seq(Emails)
  BY DEF TypeInv
<1>2. /\ Len(mailed') = n + 1 /\ mailed'[n + 1] = e0
      /\ \A l \in 1 .. n : mailed'[l] = mailed[l]
  BY <1>1
<1>3. Links = 1 .. n /\ Links' = 1 .. (n + 1)
  BY <1>2 DEF Links
<1> HIDE DEF n
<1>4. 1 .. (n + 1) = (1 .. n) \cup {n + 1} /\ n + 1 \notin 1 .. n
  BY <1>1
<1>5. SentTo(e)' = IF e = e0 THEN SentTo(e) \cup {n + 1} ELSE SentTo(e)
  BY <1>2, <1>3, <1>4 DEF SentTo
<1>6. n + 1 \notin SentTo(e) /\ IsFiniteSet(SentTo(e))
  BY <1>3, <1>4, LinksAreSent DEF SentTo
<1> QED
  BY <1>5, <1>6, FS_AddElement

LEMMA AskBounded ==
  ASSUME LoginAssumption, IInv, NEW x \in Askers, Ask(x)
  PROVE  Bounded'
<1> DEFINE n == Cardinality(Askers)
           Checked(e) == Cardinality(Waiting({"ip?", "email"}, {e}))
           ToSend(e) == Cardinality(Waiting({"ip", "mail"}, {e}))
           CheckedIP == Cardinality(Waiting({"email", "ip"}, Emails))
           ToMail == Cardinality(Waiting({"mail"}, Emails))
           Sent(e) == Cardinality(SentTo(e))
<1>1. TypeInv /\ Bounded /\ asks \in [Askers -> Asking]
  BY DEF IInv, TypeInv
<1>2. n \in Nat /\ x \in Askers /\ n >= 1
  BY FS_CardinalityType, FS_EmptySet DEF LoginAssumption
<1>3. /\ \A e \in Emails : Checked(e) \in 0 .. n /\ ToSend(e) \in 0 .. n /\ Sent(e) \in Nat
      /\ CheckedIP \in 0 .. n /\ ToMail \in 0 .. n /\ Len(mailed) \in Nat
      /\ RatePerEmail \in Nat \ {0} /\ RatePerIP \in Nat \ {0} /\ "ip" \notin Emails
  BY <1>1, <1>2, SomeWait, LinksAreSent DEF LoginAssumption
<1>4. asks[x].at \in AskStages /\ asks[x].email \in Emails /\ asks[x] \in Asking
  BY <1>1 DEF Asking
\* What each limit bounds, before the step and after.
<1>5. ASSUME ledger' \in [Emails \cup {"ip"} -> Nat],
             \A e \in Emails : /\ ledger'[e] + Checked(e)' <= RatePerEmail + (n - 1)
                              /\ Sent(e)' + ToSend(e)' <= ledger'[e],
             ledger'["ip"] + CheckedIP' <= RatePerIP + (n - 1),
             Len(mailed)' + ToMail' <= ledger'["ip"]
      PROVE  Bounded'
  BY <1>5 DEF Bounded
<1>6. /\ ledger \in [Emails \cup {"ip"} -> Nat]
      /\ \A e \in Emails : /\ ledger[e] + Checked(e) <= RatePerEmail + (n - 1)
                           /\ Sent(e) + ToSend(e) <= ledger[e]
      /\ ledger["ip"] + CheckedIP <= RatePerIP + (n - 1)
      /\ Len(mailed) + ToMail <= ledger["ip"]
  BY <1>1 DEF Bounded
<1>7. UNCHANGED mailed => \A e \in Emails : Sent(e)' = Sent(e)
  BY DEF SentTo, Links
\* The asker moves.
<1>8. ASSUME NEW r \in Asking, asks' = [asks EXCEPT ![x] = r]
      PROVE  /\ \A e \in Emails :
                  /\ Counts(Is(asks[x], {"ip?", "email"}, {e}), Is(r, {"ip?", "email"}, {e}),
                            Checked(e), Checked(e)')
                  /\ Counts(Is(asks[x], {"ip", "mail"}, {e}), Is(r, {"ip", "mail"}, {e}),
                            ToSend(e), ToSend(e)')
                  /\ Checked(e)' \in 0 .. n /\ ToSend(e)' \in 0 .. n
             /\ Counts(Is(asks[x], {"email", "ip"}, Emails), Is(r, {"email", "ip"}, Emails),
                       CheckedIP, CheckedIP')
             /\ CheckedIP' \in 0 .. n /\ ToMail' \in 0 .. n
             /\ Counts(Is(asks[x], {"mail"}, Emails), Is(r, {"mail"}, Emails), ToMail, ToMail')
  BY <1>1, <1>8, OneMoves
<1> HIDE DEF Checked, ToSend, CheckedIP, ToMail, Sent, n
\* An asker that only moves on, along its address.
<1>9. ASSUME NEW s, NEW next \in AskStages, Step(x, s, next)
      PROVE  /\ asks[x].at = s
             /\ [at |-> next, email |-> asks[x].email] \in Asking
             /\ asks' = [asks EXCEPT ![x] = [at |-> next, email |-> asks[x].email]]
  <2>1. asks[x].at = s
    BY <1>9 DEF Step
  <2>2. asks' = [asks EXCEPT ![x] = [asks[x] EXCEPT !.at = next]]
    BY <1>9 DEF Step
  <2>3. [asks[x] EXCEPT !.at = next] = [at |-> next, email |-> asks[x].email]
    BY <1>4 DEF Asking
  <2>4. asks' = [asks EXCEPT ![x] = [at |-> next, email |-> asks[x].email]]
    BY <2>2, <2>3
  <2>5. [at |-> next, email |-> asks[x].email] \in Asking
    BY <1>4, <1>9 DEF Asking
  <2> QED
    BY <2>1, <2>4, <2>5
<1>a. AskStages = {"idle", "email?", "ip?", "email", "ip", "mail"}
  BY DEF AskStages
<1> USE DEF Counts, Is
<1>10. CASE send_magic_link(x)
  <2>1. PICK e \in Emails : asks' = [asks EXCEPT ![x] = [at |-> "email?", email |-> e]]
    BY <1>10 DEF send_magic_link
  <2>2. [at |-> "email?", email |-> e] \in Asking
    BY DEF Asking, AskStages
  <2>3. asks[x].at = "idle" /\ UNCHANGED <<mailed, ledger>>
    BY <1>10 DEF send_magic_link
  <2>4. /\ CheckedIP' = CheckedIP /\ ToMail' = ToMail
        /\ \A f \in Emails : Checked(f)' = Checked(f) /\ ToSend(f)' = ToSend(f)
    BY <1>8, <2>1, <2>2, <2>3
  <2> QED
    BY <1>5, <1>6, <1>7, <2>3, <2>4
\* Whoever gives up is counted no more.
<1>11. ASSUME NEW s \in AskStages, Step(x, s, "idle"), UNCHANGED <<mailed, ledger>>
       PROVE  Bounded'
  <2>1. /\ [at |-> "idle", email |-> asks[x].email] \in Asking
        /\ asks' = [asks EXCEPT ![x] = [at |-> "idle", email |-> asks[x].email]]
    BY <1>9, <1>11, <1>a
  <2>2. /\ CheckedIP' <= CheckedIP /\ CheckedIP' \in Nat
        /\ ToMail' <= ToMail /\ ToMail' \in Nat
    <3>1. CheckedIP' \in {CheckedIP, CheckedIP - 1} /\ ToMail' \in {ToMail, ToMail - 1}
      BY <1>8, <2>1
    <3>2. CheckedIP' \in 0 .. n /\ ToMail' \in 0 .. n
      BY <1>8, <2>1
    <3> QED
      BY <1>2, <1>3, <3>1, <3>2
  <2>3. ASSUME NEW e \in Emails
        PROVE  /\ Checked(e)' <= Checked(e) /\ Checked(e)' \in Nat
               /\ ToSend(e)' <= ToSend(e) /\ ToSend(e)' \in Nat
    <3>1. Checked(e)' \in {Checked(e), Checked(e) - 1} /\ ToSend(e)' \in {ToSend(e), ToSend(e) - 1}
      BY <1>8, <2>1
    <3>2. Checked(e)' \in 0 .. n /\ ToSend(e)' \in 0 .. n
      BY <1>8, <2>1
    <3> QED
      BY <1>2, <1>3, <3>1, <3>2
  <2>4. ASSUME NEW e \in Emails
        PROVE  /\ ledger'[e] + Checked(e)' <= RatePerEmail + (n - 1)
               /\ Sent(e)' + ToSend(e)' <= ledger'[e]
    <3>1. ledger'[e] = ledger[e] /\ Sent(e)' = Sent(e) /\ ledger[e] \in Nat
      BY <1>6, <1>7, <1>11
    <3> QED
      BY <1>2, <1>3, <1>6, <2>3, <3>1
  <2>5. ledger' = ledger /\ Len(mailed)' = Len(mailed) /\ ledger["ip"] \in Nat
    BY <1>6, <1>11
  <2> QED
    BY <1>2, <1>3, <1>5, <1>6, <2>2, <2>4, <2>5
\* It passes the limit of its address, that its own record comes to.
<1>12. ASSUME Step(x, "email?", "ip?"), ledger[asks[x].email] < RatePerEmail, UNCHANGED <<mailed, ledger>>
      PROVE  Bounded'
  <2> DEFINE e0 == asks[x].email
  <2>1. /\ asks[x].at = "email?"
        /\ [at |-> "ip?", email |-> asks[x].email] \in Asking
        /\ asks' = [asks EXCEPT ![x] = [at |-> "ip?", email |-> asks[x].email]]
    BY <1>9, <1>12, <1>a
  <2>2. CheckedIP' = CheckedIP /\ ToMail' = ToMail
    BY <1>4, <1>8, <2>1
  <2>3. CheckedIP' \in 0 .. n /\ ToMail' \in 0 .. n
    BY <1>8, <2>1
  <2>4. ASSUME NEW e \in Emails
        PROVE  /\ Checked(e)' \in 0 .. n /\ ToSend(e)' \in 0 .. n
               /\ e # e0 => Checked(e)' = Checked(e) /\ ToSend(e)' = ToSend(e)
               /\ e = e0 => ToSend(e)' = ToSend(e)
    BY <1>8, <2>1
  <2>5. ASSUME NEW e \in Emails
        PROVE  /\ ledger'[e] + Checked(e)' <= RatePerEmail + (n - 1)
               /\ Sent(e)' + ToSend(e)' <= ledger'[e]
    <3>1. ledger'[e] = ledger[e] /\ Sent(e)' = Sent(e) /\ ledger[e] \in Nat
      BY <1>6, <1>7, <1>12
    <3>2. CASE e = e0
      <4>1. ledger[e] < RatePerEmail
        BY <1>12, <3>2
      <4> QED
        BY <1>2, <1>3, <1>6, <2>4, <3>1, <3>2, <4>1
    <3>3. CASE e # e0
      BY <1>2, <1>3, <1>6, <2>4, <3>1, <3>3
    <3> QED
      BY <3>2, <3>3
  <2>6. ledger' = ledger /\ Len(mailed)' = Len(mailed) /\ ledger["ip"] \in Nat
    BY <1>6, <1>12
  <2> QED
    BY <1>2, <1>3, <1>5, <1>6, <2>2, <2>3, <2>5, <2>6
\* It passes the limit of where it comes from.
<1>13. ASSUME Step(x, "ip?", "email"), ledger["ip"] < RatePerIP, UNCHANGED <<mailed, ledger>>
      PROVE  Bounded'
  <2> DEFINE e0 == asks[x].email
  <2>1. /\ asks[x].at = "ip?"
        /\ [at |-> "email", email |-> asks[x].email] \in Asking
        /\ asks' = [asks EXCEPT ![x] = [at |-> "email", email |-> asks[x].email]]
    BY <1>9, <1>13, <1>a
  <2>2. CheckedIP' = CheckedIP + 1 /\ ToMail' = ToMail
    BY <1>4, <1>8, <2>1
  <2>3. CheckedIP' \in 0 .. n /\ ToMail' \in 0 .. n
    BY <1>8, <2>1
  <2>4. ASSUME NEW e \in Emails
        PROVE  /\ Checked(e)' \in 0 .. n /\ ToSend(e)' \in 0 .. n
               /\ e # e0 => Checked(e)' = Checked(e) /\ ToSend(e)' = ToSend(e)
               /\ e = e0 => Checked(e)' = Checked(e) /\ ToSend(e)' = ToSend(e)
    BY <1>8, <2>1
  <2>5. ASSUME NEW e \in Emails
        PROVE  /\ ledger'[e] + Checked(e)' <= RatePerEmail + (n - 1)
               /\ Sent(e)' + ToSend(e)' <= ledger'[e]
    <3>1. ledger'[e] = ledger[e] /\ Sent(e)' = Sent(e) /\ ledger[e] \in Nat
      BY <1>6, <1>7, <1>13
    <3> QED
      BY <1>2, <1>3, <1>6, <2>4, <3>1
  <2>6. /\ ledger' = ledger /\ Len(mailed)' = Len(mailed) /\ ledger["ip"] \in Nat
        /\ ledger["ip"] < RatePerIP
    BY <1>6, <1>13
  <2> QED
    BY <1>2, <1>3, <1>5, <1>6, <2>2, <2>3, <2>5, <2>6
\* A record for the address: one more to send.
<1>14. ASSUME record_rate_limit(x, "email", asks[x].email, "ip")
      PROVE  Bounded'
  <2> DEFINE e0 == asks[x].email
  <2>1. /\ asks[x].at = "email"
        /\ [at |-> "ip", email |-> asks[x].email] \in Asking
        /\ asks' = [asks EXCEPT ![x] = [at |-> "ip", email |-> asks[x].email]]
    BY <1>9, <1>14, <1>a DEF record_rate_limit
  <2>2. CheckedIP' = CheckedIP /\ ToMail' = ToMail
    BY <1>4, <1>8, <2>1
  <2>3. CheckedIP' \in 0 .. n /\ ToMail' \in 0 .. n
    BY <1>8, <2>1
  <2>4. ASSUME NEW e \in Emails
        PROVE  /\ Checked(e)' \in 0 .. n /\ ToSend(e)' \in 0 .. n
               /\ e # e0 => Checked(e)' = Checked(e) /\ ToSend(e)' = ToSend(e)
               /\ e = e0 => Checked(e)' = Checked(e) - 1 /\ ToSend(e)' = ToSend(e) + 1
    BY <1>8, <2>1
  <2>5. ledger' = [ledger EXCEPT ![e0] = @ + 1] /\ UNCHANGED mailed
    BY <1>14 DEF record_rate_limit
  <2>6. ASSUME NEW e \in Emails
        PROVE  /\ ledger'[e] + Checked(e)' <= RatePerEmail + (n - 1)
               /\ Sent(e)' + ToSend(e)' <= ledger'[e]
    <3>1. Sent(e)' = Sent(e) /\ ledger[e] \in Nat
      BY <1>6, <1>7, <2>5
    <3>2. ledger'[e] = IF e = e0 THEN ledger[e] + 1 ELSE ledger[e]
      BY <1>6, <2>5
    <3> QED
      BY <1>2, <1>3, <1>6, <2>4, <3>1, <3>2
  <2>7. /\ ledger' \in [Emails \cup {"ip"} -> Nat] /\ Len(mailed)' = Len(mailed)
        /\ ledger'["ip"] = ledger["ip"] /\ ledger["ip"] \in Nat
    <3>1. e0 \in Emails /\ e0 # "ip" /\ ledger[e0] \in Nat
      BY <1>3, <1>4, <1>6
    <3> HIDE DEF e0
    <3> QED
      BY <1>6, <2>5, <3>1
  <2> QED
    BY <1>2, <1>3, <1>5, <1>6, <2>2, <2>3, <2>6, <2>7
\* A record for where it comes from: one more to mail.
<1>15. ASSUME record_rate_limit(x, "ip", "ip", "mail")
      PROVE  Bounded'
  <2> DEFINE e0 == asks[x].email
  <2>1. /\ asks[x].at = "ip"
        /\ [at |-> "mail", email |-> asks[x].email] \in Asking
        /\ asks' = [asks EXCEPT ![x] = [at |-> "mail", email |-> asks[x].email]]
    BY <1>9, <1>15, <1>a DEF record_rate_limit
  <2>2. CheckedIP' = CheckedIP - 1 /\ ToMail' = ToMail + 1
    BY <1>4, <1>8, <2>1
  <2>3. CheckedIP' \in 0 .. n /\ ToMail' \in 0 .. n
    BY <1>8, <2>1
  <2>4. ASSUME NEW e \in Emails
        PROVE  /\ Checked(e)' \in 0 .. n /\ ToSend(e)' \in 0 .. n
               /\ e # e0 => Checked(e)' = Checked(e) /\ ToSend(e)' = ToSend(e)
               /\ e = e0 => Checked(e)' = Checked(e) /\ ToSend(e)' = ToSend(e)
    BY <1>8, <2>1
  <2>5. ledger' = [ledger EXCEPT !["ip"] = @ + 1] /\ UNCHANGED mailed
    BY <1>15 DEF record_rate_limit
  <2>6. ASSUME NEW e \in Emails
        PROVE  /\ ledger'[e] + Checked(e)' <= RatePerEmail + (n - 1)
               /\ Sent(e)' + ToSend(e)' <= ledger'[e]
    <3>1. Sent(e)' = Sent(e) /\ ledger[e] \in Nat /\ ledger'[e] = ledger[e]
      BY <1>3, <1>6, <1>7, <2>5
    <3> QED
      BY <1>2, <1>3, <1>6, <2>4, <3>1
  <2>7. /\ ledger' \in [Emails \cup {"ip"} -> Nat] /\ Len(mailed)' = Len(mailed)
        /\ ledger'["ip"] = ledger["ip"] + 1 /\ ledger["ip"] \in Nat
    BY <1>6, <2>5
  <2> QED
    BY <1>2, <1>3, <1>5, <1>6, <2>2, <2>3, <2>6, <2>7
\* The link that was to come is made.
<1>16. ASSUME _send_magic_link_email(x)
      PROVE  Bounded'
  <2> DEFINE e0 == asks[x].email
  <2>1. /\ asks[x].at = "mail"
        /\ [at |-> "idle", email |-> asks[x].email] \in Asking
        /\ asks' = [asks EXCEPT ![x] = [at |-> "idle", email |-> asks[x].email]]
    BY <1>9, <1>16, <1>a DEF _send_magic_link_email
  <2>2. CheckedIP' = CheckedIP /\ ToMail' = ToMail - 1
    BY <1>4, <1>8, <2>1
  <2>3. CheckedIP' \in 0 .. n /\ ToMail' \in 0 .. n
    BY <1>8, <2>1
  <2>4. ASSUME NEW e \in Emails
        PROVE  /\ Checked(e)' \in 0 .. n /\ ToSend(e)' \in 0 .. n
               /\ e # e0 => Checked(e)' = Checked(e) /\ ToSend(e)' = ToSend(e)
               /\ e = e0 => Checked(e)' = Checked(e) /\ ToSend(e)' = ToSend(e) - 1
    BY <1>8, <2>1
  <2>5. mailed' = Append(mailed, e0) /\ UNCHANGED ledger
    BY <1>16 DEF _send_magic_link_email
  <2>6. ASSUME NEW e \in Emails
        PROVE  Sent(e)' = IF e = e0 THEN Sent(e) + 1 ELSE Sent(e)
    BY <1>1, <1>4, <2>5, OneMoreIsSent DEF Sent
  <2>7. ASSUME NEW e \in Emails
        PROVE  /\ ledger'[e] + Checked(e)' <= RatePerEmail + (n - 1)
               /\ Sent(e)' + ToSend(e)' <= ledger'[e]
    <3>1. ledger[e] \in Nat /\ ledger'[e] = ledger[e]
      BY <1>6, <2>5
    <3>2. ledger[e] + Checked(e) <= RatePerEmail + (n - 1) /\ Sent(e) + ToSend(e) <= ledger[e]
      BY <1>6
    <3>3. CASE e = e0
      <4>1. Checked(e)' = Checked(e) /\ ToSend(e)' = ToSend(e) - 1 /\ Sent(e)' = Sent(e) + 1
        BY <2>4, <2>6, <3>3
      <4> QED
        BY <1>2, <1>3, <3>1, <3>2, <4>1
    <3>4. CASE e # e0
      <4>1. Checked(e)' = Checked(e) /\ ToSend(e)' = ToSend(e) /\ Sent(e)' = Sent(e)
        BY <2>4, <2>6, <3>4
      <4> QED
        BY <3>1, <3>2, <4>1
    <3> QED
      BY <3>3, <3>4
  <2>8. Len(mailed)' = Len(mailed) + 1 /\ ledger["ip"] \in Nat /\ ledger' = ledger
    BY <1>1, <1>4, <1>6, <2>5 DEF TypeInv
  <2> QED
    BY <1>2, <1>3, <1>5, <1>6, <2>2, <2>3, <2>7, <2>8
<1>17. CASE is_rate_limited(x, "email?", asks[x].email, RatePerEmail, "ip?")
  <2>1. ledger[asks[x].email] \in Nat /\ RatePerEmail \in Nat
    BY <1>3, <1>4, <1>6
  <2>2. CASE ledger[asks[x].email] >= RatePerEmail
    BY <1>11, <1>17, <1>a, <2>2 DEF is_rate_limited
  <2>3. CASE ~(ledger[asks[x].email] >= RatePerEmail)
    <3>1. ledger[asks[x].email] < RatePerEmail
      BY <2>1, <2>3
    <3> QED
      BY <1>12, <1>17, <2>3, <3>1 DEF is_rate_limited
  <2> QED
    BY <2>2, <2>3
<1>18. CASE is_rate_limited(x, "ip?", "ip", RatePerIP, "email")
  <2>1. ledger["ip"] \in Nat /\ RatePerIP \in Nat
    BY <1>3, <1>6
  <2>2. CASE ledger["ip"] >= RatePerIP
    BY <1>11, <1>18, <1>a, <2>2 DEF is_rate_limited
  <2>3. CASE ~(ledger["ip"] >= RatePerIP)
    <3>1. ledger["ip"] < RatePerIP
      BY <2>1, <2>3
    <3> QED
      BY <1>13, <1>18, <2>3, <3>1 DEF is_rate_limited
  <2> QED
    BY <2>2, <2>3
<1>19. CASE AskFails(x)
  BY <1>4, <1>11, <1>19 DEF AskFails
<1> QED
  BY <1>10, <1>14, <1>15, <1>16, <1>17, <1>18, <1>19 DEF Ask

LEMMA BoundedStep ==
  ASSUME LoginAssumption, IInv, [Next]_vars
  PROVE  Bounded'
<1>1. ASSUME UNCHANGED askVars PROVE Bounded'
  BY <1>1 DEF IInv, Bounded, askVars, Waiting, SentTo, Links
<1>2. ASSUME NEW a \in Attempts, Attempt(a) PROVE UNCHANGED askVars
  BY <1>2 DEF Attempt, callback_provider, verify_magic_link, FindUser, create_user, RereadUser,
     StoreFails, RefusePending, audit_auth, Refuse, create_session, StampLogin, record_auth,
     delete_session, _set_session_cookie, auth_logout, Die
<1>3. ASSUME NEW x \in Askers, Ask(x) PROVE Bounded'
  BY <1>3, AskBounded
<1>4. ASSUME NEW e \in Emails, admin_update_user(e) \/ delete_user(e) PROVE UNCHANGED askVars
  BY <1>4 DEF admin_update_user, delete_user
<1>5. LinkExpires \/ DeleteLinks \/ DeleteAccount \/ UNCHANGED vars => UNCHANGED askVars
  BY DEF LinkExpires, DeleteLinks, DeleteAccount, vars, askVars
<1> QED
  BY <1>1, <1>2, <1>3, <1>4, <1>5 DEF Next

-----------------------------------------------------------------------------
(* Theorems.                                                                *)

\* The invariant is inductive: it holds at first and every step keeps it.
THEOREM InvHolds ==
  ASSUME LoginAssumption
  PROVE  Spec => []IInv
<1>1. Init => IInv
  BY InvInit
<1>2. IInv /\ [Next]_vars => IInv'
  BY TypeStep, RecordedStep, SpentStep, EarnedStep, BoundedStep DEF IInv
<1> QED
  BY <1>1, <1>2, PTL DEF Spec

\* The kinds of everything a login touches (TypeOK), however many requests, users and
\* links there are.
THEOREM KindsHold ==
  ASSUME LoginAssumption
  PROVE  Spec => []TypeOK
<1>1. IInv => TypeOK
  BY DEF IInv, TypeInv, TypeOK, Stages
<1> QED
  BY <1>1, InvHolds, PTL

\* Nobody has a cookie whose login is not in the trail, a session without an event is
\* that of a request under way or was lost with it, and no attempt has two events, for
\* any failures and deaths (_handle_authenticated_user, record_auth, audit_auth).
THEOREM LoginsRecorded ==
  ASSUME LoginAssumption
  PROVE  Spec => []LoginsAreRecorded
<1>1. IInv => EntryIsRecorded
  <2> SUFFICES ASSUME IInv PROVE EntryIsRecorded
    OBVIOUS
  <2>1. \A a \in cookies : trail[a] = <<"success">>
    BY DEF IInv, TypeInv, RecordedInv, TrailFits
  <2>2. ASSUME NEW a \in sessions, trail[a] = <<>>
        PROVE  at[a] \in {"stamp", "record", "undo", "lost", "dead"}
    <3>1. TrailFits(a)
      BY DEF IInv, TypeInv, RecordedInv
    <3>2. <<"success">> # <<>>
      OBVIOUS
    <3> QED
      BY <2>2, <3>1, <3>2 DEF TrailFits
  <2> QED
    BY <2>1, <2>2 DEF EntryIsRecorded
<1>2. IInv => OneEventEach
  <2>1. \A t \in Trails : Len(t) <= 1
    BY DEF Trails
  <2> QED
    BY <2>1 DEF IInv, TypeInv, RecordedInv, TrailFits, OneEventEach
<1> QED
  BY <1>1, <1>2, InvHolds, PTL DEF LoginsAreRecorded

\* A link opens one session at most, however many requests follow it at once
\* (consume_magic_link_token).
THEOREM LinksOpenOnce ==
  ASSUME LoginAssumption
  PROVE  Spec => []LinkOpensOnce
<1>1. IInv => LinkOpensOnce
  BY DEF IInv, Spent, LinkOpensOnce
<1> QED
  BY <1>1, InvHolds, PTL

\* Whoever has a session was known, welcome, or made active by an administrator, also
\* when accounts are deleted and made again while requests wait (_check_registration).
THEOREM OnlyApprovedGetIn ==
  ASSUME LoginAssumption
  PROVE  Spec => []OnlyApprovedEnter
<1>1. IInv => OnlyApprovedEnter
  BY DEF IInv, Earned, Allowed, OnlyApprovedEnter
<1> QED
  BY <1>1, InvHolds, PTL

\* Both of them.
THEOREM LoginsEarned ==
  ASSUME LoginAssumption
  PROVE  Spec => []LoginsAreEarned
  BY LinksOpenOnce, OnlyApprovedGetIn, PTL DEF LoginsAreEarned

\* No more links are sent than the limit of an address, and the one of where the askers
\* come from, allow, plus one for every other asker that is served at the same time
\* (send_magic_link).
THEOREM MailsBounded ==
  ASSUME LoginAssumption
  PROVE  Spec => []MailsAreBounded
<1>1. ASSUME IInv PROVE MailsAreBounded
  <2> DEFINE n == Cardinality(Askers)
  <2>1. n \in Nat /\ RatePerEmail \in Nat /\ RatePerIP \in Nat
    BY FS_CardinalityType DEF LoginAssumption
  <2>2. ASSUME NEW e \in Emails
        PROVE  Cardinality({l \in Links : mailed[l] = e}) <= RatePerEmail + (n - 1)
    <3>1. ledger[e] \in Nat /\ Cardinality(SentTo(e)) \in Nat
      BY <1>1, LinksAreSent DEF IInv, Bounded
    <3>2. /\ Cardinality(Waiting({"ip?", "email"}, {e})) \in Nat
          /\ Cardinality(Waiting({"ip", "mail"}, {e})) \in Nat
      BY SomeWait
    <3>3. /\ ledger[e] + Cardinality(Waiting({"ip?", "email"}, {e})) <= RatePerEmail + (n - 1)
          /\ Cardinality(SentTo(e)) + Cardinality(Waiting({"ip", "mail"}, {e})) <= ledger[e]
      BY <1>1 DEF IInv, Bounded
    <3>4. Cardinality(SentTo(e)) <= RatePerEmail + (n - 1)
      BY <2>1, <3>1, <3>2, <3>3
    <3> QED
      BY <3>4 DEF SentTo
  <2>3. Cardinality(Links) <= RatePerIP + (n - 1)
    <3>1. ledger["ip"] \in Nat /\ Len(mailed) \in Nat /\ Cardinality(Links) = Len(mailed)
      BY <1>1, LinksAreSent DEF IInv, Bounded, LoginAssumption
    <3>2. /\ Cardinality(Waiting({"email", "ip"}, Emails)) \in Nat
          /\ Cardinality(Waiting({"mail"}, Emails)) \in Nat
      BY SomeWait
    <3>3. /\ ledger["ip"] + Cardinality(Waiting({"email", "ip"}, Emails)) <= RatePerIP + (n - 1)
          /\ Len(mailed) + Cardinality(Waiting({"mail"}, Emails)) <= ledger["ip"]
      BY <1>1 DEF IInv, Bounded
    <3> QED
      BY <2>1, <3>1, <3>2, <3>3
  <2> QED
    BY <2>2, <2>3 DEF MailsAreBounded
<1> QED
  BY <1>1, InvHolds, PTL

=============================================================================
