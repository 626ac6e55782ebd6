---------- MODULE Logins -----------------------------------------------------
(***************************************************************************)
(* Logging in to the web application: the requests that end an OAuth login  *)
(* or follow a magic link, the funnel both of them go through               *)
(* (_handle_authenticated_user), the events of the audit trail              *)
(* (record_auth, audit_auth), and those that ask for a link.  The accounts, *)
(* the sessions, the links and the ledger of the rate limits are those of   *)
(* MongoDBAuth; the trail is another store, that may fail on its own.       *)
(*                                                                          *)
(* Every request is a process of its own and each step is one call of a     *)
(* store; an administrator and authcli act in between.                      *)
(***************************************************************************)
EXTENDS Naturals, Sequences, FiniteSets

CONSTANTS
  Attempts,      \* requests that try to log in
  Askers,        \* processes that serve those that ask for a link
  Emails,        \* addresses of users
  Welcome,       \* those that may register by themselves (WEB_AUTH_REGISTRATION)
  Known,         \* those that have an active account at first
  RatePerEmail,  \* links for an address in the window of the limits
  RatePerIP,     \* and for the address all the askers come from
  MaxFaults,     \* bound on the calls that fail and the processes that die
  MaxChanges     \* bound on what the administrator does

LoginAssumption ==
  /\ IsFiniteSet(Attempts) /\ IsFiniteSet(Askers)
  /\ Emails # {} /\ Welcome \subseteq Emails /\ Known \subseteq Emails
  /\ "ip" \notin Emails
  /\ {RatePerEmail, RatePerIP} \subseteq Nat \ {0}
  /\ {MaxFaults, MaxChanges} \subseteq Nat

VARIABLES
  accounts,  \* auth_user: "none", or whether it is "active" or "pending"
  sessions,  \* auth_session: the attempts whose session exists
  links,     \* auth_magic_link: the links that may still be consumed
  mailed,    \* the address of each link that was made, oldest first
  ledger,    \* auth_rate_limit: the records of each key
  trail,     \* the auth events of each attempt
  cookies,   \* attempts that were answered with a session cookie
  at,        \* where each attempt is
  who,       \* the address it is for
  via,       \* the link it consumed, 0 when none
  asks,      \* where each asker is, and the address it asks for
  eraser,    \* where authcli's delete_user is, and the address it deletes
  approved,  \* addresses that an administrator made active
  faults, changes

vars ==
  <<accounts, sessions, links, mailed, ledger, trail, cookies, at, who, via, asks, eraser,
    approved, faults, changes>>

accountVars == <<accounts, approved>>
askVars == <<mailed, ledger, asks>>
requestVars == <<who, via>>

Links == 1 .. Len(mailed)

\* Stages of a request that is not answered yet.
Running == {"find", "register", "reread", "pending", "abort", "open", "stamp", "record",
            "undo", "cookie"}

Idle(e) == [at |-> "idle", email |-> e]

Init ==
  /\ accounts = [e \in Emails |-> IF e \in Known THEN "active" ELSE "none"]
  /\ sessions = {} /\ links = {} /\ mailed = <<>> /\ cookies = {}
  /\ ledger = [k \in Emails \cup {"ip"} |-> 0]
  /\ trail = [a \in Attempts |-> <<>>]
  /\ at = [a \in Attempts |-> "new"]
  /\ who = [a \in Attempts |-> CHOOSE e \in Emails : TRUE]
  /\ via = [a \in Attempts |-> 0]
  /\ asks = [x \in Askers |-> Idle(CHOOSE e \in Emails : TRUE)]
  /\ eraser = Idle(CHOOSE e \in Emails : TRUE)
  /\ approved = {} /\ faults = 0 /\ changes = 0

Go(a, stage) == at' = [at EXCEPT ![a] = stage]

\* A call that fails, or the death of a process.
Fault == faults < MaxFaults /\ faults' = faults + 1

NoFault == UNCHANGED faults

Recorded(a, event) == trail' = [trail EXCEPT ![a] = Append(@, event)]

-----------------------------------------------------------------------------
(* A request that tries to log in.                                          *)

\* The provider vouches for an address, or the callback aborts: the state, the code or
\* the answer of the provider is no good.  The call for the address of the user is
\* out of any try: its exception goes up.
callback_provider(a) ==
  /\ at[a] = "new"
  /\ \/ \E e \in Emails : who' = [who EXCEPT ![a] = e] /\ Go(a, "find") /\ NoFault
     \/ Go(a, "abort") /\ UNCHANGED who /\ NoFault
     \/ Go(a, "error") /\ UNCHANGED who /\ Fault
  /\ UNCHANGED <<sessions, links, trail, cookies, via, eraser, changes, accountVars, askVars>>

\* Slip: the token is found, and left to expire.
verify_without_deleting(a) ==
  /\ at[a] = "new"
  /\ \E l \in Links :
       \/ /\ l \in links /\ NoFault
          /\ who' = [who EXCEPT ![a] = mailed[l]]
          /\ via' = [via EXCEPT ![a] = l]
          /\ Go(a, "find")
       \/ l \notin links /\ Go(a, "abort") /\ UNCHANGED <<who, via>> /\ NoFault
  /\ UNCHANGED <<sessions, links, trail, cookies, eraser, changes, accountVars, askVars>>

\* The token is found and deleted in one call; whoever comes second aborts.
verify_magic_link(a) ==
  /\ at[a] = "new"
  /\ \E l \in Links :
       /\ links' = links \ {l}
       /\ \/ /\ l \in links /\ NoFault
             /\ who' = [who EXCEPT ![a] = mailed[l]]
             /\ via' = [via EXCEPT ![a] = l]
             /\ Go(a, "find")
          \/ l \notin links /\ Go(a, "abort") /\ UNCHANGED <<who, via>> /\ NoFault
          \/ Fault /\ Go(a, "error") /\ UNCHANGED <<who, via>>
  /\ UNCHANGED <<sessions, trail, cookies, eraser, changes, accountVars, askVars>>

\* The account is looked up.
FindUser(a) ==
  /\ at[a] = "find"
  /\ Go(a, CASE accounts[who[a]] = "none" -> "register"
             [] accounts[who[a]] = "pending" -> "pending"
             [] OTHER -> "open")
  /\ UNCHANGED <<accounts, sessions, links, trail, cookies, eraser, approved, faults, changes,
                 askVars, requestVars>>

\* A newcomer is given an account, active if the policy says so; two of them at once
\* and the second meets the unique index, an exception that nothing catches.
create_user(a) ==
  /\ at[a] = "register"
  /\ IF accounts[who[a]] = "none"
     THEN /\ accounts' = [accounts EXCEPT
               ![who[a]] = IF who[a] \in Welcome THEN "active" ELSE "pending"]
          /\ Go(a, "reread")
     ELSE Go(a, "error") /\ UNCHANGED accounts
  /\ UNCHANGED <<sessions, links, trail, cookies, eraser, approved, faults, changes, askVars,
                 requestVars>>

\* It is read again: what the policy said decides first, then what is stored.
RereadUser(a) ==
  /\ at[a] = "reread"
  /\ Go(a, CASE who[a] \notin Welcome -> "pending"
             [] accounts[who[a]] = "none" -> "error"
             [] accounts[who[a]] = "pending" -> "pending"
             [] OTHER -> "open")
  /\ UNCHANGED <<accounts, sessions, links, trail, cookies, eraser, approved, faults, changes,
                 askVars, requestVars>>

\* A call of the store fails before there is a session.
StoreFails(a) ==
  /\ at[a] \in {"find", "register", "reread"} /\ Fault
  /\ Go(a, "error")
  /\ UNCHANGED <<accounts, sessions, links, trail, cookies, eraser, approved, changes, askVars,
                 requestVars>>

\* A refusal is recorded, by the funnel when it knows the address and by the decorator
\* otherwise, then answered; a trail that fails makes an error of it.
Refuse(a, stage) ==
  /\ at[a] = stage
  /\ \/ Recorded(a, "failure") /\ Go(a, "refused") /\ NoFault
     \/ Fault /\ Go(a, "error") /\ (UNCHANGED trail \/ Recorded(a, "failure"))
  /\ UNCHANGED <<accounts, sessions, links, cookies, eraser, approved, changes, askVars,
                 requestVars>>

RefusePending(a) == Refuse(a, "pending")

audit_auth(a) == Refuse(a, "abort")

\* The session is inserted; the call may fail after it was.
create_session(a) ==
  /\ at[a] = "open"
  /\ \/ sessions' = sessions \cup {a} /\ Go(a, "stamp") /\ NoFault
     \/ sessions' = sessions /\ Go(a, "error") /\ Fault
     \/ sessions' = sessions \cup {a} /\ Go(a, "lost") /\ Fault
  /\ UNCHANGED <<accounts, links, trail, cookies, eraser, approved, changes, askVars,
                 requestVars>>

\* Then last_login is written, in the same method: when that fails nobody has the token
\* of the session that is left.
StampLogin(a) ==
  /\ at[a] = "stamp"
  /\ (Go(a, "record") /\ NoFault) \/ (Go(a, "lost") /\ Fault)
  /\ UNCHANGED <<accounts, sessions, links, trail, cookies, eraser, approved, changes, askVars,
                 requestVars>>

\* The login is recorded before the cookie is given.
record_auth(a) ==
  /\ at[a] = "record"
  /\ \/ Recorded(a, "success") /\ Go(a, "cookie") /\ NoFault
     \/ Fault /\ Go(a, "undo") /\ (UNCHANGED trail \/ Recorded(a, "success"))
  /\ UNCHANGED <<accounts, sessions, links, cookies, eraser, approved, changes, askVars,
                 requestVars>>

\* Slip: the error goes up, and the session stays.
keep_session(a) ==
  /\ at[a] = "undo"
  /\ Go(a, "error") /\ NoFault
  /\ UNCHANGED <<accounts, sessions, links, trail, cookies, eraser, approved, changes, askVars,
                 requestVars>>

\* Or the session is taken back, if that does not fail too, and the error goes up.
delete_session(a) ==
  /\ at[a] = "undo"
  /\ \/ sessions' = sessions \ {a} /\ Go(a, "error") /\ NoFault
     \/ UNCHANGED sessions /\ Go(a, "lost") /\ Fault
  /\ UNCHANGED <<accounts, links, trail, cookies, eraser, approved, changes, askVars,
                 requestVars>>

_set_session_cookie(a) ==
  /\ at[a] = "cookie"
  /\ cookies' = cookies \cup {a} /\ Go(a, "in")
  /\ UNCHANGED <<accounts, sessions, links, trail, eraser, approved, faults, changes, askVars,
                 requestVars>>

\* The process that serves a request dies.
Die(a) ==
  /\ at[a] \in Running /\ Fault
  /\ Go(a, "dead")
  /\ UNCHANGED <<accounts, sessions, links, trail, cookies, eraser, approved, changes, askVars,
                 requestVars>>

auth_logout(a) ==
  /\ at[a] = "in"
  /\ sessions' = sessions \ {a} /\ Go(a, "out")
  /\ UNCHANGED <<accounts, links, trail, cookies, eraser, approved, faults, changes, askVars,
                 requestVars>>

-----------------------------------------------------------------------------
(* Asking for a link: whatever happens the answer is the same.              *)

Step(x, stage, next) ==
  /\ asks[x].at = stage
  /\ asks' = [asks EXCEPT ![x].at = next]
  /\ UNCHANGED <<accounts, sessions, trail, cookies, at, who, via, eraser, approved, changes>>

send_magic_link(x) ==
  /\ asks[x].at = "idle"
  /\ \E e \in Emails : asks' = [asks EXCEPT ![x] = [at |-> "email?", email |-> e]]
  /\ UNCHANGED <<accounts, sessions, links, mailed, ledger, trail, cookies, at, who, via,
                 eraser, approved, faults, changes>>

\* The records of the two keys are counted, one after the other.
is_rate_limited(x, stage, key, limit, next) ==
  /\ Step(x, stage, IF ledger[key] >= limit THEN "idle" ELSE next)
  /\ UNCHANGED <<links, mailed, ledger, faults>>

\* Then both are recorded, before the mail is sent.
record_rate_limit(x, stage, key, next) ==
  /\ Step(x, stage, next)
  /\ ledger' = [ledger EXCEPT ![key] = @ + 1]
  /\ UNCHANGED <<links, mailed, faults>>

\* The link is stored, and mailed.
_send_magic_link_email(x) ==
  /\ Step(x, "mail", "idle")
  /\ mailed' = Append(mailed, asks[x].email)
  /\ links' = links \cup {Len(mailed) + 1}
  /\ UNCHANGED <<ledger, faults>>

\* An exception of any of the calls is swallowed.
AskFails(x) ==
  /\ asks[x].at # "idle" /\ Fault
  /\ Step(x, asks[x].at, "idle")
  /\ UNCHANGED <<links, mailed, ledger>>

Ask(x) ==
  LET email == asks[x].email
  IN \/ send_magic_link(x)
     \/ is_rate_limited(x, "email?", email, RatePerEmail, "ip?")
     \/ is_rate_limited(x, "ip?", "ip", RatePerIP, "email")
     \/ record_rate_limit(x, "email", email, "ip")
     \/ record_rate_limit(x, "ip", "ip", "mail")
     \/ _send_magic_link_email(x)
     \/ AskFails(x)

\* The time of a link passes.
LinkExpires ==
  /\ \E l \in links : links' = links \ {l}
  /\ UNCHANGED <<sessions, trail, cookies, at, eraser, faults, changes, accountVars, askVars,
                 requestVars>>

-----------------------------------------------------------------------------
(* The administrator, and authcli.                                          *)

\* An account is made, or made active or not.
admin_update_user(e) ==
  /\ changes < MaxChanges /\ changes' = changes + 1
  /\ \E state \in {"active", "pending"} :
       /\ accounts' = [accounts EXCEPT ![e] = state]
       /\ approved' = IF state = "active" THEN approved \cup {e} ELSE approved
  /\ UNCHANGED <<sessions, links, trail, cookies, at, eraser, faults, askVars, requestVars>>

\* The sessions of the account are deleted first, then its links, then the account.
delete_user(e) ==
  /\ eraser.at = "idle" /\ changes < MaxChanges /\ changes' = changes + 1
  /\ eraser' = [at |-> "links", email |-> e]
  /\ sessions' = {a \in sessions : who[a] # e}
  /\ UNCHANGED <<links, trail, cookies, at, faults, accountVars, askVars, requestVars>>

DeleteLinks ==
  /\ eraser.at = "links"
  /\ eraser' = [eraser EXCEPT !.at = "account"]
  /\ links' = {l \in links : mailed[l] # eraser.email}
  /\ UNCHANGED <<sessions, trail, cookies, at, faults, changes, accountVars, askVars,
                 requestVars>>

DeleteAccount ==
  /\ eraser.at = "account"
  /\ eraser' = [eraser EXCEPT !.at = "idle"]
  /\ accounts' = [accounts EXCEPT ![eraser.email] = "none"]
  /\ UNCHANGED <<sessions, links, trail, cookies, at, approved, faults, changes, askVars,
                 requestVars>>

Attempt(a) ==
  \/ callback_provider(a)
  \/ verify_magic_link(a)
  \/ FindUser(a)
  \/ create_user(a)
  \/ RereadUser(a)
  \/ StoreFails(a)
  \/ RefusePending(a)
  \/ audit_auth(a)
  \/ create_session(a)
  \/ StampLogin(a)
  \/ record_auth(a)
  \/ delete_session(a)
  \/ _set_session_cookie(a)
  \/ auth_logout(a)
  \/ Die(a)

Next ==
  \/ \E a \in Attempts : Attempt(a)
  \/ \E x \in Askers : Ask(x)
  \/ LinkExpires
  \/ \E e \in Emails : admin_update_user(e) \/ delete_user(e)
  \/ DeleteLinks
  \/ DeleteAccount

Spec == Init /\ [][Next]_vars

-----------------------------------------------------------------------------
(* Properties.                                                              *)

TypeOK ==
  /\ accounts \in [Emails -> {"none", "pending", "active"}]
  /\ sessions \subseteq Attempts /\ cookies \subseteq Attempts
  /\ mailed \in Seq(Emails) /\ links \subseteq Links
  /\ at \in [Attempts -> Running \cup {"new", "in", "out", "refused", "error", "lost", "dead"}]
  /\ via \in [Attempts -> Links \cup {0}]

\* `a login must never be established without a matching audit record': nobody has a
\* cookie whose login is not in the trail, and a session that is not in it is that of a
\* request under way, or was left by a second failure or a death, and then no one has
\* its token (_handle_authenticated_user, create_session).
EntryIsRecorded ==
  /\ \A a \in cookies : trail[a] = <<"success">>
  /\ \A a \in sessions :
       trail[a] = <<>> => at[a] \in {"stamp", "record", "undo", "lost", "dead"}

\* `each login attempt yields exactly one event', when it is answered by a redirection or
\* by an abort: never two, by the funnel and by the decorator (audit_auth).
OneEventEach ==
  \A a \in Attempts :
    /\ Len(trail[a]) <= 1
    /\ at[a] = "refused" => trail[a] = <<"failure">>

\* Nobody is in without an event, and no attempt has two.
LoginsAreRecorded == EntryIsRecorded /\ OneEventEach

\* A link opens one session at most, whoever follows it and however often
\* (consume_magic_link_token).
LinkOpensOnce ==
  \A a, b \in Attempts : via[a] = via[b] /\ via[a] # 0 => a = b

\* No one is let in who was neither known, nor welcome, nor made active by an
\* administrator, however accounts come and go meanwhile (_check_registration).
OnlyApprovedEnter ==
  \A a \in sessions : who[a] \in Known \cup Welcome \cup approved

\* A session was opened by somebody who may, and no two by one link.
LoginsAreEarned == LinkOpensOnce /\ OnlyApprovedEnter

\* Counting and recording are two calls: those that ask at once pass a limit together,
\* but by no more than there are of them (send_magic_link).
MailsAreBounded ==
  LET others == Cardinality(Askers) - 1
      sentTo(e) == {l \in Links : mailed[l] = e}
  IN /\ \A e \in Emails : Cardinality(sentTo(e)) <= RatePerEmail + others
     /\ Cardinality(Links) <= RatePerIP + others

=============================================================================
