----------------------------- MODULE AccountPages -----------------------------
(***************************************************************************)
(* The account of the user in the web interface: who is signed in           *)
(* (lib/auth.ts, UserMenu.tsx), the page of the user's own API keys         *)
(* (MyApiKeysPanel.tsx) and the administrator's list of everybody's         *)
(* (AdminApiKeysPanel.tsx).                                                 *)
(*                                                                          *)
(* The session is a cookie which all the tabs of the browser share; what a  *)
(* tab knows of it is the answer to `auth/me' it has in its cache.  A       *)
(* request is made with the cookie of the moment the server reads it.  A    *)
(* mutation has two kinds of callbacks: those of its hook always run, those *)
(* of its caller only when the component is still there and made no other   *)
(* call since.                                                              *)
(***************************************************************************)
EXTENDS Naturals, FiniteSets

CONSTANTS Users, Admins, Nobody,
          Requests,      \* the creations this tab can ask for; each makes a key of its name
          OldKeys,       \* the keys that exist at the start
          oldOwner,
          None, NoData,
          Sent, Refused, \* what there is of the answer to a list
          OtherTab,      \* whether another tab signs out and in
          MaxMoves,      \* bound: what the user does
          MaxFailures    \* bound: requests that fail

Keys == Requests \cup OldKeys
Lists == {"self", "admin"}     \* API_KEYS_KEY and ADMIN_API_KEYS_KEY
Pages == Lists \cup {"other"}

AccountAssumption ==
  /\ Admins \subseteq Users /\ {Nobody, NoData} \cap Users = {} /\ Requests \subseteq Nat
  /\ Requests \cap OldKeys = {} /\ None \notin Keys \cup {Sent, Refused} /\ Sent # Refused
  /\ \A S \in SUBSET Keys : S \notin {None, NoData, Sent, Refused}
  /\ oldOwner \in [OldKeys -> Users] /\ OtherTab \in BOOLEAN
  /\ {MaxMoves, MaxFailures} \subseteq Nat

VARIABLES
  session,   \* the user of the cookie
  keys,      \* the keys that work
  owner,
  me,        \* AUTH_ME_KEY in the cache of the tab
  meAsked,
  page,      \* the page in the address of the tab
  data, failed, stale,  \* the lists in the cache, those whose last request failed, those to ask again
  request,   \* the request of each list: none, sent, or the answer on its way
  create,    \* the state of each creation
  listening, \* the creation whose answer the panel waits for
  createdKey,\* the key in the dialog
  delete,    \* the revocation that is under way
  signingOut,\* the request of the sign-out: none, sent, or served
  moves, failures,
  revoked    \* what each list was told is revoked

server == <<session, keys, owner>>
lists == <<data, failed, stale, request>>
panel == <<listening, createdKey>>
vars == <<server, me, meAsked, page, lists, create, panel, delete, signingOut,
          moves, failures, revoked>>

-----------------------------------------------------------------------------
(* What is on the screen.                                                   *)

AdminRoute(u) == u \in Admins
ApiKeysRoute(u) == u \in Users
mounted(u, p) == {l \in {p} \cap Lists : IF l = "self" THEN ApiKeysRoute(u) ELSE AdminRoute(u)}
Mounted == mounted(me, page)

\* A panel has its rows and its form unless it loads or its last request failed.
Shows(l) == l \in Mounted /\ data[l] # NoData /\ l \notin failed
rows(l) == IF Shows(l) THEN data[l] ELSE {}
MyApiKeysPanel == Shows("self")

\* Both are drawn by the panel, which has returned before when its last request
\* failed.  The dialog is modal.
NewApiKeyDialog == createdKey # None /\ MyApiKeysPanel
KeyRow(k) == k \in rows("self") /\ delete = None /\ ~NewApiKeyDialog
AdminKeyRow(k) == k \in rows("admin") /\ delete = None

SignInOffered == me = Nobody
AccountMenu == me \in Users

-----------------------------------------------------------------------------
(* The query cache.                                                         *)

\* A page that is opened asks for its list when the cache has none, when it is
\* stale, and after 30 s; what was asked for the page that is left is aborted.
Mount(ls) ==
  /\ request' \in {q \in [Lists -> {None, Sent}] : \A l \in Lists :
       /\ l \notin ls => q[l] = None
       /\ (l \in ls /\ (data[l] = NoData \/ l \in stale)) => q[l] = Sent}
  /\ failed' = {l \in failed : ~(l \in ls /\ data[l] = NoData)}
  /\ UNCHANGED <<data, stale>>

\* The page or what it may show changes: the panel is another one.
Turn(u, p) ==
  IF mounted(u, p) = Mounted
    THEN UNCHANGED <<lists, panel>>
    ELSE Mount(mounted(u, p)) /\ listening' = None /\ createdKey' = None

\* The request on its way is dropped for another one.
invalidateQueries(l) ==
  /\ stale' = stale \cup {l}
  /\ request' = IF l \in Mounted THEN [request EXCEPT ![l] = Sent] ELSE request
  /\ UNCHANGED <<data, failed>>

-----------------------------------------------------------------------------
EmptyCache == [l \in Lists |-> NoData]
Init ==
  /\ session \in Users \cup {Nobody} /\ keys = OldKeys
  /\ owner = [k \in Keys |-> IF k \in OldKeys THEN oldOwner[k] ELSE Nobody]
  /\ me = NoData /\ meAsked = TRUE /\ page \in Pages
  /\ data = EmptyCache /\ failed = {} /\ stale = {} /\ request = [l \in Lists |-> None]
  /\ create = [r \in Requests |-> "idle"] /\ listening = None /\ createdKey = None
  /\ delete = None /\ signingOut = "no" /\ moves = 0 /\ failures = 0
  /\ revoked = [l \in Lists |-> {}]

\* Slip: the cache is kept.
keepsCache ==
  /\ me' = NoData /\ meAsked' = TRUE
  /\ listening' = None /\ createdKey' = None
  /\ signingOut' = "no"
  /\ stale' = Lists /\ UNCHANGED <<data, failed, delete, revoked, create>>
  /\ request' = [l \in Lists |-> None]
\* The page is loaded again: nothing that was in memory stays.
reload ==
  /\ me' = NoData /\ meAsked' = TRUE
  /\ data' = EmptyCache /\ failed' = {} /\ stale' = {} /\ request' = [l \in Lists |-> None]
  /\ create' = [r \in Requests |-> IF create[r] = "idle" THEN "idle" ELSE "done"]
  /\ listening' = None /\ createdKey' = None /\ delete' = None /\ signingOut' = "no"
  /\ revoked' = [l \in Lists |-> {}]

Fails == failures < MaxFailures /\ failures' = failures + 1
Moves == moves < MaxMoves /\ moves' = moves + 1

-----------------------------------------------------------------------------
(* The session.                                                             *)

\* Whatever goes wrong is an anonymous session.
fetchAuthMe ==
  /\ meAsked
  /\ \/ me' = session /\ UNCHANGED failures
     \/ me' = Nobody /\ Fails
  /\ meAsked' = FALSE
  /\ Turn(me', page)
  /\ UNCHANGED <<server, page, create, delete, signingOut, moves, revoked>>

\* The tab gets the focus more than a minute after the last answer.
Focus ==
  /\ Moves /\ me # NoData /\ ~meAsked /\ meAsked' = TRUE
  /\ UNCHANGED <<server, me, page, lists, create, panel, delete, signingOut, failures, revoked>>

Goto(p) ==
  /\ Moves /\ p # page /\ page' = p
  /\ Turn(me, p)
  /\ UNCHANGED <<server, me, meAsked, create, delete, signingOut, failures, revoked>>

\* A page of the provider, and from there a new page of this program.
SignIn(u) ==
  /\ Moves /\ SignInOffered
  /\ session' = u /\ page' = "other"
  /\ reload
  /\ UNCHANGED <<keys, owner, failures>>

handleSignOut ==
  /\ Moves /\ AccountMenu /\ signingOut = "no" /\ signingOut' = "sent"
  /\ UNCHANGED <<server, me, meAsked, page, lists, create, panel, delete, failures, revoked>>

auth_logout ==
  /\ signingOut = "sent" /\ signingOut' = "served" /\ session' = Nobody
  /\ UNCHANGED <<keys, owner, me, meAsked, page, lists, create, panel, delete, moves, failures, revoked>>

\* With an answer or without one.
useLogout ==
  /\ \/ signingOut = "served" /\ UNCHANGED failures
     \/ signingOut = "sent" /\ Fails
  /\ reload
  /\ UNCHANGED <<server, page, moves>>

\* The other tab.
SwitchUser(u) ==
  /\ OtherTab /\ Moves /\ u # session /\ session' = u
  /\ UNCHANGED <<keys, owner, me, meAsked, page, lists, create, panel, delete, signingOut, failures, revoked>>

-----------------------------------------------------------------------------
(* The lists.                                                               *)

list_api_keys(l) ==
  IF l = "self" THEN {k \in keys : owner[k] = session} ELSE keys
refused(l) == IF l = "self" THEN session = Nobody ELSE session \notin Admins

Serve(l) ==
  /\ request[l] = Sent
  /\ request' = [request EXCEPT ![l] = IF refused(l) THEN Refused ELSE list_api_keys(l)]
  /\ UNCHANGED <<server, me, meAsked, page, data, failed, stale, create, panel, delete, signingOut,
                 moves, failures, revoked>>

Listed(l) ==
  /\ request[l] \notin {None, Sent, Refused}
  /\ data' = [data EXCEPT ![l] = request[l]]
  /\ failed' = failed \ {l} /\ stale' = stale \ {l}
  /\ request' = [request EXCEPT ![l] = None]
  /\ UNCHANGED <<server, me, meAsked, page, create, panel, delete, signingOut, moves, failures, revoked>>

fetchApiKeys == Listed("self")
fetchAdminApiKeys == Listed("admin")

ListFails(l) ==
  /\ \/ request[l] = Refused /\ UNCHANGED failures
     \/ request[l] \notin {None, Refused} /\ Fails
  /\ failed' = failed \cup {l} /\ request' = [request EXCEPT ![l] = None]
  /\ UNCHANGED <<server, me, meAsked, page, data, stale, create, panel, delete, signingOut, moves, revoked>>

-----------------------------------------------------------------------------
(* Creations.                                                               *)

next == {r \in Requests : create[r] = "idle" /\ \A q \in Requests : q < r => create[q] # "idle"}

\* The button waits for the last answer, the Enter key does not.  The mutation
\* before is no longer listened to.
submitCreate(r) ==
  /\ Moves /\ r \in next /\ MyApiKeysPanel /\ createdKey = None
  /\ create' = [create EXCEPT ![r] = "sent"] /\ listening' = r
  /\ UNCHANGED <<server, me, meAsked, page, lists, createdKey, delete, signingOut, failures, revoked>>

create_api_key(r) ==
  /\ create[r] = "sent"
  /\ IF session = Nobody
       THEN create' = [create EXCEPT ![r] = "refused"] /\ UNCHANGED <<keys, owner>>
       ELSE /\ create' = [create EXCEPT ![r] = "served"]
            /\ keys' = keys \cup {r} /\ owner' = [owner EXCEPT ![r] = session]
  /\ UNCHANGED <<session, me, meAsked, page, lists, panel, delete, signingOut, moves, failures, revoked>>

useCreateApiKey(r) ==
  /\ create[r] = "served" /\ create' = [create EXCEPT ![r] = "told"]
  /\ invalidateQueries("self")
  /\ IF listening = r
       THEN createdKey' = r /\ listening' = None
       ELSE UNCHANGED panel
  /\ UNCHANGED <<server, me, meAsked, page, delete, signingOut, moves, failures, revoked>>

CreateFails(r) ==
  /\ \/ create[r] = "refused" /\ UNCHANGED failures
     \/ create[r] \in {"sent", "served"} /\ Fails
  /\ create' = [create EXCEPT ![r] = "done"]
  /\ listening' = IF listening = r THEN None ELSE listening
  /\ UNCHANGED <<server, me, meAsked, page, lists, createdKey, delete, signingOut, moves, revoked>>

CloseDialog ==
  /\ NewApiKeyDialog /\ createdKey' = None
  /\ UNCHANGED <<server, me, meAsked, page, lists, create, listening, delete, signingOut, moves,
                 failures, revoked>>

-----------------------------------------------------------------------------
(* Revocations, one at a time.                                              *)

asksToRevoke(l, k) ==
  /\ Moves /\ delete' = [key |-> k, list |-> l, state |-> "sent"]
  /\ UNCHANGED <<server, me, meAsked, page, lists, create, panel, signingOut, failures, revoked>>

revoke(k) == KeyRow(k) /\ asksToRevoke("self", k)
adminRevoke(k) == AdminKeyRow(k) /\ asksToRevoke("admin", k)

\* A user's own revocation is limited to the keys of the user.
delete_api_key ==
  /\ delete # None /\ delete.state = "sent"
  /\ LET ok == delete.key \in keys /\ ~refused(delete.list)
               /\ (delete.list = "self" => owner[delete.key] = session)
     IN  /\ keys' = IF ok THEN keys \ {delete.key} ELSE keys
         /\ delete' = [delete EXCEPT !.state = IF ok THEN "served" ELSE "refused"]
  /\ UNCHANGED <<session, owner, me, meAsked, page, lists, create, panel, signingOut, moves, failures, revoked>>

Revoked(l) ==
  /\ delete # None /\ delete.list = l /\ delete.state = "served" /\ delete' = None
  /\ invalidateQueries(l)
  /\ revoked' = [revoked EXCEPT ![l] = @ \cup {delete.key}]
  /\ UNCHANGED <<server, me, meAsked, page, create, panel, signingOut, moves, failures>>
useDeleteApiKey == Revoked("self")
useAdminDeleteApiKey == Revoked("admin")

DeleteFails ==
  /\ delete # None /\ delete' = None
  /\ \/ delete.state = "refused" /\ UNCHANGED failures
     \/ delete.state # "refused" /\ Fails
  /\ UNCHANGED <<server, me, meAsked, page, lists, create, panel, signingOut, moves, revoked>>

-----------------------------------------------------------------------------
Answers ==
  \/ fetchAuthMe \/ auth_logout \/ useLogout \/ delete_api_key \/ useDeleteApiKey \/ useAdminDeleteApiKey
  \/ DeleteFails \/ fetchApiKeys \/ fetchAdminApiKeys
  \/ \E l \in Lists : Serve(l) \/ ListFails(l)
  \/ \E r \in Requests : create_api_key(r) \/ useCreateApiKey(r) \/ CreateFails(r)

Next ==
  \/ Answers
  \/ Focus \/ handleSignOut \/ CloseDialog
  \/ \E p \in Pages : Goto(p)
  \/ \E u \in Users : SignIn(u) \/ SwitchUser(u)
  \/ \E r \in Requests : submitCreate(r)
  \/ \E k \in Keys : revoke(k) \/ adminRevoke(k)

\* The server reads every request and every request ends.
Spec == Init /\ [][Next]_vars /\ WF_vars(Answers)

-----------------------------------------------------------------------------
TypeOK ==
  /\ session \in Users \cup {Nobody} /\ keys \subseteq Keys
  /\ owner \in [Keys -> Users \cup {Nobody}] /\ \A k \in keys : owner[k] # Nobody
  /\ me \in Users \cup {Nobody, NoData} /\ meAsked \in BOOLEAN /\ page \in Pages
  /\ data \in [Lists -> (SUBSET Keys) \cup {NoData}]
  /\ failed \subseteq Lists /\ stale \subseteq Lists
  /\ request \in [Lists -> (SUBSET Keys) \cup {None, Sent, Refused}]
  /\ {l \in Lists : request[l] # None} \subseteq Mounted
  /\ create \in [Requests -> {"idle", "sent", "served", "refused", "told", "done"}]
  /\ listening \in Requests \cup {None} /\ createdKey \in Requests \cup {None}
  /\ delete \in [key : Keys, list : Lists, state : {"sent", "served", "refused"}] \cup {None}
  /\ signingOut \in {"no", "sent", "served"} /\ moves \in 0..MaxMoves /\ failures \in 0..MaxFailures
  /\ revoked \in [Lists -> SUBSET Keys]

\* The page of the user's keys lists keys of the user it names (api-keys.tsx:
\* "Keys listed here are owned by you").
OwnKeysListed == \A k \in rows("self") : owner[k] = me

\* Once the user has signed out of this tab, it has nothing of the user's
\* (UserMenu.tsx: "drop any in-memory state from queries that were authorised").
SignedOutIsForgotten == (session = Nobody /\ signingOut = "no") => data = EmptyCache

\* A key that a list was told is revoked leaves that list with the next answer.
RevocationShows ==
  \A l \in Lists : request[l] = None => rows(l) \cap revoked[l] = {}

\* Why the properties hold, which the steps keep.  What the cache and an answer have of
\* a list, and the keys that do not exist yet.
cached(l) == IF data[l] = NoData THEN {} ELSE data[l]
answered(l) == IF request[l] \in {None, Sent, Refused} THEN {} ELSE request[l]
unmade == {r \in Requests : create[r] \in {"idle", "sent"}}

\* A key that does not exist yet is nowhere; one that was revoked never works again and
\* is in no answer on its way; a list that has it is asked for anew before it is shown.
MadeOnce ==
  /\ unmade \cap keys = {}
  /\ \A l \in Lists : unmade \cap (cached(l) \cup answered(l) \cup revoked[l]) = {}
  /\ delete # None => delete.key \notin unmade
RevokedForGood ==
  /\ \A l \in Lists : revoked[l] \cap (keys \cup answered(l)) = {}
  /\ delete # None /\ delete.state = "served" => delete.key \notin keys
StaleIsAsked ==
  /\ \A l \in Lists : revoked[l] \cap cached(l) # {} => l \in stale
  /\ \A l \in stale \cap Mounted : request[l] = None => l \in failed

\* Where no other tab changes the session: the tab knows one user at most, and has
\* nothing once the session ended and the answer to the sign-out came.
OneUser ==
  \E u \in Users \cup {Nobody} :
    /\ me \in {u, Nobody, NoData} /\ session \in {u, Nobody}
    /\ \A k \in cached("self") \cup answered("self") : owner[k] = u
NothingLeft ==
  session = Nobody /\ signingOut # "served" =>
    /\ data = EmptyCache /\ me \notin Users
    /\ \A l \in Lists : request[l] \in {None, Sent, Refused}

RevocationInv == TypeOK /\ MadeOnce /\ RevokedForGood /\ StaleIsAsked
SessionInv == ~OtherTab => OneUser /\ NothingLeft

\* The list that is on the screen has the keys of the server, but for those revoked
\* from the other page: it ends so, when the user does nothing more.
ListSettled ==
  (Shows("self") /\ session = me) => data["self"] \ revoked["admin"] = list_api_keys("self")
=============================================================================
