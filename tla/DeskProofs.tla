---------------------------- MODULE DeskProofs -----------------------------
(***************************************************************************)
(* What the run of the pages checks on one instance of each scene, proved   *)
(* for every value of their constants.  The lemmas of a page are about the  *)
(* constants of any scene, g; a theorem puts together those of the scenes.  *)
(***************************************************************************)
EXTENDS Desk, Integers, FiniteSetTheorems, TLAPS

-----------------------------------------------------------------------------
(* The keys of an account.                                                  *)

\* The shapes of what a change of the user or of the page leaves, and a reload.
AccountTurned(g, u, p) ==
  /\ data' \in [Account(g)!Lists -> (SUBSET Account(g)!Keys) \cup {NoData}]
  /\ failed' \subseteq Account(g)!Lists /\ stale' \subseteq Account(g)!Lists
  /\ request' \in [Account(g)!Lists -> (SUBSET Account(g)!Keys) \cup {None, Sent, Refused}]
  /\ {l \in Account(g)!Lists : request'[l] # None} \subseteq Account(g)!mounted(u, p)
  /\ listening' \in g.Requests \cup {None} /\ createdKey' \in g.Requests \cup {None}
AccountReloaded(g) ==
  /\ data' \in [Account(g)!Lists -> (SUBSET Account(g)!Keys) \cup {NoData}]
  /\ failed' = {} /\ stale' = {}
  /\ request' \in [Account(g)!Lists -> (SUBSET Account(g)!Keys) \cup {None, Sent, Refused}]
  /\ {l \in Account(g)!Lists : request'[l] # None} = {}
  /\ create' \in [g.Requests -> {"idle", "sent", "served", "refused", "told", "done"}]
  /\ listening' = None /\ createdKey' = None /\ delete' = None /\ signingOut' = "no"
  /\ revoked' \in [Account(g)!Lists -> SUBSET Account(g)!Keys]
  /\ me' = NoData /\ meAsked' = TRUE

LEMMA TurnType ==
  ASSUME NEW g, Account(g)!TypeOK, NEW u, NEW p, Account(g)!Turn(u, p)
  PROVE  AccountTurned(g, u, p)
<1>1. CASE Account(g)!mounted(u, p) = Account(g)!Mounted
  BY <1>1 DEF Account!Turn, Account!TypeOK, Account!lists, Account!panel, AccountTurned
<1>2. CASE Account(g)!mounted(u, p) # Account(g)!Mounted
  BY <1>2 DEF Account!Turn, Account!TypeOK, Account!Mount, AccountTurned
<1> QED BY <1>1, <1>2

LEMMA ReloadType ==
  ASSUME NEW g, Account(g)!TypeOK, Account(g)!reload
  PROVE  AccountReloaded(g)
  BY DEF Account!reload, Account!EmptyCache, Account!TypeOK, AccountReloaded

AccountInvalidated(g) ==
  /\ stale' \subseteq Account(g)!Lists
  /\ request' \in [Account(g)!Lists -> (SUBSET Account(g)!Keys) \cup {None, Sent, Refused}]
  /\ {x \in Account(g)!Lists : request'[x] # None} \subseteq Account(g)!Mounted
  /\ data' = data /\ failed' = failed
LEMMA InvalidateType ==
  ASSUME NEW g, Account(g)!TypeOK, NEW l \in Account(g)!Lists, Account(g)!invalidateQueries(l)
  PROVE  AccountInvalidated(g)
  BY DEF Account!TypeOK, Account!invalidateQueries, AccountInvalidated

LEMMA AccountType ==
  ASSUME NEW g, Account(g)!AccountAssumption, Account(g)!TypeOK, Account(g)!Next
  PROVE  Account(g)!TypeOK'
<1> USE DEF Account!AccountAssumption, Account!Keys, Account!server,
            Account!lists, Account!panel, Account!Mounted
<1>1. CASE Account(g)!fetchAuthMe
  <2>1. Account(g)!Turn(me', page)
    BY <1>1 DEF Account!fetchAuthMe
  <2>2. AccountTurned(g, me', page)
    BY <2>1, TurnType
  <2>3. me' \in g.Users \cup {Nobody, NoData} /\ failures' \in 0..g.MaxFailures
    BY <1>1 DEF Account!fetchAuthMe, Account!Fails, Account!TypeOK
  <2>4. {l \in Account(g)!Lists : request'[l] # None} \subseteq Account(g)!Mounted'
    BY <1>1, <2>2 DEF Account!fetchAuthMe, AccountTurned
  <2> QED BY <1>1, <2>2, <2>3, <2>4 DEF Account!fetchAuthMe, Account!TypeOK, AccountTurned
<1>2. CASE Account(g)!Focus
  BY <1>2 DEF Account!Focus, Account!Moves, Account!TypeOK
<1>3. ASSUME NEW p \in Account(g)!Pages, Account(g)!Goto(p) PROVE Account(g)!TypeOK'
  <2>1. AccountTurned(g, me, p)
    BY <1>3, TurnType DEF Account!Goto
  <2> QED BY <1>3, <2>1 DEF Account!Goto, Account!Moves, Account!TypeOK, AccountTurned
<1>4. ASSUME NEW u \in g.Users, Account(g)!SignIn(u) PROVE Account(g)!TypeOK'
  <2>1. AccountReloaded(g)
    BY <1>4, ReloadType DEF Account!SignIn
  <2> QED BY <1>4, <2>1 DEF Account!SignIn, Account!Moves, Account!Pages, Account!TypeOK, AccountReloaded
<1>5. CASE Account(g)!handleSignOut
  BY <1>5 DEF Account!handleSignOut, Account!Moves, Account!TypeOK
<1>6. CASE Account(g)!auth_logout
  BY <1>6 DEF Account!auth_logout, Account!TypeOK
<1>7. CASE Account(g)!useLogout
  <2>1. AccountReloaded(g)
    BY <1>7, ReloadType DEF Account!useLogout
  <2> QED BY <1>7, <2>1 DEF Account!useLogout, Account!Fails, Account!TypeOK, AccountReloaded
<1>8. ASSUME NEW u \in g.Users, Account(g)!SwitchUser(u) PROVE Account(g)!TypeOK'
  BY <1>8 DEF Account!SwitchUser, Account!Moves, Account!TypeOK
<1>9. ASSUME NEW l \in Account(g)!Lists, Account(g)!Serve(l) PROVE Account(g)!TypeOK'
  <2>1. Account(g)!list_api_keys(l) \in SUBSET Account(g)!Keys
    BY DEF Account!list_api_keys, Account!TypeOK
  <2>2. request[l] # None
    BY <1>9 DEF Account!Serve
  <2> QED BY <1>9, <2>1, <2>2 DEF Account!Serve, Account!TypeOK
<1>10. ASSUME NEW l \in Account(g)!Lists, Account(g)!Listed(l) PROVE Account(g)!TypeOK'
  BY <1>10 DEF Account!Listed, Account!TypeOK
<1>11. ASSUME NEW l \in Account(g)!Lists, Account(g)!ListFails(l) PROVE Account(g)!TypeOK'
  BY <1>11 DEF Account!ListFails, Account!Fails, Account!TypeOK
<1>12. ASSUME NEW r \in g.Requests, Account(g)!submitCreate(r) PROVE Account(g)!TypeOK'
  BY <1>12 DEF Account!submitCreate, Account!Moves, Account!TypeOK
<1>13. ASSUME NEW r \in g.Requests, Account(g)!create_api_key(r) PROVE Account(g)!TypeOK'
  BY <1>13 DEF Account!create_api_key, Account!TypeOK
<1>14. ASSUME NEW r \in g.Requests, Account(g)!useCreateApiKey(r) PROVE Account(g)!TypeOK'
  <2>1. "self" \in Account(g)!Lists
    BY DEF Account!Lists
  <2>2. AccountInvalidated(g)
    BY <1>14, <2>1, InvalidateType DEF Account!useCreateApiKey
  <2> QED BY <1>14, <2>2 DEF Account!useCreateApiKey, Account!TypeOK, AccountInvalidated
<1>15. ASSUME NEW r \in g.Requests, Account(g)!CreateFails(r) PROVE Account(g)!TypeOK'
  BY <1>15 DEF Account!CreateFails, Account!Fails, Account!TypeOK
<1>16. CASE Account(g)!CloseDialog
  BY <1>16 DEF Account!CloseDialog, Account!TypeOK
<1>17. ASSUME NEW l \in Account(g)!Lists, NEW k \in Account(g)!Keys, Account(g)!asksToRevoke(l, k)
       PROVE Account(g)!TypeOK'
  BY <1>17 DEF Account!asksToRevoke, Account!Moves, Account!TypeOK
<1>18. CASE Account(g)!delete_api_key
  BY <1>18 DEF Account!delete_api_key, Account!TypeOK
<1>19. ASSUME NEW l \in Account(g)!Lists, Account(g)!Revoked(l) PROVE Account(g)!TypeOK'
  <2>1. AccountInvalidated(g)
    BY <1>19, InvalidateType DEF Account!Revoked
  <2>2. delete.key \in Account(g)!Keys
    BY <1>19 DEF Account!Revoked, Account!TypeOK
  <2>3. revoked' \in [Account(g)!Lists -> SUBSET Account(g)!Keys]
    BY <1>19, <2>2 DEF Account!Revoked, Account!TypeOK
  <2> QED BY <1>19, <2>1, <2>3 DEF Account!Revoked, Account!TypeOK, AccountInvalidated
<1>20. CASE Account(g)!DeleteFails
  BY <1>20 DEF Account!DeleteFails, Account!Fails, Account!TypeOK
<1> QED
  BY <1>1, <1>2, <1>3, <1>4, <1>5, <1>6, <1>7, <1>8, <1>9, <1>10, <1>11, <1>12, <1>13,
     <1>14, <1>15, <1>16, <1>17, <1>18, <1>19, <1>20
  DEF Account!Next, Account!Answers, Account!Lists, Account!fetchApiKeys,
      Account!fetchAdminApiKeys, Account!useDeleteApiKey, Account!useAdminDeleteApiKey,
      Account!revoke, Account!adminRevoke

\* Neither a change of the page nor a reload brings back what was revoked.
LEMMA TurnRevocation ==
  ASSUME NEW g, Account(g)!AccountAssumption, Account(g)!RevocationInv, NEW u, NEW p, Account(g)!Turn(u, p),
         me' = u, page' = p, UNCHANGED <<keys, create, delete, revoked>>
  PROVE  Account(g)!MadeOnce' /\ Account(g)!RevokedForGood' /\ Account(g)!StaleIsAsked'
<1> USE DEF Account!RevocationInv, Account!MadeOnce, Account!RevokedForGood,
            Account!StaleIsAsked, Account!cached, Account!answered, Account!unmade,
            Account!Mounted
<1>1. CASE Account(g)!mounted(u, p) = Account(g)!Mounted
  BY <1>1 DEF Account!Turn, Account!lists, Account!panel
<1>2. CASE Account(g)!mounted(u, p) # Account(g)!Mounted
  <2>1. Account(g)!Mount(Account(g)!mounted(u, p))
    BY <1>2 DEF Account!Turn
  <2>2. \A l \in Account(g)!Lists : request'[l] \in {None, Sent}
    BY <2>1 DEF Account!Mount
  <2>3. data' = data /\ stale' = stale
    BY <2>1 DEF Account!Mount
  <2>4. \A l \in stale \cap Account(g)!Mounted' : request'[l] = Sent
    BY <2>1, <2>3 DEF Account!Mount, Account!TypeOK
  <2>5. Account(g)!MadeOnce' /\ Account(g)!RevokedForGood'
    BY <1>2, <2>2, <2>3
  <2>6. ASSUME NEW l \in stale \cap Account(g)!Mounted', request'[l] = None PROVE FALSE
    BY <2>4, <2>6 DEF Account!AccountAssumption
  <2> QED BY <2>3, <2>5, <2>6
<1> QED BY <1>1, <1>2

LEMMA ReloadRevocation ==
  ASSUME NEW g, Account(g)!RevocationInv, Account(g)!reload, keys' = keys
  PROVE  Account(g)!MadeOnce' /\ Account(g)!RevokedForGood' /\ Account(g)!StaleIsAsked'
  BY DEF Account!RevocationInv, Account!TypeOK, Account!MadeOnce, Account!RevokedForGood,
         Account!StaleIsAsked, Account!cached, Account!answered, Account!unmade,
         Account!reload, Account!EmptyCache

LEMMA RevocationStep ==
  ASSUME NEW g, Account(g)!AccountAssumption, Account(g)!RevocationInv, Account(g)!Next
  PROVE  Account(g)!MadeOnce' /\ Account(g)!RevokedForGood' /\ Account(g)!StaleIsAsked'
<1> DEFINE Kept == Account(g)!MadeOnce' /\ Account(g)!RevokedForGood' /\ Account(g)!StaleIsAsked'
<1> SUFFICES Kept
  OBVIOUS
<1> USE DEF Account!RevocationInv, Account!MadeOnce, Account!RevokedForGood,
            Account!StaleIsAsked, Account!cached, Account!answered, Account!unmade,
            Account!Mounted, Account!server, Account!lists, Account!panel
<1>1. CASE UNCHANGED <<keys, create, delete, revoked, data, failed, stale, request, me, page>>
  BY <1>1
<1>2. ASSUME NEW u, NEW p, Account(g)!Turn(u, p), me' = u, page' = p,
             UNCHANGED <<keys, create, delete, revoked>>
      PROVE  Kept
  BY <1>2, TurnRevocation
<1>3. CASE Account(g)!reload /\ UNCHANGED keys
  BY <1>3, ReloadRevocation
<1>4. ASSUME NEW l \in Account(g)!Lists, Account(g)!Serve(l) PROVE Kept
  <2>1. Account(g)!list_api_keys(l) \subseteq keys
    BY DEF Account!list_api_keys
  <2>2. /\ \A x \in Account(g)!Lists : x # l => request'[x] = request[x]
        /\ request[l] = Sent
        /\ request'[l] = Refused \/ request'[l] = Account(g)!list_api_keys(l)
    BY <1>4 DEF Account!Serve, Account!TypeOK
  <2>3. request'[l] # None
    BY <2>1, <2>2 DEF Account!AccountAssumption, Account!TypeOK
  <2>4. Account(g)!answered(l)' \subseteq keys
    BY <2>1, <2>2
  <2>5. \A x \in Account(g)!Lists : x # l => Account(g)!answered(x)' = Account(g)!answered(x)
    BY <2>2
  <2>6. Account(g)!MadeOnce' /\ Account(g)!RevokedForGood'
    BY <1>4, <2>4, <2>5 DEF Account!Serve
  <2> QED BY <1>4, <2>2, <2>3, <2>6 DEF Account!Serve, Account!TypeOK
<1>5. ASSUME NEW l \in Account(g)!Lists, Account(g)!Listed(l) PROVE Kept
  BY <1>5 DEF Account!Listed, Account!TypeOK
<1>6. ASSUME NEW l \in Account(g)!Lists, Account(g)!ListFails(l) PROVE Kept
  BY <1>6 DEF Account!ListFails, Account!TypeOK
<1>7. ASSUME NEW r \in g.Requests, Account(g)!submitCreate(r) PROVE Kept
  BY <1>7 DEF Account!submitCreate, Account!next, Account!TypeOK
<1>8. ASSUME NEW r \in g.Requests, Account(g)!create_api_key(r) PROVE Kept
  BY <1>8 DEF Account!create_api_key, Account!TypeOK
<1>9. ASSUME NEW r \in g.Requests, Account(g)!useCreateApiKey(r) PROVE Kept
  <2>1. "self" \in Account(g)!Lists
    BY DEF Account!Lists
  <2>2. \A x \in Account(g)!Lists : Account(g)!answered(x)' \subseteq Account(g)!answered(x)
    BY <1>9, <2>1 DEF Account!useCreateApiKey, Account!invalidateQueries, Account!TypeOK
  <2>4. Account(g)!MadeOnce' /\ Account(g)!RevokedForGood'
    BY <1>9, <2>1, <2>2 DEF Account!useCreateApiKey, Account!invalidateQueries, Account!TypeOK
  <2>5. Account(g)!StaleIsAsked'
    BY <1>9, <2>1 DEF Account!useCreateApiKey, Account!invalidateQueries, Account!TypeOK, Account!AccountAssumption
  <2> QED BY <2>4, <2>5
<1>10. ASSUME NEW r \in g.Requests, Account(g)!CreateFails(r) PROVE Kept
  BY <1>10 DEF Account!CreateFails, Account!TypeOK
<1>11. ASSUME NEW l \in Account(g)!Lists, NEW k \in Account(g)!rows(l), Account(g)!asksToRevoke(l, k)
       PROVE Kept
  BY <1>11 DEF Account!asksToRevoke, Account!rows, Account!Shows, Account!TypeOK
<1>12. CASE Account(g)!delete_api_key
  BY <1>12 DEF Account!delete_api_key, Account!TypeOK
<1>13. ASSUME NEW l \in Account(g)!Lists, Account(g)!Revoked(l) PROVE Kept
  <2>1. delete.key \notin keys /\ delete.key \notin Account(g)!unmade
    BY <1>13 DEF Account!Revoked
  <2>2. \A x \in Account(g)!Lists : Account(g)!answered(x)' \subseteq Account(g)!answered(x)
    BY <1>13 DEF Account!Revoked, Account!invalidateQueries, Account!TypeOK
  <2>3. Account(g)!answered(l)' = {}
    BY <1>13 DEF Account!Revoked, Account!invalidateQueries, Account!TypeOK
  <2>4. Account(g)!MadeOnce' /\ Account(g)!RevokedForGood'
    BY <1>13, <2>1, <2>2, <2>3 DEF Account!Revoked, Account!invalidateQueries, Account!TypeOK
  <2>5. Account(g)!StaleIsAsked'
    BY <1>13, <2>1 DEF Account!Revoked, Account!invalidateQueries, Account!TypeOK, Account!AccountAssumption
  <2> QED BY <2>4, <2>5
<1>14. CASE Account(g)!DeleteFails
  BY <1>14 DEF Account!DeleteFails
<1>15. Account(g)!fetchAuthMe => Kept
  BY <1>2 DEF Account!fetchAuthMe
<1>16. ASSUME NEW p, Account(g)!Goto(p) PROVE Kept
  BY <1>2, <1>16 DEF Account!Goto
<1>17. ASSUME NEW u, Account(g)!SignIn(u) PROVE Kept
  BY <1>3, <1>17 DEF Account!SignIn
<1>22. Account(g)!useLogout => Kept
  BY <1>3 DEF Account!useLogout
<1>18. Account(g)!Focus \/ Account(g)!handleSignOut \/ Account(g)!auth_logout
              \/ Account(g)!CloseDialog => Kept
  BY <1>1 DEF Account!Focus, Account!handleSignOut, Account!auth_logout, Account!CloseDialog
<1>23. ASSUME NEW u, Account(g)!SwitchUser(u) PROVE Kept
  BY <1>1, <1>23 DEF Account!SwitchUser
<1>19. ASSUME NEW k, Account(g)!revoke(k) \/ Account(g)!adminRevoke(k) PROVE Kept
  BY <1>11, <1>19 DEF Account!revoke, Account!adminRevoke, Account!KeyRow, Account!AdminKeyRow,
     Account!Lists
<1>20. Account(g)!useDeleteApiKey \/ Account(g)!useAdminDeleteApiKey => Kept
  BY <1>13 DEF Account!useDeleteApiKey, Account!useAdminDeleteApiKey, Account!Lists
<1>21. Account(g)!fetchApiKeys \/ Account(g)!fetchAdminApiKeys => Kept
  BY <1>5 DEF Account!fetchApiKeys, Account!fetchAdminApiKeys, Account!Lists
<1> HIDE DEF Kept, Account!RevocationInv, Account!MadeOnce, Account!RevokedForGood,
             Account!StaleIsAsked, Account!cached, Account!answered, Account!unmade
<1>24. CASE Account(g)!Answers
  BY <1>24, <1>4, <1>6, <1>8, <1>9, <1>10, <1>12, <1>14, <1>15, <1>18, <1>20, <1>21, <1>22
  DEF Account!Answers
<1> QED
  BY <1>7, <1>16, <1>17, <1>18, <1>19, <1>23, <1>24 DEF Account!Next

\* Where no other tab changes the session, this tab has the keys of one user at most.
LEMMA SessionStep ==
  ASSUME NEW g, Account(g)!AccountAssumption, Account(g)!TypeOK, ~g.OtherTab,
         Account(g)!OneUser, Account(g)!NothingLeft, Account(g)!Next
  PROVE  Account(g)!OneUser' /\ Account(g)!NothingLeft'
<1> DEFINE Kept == Account(g)!OneUser' /\ Account(g)!NothingLeft'
<1> SUFFICES Kept
  OBVIOUS
<1>0. PICK u \in g.Users \cup {Nobody} :
        /\ me \in {u, Nobody, NoData} /\ session \in {u, Nobody}
        /\ \A k \in Account(g)!cached("self") \cup Account(g)!answered("self") : owner[k] = u
  BY DEF Account!OneUser
<1>a. Nobody \notin g.Users /\ NoData \notin g.Users /\ g.Admins \subseteq g.Users
      /\ "self" \in Account(g)!Lists /\ "admin" \in Account(g)!Lists
  BY DEF Account!AccountAssumption, Account!Lists
<1>1. ASSUME me' \in {u, Nobody, NoData}, session' \in {u, Nobody},
             Account(g)!cached("self")' \subseteq Account(g)!cached("self") \cup Account(g)!answered("self"),
             Account(g)!answered("self")' \subseteq Account(g)!answered("self"),
             owner' = owner
      PROVE  Account(g)!OneUser'
  BY <1>0, <1>1 DEF Account!OneUser
<1>2. CASE UNCHANGED <<me, session, data, request, owner, signingOut>>
  BY <1>2 DEF Account!OneUser, Account!NothingLeft, Account!cached, Account!answered,
     Account!EmptyCache
<1>3. CASE Account(g)!reload /\ session' \in g.Users \cup {Nobody}
  <2>1. Account(g)!cached("self")' = {} /\ Account(g)!answered("self")' = {} /\ me' = NoData
    BY <1>3, <1>a DEF Account!reload, Account!EmptyCache, Account!cached, Account!answered
  <2>2. Account(g)!OneUser'
    BY <1>3, <2>1 DEF Account!OneUser
  <2>3. Account(g)!NothingLeft'
    BY <1>3, <1>a DEF Account!reload, Account!NothingLeft, Account!EmptyCache
  <2> QED BY <2>2, <2>3
<1>4. ASSUME NEW v, NEW p, Account(g)!Turn(v, p)
      PROVE  /\ data' = data
             /\ \A l \in Account(g)!Lists : request'[l] = request[l] \/ request'[l] \in {None, Sent}
  BY <1>4 DEF Account!Turn, Account!lists, Account!Mount
<1>5. CASE Account(g)!fetchAuthMe
  <2>1. /\ me' \in {session, Nobody} /\ UNCHANGED <<session, owner, signingOut>>
        /\ Account(g)!Turn(me', page)
    BY <1>5 DEF Account!fetchAuthMe, Account!server
  <2>2. /\ data' = data
        /\ \A l \in Account(g)!Lists : request'[l] = request[l] \/ request'[l] \in {None, Sent}
    BY <2>1, <1>4
  <2>3. Account(g)!OneUser'
    BY <1>0, <1>1, <1>a, <2>1, <2>2 DEF Account!cached, Account!answered
  <2>4. Account(g)!NothingLeft'
    BY <1>a, <2>1, <2>2 DEF Account!NothingLeft, Account!EmptyCache
  <2> QED BY <2>3, <2>4
<1>6. ASSUME NEW p, Account(g)!Goto(p) PROVE Kept
  <2>1. UNCHANGED <<me, session, owner, signingOut>> /\ Account(g)!Turn(me, p)
    BY <1>6 DEF Account!Goto, Account!server
  <2>2. /\ data' = data
        /\ \A l \in Account(g)!Lists : request'[l] = request[l] \/ request'[l] \in {None, Sent}
    BY <2>1, <1>4
  <2>3. Account(g)!OneUser'
    BY <1>0, <1>1, <1>a, <2>1, <2>2 DEF Account!cached, Account!answered
  <2>4. Account(g)!NothingLeft'
    BY <1>a, <2>1, <2>2 DEF Account!NothingLeft, Account!EmptyCache
  <2> QED BY <2>3, <2>4
<1>7. ASSUME NEW v \in g.Users, Account(g)!SignIn(v) PROVE Kept
  BY <1>3, <1>7 DEF Account!SignIn
<1>8. CASE Account(g)!useLogout
  BY <1>0, <1>3, <1>8 DEF Account!useLogout, Account!server, Account!TypeOK
<1>9. CASE Account(g)!handleSignOut
  <2>1. session # Nobody
    BY <1>9 DEF Account!handleSignOut, Account!AccountMenu, Account!NothingLeft
  <2> QED BY <1>9, <2>1, <1>0 DEF Account!handleSignOut, Account!server, Account!lists, Account!OneUser,
             Account!NothingLeft, Account!cached, Account!answered
<1>10. CASE Account(g)!auth_logout
  BY <1>10, <1>0 DEF Account!auth_logout, Account!lists, Account!OneUser,
             Account!NothingLeft, Account!cached, Account!answered
<1>11. ASSUME NEW l \in Account(g)!Lists, Account(g)!Serve(l) PROVE Kept
  <2>1. /\ UNCHANGED <<me, session, owner, signingOut, data>>
        /\ \A x \in Account(g)!Lists : x # l => request'[x] = request[x]
        /\ request'[l] = IF Account(g)!refused(l) THEN Refused ELSE Account(g)!list_api_keys(l)
    BY <1>11 DEF Account!Serve, Account!TypeOK, Account!server
  <2>2. session = Nobody => Account(g)!refused(l)
    BY <1>a DEF Account!refused
  <2>3. \A k \in Account(g)!list_api_keys("self") : owner[k] = session
    BY DEF Account!list_api_keys
  <2>4. Account(g)!OneUser'
    BY <1>0, <1>a, <2>1, <2>2, <2>3 DEF Account!OneUser, Account!cached, Account!answered
  <2>5. Account(g)!NothingLeft'
    BY <1>a, <2>1, <2>2 DEF Account!NothingLeft, Account!EmptyCache
  <2> QED BY <2>4, <2>5
<1>12. ASSUME NEW l \in Account(g)!Lists, Account(g)!Listed(l) PROVE Kept
  <2>1. /\ UNCHANGED <<me, session, owner, signingOut>>
        /\ \A x \in Account(g)!Lists : x # l => request'[x] = request[x] /\ data'[x] = data[x]
        /\ request[l] \notin {None, Sent, Refused} /\ data'[l] = request[l] /\ request'[l] = None
    BY <1>12 DEF Account!Listed, Account!TypeOK, Account!server
  <2>2. Account(g)!OneUser'
    BY <1>0, <1>1, <1>a, <2>1 DEF Account!cached, Account!answered
  <2>3. Account(g)!NothingLeft'
    BY <2>1 DEF Account!NothingLeft
  <2> QED BY <2>2, <2>3
<1>13. ASSUME NEW l \in Account(g)!Lists, Account(g)!ListFails(l) PROVE Kept
  <2>1. /\ UNCHANGED <<me, session, owner, signingOut, data>>
        /\ \A x \in Account(g)!Lists : x # l => request'[x] = request[x]
        /\ request'[l] = None
    BY <1>13 DEF Account!ListFails, Account!TypeOK, Account!server
  <2>2. Account(g)!OneUser'
    BY <1>0, <1>1, <1>a, <2>1 DEF Account!cached, Account!answered
  <2>3. Account(g)!NothingLeft'
    BY <2>1 DEF Account!NothingLeft, Account!EmptyCache
  <2> QED BY <2>2, <2>3
<1>14. ASSUME NEW r \in g.Requests, Account(g)!create_api_key(r) PROVE Kept
  <2>1. /\ UNCHANGED <<me, session, signingOut, data, request>>
        /\ owner' = owner \/ (session # Nobody /\ owner' = [owner EXCEPT ![r] = session])
    BY <1>14 DEF Account!create_api_key, Account!lists
  <2>2. Account(g)!OneUser'
    <3>1. \A k \in Account(g)!Keys : owner[k] = u => owner'[k] = u
      BY <1>0, <2>1 DEF Account!TypeOK
    <3>2. Account(g)!cached("self") \cup Account(g)!answered("self") \subseteq Account(g)!Keys
      BY <1>a DEF Account!TypeOK, Account!cached, Account!answered
    <3> QED BY <1>0, <2>1, <3>1, <3>2 DEF Account!OneUser, Account!cached, Account!answered
  <2>3. Account(g)!NothingLeft'
    BY <2>1 DEF Account!NothingLeft, Account!EmptyCache
  <2> QED BY <2>2, <2>3
<1>15. ASSUME NEW l \in Account(g)!Lists, Account(g)!invalidateQueries(l),
              UNCHANGED <<me, session, owner, signingOut>>
       PROVE  Kept
  <2>1. data' = data
        /\ \A x \in Account(g)!Lists : request'[x] = request[x] \/ request'[x] = Sent
    BY <1>15 DEF Account!invalidateQueries, Account!TypeOK
  <2>2. Account(g)!OneUser'
    BY <1>0, <1>1, <1>a, <1>15, <2>1 DEF Account!cached, Account!answered
  <2>3. Account(g)!NothingLeft'
    BY <1>15, <2>1 DEF Account!NothingLeft, Account!EmptyCache
  <2> QED BY <2>2, <2>3
<1>16. ASSUME NEW r \in g.Requests, Account(g)!useCreateApiKey(r) PROVE Kept
  BY <1>a, <1>15, <1>16 DEF Account!useCreateApiKey, Account!server
<1>17. ASSUME NEW l \in Account(g)!Lists, Account(g)!Revoked(l) PROVE Kept
  BY <1>15, <1>17 DEF Account!Revoked, Account!server
<1>18. Account(g)!useDeleteApiKey \/ Account(g)!useAdminDeleteApiKey => Kept
  BY <1>17, <1>a DEF Account!useDeleteApiKey, Account!useAdminDeleteApiKey
<1>19. Account(g)!fetchApiKeys \/ Account(g)!fetchAdminApiKeys => Kept
  BY <1>12, <1>a DEF Account!fetchApiKeys, Account!fetchAdminApiKeys
<1>20. Account(g)!Focus \/ Account(g)!CloseDialog \/ Account(g)!delete_api_key
       \/ Account(g)!DeleteFails => Kept
  BY <1>2 DEF Account!Focus, Account!CloseDialog, Account!delete_api_key,
     Account!DeleteFails, Account!server, Account!lists
<1>21. ASSUME NEW r, Account(g)!submitCreate(r) \/ Account(g)!CreateFails(r) PROVE Kept
  BY <1>2, <1>21 DEF Account!submitCreate, Account!CreateFails, Account!server, Account!lists
<1>22. ASSUME NEW k, Account(g)!revoke(k) \/ Account(g)!adminRevoke(k) PROVE Kept
  BY <1>2, <1>22 DEF Account!revoke, Account!adminRevoke, Account!asksToRevoke,
     Account!server, Account!lists
<1>23. ASSUME NEW v, Account(g)!SwitchUser(v) PROVE Kept
  BY <1>23 DEF Account!SwitchUser
<1> HIDE DEF Kept
<1>24. CASE Account(g)!Answers
  BY <1>24, <1>5, <1>8, <1>10, <1>11, <1>13, <1>14, <1>16, <1>18, <1>19, <1>20, <1>21
  DEF Account!Answers
<1> QED
  BY <1>6, <1>7, <1>9, <1>20, <1>21, <1>22, <1>23, <1>24 DEF Account!Next

LEMMA AccountInit ==
  ASSUME NEW g, Account(g)!AccountAssumption, Account(g)!Init
  PROVE  Account(g)!RevocationInv /\ Account(g)!SessionInv
<1> USE DEF Account!Init, Account!AccountAssumption, Account!EmptyCache
<1>1. Account(g)!TypeOK
  BY DEF Account!TypeOK, Account!Keys
<1>2. Account(g)!MadeOnce
  BY DEF Account!MadeOnce, Account!Keys, Account!cached, Account!answered, Account!unmade
<1>3. Account(g)!RevokedForGood /\ Account(g)!StaleIsAsked
  BY DEF Account!RevokedForGood, Account!StaleIsAsked
<1>4. Account(g)!OneUser
  BY DEF Account!OneUser, Account!cached, Account!answered, Account!Lists
<1>5. Account(g)!NothingLeft
  BY DEF Account!NothingLeft
<1> QED BY <1>1, <1>2, <1>3, <1>4, <1>5 DEF Account!RevocationInv, Account!SessionInv

LEMMA AccountStep ==
  ASSUME NEW g, Account(g)!AccountAssumption, Account(g)!RevocationInv, Account(g)!SessionInv,
         [Account(g)!Next]_(Account(g)!vars)
  PROVE  Account(g)!RevocationInv' /\ Account(g)!SessionInv'
<1>1. CASE Account(g)!Next
  BY <1>1, AccountType, RevocationStep, SessionStep DEF Account!RevocationInv, Account!SessionInv
<1>2. CASE UNCHANGED Account(g)!vars
  BY <1>2 DEF Account!vars, Account!server, Account!lists, Account!panel,
     Account!RevocationInv, Account!SessionInv, Account!TypeOK, Account!MadeOnce,
     Account!RevokedForGood, Account!StaleIsAsked, Account!OneUser, Account!NothingLeft,
     Account!cached, Account!answered, Account!unmade, Account!Mounted
<1> QED BY <1>1, <1>2

LEMMA AccountHolds ==
  ASSUME NEW g, Account(g)!AccountAssumption, Account(g)!RevocationInv, Account(g)!SessionInv
  PROVE  /\ Account(g)!TypeOK /\ Account(g)!RevocationShows
         /\ ~g.OtherTab => Account(g)!OwnKeysListed /\ Account(g)!SignedOutIsForgotten
<1>1. Account(g)!RevocationShows
  BY DEF Account!RevocationInv, Account!StaleIsAsked, Account!RevocationShows, Account!rows,
     Account!Shows, Account!cached, Account!TypeOK
<1>2. ASSUME ~g.OtherTab PROVE Account(g)!SignedOutIsForgotten
  BY <1>2 DEF Account!SessionInv, Account!NothingLeft, Account!SignedOutIsForgotten
<1>3. ASSUME ~g.OtherTab PROVE Account(g)!OwnKeysListed
  <2>1. SUFFICES ASSUME NEW k \in Account(g)!rows("self") PROVE owner[k] = me
    BY DEF Account!OwnKeysListed
  <2>2. me \in g.Users /\ k \in Account(g)!cached("self")
    BY DEF Account!rows, Account!Shows, Account!Mounted, Account!mounted, Account!ApiKeysRoute,
       Account!cached
  <2> QED BY <1>3, <2>2 DEF Account!SessionInv, Account!OneUser, Account!AccountAssumption
<1> QED BY <1>1, <1>2, <1>3 DEF Account!RevocationInv

-----------------------------------------------------------------------------
(* The users.                                                               *)

\* What the server makes of an update.
UserUpdated(g, us, e, update, new) ==
  /\ new \in Admin(g)!AdminUsers /\ new[e] # NoUser
  /\ \A x \in g.Emails \ {e} : new[x] = us[x]
  /\ us[e] # NoUser => \A f \in Admin(g)!Fields \ DOMAIN update : new[e][f] = us[e][f]
  /\ "is_admin" \in DOMAIN update => new[e].is_admin = update["is_admin"]

LEMMA UpdateIsMade ==
  ASSUME NEW g, Admin(g)!AdminAssumption, NEW us \in Admin(g)!AdminUsers, NEW e \in g.Emails,
         NEW update, Admin(g)!IsUpdate(update)
  PROVE  UserUpdated(g, us, e, update, Admin(g)!admin_update_user(us, e, update))
<1> DEFINE user == IF us[e] = NoUser THEN Admin(g)!Defaults ELSE us[e]
           is(f) == IF f \in DOMAIN update THEN update[f] ELSE user[f]
           row == [display_name |-> is("display_name"), is_admin |-> is("is_admin"),
                   is_active |-> is("is_active"), groups |-> is("groups")]
<1>1. Admin(g)!admin_update_user(us, e, update) = [us EXCEPT ![e] = row]
  BY DEF Admin!admin_update_user
<1>2. Admin(g)!Defaults \in Admin(g)!AdminUser
  BY DEF Admin!Defaults, Admin!AdminUser, Admin!DisplayNames, Admin!DefaultName,
         Admin!Groups, Admin!IsInjective
<1>3. user \in Admin(g)!AdminUser
  BY <1>2 DEF Admin!AdminUsers
<1>4. row \in Admin(g)!AdminUser
  BY <1>3 DEF Admin!AdminUser, Admin!IsUpdate
<1>5. row # NoUser
  BY <1>4 DEF Admin!AdminAssumption
<1>6. us[e] # NoUser => \A f \in Admin(g)!Fields \ DOMAIN update : row[f] = us[e][f]
  BY DEF Admin!Fields
<1>7. "is_admin" \in DOMAIN update => row.is_admin = update["is_admin"]
  OBVIOUS
<1>8. us \in [g.Emails -> Admin(g)!AdminUser \cup {NoUser}]
  BY DEF Admin!AdminUsers
<1> HIDE DEF row, user, is
<1> QED BY <1>1, <1>4, <1>5, <1>6, <1>7, <1>8 DEF UserUpdated, Admin!AdminUsers

\* The groups stay without repetition.
LEMMA GroupAdded ==
  ASSUME NEW g, NEW s \in Admin(g)!Groups, NEW x \in g.GroupNames, x \notin Admin(g)!Range(s)
  PROVE  Append(s, x) \in Admin(g)!Groups
<1>1. s \in Seq(g.GroupNames) /\ (\A a, b \in 1..Len(s) : s[a] = s[b] => a = b)
      /\ \A a \in 1..Len(s) : s[a] # x
  BY DEF Admin!Groups, Admin!Range, Admin!IsInjective
<1>2. Append(s, x) \in Seq(g.GroupNames) /\ Len(Append(s, x)) = Len(s) + 1
      /\ Append(s, x)[Len(s) + 1] = x /\ \A a \in 1..Len(s) : Append(s, x)[a] = s[a]
  BY <1>1
<1>3. \A a, b \in 1..(Len(s) + 1) : Append(s, x)[a] = Append(s, x)[b] => a = b
  BY <1>1, <1>2
<1>4. DOMAIN Append(s, x) = 1..(Len(s) + 1)
  BY <1>1, <1>2
<1> QED BY <1>2, <1>3, <1>4 DEF Admin!Groups, Admin!IsInjective

LEMMA GroupRemoved ==
  ASSUME NEW g, NEW s \in Admin(g)!Groups, NEW x \in Admin(g)!Range(s)
  PROVE  Admin(g)!without(s, x) \in Admin(g)!Groups
<1> DEFINE place == CHOOSE i \in 1..Len(s) : s[i] = x
           p(i) == IF i < place THEN i ELSE i + 1
           t == [i \in 1..(Len(s) - 1) |-> s[p(i)]]
<1>1. s \in Seq(g.GroupNames) /\ Len(s) \in Nat /\ place \in 1..Len(s)
      /\ \A a, b \in 1..Len(s) : s[a] = s[b] => a = b
  BY DEF Admin!Range, Admin!Groups, Admin!IsInjective
<1> HIDE DEF place
<1>2. \A i \in 1..(Len(s) - 1) : p(i) \in 1..Len(s)
  BY <1>1
<1>3. \A a, b \in 1..(Len(s) - 1) : p(a) = p(b) => a = b
  BY <1>1
<1> HIDE DEF p
<1>4. t \in Seq(g.GroupNames)
  <2>1. Len(s) - 1 \in Nat /\ \A i \in 1..(Len(s) - 1) : s[p(i)] \in g.GroupNames
    BY <1>1, <1>2
  <2>2. t \in [1..(Len(s) - 1) -> g.GroupNames]
    BY <2>1
  <2> HIDE DEF t
  <2>3. QED
    BY <2>1, <2>2
<1>5. \A a, b \in DOMAIN t : t[a] = t[b] => a = b
  BY <1>1, <1>2, <1>3
<1>6. t \in Admin(g)!Groups
  BY <1>4, <1>5 DEF Admin!Groups, Admin!IsInjective
<1> QED BY <1>6 DEF Admin!without, t, place, p

LEMMA OneFieldUpdates ==
  ASSUME NEW g
  PROVE  /\ \A b \in BOOLEAN : /\ Admin(g)!IsUpdate(Admin(g)!setting("is_admin", b))
                               /\ Admin(g)!IsUpdate(Admin(g)!setting("is_active", b))
         /\ \A s \in Admin(g)!Groups : Admin(g)!IsUpdate(Admin(g)!setting("groups", s))
  BY DEF Admin!IsUpdate, Admin!setting, Admin!Fields

\* A change of the panel and a change of the older page keep the types.
LEMMA ChangeSent ==
  ASSUME NEW g, Admin(g)!TypeOK, NEW from \in Admin(g)!From, NEW e \in g.Emails, NEW update,
         Admin(g)!IsUpdate(update), Admin(g)!updateAdminUser(from, e, update)
  PROVE  /\ put' = [f \in Admin(g)!From |-> put'[f]]
         /\ \A f \in Admin(g)!From : put'[f] # None => Admin(g)!IsChange(put'[f])
  BY DEF Admin!TypeOK, Admin!updateAdminUser, Admin!IsChange

LEMMA UsersBudget ==
  ASSUME NEW g, Admin(g)!AdminAssumption, Admin(g)!TypeOK,
         Admin(g)!Moves \/ Admin(g)!Others \/ Admin(g)!Fails
  PROVE  moves' \in 0..g.MaxMoves /\ others' \in 0..g.MaxOther /\ failures' \in 0..g.MaxFailures
<1>1. g.MaxMoves \in Nat /\ g.MaxOther \in Nat /\ g.MaxFailures \in Nat
  BY DEF Admin!AdminAssumption
<1>2. moves \in 0..g.MaxMoves /\ others \in 0..g.MaxOther /\ failures \in 0..g.MaxFailures
  BY DEF Admin!TypeOK
<1> QED BY <1>1, <1>2 DEF Admin!Moves, Admin!Others, Admin!Fails

LEMMA OlderChanges ==
  ASSUME NEW g, Admin(g)!AdminAssumption, Admin(g)!TypeOK, NEW e \in g.Emails, NEW update,
         Admin(g)!IsUpdate(update), Admin(g)!OlderPut(e, update)
  PROVE  Admin(g)!TypeOK'
<1>1. users' \in Admin(g)!AdminUsers
  BY UpdateIsMade DEF Admin!OlderPut, Admin!TypeOK, UserUpdated
<1>2. moves' \in 0..g.MaxMoves /\ others' \in 0..g.MaxOther /\ failures' \in 0..g.MaxFailures
  BY UsersBudget DEF Admin!OlderPut
<1>3. put' = [f \in Admin(g)!From |-> put'[f]]
      /\ \A f \in Admin(g)!From : put'[f] # None => Admin(g)!IsChange(put'[f])
  BY DEF Admin!OlderPut, Admin!TypeOK
<1> QED BY <1>1, <1>2, <1>3 DEF Admin!OlderPut, Admin!TypeOK, Admin!list, Admin!dialog

LEMMA FewIsSome ==
  ASSUME NEW g PROVE Admin(g)!FewGroups \subseteq Admin(g)!Groups
<1>1. \A n \in 0..2 : [1..n -> g.GroupNames] \subseteq Seq(g.GroupNames)
  OBVIOUS
<1> QED BY <1>1 DEF Admin!FewGroups, Admin!Groups

LEMMA UsersType ==
  ASSUME NEW g, Admin(g)!AdminAssumption, Admin(g)!TypeOK, Admin(g)!Next
  PROVE  Admin(g)!TypeOK'
<1> DEFINE Kept == Admin(g)!TypeOK'
<1> SUFFICES Kept
  OBVIOUS
<1>p. ASSUME UNCHANGED put PROVE
        /\ put' = [f \in Admin(g)!From |-> put'[f]]
        /\ \A f \in Admin(g)!From : put'[f] # None => Admin(g)!IsChange(put'[f])
  BY <1>p DEF Admin!TypeOK
<1>f. ASSUME NEW from \in Admin(g)!From, Admin(g)!forget(from) PROVE
        /\ put' = [f \in Admin(g)!From |-> put'[f]]
        /\ \A f \in Admin(g)!From : put'[f] # None => Admin(g)!IsChange(put'[f])
        /\ last' \in {None, "row", "new"}
  BY <1>f DEF Admin!TypeOK, Admin!forget
<1>m. ASSUME Admin(g)!Moves \/ Admin(g)!Fails
      PROVE  moves' \in 0..g.MaxMoves /\ others' \in 0..g.MaxOther /\ failures' \in 0..g.MaxFailures
  BY <1>m, UsersBudget
<1>l. \A e \in g.Emails : data # NoData /\ data[e] # NoUser => data[e] \in Admin(g)!AdminUser
  BY DEF Admin!TypeOK, Admin!AdminUsers
<1> USE DEF Admin!list, Admin!dialog, Admin!budgets
<1>1. ASSUME Admin(g)!Serve PROVE Kept
  BY <1>1, <1>p DEF Admin!Serve, Admin!TypeOK
<1>2. ASSUME Admin(g)!fetchAdminUsers PROVE Kept
  <2>1. data' \in Admin(g)!AdminUsers
    BY <1>2 DEF Admin!fetchAdminUsers, Admin!TypeOK
  <2>2. /\ editing' = editing
        /\ form' \in [display_name : Admin(g)!DisplayNames \cup {""}, groups : Admin(g)!Groups]
        /\ editing' # None => form'.display_name \in Admin(g)!DisplayNames
        /\ touched' \subseteq {"display_name", "groups"}
    <3>1. CASE failed /\ editing # None
      <4>1. editing.user \in Admin(g)!AdminUser
        BY <3>1 DEF Admin!TypeOK
      <4>2. editing' = editing /\ touched' = {}
            /\ form' = [display_name |-> editing.user.display_name, groups |-> editing.user.groups]
        BY <1>2, <3>1 DEF Admin!fetchAdminUsers, Admin!ResetForm
      <4> QED BY <4>1, <4>2 DEF Admin!AdminUser
    <3>2. CASE ~(failed /\ editing # None)
      BY <1>2, <3>2 DEF Admin!fetchAdminUsers, Admin!TypeOK
    <3> QED BY <3>1, <3>2
  <2> QED BY <1>2, <1>p, <2>1, <2>2 DEF Admin!fetchAdminUsers, Admin!TypeOK
<1>3. ASSUME Admin(g)!ListFails PROVE Kept
  <2>1. /\ put' = [f \in Admin(g)!From |-> put'[f]]
        /\ \A f \in Admin(g)!From : put'[f] # None => Admin(g)!IsChange(put'[f])
    BY <1>3 DEF Admin!ListFails, Admin!TypeOK, Admin!IsChange, Admin!From
  <2> QED BY <1>3, <1>m, <2>1 DEF Admin!ListFails, Admin!TypeOK
<1>4. ASSUME NEW from \in Admin(g)!From, Admin(g)!ServePut(from) PROVE Kept
  <2>1. put[from] # None /\ Admin(g)!IsChange(put[from])
    BY <1>4 DEF Admin!ServePut, Admin!TypeOK
  <2>2. users' \in Admin(g)!AdminUsers
    <3>1. put[from].email \in g.Emails /\ Admin(g)!IsUpdate(put[from].update) /\ users \in Admin(g)!AdminUsers
      BY <2>1 DEF Admin!IsChange, Admin!TypeOK
    <3>2. Admin(g)!admin_update_user(users, put[from].email, put[from].update) \in Admin(g)!AdminUsers
      BY <3>1, UpdateIsMade DEF UserUpdated
    <3> QED BY <1>4, <3>1, <3>2 DEF Admin!ServePut
  <2>3. /\ put' = [f \in Admin(g)!From |-> put'[f]]
        /\ \A f \in Admin(g)!From : put'[f] # None => Admin(g)!IsChange(put'[f])
    BY <1>4, <2>1 DEF Admin!ServePut, Admin!TypeOK, Admin!IsChange
  <2> QED BY <1>4, <2>2, <2>3 DEF Admin!ServePut, Admin!TypeOK
<1>5. ASSUME NEW from \in Admin(g)!From, Admin(g)!useUpdateAdminUser(from) PROVE Kept
  <2>1. put[from] # None /\ Admin(g)!IsChange(put[from])
    BY <1>5 DEF Admin!useUpdateAdminUser, Admin!TypeOK
  <2>2. told' \in [g.Emails -> BOOLEAN \cup {NoData}]
    BY <1>5, <2>1 DEF Admin!useUpdateAdminUser, Admin!TypeOK, Admin!IsChange, Admin!IsUpdate
  <2>3. editing' = editing \/ editing' = None
    BY <1>5 DEF Admin!useUpdateAdminUser
  <2>4. Admin(g)!forget(from) /\ request' = Sent
        /\ UNCHANGED <<users, data, failed, form, touched, older, moves, others, failures>>
    BY <1>5 DEF Admin!useUpdateAdminUser, Admin!invalidateQueries
  <2> QED BY <1>f, <2>2, <2>3, <2>4 DEF Admin!TypeOK
<1>6. ASSUME NEW from \in Admin(g)!From, Admin(g)!PutFails(from) PROVE Kept
  <2>1. put[from] # None /\ Admin(g)!IsChange(put[from]) /\ Admin(g)!forget(from)
        /\ UNCHANGED <<users, data, failed, request, editing, form, touched, older>>
    BY <1>6 DEF Admin!PutFails, Admin!TypeOK
  <2>2. told' \in [g.Emails -> BOOLEAN \cup {NoData}]
    BY <1>6, <2>1 DEF Admin!PutFails, Admin!TypeOK, Admin!IsChange
  <2>3. moves' \in 0..g.MaxMoves /\ others' \in 0..g.MaxOther /\ failures' \in 0..g.MaxFailures
    BY <1>6, <1>m DEF Admin!PutFails, Admin!TypeOK
  <2> QED BY <1>f, <2>1, <2>2, <2>3 DEF Admin!TypeOK
<1>7. ASSUME Admin(g)!submit PROVE Kept
  <2>1. editing # None /\ editing.email \in g.Emails
    BY <1>7 DEF Admin!submit, Admin!EditUserDialog, Admin!TypeOK
  <2>2. Admin(g)!IsUpdate([f \in Admin(g)!changed |-> form[f]])
    BY <2>1 DEF Admin!IsUpdate, Admin!changed, Admin!Fields, Admin!TypeOK
  <2>3. Admin(g)!updateAdminUser("dialog", editing.email, [f \in Admin(g)!changed |-> form[f]])
    BY <1>7 DEF Admin!submit
  <2>4. /\ put' = [f \in Admin(g)!From |-> put'[f]]
        /\ \A f \in Admin(g)!From : put'[f] # None => Admin(g)!IsChange(put'[f])
    BY <2>1, <2>2, <2>3, ChangeSent DEF Admin!From
  <2> QED BY <1>7, <1>m, <2>4 DEF Admin!submit, Admin!updateAdminUser, Admin!TypeOK
<1>8. ASSUME Admin(g)!onOpenChange PROVE Kept
  BY <1>8, <1>p DEF Admin!onOpenChange, Admin!TypeOK
<1>9. ASSUME Admin(g)!load_users PROVE Kept
  BY <1>9, <1>p DEF Admin!load_users, Admin!TypeOK
<1>10. ASSUME NEW e \in g.Emails, Admin(g)!createUser(e) PROVE Kept
  <2>1. /\ put' = [f \in Admin(g)!From |-> put'[f]]
        /\ \A f \in Admin(g)!From : put'[f] # None => Admin(g)!IsChange(put'[f])
    BY <1>10, OneFieldUpdates, ChangeSent DEF Admin!createUser, Admin!From
  <2> QED BY <1>10, <1>m, <2>1 DEF Admin!createUser, Admin!updateAdminUser, Admin!TypeOK
<1>11. ASSUME NEW e \in g.Emails, Admin(g)!onEdit(e) PROVE Kept
  <2>1. data[e] \in Admin(g)!AdminUser
    BY <1>11, <1>l DEF Admin!onEdit, Admin!UserRow, Admin!Rows
  <2> QED BY <1>11, <1>m, <1>p, <2>1 DEF Admin!onEdit, Admin!ResetForm, Admin!TypeOK, Admin!AdminUser
<1>12. ASSUME NEW e \in g.Emails, NEW f \in {"is_admin", "is_active"}, Admin(g)!toggle(e, f) PROVE Kept
  <2>1. Admin(g)!IsUpdate(Admin(g)!setting(f, ~data[e][f]))
    BY OneFieldUpdates
  <2>2. /\ put' = [x \in Admin(g)!From |-> put'[x]]
        /\ \A x \in Admin(g)!From : put'[x] # None => Admin(g)!IsChange(put'[x])
    BY <1>12, <2>1, ChangeSent DEF Admin!toggle, Admin!From
  <2> QED BY <1>12, <1>m, <2>2 DEF Admin!toggle, Admin!updateAdminUser, Admin!TypeOK
<1>13. ASSUME NEW n \in g.Names, Admin(g)!setDisplayName(n) PROVE Kept
  BY <1>13, <1>m, <1>p DEF Admin!setDisplayName, Admin!Edit, Admin!TypeOK, Admin!DisplayNames
<1>14. ASSUME NEW s \in Admin(g)!Groups, Admin(g)!Edit("groups", s) PROVE Kept
  BY <1>14, <1>m, <1>p DEF Admin!Edit, Admin!TypeOK
<1>15. ASSUME NEW x \in g.GroupNames, Admin(g)!addGroup(x) \/ Admin(g)!removeGroup(x) PROVE Kept
  <2>1. form.groups \in Admin(g)!Groups
    BY DEF Admin!TypeOK
  <2> QED BY <1>14, <1>15, <2>1, GroupAdded, GroupRemoved DEF Admin!addGroup, Admin!removeGroup
<1>16. ASSUME NEW e \in g.Emails, NEW b \in BOOLEAN, Admin(g)!set_active(e, b) \/ Admin(g)!set_admin(e, b)
       PROVE  Kept
  BY <1>16, OneFieldUpdates, OlderChanges DEF Admin!set_active, Admin!set_admin
<1>17. ASSUME NEW e \in g.Emails, NEW x \in g.GroupNames,
              Admin(g)!prompt_add_group(e, x) \/ Admin(g)!remove_group(e, x)
       PROVE  Kept
  <2>1. older[e].groups \in Admin(g)!Groups
    BY <1>17 DEF Admin!prompt_add_group, Admin!remove_group, Admin!OlderRow, Admin!TypeOK,
       Admin!AdminUsers, Admin!AdminUser
  <2>2. CASE Admin(g)!prompt_add_group(e, x)
    BY <2>1, <2>2, GroupAdded, OneFieldUpdates, OlderChanges DEF Admin!prompt_add_group
  <2>3. CASE Admin(g)!remove_group(e, x)
    BY <2>1, <2>3, GroupRemoved, OneFieldUpdates, OlderChanges DEF Admin!remove_group
  <2> QED BY <1>17, <2>2, <2>3
<1>18. ASSUME NEW e \in g.Emails, NEW b \in BOOLEAN, NEW gs \in Admin(g)!FewGroups,
              Admin(g)!add_user(e, b, gs)
       PROVE  Kept
  <2>1. gs \in Admin(g)!Groups
    BY <1>18, FewIsSome
  <2> DEFINE user == [display_name |-> Admin(g)!DefaultName, is_admin |-> b, is_active |-> TRUE, groups |-> gs]
             update == [f \in {x \in Admin(g)!Fields : x = "groups" => gs # <<>>} |-> user[f]]
  <2>2. Admin(g)!IsUpdate(update)
    BY <2>1 DEF Admin!IsUpdate, Admin!Fields, Admin!DisplayNames
  <2>3. Admin(g)!OlderPut(e, update)
    BY <1>18 DEF Admin!add_user
  <2> QED BY <2>2, <2>3, OlderChanges
<1> HIDE DEF Kept
<1> QED BY <1>1, <1>2, <1>3, <1>4, <1>5, <1>6, <1>7, <1>8, <1>9, <1>10, <1>11, <1>12, <1>13, <1>15,
           <1>16, <1>17, <1>18 DEF Admin!Next, Admin!Answers

\* The dialog sends what was touched, and the form keeps the rest.
LEMMA DialogStep ==
  ASSUME NEW g, Admin(g)!AdminAssumption, Admin(g)!DialogInv, Admin(g)!Next
  PROVE  Admin(g)!FormKept' /\ Admin(g)!SendsTouched'
<1> DEFINE Kept == Admin(g)!FormKept' /\ Admin(g)!SendsTouched'
<1> SUFFICES Kept
  OBVIOUS
<1>t. Admin(g)!TypeOK /\ Admin(g)!FormKept /\ Admin(g)!SendsTouched
  BY DEF Admin!DialogInv
<1> USE DEF Admin!dialog, Admin!list
<1>f. ASSUME UNCHANGED <<editing, form, touched>> \/ editing' = None
      PROVE  Admin(g)!FormKept'
  BY <1>f, <1>t DEF Admin!FormKept
<1>r. ASSUME NEW u, Admin(g)!ResetForm(u), editing' # None => editing'.user = u
      PROVE  Admin(g)!FormKept'
  BY <1>r DEF Admin!FormKept, Admin!ResetForm
<1>e. ASSUME NEW x, NEW v, x \in {"display_name", "groups"}, Admin(g)!Edit(x, v)
      PROVE  Admin(g)!FormKept' /\ put' = put
  BY <1>e, <1>t DEF Admin!FormKept, Admin!Edit, Admin!TypeOK
<1>s. ASSUME \/ put' = put
             \/ put'["dialog"] = None
             \/ (put'["dialog"] # None /\ put["dialog"] # None)
                  /\ put'["dialog"].update = put["dialog"].update
                  /\ put'["dialog"].touched = put["dialog"].touched
             \/ put'["dialog"] = put["dialog"]
      PROVE  Admin(g)!SendsTouched'
  BY <1>s, <1>t DEF Admin!SendsTouched
<1>p. put = [f \in Admin(g)!From |-> put[f]] /\ "dialog" \in Admin(g)!From
  BY <1>t DEF Admin!TypeOK, Admin!From
<1>c. ASSUME put["dialog"] # None PROVE Admin(g)!IsChange(put["dialog"])
  BY <1>c, <1>t, <1>p DEF Admin!TypeOK
<1>o. ASSUME UNCHANGED <<editing, form, touched, put>> PROVE Kept
  BY <1>o, <1>f, <1>s
<1>1. ASSUME Admin(g)!Serve PROVE Kept
  BY <1>1, <1>o DEF Admin!Serve
<1>2. ASSUME Admin(g)!fetchAdminUsers PROVE Kept
  BY <1>2, <1>f, <1>r, <1>s DEF Admin!fetchAdminUsers
<1>3. ASSUME Admin(g)!ListFails PROVE Kept
  <2>1. \/ put' = put
        \/ (put["dialog"] # None /\ put'["dialog"].update = put["dialog"].update)
             /\ put'["dialog"].touched = put["dialog"].touched
    BY <1>3, <1>p, <1>c DEF Admin!ListFails, Admin!IsChange
  <2>2. Admin(g)!SendsTouched'
    BY <2>1, <1>t DEF Admin!SendsTouched
  <2> QED BY <1>3, <1>f, <2>2 DEF Admin!ListFails
<1>4. ASSUME NEW from \in Admin(g)!From, Admin(g)!ServePut(from) PROVE Kept
  <2>1. \/ put'["dialog"] = put["dialog"]
        \/ (put["dialog"] # None /\ put'["dialog"].update = put["dialog"].update)
             /\ put'["dialog"].touched = put["dialog"].touched
    BY <1>4, <1>p, <1>c DEF Admin!ServePut, Admin!IsChange
  <2>2. Admin(g)!SendsTouched'
    BY <2>1, <1>t DEF Admin!SendsTouched
  <2> QED BY <1>4, <1>f, <2>2 DEF Admin!ServePut
<1>5. ASSUME NEW from \in Admin(g)!From, Admin(g)!forget(from) PROVE Admin(g)!SendsTouched'
  <2>1. put'["dialog"] = put["dialog"] \/ put'["dialog"] = None
    BY <1>5, <1>p DEF Admin!forget
  <2> QED BY <2>1, <1>s
<1>6. ASSUME NEW from \in Admin(g)!From, Admin(g)!useUpdateAdminUser(from) PROVE Kept
  <2>1. UNCHANGED <<editing, form, touched>> \/ editing' = None
    BY <1>6 DEF Admin!useUpdateAdminUser
  <2> QED BY <1>6, <1>5, <1>f, <2>1 DEF Admin!useUpdateAdminUser
<1>7. ASSUME NEW from \in Admin(g)!From, Admin(g)!PutFails(from) PROVE Kept
  BY <1>7, <1>5, <1>f DEF Admin!PutFails
<1>8. ASSUME Admin(g)!submit PROVE Kept
  <2>1. editing # None /\ Admin(g)!changed \subseteq touched
    BY <1>8, <1>t DEF Admin!submit, Admin!EditUserDialog, Admin!changed, Admin!initial,
       Admin!FormKept
  <2>2. put'["dialog"].touched = touched
        /\ put'["dialog"].update = [f \in Admin(g)!changed |-> form[f]]
    BY <1>8, <1>p DEF Admin!submit, Admin!updateAdminUser
  <2>3. DOMAIN put'["dialog"].update = Admin(g)!changed
    BY <2>2
  <2>4. Admin(g)!SendsTouched'
    BY <2>1, <2>2, <2>3 DEF Admin!SendsTouched
  <2> QED BY <1>8, <1>f, <2>4 DEF Admin!submit
<1>9. ASSUME Admin(g)!onOpenChange \/ Admin(g)!load_users PROVE Kept
  BY <1>9, <1>f, <1>s DEF Admin!onOpenChange, Admin!load_users
<1>10. ASSUME NEW e \in g.Emails, Admin(g)!createUser(e) PROVE Kept
  <2>1. put'["dialog"] = put["dialog"]
    BY <1>10, <1>p DEF Admin!createUser, Admin!updateAdminUser
  <2> QED BY <1>10, <1>f, <1>s, <2>1 DEF Admin!createUser
<1>11. ASSUME NEW e \in g.Emails, Admin(g)!onEdit(e) PROVE Kept
  BY <1>11, <1>r, <1>s DEF Admin!onEdit
<1>12. ASSUME NEW e \in g.Emails, NEW f, Admin(g)!toggle(e, f) PROVE Kept
  <2>1. put'["dialog"] = put["dialog"]
    BY <1>12, <1>p DEF Admin!toggle, Admin!updateAdminUser
  <2> QED BY <1>12, <1>f, <1>s, <2>1 DEF Admin!toggle
<1>13. ASSUME NEW n, Admin(g)!setDisplayName(n) PROVE Kept
  BY <1>13, <1>e, <1>s DEF Admin!setDisplayName
<1>14. ASSUME NEW x, Admin(g)!addGroup(x) \/ Admin(g)!removeGroup(x) PROVE Kept
  BY <1>14, <1>e, <1>s DEF Admin!addGroup, Admin!removeGroup
<1>15. ASSUME NEW e, NEW update, Admin(g)!OlderPut(e, update) PROVE Kept
  BY <1>15, <1>o DEF Admin!OlderPut
<1>16. ASSUME NEW e, NEW b, Admin(g)!set_active(e, b) \/ Admin(g)!set_admin(e, b) PROVE Kept
  BY <1>16, <1>15 DEF Admin!set_active, Admin!set_admin
<1>17. ASSUME NEW e, NEW x, Admin(g)!prompt_add_group(e, x) \/ Admin(g)!remove_group(e, x) PROVE Kept
  BY <1>17, <1>15 DEF Admin!prompt_add_group, Admin!remove_group
<1>18. ASSUME NEW e, NEW b, NEW gs, Admin(g)!add_user(e, b, gs) PROVE Kept
  BY <1>18, <1>15 DEF Admin!add_user
<1> HIDE DEF Kept
<1> QED BY <1>1, <1>2, <1>3, <1>4, <1>6, <1>7, <1>8, <1>9, <1>10, <1>11, <1>12, <1>13, <1>14,
           <1>16, <1>17, <1>18 DEF Admin!Next, Admin!Answers

\* Only an answer of the server to the dialog is about it, and it changes what was sent.
LEMMA OnlyTouchedSent ==
  ASSUME NEW g, Admin(g)!AdminAssumption, Admin(g)!DialogInv, [Admin(g)!Next]_(Admin(g)!vars)
  PROVE  Admin(g)!OnlyTouchedFieldsAreSet
<1> SUFFICES ASSUME NEW e \in g.Emails, NEW f \in Admin(g)!Fields,
                    put["dialog"] # None, put'["dialog"] # None,
                    put["dialog"].state # put'["dialog"].state,
                    users[e] # NoUser, users'[e][f] # users[e][f]
             PROVE  e = put["dialog"].email /\ f \in put["dialog"].touched
  BY DEF Admin!OnlyTouchedFieldsAreSet
<1>p. put = [x \in Admin(g)!From |-> put[x]] /\ Admin(g)!IsChange(put["dialog"])
  BY DEF Admin!DialogInv, Admin!TypeOK, Admin!From
<1>1. Admin(g)!Next /\ put'["dialog"] # put["dialog"] /\ users' # users
  BY DEF Admin!vars
<1>2. ASSUME Admin(g)!ServePut("dialog") PROVE e = put["dialog"].email /\ f \in put["dialog"].touched
  <2> DEFINE p == put["dialog"]
  <2>1. users' = Admin(g)!admin_update_user(users, p.email, p.update)
    BY <1>1, <1>2 DEF Admin!ServePut
  <2>2. UserUpdated(g, users, p.email, p.update, users')
    BY <1>p, <2>1, UpdateIsMade DEF Admin!IsChange, Admin!DialogInv, Admin!TypeOK
  <2>3. e = p.email /\ f \in DOMAIN p.update
    BY <2>2 DEF UserUpdated
  <2> QED BY <2>3 DEF Admin!DialogInv, Admin!SendsTouched
<1>3. ASSUME NEW from \in Admin(g)!From, Admin(g)!ServePut(from) PROVE from = "dialog"
  BY <1>1, <1>3, <1>p DEF Admin!ServePut
<1>4. \A from \in Admin(g)!From : ~Admin(g)!useUpdateAdminUser(from) /\ ~Admin(g)!PutFails(from)
  BY <1>1 DEF Admin!useUpdateAdminUser, Admin!PutFails
<1>5. ~Admin(g)!Serve /\ ~Admin(g)!fetchAdminUsers /\ ~Admin(g)!ListFails /\ ~Admin(g)!submit
      /\ ~Admin(g)!onOpenChange /\ ~Admin(g)!load_users
  BY <1>1 DEF Admin!Serve, Admin!fetchAdminUsers, Admin!ListFails, Admin!submit,
     Admin!updateAdminUser, Admin!onOpenChange, Admin!load_users
<1>6. \A x : ~Admin(g)!createUser(x) /\ ~Admin(g)!onEdit(x) /\ ~Admin(g)!setDisplayName(x)
             /\ ~Admin(g)!addGroup(x) /\ ~Admin(g)!removeGroup(x)
  BY <1>1 DEF Admin!createUser, Admin!onEdit, Admin!setDisplayName, Admin!addGroup,
     Admin!removeGroup, Admin!Edit, Admin!updateAdminUser
<1>7. \A x, y : ~Admin(g)!toggle(x, y)
  BY <1>1 DEF Admin!toggle, Admin!updateAdminUser
<1>8. \A x, y : ~Admin(g)!OlderPut(x, y)
  BY <1>1 DEF Admin!OlderPut
<1> QED BY <1>1, <1>2, <1>3, <1>4, <1>5, <1>6, <1>7, <1>8 DEF Admin!Next, Admin!Answers,
     Admin!set_active, Admin!set_admin, Admin!prompt_add_group, Admin!remove_group, Admin!add_user

\* What a step does to the change of a row, when it does not begin, make or end it.
UserRowKept ==
  \/ put'["row"] = put["row"]
  \/ /\ put["row"] # None /\ put["row"].state = "sent" /\ put'["row"].state = "refused"
     /\ put'["row"].email = put["row"].email

\* Such a step, when it leaves the users alone.
LEMMA ToldOfSameUsers ==
  ASSUME NEW g, Admin(g)!TypeOK, Admin(g)!UsersStay, Admin(g)!ToldOrUnderWay,
         users' = users, UserRowKept, \A e \in g.Emails : told'[e] \in {told[e], NoData},
         request' \in {request, None, Sent, Refused, users},
         data' = data \/ (data' = request /\ request \notin {None, Sent, Refused})
  PROVE  Admin(g)!UsersStay' /\ Admin(g)!ToldOrUnderWay'
<1>1. \A e \in g.Emails : users[e] = NoUser =>
        /\ told'[e] = NoData
        /\ data' # NoData => data'[e] = NoUser
        /\ request' \notin {None, Sent, Refused} => request'[e] = NoUser
  BY DEF Admin!UsersStay
<1>2. put'["row"] # None => users[put'["row"].email] # NoUser
  BY DEF UserRowKept, Admin!UsersStay
<1>3. Admin(g)!UsersStay'
  BY <1>1, <1>2 DEF Admin!UsersStay
<1>4. Admin(g)!settingAdmin \/ Admin(g)!settingAdmin' => put'["row"] = put["row"]
  BY DEF UserRowKept, Admin!settingAdmin
<1>5. /\ Admin(g)!settingAdmin' <=> Admin(g)!settingAdmin
      /\ Admin(g)!settingAdmin => put'["row"] = put["row"]
  BY <1>4 DEF Admin!settingAdmin
<1>6. ASSUME NEW e \in g.Emails, told'[e] # NoData, ~(Admin(g)!settingAdmin' /\ put'["row"].email = e)
      PROVE  users'[e].is_admin = told'[e]
  <2>1. told'[e] = told[e] /\ told[e] # NoData /\ ~(Admin(g)!settingAdmin /\ put["row"].email = e)
    BY <1>5, <1>6
  <2> QED BY <2>1 DEF Admin!ToldOrUnderWay
<1>7. Admin(g)!settingAdmin' => users'[put'["row"].email].is_admin = put'["row"].update["is_admin"]
  BY <1>5 DEF Admin!ToldOrUnderWay
<1> QED BY <1>3, <1>6, <1>7 DEF Admin!ToldOrUnderWay

\* What was sent is not taken for nothing.
LEMMA ServedIsSome ==
  ASSUME NEW g, Admin(g)!AdminAssumption, NEW p, Admin(g)!IsChange(p)
  PROVE  [p EXCEPT !.state = "served"] # None
<1> DEFINE q == [p EXCEPT !.state = "served"]
           values == Admin(g)!DisplayNames \cup (Admin(g)!Groups \cup BOOLEAN)
<1>1. \A f \in DOMAIN p.update : p.update[f] \in values
  BY DEF Admin!IsChange, Admin!IsUpdate, Admin!Fields
<1>2. p.update \in [DOMAIN p.update -> values]
  BY <1>1 DEF Admin!IsChange, Admin!IsUpdate
<1>3. DOMAIN p.update \in SUBSET Admin(g)!Fields
  BY DEF Admin!IsChange, Admin!IsUpdate
<1>4. p.update \in Admin(g)!Updates
  BY <1>2, <1>3 DEF Admin!Updates
<1>5. q \in [email : g.Emails, update : {p.update}, state : {"sent", "served", "refused"},
             heard : BOOLEAN, touched : SUBSET {"display_name", "groups"}]
  BY DEF Admin!IsChange
<1>6. q \in Admin(g)!Changes
  BY <1>4, <1>5 DEF Admin!Changes
<1> QED BY <1>6 DEF Admin!AdminAssumption

LEMMA ToldStep ==
  ASSUME NEW g, Admin(g)!AdminAssumption, Admin(g)!TypeOK, ~g.OtherAdmin,
         Admin(g)!UsersStay, Admin(g)!OnlyRowsSetAdmin, Admin(g)!ToldOrUnderWay, Admin(g)!Next
  PROVE  Admin(g)!UsersStay' /\ Admin(g)!OnlyRowsSetAdmin' /\ Admin(g)!ToldOrUnderWay'
<1> DEFINE Kept == Admin(g)!UsersStay' /\ Admin(g)!ToldOrUnderWay'
           Only == Admin(g)!OnlyRowsSetAdmin'
<1> USE DEF Admin!dialog, Admin!list
<1>p. /\ put = [f \in Admin(g)!From |-> put[f]] /\ Admin(g)!From = {"row", "new", "dialog"}
      /\ \A f \in Admin(g)!From : put[f] # None => Admin(g)!IsChange(put[f])
  BY DEF Admin!TypeOK, Admin!From
<1>o. ASSUME \A f \in {"new", "dialog"} :
               \/ put'[f] = put[f] \/ put'[f] = None
               \/ (put[f] # None /\ put'[f].update = put[f].update)
      PROVE  Only
  BY <1>o DEF Admin!OnlyRowsSetAdmin
<1>k. ASSUME users' = users, UserRowKept, \A e \in g.Emails : told'[e] \in {told[e], NoData},
             request' \in {request, None, Sent, Refused, users},
             data' = data \/ (data' = request /\ request \notin {None, Sent, Refused})
      PROVE  Kept
  BY <1>k, ToldOfSameUsers
<1>s. ASSUME UNCHANGED <<users, put, told, request, data>> PROVE Kept /\ Only
  BY <1>s, <1>k, <1>o DEF UserRowKept
<1>t. told' = told => \A e \in g.Emails : told'[e] \in {told[e], NoData}
  OBVIOUS
<1>1. ASSUME Admin(g)!Serve \/ Admin(g)!fetchAdminUsers PROVE Kept /\ Only
  BY <1>1, <1>k, <1>o, <1>t DEF Admin!Serve, Admin!fetchAdminUsers, UserRowKept
<1>2. ASSUME Admin(g)!ListFails PROVE Kept /\ Only
  <2>1. put'["row"] = put["row"] /\ put'["new"] = put["new"]
        /\ (put'["dialog"] = put["dialog"]
              \/ (put["dialog"] # None /\ put'["dialog"].update = put["dialog"].update))
    BY <1>2, <1>p DEF Admin!ListFails, Admin!IsChange
  <2> QED BY <1>2, <2>1, <1>k, <1>o, <1>t DEF Admin!ListFails, UserRowKept
<1>3. ASSUME NEW from \in Admin(g)!From, Admin(g)!ServePut(from) PROVE Kept /\ Only
  <2> DEFINE p == put[from]
  <2>1. /\ p # None /\ Admin(g)!IsChange(p) /\ p.state = "sent"
        /\ UNCHANGED <<told, request, data>>
    BY <1>3, <1>p DEF Admin!ServePut
  <2>2. /\ \A f \in Admin(g)!From \ {from} : put'[f] = put[f]
        /\ put'[from].update = p.update /\ put'[from].email = p.email
        /\ put'[from].state = IF Admin(g)!refused THEN "refused" ELSE "served"
    BY <1>3, <1>p, <2>1 DEF Admin!ServePut, Admin!IsChange
  <2>3. Only
    BY <2>1, <2>2, <1>p, <1>o
  <2>4. CASE Admin(g)!refused
    BY <1>3, <1>k, <1>p, <1>t, <2>1, <2>2, <2>3, <2>4 DEF UserRowKept, Admin!ServePut
  <2>5. CASE ~Admin(g)!refused
    <3>1. UserUpdated(g, users, p.email, p.update, users')
      <4>1. p.email \in g.Emails /\ Admin(g)!IsUpdate(p.update) /\ users \in Admin(g)!AdminUsers
        BY <2>1 DEF Admin!IsChange, Admin!TypeOK
      <4>2. users' = Admin(g)!admin_update_user(users, p.email, p.update)
        BY <1>3, <2>5 DEF Admin!ServePut
      <4> QED BY <4>1, <4>2, UpdateIsMade
    <3>2. users'[p.email] # NoUser /\ p.email \in g.Emails
          /\ \A e \in g.Emails \ {p.email} : users'[e] = users[e]
      BY <2>1, <3>1 DEF UserUpdated, Admin!IsChange
    <3>3. put'["row"] # None => put["row"] # None /\ put'["row"].email = put["row"].email
      BY <1>p, <2>1, <2>2
    <3>4. put["row"] # None => put["row"].email \in g.Emails
      BY <1>p DEF Admin!IsChange
    <3>5. Admin(g)!UsersStay'
      <4>1. \A e \in g.Emails : users'[e] = NoUser => users[e] = NoUser
        BY <3>2
      <4>2. put'["row"] # None => users'[put'["row"].email] # NoUser
        BY <3>2, <3>3, <3>4 DEF Admin!UsersStay
      <4> QED BY <4>1, <4>2, <2>1 DEF Admin!UsersStay
    <3>6. CASE from = "row"
      <4>1. ~Admin(g)!settingAdmin /\ put'["row"].state = "served"
            /\ put'["row"].update = p.update /\ put'["row"].email = p.email
        BY <2>1, <2>2, <2>5, <3>6 DEF Admin!settingAdmin
      <4>2. "is_admin" \in DOMAIN p.update => users'[p.email].is_admin = p.update["is_admin"]
        BY <3>1 DEF UserUpdated
      <4>3. "is_admin" \notin DOMAIN p.update => users'[p.email].is_admin = users[p.email].is_admin
        <5>1. users[p.email] # NoUser
          BY <2>1, <3>6 DEF Admin!UsersStay
        <5>2. "is_admin" \in Admin(g)!Fields
          BY DEF Admin!Fields
        <5>3. users'[p.email].is_admin = users'[p.email]["is_admin"]
              /\ users[p.email].is_admin = users[p.email]["is_admin"]
          OBVIOUS
        <5> QED BY <3>1, <5>1, <5>2, <5>3 DEF UserUpdated
      <4>4. \A e \in g.Emails : told[e] # NoData => users[e].is_admin = told[e]
        BY <4>1 DEF Admin!ToldOrUnderWay
      <4>5. Admin(g)!settingAdmin' => "is_admin" \in DOMAIN p.update
        BY <4>1 DEF Admin!settingAdmin
      <4>6. put'["row"] # None \/ ~Admin(g)!settingAdmin'
        BY DEF Admin!settingAdmin
      <4>7. put'["row"] # None
        <5>1. put'["row"] = [p EXCEPT !.state = "served"]
          BY <1>3, <1>p, <2>5, <3>6 DEF Admin!ServePut
        <5> QED BY <5>1, <2>1, ServedIsSome
      <4>8. "is_admin" \in DOMAIN p.update => Admin(g)!settingAdmin'
        BY <4>1, <4>7 DEF Admin!settingAdmin
      <4>9. ASSUME NEW e \in g.Emails, told'[e] # NoData, ~(Admin(g)!settingAdmin' /\ put'["row"].email = e)
            PROVE users'[e].is_admin = told'[e]
        BY <4>9, <4>1, <4>3, <4>4, <4>8, <3>2, <2>1
      <4>10. Admin(g)!settingAdmin' => users'[put'["row"].email].is_admin = put'["row"].update["is_admin"]
        BY <4>1, <4>2, <4>5
      <4> QED BY <2>3, <3>5, <4>9, <4>10 DEF Admin!ToldOrUnderWay
    <3>7. CASE from # "row"
      <4>1. put'["row"] = put["row"] /\ from \in {"new", "dialog"}
        BY <1>p, <2>2, <3>7
      <4>2. \A e \in g.Emails : users[e] # NoUser => users'[e].is_admin = users[e].is_admin
        <5>1. "is_admin" \notin DOMAIN p.update
          BY <2>1, <4>1 DEF Admin!OnlyRowsSetAdmin
        <5>2. "is_admin" \in Admin(g)!Fields
          BY DEF Admin!Fields
        <5>3. users[p.email] # NoUser => users'[p.email]["is_admin"] = users[p.email]["is_admin"]
          BY <3>1, <5>1, <5>2 DEF UserUpdated
        <5> QED BY <3>2, <5>3
      <4>3. Admin(g)!settingAdmin' <=> Admin(g)!settingAdmin
        BY <4>1 DEF Admin!settingAdmin
      <4>4. Admin(g)!settingAdmin => users'[put["row"].email].is_admin = put["row"].update["is_admin"]
        BY <3>4, <4>2 DEF Admin!ToldOrUnderWay, Admin!UsersStay, Admin!settingAdmin
      <4>5. ASSUME NEW e \in g.Emails, told[e] # NoData, ~(Admin(g)!settingAdmin /\ put["row"].email = e)
            PROVE  users'[e].is_admin = told[e]
        BY <4>2, <4>5 DEF Admin!ToldOrUnderWay, Admin!UsersStay
      <4> QED BY <2>1, <2>3, <3>5, <4>1, <4>3, <4>4, <4>5 DEF Admin!ToldOrUnderWay
    <3> QED BY <3>6, <3>7
  <2> QED BY <2>4, <2>5
<1>4. ASSUME NEW from \in Admin(g)!From, Admin(g)!forget(from) PROVE
        /\ \A f \in Admin(g)!From : put'[f] = put[f] \/ put'[f] = None
        /\ put'[from] = None /\ (from # "row" => put'["row"] = put["row"])
        /\ Only
  BY <1>4, <1>p, <1>o DEF Admin!forget
<1>5. ASSUME NEW from \in Admin(g)!From, Admin(g)!forget(from), put[from] # None, users' = users,
             from = "row" /\ Admin(g)!settingAdmin =>
               told'[put["row"].email] \in {put["row"].update["is_admin"], NoData},
             \A e \in g.Emails : (from = "row" => e # put["row"].email) => told'[e] \in {told[e], NoData},
             from = "row" /\ ~Admin(g)!settingAdmin => told'[put["row"].email] \in {told[put["row"].email], NoData},
             data' = data, request' \in {request, Sent}
      PROVE  Kept /\ Only
  <2>1. CASE from # "row"
    BY <1>4, <1>5, <1>k, <2>1 DEF UserRowKept
  <2>2. CASE from = "row"
    <3>1. put'["row"] = None /\ Admin(g)!IsChange(put["row"]) /\ put["row"].email \in g.Emails
          /\ users[put["row"].email] # NoUser /\ ~Admin(g)!settingAdmin'
      BY <1>4, <1>5, <1>p, <2>2 DEF Admin!IsChange, Admin!UsersStay, Admin!settingAdmin
    <3>2. \A e \in g.Emails : users[e] = NoUser => told'[e] = NoData
      BY <1>5, <2>2, <3>1 DEF Admin!UsersStay
    <3>3. Admin(g)!UsersStay'
      BY <1>5, <3>1, <3>2 DEF Admin!UsersStay
    <3>4. ASSUME NEW e \in g.Emails, told'[e] # NoData PROVE users[e].is_admin = told'[e]
      <4>1. CASE e # put["row"].email
        BY <1>5, <2>2, <3>4, <4>1 DEF Admin!ToldOrUnderWay
      <4>2. CASE e = put["row"].email
        BY <1>5, <2>2, <3>4, <4>2 DEF Admin!ToldOrUnderWay
      <4> QED BY <4>1, <4>2
    <3> QED BY <1>4, <1>5, <3>1, <3>3, <3>4 DEF Admin!ToldOrUnderWay
  <2> QED BY <2>1, <2>2
<1>6. ASSUME NEW from \in Admin(g)!From, Admin(g)!useUpdateAdminUser(from) PROVE Kept /\ Only
  <2> DEFINE p == put[from]
  <2>1. Admin(g)!IsChange(p) /\ p # None /\ p.state = "served" /\ Admin(g)!forget(from)
        /\ users' = users /\ data' = data /\ request' = Sent
    BY <1>6, <1>p DEF Admin!useUpdateAdminUser, Admin!invalidateQueries
  <2>2. told' = IF from = "row" /\ "is_admin" \in DOMAIN p.update
                  THEN [told EXCEPT ![p.email] = IF last = from THEN p.update["is_admin"] ELSE NoData]
                  ELSE told
    BY <1>6 DEF Admin!useUpdateAdminUser
  <2>3. told \in [g.Emails -> BOOLEAN \cup {NoData}]
    BY DEF Admin!TypeOK
  <2>4. from = "row" => (Admin(g)!settingAdmin <=> "is_admin" \in DOMAIN p.update)
    BY <2>1 DEF Admin!settingAdmin
  <2>5. p.email \in g.Emails
    BY <2>1 DEF Admin!IsChange
  <2> QED BY <1>5, <2>1, <2>2, <2>3, <2>4, <2>5
<1>7. ASSUME NEW from \in Admin(g)!From, Admin(g)!PutFails(from) PROVE Kept /\ Only
  <2> DEFINE p == put[from]
  <2>1. Admin(g)!IsChange(p) /\ p # None /\ Admin(g)!forget(from) /\ users' = users /\ data' = data
        /\ request' = request /\ p.email \in g.Emails
    BY <1>7, <1>p DEF Admin!PutFails, Admin!IsChange
  <2>2. (p.state = "refused" /\ told' = told) \/ told' = [told EXCEPT ![p.email] = NoData]
    BY <1>7 DEF Admin!PutFails
  <2>3. told \in [g.Emails -> BOOLEAN \cup {NoData}]
    BY DEF Admin!TypeOK
  <2>4. from = "row" /\ Admin(g)!settingAdmin => told' = [told EXCEPT ![p.email] = NoData]
    BY <2>2 DEF Admin!settingAdmin
  <2> QED BY <1>5, <2>1, <2>2, <2>3, <2>4
<1>8. ASSUME Admin(g)!submit PROVE Kept /\ Only
  <2>1. put'["row"] = put["row"] /\ put'["new"] = put["new"]
        /\ put'["dialog"].update = [f \in Admin(g)!changed |-> form[f]]
        /\ UNCHANGED <<users, told, request, data>>
    BY <1>8, <1>p DEF Admin!submit, Admin!updateAdminUser
  <2>2. "is_admin" \notin DOMAIN put'["dialog"].update
    BY <2>1 DEF Admin!changed
  <2> QED BY <1>k, <1>t, <2>1, <2>2 DEF UserRowKept, Admin!OnlyRowsSetAdmin
<1>9. ASSUME Admin(g)!onOpenChange PROVE Kept /\ Only
  BY <1>9, <1>s DEF Admin!onOpenChange
<1>10. ASSUME NEW e \in g.Emails, Admin(g)!createUser(e) PROVE Kept /\ Only
  <2>1. put'["row"] = put["row"] /\ put'["dialog"] = put["dialog"]
        /\ put'["new"].update = Admin(g)!setting("is_active", TRUE)
        /\ UNCHANGED <<users, told, request, data>>
    BY <1>10, <1>p DEF Admin!createUser, Admin!updateAdminUser
  <2>2. "is_admin" \notin DOMAIN put'["new"].update
    BY <2>1 DEF Admin!setting
  <2> QED BY <1>k, <1>t, <2>1, <2>2 DEF UserRowKept, Admin!OnlyRowsSetAdmin
<1>11. ASSUME NEW e \in g.Emails, Admin(g)!onEdit(e) PROVE Kept /\ Only
  BY <1>11, <1>s DEF Admin!onEdit
<1>12. ASSUME NEW e \in g.Emails, NEW f, Admin(g)!toggle(e, f) PROVE Kept /\ Only
  <2>1. /\ put["row"] = None /\ put'["dialog"] = put["dialog"] /\ put'["new"] = put["new"]
        /\ put'["row"].email = e /\ put'["row"].state = "sent"
        /\ UNCHANGED <<users, told, request, data>>
    BY <1>12, <1>p DEF Admin!toggle, Admin!updateAdminUser
  <2>2. users[e] # NoUser
    BY <1>12 DEF Admin!toggle, Admin!UserRow, Admin!Rows, Admin!UsersStay
  <2>3. Admin(g)!UsersStay'
    BY <2>1, <2>2 DEF Admin!UsersStay
  <2>4. ~Admin(g)!settingAdmin /\ ~Admin(g)!settingAdmin'
    BY <2>1 DEF Admin!settingAdmin
  <2> QED BY <1>o, <2>1, <2>3, <2>4 DEF Admin!ToldOrUnderWay
<1>13. ASSUME NEW f, NEW v, Admin(g)!Edit(f, v) PROVE Kept /\ Only
  BY <1>13, <1>s DEF Admin!Edit
<1>14. \A e, update : ~Admin(g)!OlderPut(e, update)
  BY DEF Admin!OlderPut, Admin!Others
<1> HIDE DEF Kept, Only
<1>15. Kept /\ Only
  BY <1>1, <1>2, <1>3, <1>6, <1>7, <1>8, <1>9, <1>10, <1>11, <1>12, <1>13, <1>14
  DEF Admin!Next, Admin!Answers, Admin!set_active, Admin!set_admin, Admin!prompt_add_group,
      Admin!remove_group, Admin!add_user, Admin!load_users, Admin!setDisplayName,
      Admin!addGroup, Admin!removeGroup
<1> QED BY <1>15 DEF Kept, Only

LEMMA UsersInit ==
  ASSUME NEW g, Admin(g)!AdminAssumption, Admin(g)!Init
  PROVE  Admin(g)!DialogInv /\ Admin(g)!ToldInv
<1> USE DEF Admin!Init
<1>0. <<>> \in Admin(g)!Groups
  <2>1. <<>> \in Seq(g.GroupNames) /\ DOMAIN <<>> = {}
    OBVIOUS
  <2> QED BY <2>1 DEF Admin!Groups, Admin!IsInjective
<1>1. Admin(g)!NoForm \in [display_name : Admin(g)!DisplayNames \cup {""}, groups : Admin(g)!Groups]
  BY <1>0 DEF Admin!NoForm
<1>m. g.InitUsers \in Admin(g)!AdminUsers
      /\ g.MaxMoves \in Nat /\ g.MaxOther \in Nat /\ g.MaxFailures \in Nat
  BY DEF Admin!AdminAssumption
<1>2. Admin(g)!TypeOK
  <2>1. 0 \in 0..g.MaxMoves /\ 0 \in 0..g.MaxOther /\ 0 \in 0..g.MaxFailures
    BY <1>m
  <2>2. \A f \in Admin(g)!From : put[f] = None
    OBVIOUS
  <2>3. [e \in g.Emails |-> NoData] \in [g.Emails -> BOOLEAN \cup {NoData}]
    OBVIOUS
  <2> QED BY <1>1, <1>m, <2>1, <2>2, <2>3 DEF Admin!TypeOK
<1>3. Admin(g)!FormKept /\ Admin(g)!SendsTouched
  BY DEF Admin!FormKept, Admin!SendsTouched, Admin!From
<1>4. Admin(g)!ToldInv
  BY DEF Admin!ToldInv, Admin!UsersStay, Admin!OnlyRowsSetAdmin, Admin!ToldOrUnderWay,
     Admin!settingAdmin, Admin!From
<1> QED BY <1>2, <1>3, <1>4 DEF Admin!DialogInv

LEMMA UsersStep ==
  ASSUME NEW g, Admin(g)!AdminAssumption, Admin(g)!DialogInv, Admin(g)!ToldInv,
         [Admin(g)!Next]_(Admin(g)!vars)
  PROVE  Admin(g)!DialogInv' /\ Admin(g)!ToldInv'
<1>1. CASE Admin(g)!Next
  <2>1. Admin(g)!ToldInv'
    BY <1>1, ToldStep DEF Admin!ToldInv, Admin!DialogInv
  <2> QED BY <1>1, <2>1, UsersType, DialogStep DEF Admin!DialogInv
<1>2. CASE UNCHANGED Admin(g)!vars
  <2> USE <1>2 DEF Admin!vars, Admin!list, Admin!dialog, Admin!budgets
  <2>1. Admin(g)!TypeOK'
    BY DEF Admin!DialogInv, Admin!TypeOK
  <2>2. Admin(g)!FormKept' /\ Admin(g)!SendsTouched'
    BY DEF Admin!DialogInv, Admin!FormKept, Admin!SendsTouched
  <2>3. Admin(g)!ToldInv'
    BY DEF Admin!ToldInv, Admin!UsersStay, Admin!OnlyRowsSetAdmin, Admin!ToldOrUnderWay,
       Admin!settingAdmin
  <2> QED BY <2>1, <2>2, <2>3 DEF Admin!DialogInv
<1> QED BY <1>1, <1>2

LEMMA UsersHold ==
  ASSUME NEW g, Admin(g)!DialogInv, Admin(g)!ToldInv
  PROVE  /\ Admin(g)!TypeOK /\ Admin(g)!FormIsOfItsUser
         /\ ~g.OtherAdmin => Admin(g)!WhatWasSaidIsSo
<1>1. Admin(g)!FormIsOfItsUser
  BY DEF Admin!DialogInv, Admin!FormKept, Admin!FormIsOfItsUser, Admin!EditUserDialog
<1>2. ~g.OtherAdmin => Admin(g)!WhatWasSaidIsSo
  BY DEF Admin!ToldInv, Admin!ToldOrUnderWay, Admin!WhatWasSaidIsSo, Admin!settingAdmin
<1> QED BY <1>1, <1>2 DEF Admin!DialogInv

-----------------------------------------------------------------------------
(* The tab of the notes.                                                    *)

\* The effects of a render give addresses, and a toast for one that is dropped.
LEMMA TabEffects ==
  ASSUME NEW g, Tab(g)!TypeOK, NEW u \in Tab(g)!Urls, NEW l, NEW lf, NEW k, NEW kf, NEW due,
         Tab(g)!Effects(u, l, lf, k, kf, due)
  PROVE  /\ url' \in Tab(g)!Urls
         /\ told' \in [note : g.Notes \cup {NoNote}, failed : BOOLEAN]
         /\ told' = told \/ told' = Tab(g)!NoToast
              \/ (told' = Tab(g)!Reason(u, kf) /\ Tab(g)!Dropped(u, l, lf, k, kf))
         /\ wanted' \in Tab(g)!Urls /\ raced' \in BOOLEAN
         /\ \/ UNCHANGED <<url, wanted, raced>>
            \/ /\ url' = [u EXCEPT !.addr = NoNote] /\ wanted' = [wanted EXCEPT !.addr = NoNote]
               /\ raced' = (raced \/ url # u)
<1>0. wanted \in [q : Tab(g)!Texts, type : Tab(g)!EntityTypes, addr : g.Notes \cup {NoNote}]
      /\ raced \in BOOLEAN
  BY DEF Tab!TypeOK, Tab!Urls
<1>1. u \in [q : Tab(g)!Texts, type : Tab(g)!EntityTypes, addr : g.Notes \cup {NoNote}]
  BY DEF Tab!Urls
<1>2. CASE due /\ Tab(g)!Dropped(u, l, lf, k, kf)
  <2>1. /\ url' = [u EXCEPT !.addr = NoNote] /\ told' = Tab(g)!Reason(u, kf)
        /\ wanted' = [wanted EXCEPT !.addr = NoNote] /\ raced' = (raced \/ url # u)
    BY <1>2 DEF Tab!Effects
  <2>2. url' \in Tab(g)!Urls /\ wanted' \in Tab(g)!Urls
    BY <1>0, <1>1, <2>1 DEF Tab!Urls
  <2>3. told' \in [note : g.Notes \cup {NoNote}, failed : BOOLEAN]
    BY <1>1, <2>1 DEF Tab!Reason
  <2>4. raced' \in BOOLEAN
    BY <2>1
  <2> QED BY <1>2, <2>1, <2>2, <2>3, <2>4
<1>3. CASE ~(due /\ Tab(g)!Dropped(u, l, lf, k, kf))
  <2>1. UNCHANGED <<url, wanted, raced>> /\ (told' = told \/ told' = Tab(g)!NoToast)
    BY <1>3 DEF Tab!Effects
  <2>2. Tab(g)!NoToast \in [note : g.Notes \cup {NoNote}, failed : BOOLEAN]
    BY DEF Tab!NoToast
  <2>3. url \in Tab(g)!Urls /\ told \in [note : g.Notes \cup {NoNote}, failed : BOOLEAN]
        /\ wanted \in Tab(g)!Urls /\ raced \in BOOLEAN
    BY DEF Tab!TypeOK
  <2> QED BY <2>1, <2>2, <2>3
<1> QED BY <1>2, <1>3

LEMMA TabLooks ==
  ASSUME NEW g, Tab(g)!TypeOK, NEW u \in Tab(g)!Urls, NEW l, Tab(g)!useHostNote(u, l)
  PROVE  /\ lookAsked' \in BOOLEAN /\ lookFailed' \subseteq g.Notes
         /\ lookAsked' => Tab(g)!hostLookupEnabled(u, l)
  BY DEF Tab!useHostNote, Tab!TypeOK

LEMMA TabType ==
  ASSUME NEW g, Tab(g)!ExplorerAssumption, Tab(g)!TypeOK, Tab(g)!Next
  PROVE  Tab(g)!TypeOK'
<1> DEFINE Kept == Tab(g)!TypeOK'
<1> SUFFICES Kept
  OBVIOUS
<1> USE DEF Tab!server, Tab!answers, Tab!OnlyUrl
<1>m. g.MaxMoves \in Nat /\ g.MaxFailures \in Nat /\ g.MaxWrites \in Nat /\ g.Links \subseteq Tab(g)!Urls
  BY DEF Tab!ExplorerAssumption
<1>b. ASSUME Tab(g)!Moves PROVE moves' \in 0..g.MaxMoves
  BY <1>b, <1>m DEF Tab!Moves, Tab!TypeOK
<1>k. ASSUME NEW u \in Tab(g)!Urls PROVE Tab(g)!keyOf(u) \in Tab(g)!Keys
  BY <1>k DEF Tab!keyOf, Tab!Urls, Tab!Keys
<1>l. ASSUME UNCHANGED <<shown, list, lookAsked>> PROVE lookAsked' => Tab(g)!hostLookupEnabled(shown', list')
  BY <1>l DEF Tab!TypeOK
<1>1. ASSUME Tab(g)!Render PROVE Kept
  <2>1. url \in Tab(g)!Urls /\ Tab(g)!useHostNote(url, list) /\ shown' = url /\ list' = list
    BY <1>1 DEF Tab!Render, Tab!TypeOK
  <2>2. /\ lookAsked' \in BOOLEAN /\ lookFailed' \subseteq g.Notes
        /\ lookAsked' => Tab(g)!hostLookupEnabled(shown', list')
    BY <2>1, TabLooks
  <2>3. Tab(g)!Effects(url, list, listFailed', look, lookFailed', TRUE)
    BY <1>1 DEF Tab!Render
  <2>4. url' \in Tab(g)!Urls /\ told' \in [note : g.Notes \cup {NoNote}, failed : BOOLEAN]
        /\ wanted' \in Tab(g)!Urls /\ raced' \in BOOLEAN
    BY <2>1, <2>3, TabEffects
  <2>5. searchInput' \in Tab(g)!Texts
    BY <1>1, <2>1 DEF Tab!Render, Tab!SyncInput, Tab!TypeOK, Tab!Urls
  <2>6. listAsked' \in BOOLEAN /\ listFailed' \subseteq Tab(g)!Keys
    BY <1>1 DEF Tab!Render, Tab!TypeOK
  <2> QED BY <1>1, <2>1, <2>2, <2>4, <2>5, <2>6 DEF Tab!Render, Tab!TypeOK
<1>2. ASSUME NEW t \in Tab(g)!Texts, Tab(g)!Type(t) PROVE Kept
  <2>1. wanted' \in Tab(g)!Urls /\ raced' \in BOOLEAN
    BY <1>2 DEF Tab!Type, Tab!TypeOK, Tab!Urls
  <2> QED BY <1>2, <1>b, <1>l, <2>1 DEF Tab!Type, Tab!TypeOK
<1>w. ASSUME NEW u \in Tab(g)!Urls, Tab(g)!Wants(u) PROVE wanted' \in Tab(g)!Urls /\ raced' \in BOOLEAN
  BY <1>w DEF Tab!Wants, Tab!TypeOK, Tab!Urls
<1>u. ASSUME NEW u \in Tab(g)!Urls, url' = u, Tab(g)!OnlyUrl, wanted' \in Tab(g)!Urls,
             raced' \in BOOLEAN, moves' \in 0..g.MaxMoves,
             past' \in Seq(Tab(g)!Urls)
      PROVE  Kept
  BY <1>u, <1>l DEF Tab!TypeOK
<1>a. ASSUME NEW q \in Tab(g)!Texts, NEW t \in Tab(g)!EntityTypes, NEW n \in g.Notes \cup {NoNote}
      PROVE  /\ [shown EXCEPT !.q = q] \in Tab(g)!Urls /\ [shown EXCEPT !.type = t] \in Tab(g)!Urls
             /\ [shown EXCEPT !.addr = n] \in Tab(g)!Urls
  BY <1>a DEF Tab!TypeOK, Tab!Urls
<1>p. Append(past, url) \in Seq(Tab(g)!Urls) /\ url \in Tab(g)!Urls /\ past \in Seq(Tab(g)!Urls)
      /\ searchInput \in Tab(g)!Texts
  BY DEF Tab!TypeOK
<1>3. ASSUME Tab(g)!Debounce PROVE Kept
  <2>1. Tab(g)!searched \in Tab(g)!Urls
    BY <1>a, <1>p DEF Tab!searched, Tab!EntityTypes
  <2>2. /\ url' = Tab(g)!searched /\ Tab(g)!OnlyUrl /\ wanted' = wanted /\ moves' = moves
        /\ past' = past /\ raced' = (raced \/ url # shown)
    BY <1>3 DEF Tab!Debounce, Tab!Replace
  <2>3. moves' \in 0..g.MaxMoves /\ wanted' \in Tab(g)!Urls /\ raced' \in BOOLEAN
    BY <2>2 DEF Tab!TypeOK
  <2> QED BY <1>p, <1>u, <2>1, <2>2, <2>3
<1>4. ASSUME NEW t \in {"all", "host"}, Tab(g)!setEntityType(t) PROVE Kept
  <2>1. [shown EXCEPT !.type = t] \in Tab(g)!Urls
    BY <1>a DEF Tab!Texts, Tab!EntityTypes
  <2> QED BY <1>4, <2>1, <1>b, <1>p, <1>u, <1>w DEF Tab!setEntityType, Tab!Push
<1>5. ASSUME NEW n \in g.Notes, Tab(g)!onSelectNote(n) PROVE Kept
  <2>1. [shown EXCEPT !.addr = n] \in Tab(g)!Urls
    BY <1>a DEF Tab!Texts, Tab!EntityTypes
  <2> QED BY <1>5, <2>1, <1>b, <1>p, <1>u, <1>w DEF Tab!onSelectNote, Tab!Push
<1>6. ASSUME Tab(g)!closeSheet PROVE Kept
  <2>1. [shown EXCEPT !.addr = NoNote] \in Tab(g)!Urls
    BY <1>a DEF Tab!Texts, Tab!EntityTypes
  <2> QED BY <1>6, <2>1, <1>b, <1>p, <1>u, <1>w DEF Tab!closeSheet, Tab!Replace
<1>7. ASSUME Tab(g)!Back PROVE Kept
  <2>1. past # <<>> /\ url' = past[Len(past)] /\ past' = SubSeq(past, 1, Len(past) - 1)
        /\ Tab(g)!OnlyUrl /\ Tab(g)!Wants(past[Len(past)]) /\ Tab(g)!Moves
    BY <1>7 DEF Tab!Back
  <2>2. url' \in Tab(g)!Urls /\ past' \in Seq(Tab(g)!Urls)
    BY <1>p, <2>1
  <2> QED BY <1>b, <1>u, <1>w, <2>1, <2>2
<1>8. ASSUME NEW u \in g.Links, Tab(g)!FollowLink(u) PROVE Kept
  BY <1>8, <1>b, <1>m, <1>p, <1>u, <1>w DEF Tab!FollowLink, Tab!Push
<1>9. ASSUME Tab(g)!Retry \/ Tab(g)!Reconnect PROVE Kept
  <2>1. listAsked' = TRUE /\ listFailed' \subseteq Tab(g)!Keys
        /\ UNCHANGED <<url, shown, past, searchInput, list, look, lookFailed, lookAsked, told,
                       moves, failures, alive, writes, wanted, raced>>
    BY <1>9 DEF Tab!Retry, Tab!Reconnect, Tab!TypeOK
  <2> QED BY <1>l, <2>1 DEF Tab!TypeOK
<1>10. ASSUME NEW l \in [Tab(g)!Keys -> {NoData} \cup SUBSET g.Notes], NEW lf \in SUBSET Tab(g)!Keys,
              Tab(g)!Listed(l, lf), failures' \in 0..g.MaxFailures
       PROVE  Kept
  <2>1. shown \in Tab(g)!Urls /\ Tab(g)!useHostNote(shown, l)
    BY <1>10 DEF Tab!Listed, Tab!TypeOK
  <2>2. /\ lookAsked' \in BOOLEAN /\ lookFailed' \subseteq g.Notes
        /\ lookAsked' => Tab(g)!hostLookupEnabled(shown, l)
    BY <2>1, TabLooks
  <2>3. url' \in Tab(g)!Urls /\ told' \in [note : g.Notes \cup {NoNote}, failed : BOOLEAN]
        /\ wanted' \in Tab(g)!Urls /\ raced' \in BOOLEAN
    BY <1>10, <2>1, TabEffects DEF Tab!Listed
  <2> QED BY <1>10, <2>2, <2>3 DEF Tab!Listed, Tab!TypeOK
<1>11. ASSUME Tab(g)!ListAnswer PROVE Kept
  <2>1. failures' \in 0..g.MaxFailures /\ Tab(g)!keyOf(shown) \in Tab(g)!Keys
    BY <1>11, <1>k DEF Tab!ListAnswer, Tab!TypeOK
  <2>2. ASSUME NEW S \in Tab(g)!list_notes(Tab(g)!keyOf(shown))
        PROVE  [list EXCEPT ![Tab(g)!keyOf(shown)] = S] \in [Tab(g)!Keys -> {NoData} \cup SUBSET g.Notes]
    BY <2>2, <2>1 DEF Tab!list_notes, Tab!TypeOK
  <2>3. list \in [Tab(g)!Keys -> {NoData} \cup SUBSET g.Notes] /\ listFailed \subseteq Tab(g)!Keys
    BY DEF Tab!TypeOK
  <2>4. CASE shown.type # "other"
    <3>1. PICK S \in Tab(g)!list_notes(Tab(g)!keyOf(shown)) :
            Tab(g)!Listed([list EXCEPT ![Tab(g)!keyOf(shown)] = S], listFailed \ {Tab(g)!keyOf(shown)})
      BY <1>11, <2>4 DEF Tab!ListAnswer
    <3>2. listFailed \ {Tab(g)!keyOf(shown)} \in SUBSET Tab(g)!Keys
      BY <2>3
    <3> QED BY <1>10, <2>1, <2>2, <3>1, <3>2
  <2>5. CASE shown.type = "other"
    <3>1. listFailed \cup {Tab(g)!keyOf(shown)} \in SUBSET Tab(g)!Keys
      BY <2>1, <2>3
    <3>2. Tab(g)!Listed(list, listFailed \cup {Tab(g)!keyOf(shown)})
      BY <1>11, <2>5 DEF Tab!ListAnswer
    <3> QED BY <1>10, <2>1, <2>3, <3>1, <3>2
  <2> QED BY <2>4, <2>5
<1>f. ASSUME failures < g.MaxFailures PROVE failures + 1 \in 0..g.MaxFailures
  BY <1>f, <1>m DEF Tab!TypeOK
<1>12. ASSUME Tab(g)!ListFails PROVE Kept
  <2>1. list \in [Tab(g)!Keys -> {NoData} \cup SUBSET g.Notes] /\ listFailed \subseteq Tab(g)!Keys
        /\ Tab(g)!keyOf(shown) \in Tab(g)!Keys
    BY <1>k DEF Tab!TypeOK
  <2> QED BY <1>10, <1>12, <1>f, <2>1 DEF Tab!ListFails
<1>13. ASSUME NEW k \in [g.Notes -> {NoData, "found", "absent"}], NEW kf \in SUBSET g.Notes,
              Tab(g)!LookedUp(k, kf), failures' \in 0..g.MaxFailures
       PROVE  Kept
  <2>1. shown \in Tab(g)!Urls
    BY DEF Tab!TypeOK
  <2>2. url' \in Tab(g)!Urls /\ told' \in [note : g.Notes \cup {NoNote}, failed : BOOLEAN]
        /\ wanted' \in Tab(g)!Urls /\ raced' \in BOOLEAN
    BY <1>13, <2>1, TabEffects DEF Tab!LookedUp
  <2> QED BY <1>13, <2>2 DEF Tab!LookedUp, Tab!TypeOK
<1>s. lookAsked => shown.addr \in g.Notes
  BY DEF Tab!TypeOK, Tab!hostLookupEnabled, Tab!Urls
<1>14. ASSUME Tab(g)!LookAnswer PROVE Kept
  <2>1. look \in [g.Notes -> {NoData, "found", "absent"}] /\ lookFailed \subseteq g.Notes
        /\ failures' \in 0..g.MaxFailures
    BY <1>14 DEF Tab!LookAnswer, Tab!TypeOK
  <2> DEFINE k == [look EXCEPT ![shown.addr] = IF shown.addr \in alive THEN "found" ELSE "absent"]
  <2>2. k \in [g.Notes -> {NoData, "found", "absent"}] /\ lookFailed \ {shown.addr} \subseteq g.Notes
    BY <2>1
  <2>3. Tab(g)!LookedUp(k, lookFailed \ {shown.addr})
    BY <1>14 DEF Tab!LookAnswer
  <2> QED BY <1>13, <2>1, <2>2, <2>3
<1>15. ASSUME Tab(g)!LookFails PROVE Kept
  <2>1. look \in [g.Notes -> {NoData, "found", "absent"}] /\ lookFailed \subseteq g.Notes
    BY DEF Tab!TypeOK
  <2> QED BY <1>13, <1>15, <1>f, <1>s, <2>1 DEF Tab!LookFails
<1>16. ASSUME NEW n \in g.Notes, Tab(g)!Other(n) PROVE Kept
  <2>1. writes' \in 0..g.MaxWrites
    BY <1>16, <1>m DEF Tab!Other, Tab!TypeOK
  <2> QED BY <1>16, <1>l, <2>1 DEF Tab!Other, Tab!TypeOK
<1> HIDE DEF Kept
<1> QED BY <1>1, <1>2, <1>3, <1>4, <1>5, <1>6, <1>7, <1>8, <1>9, <1>11, <1>12, <1>14, <1>15, <1>16
        DEF Tab!Next

\* Going to an address from the rendered one leaves what is wanted on its way.
LEMMA TabWants ==
  ASSUME NEW g, Tab(g)!TypeOK, Tab(g)!WantedIsOnItsWay, NEW u \in Tab(g)!Urls,
         Tab(g)!Wants(u), url' = u, UNCHANGED <<shown, searchInput>>
  PROVE  Tab(g)!WantedIsOnItsWay'
<1>1. SUFFICES ASSUME ~raced' PROVE /\ url'.type = wanted'.type /\ url'.addr = wanted'.addr
                                    /\ \/ searchInput = wanted'.q /\ url'.q \in {shown.q, wanted'.q}
                                       \/ url'.q = wanted'.q /\ url'.q # shown.q
  BY DEF Tab!WantedIsOnItsWay
<1>2. u \in [q : Tab(g)!Texts, type : Tab(g)!EntityTypes, addr : g.Notes \cup {NoNote}]
  BY DEF Tab!Urls
<1>3. CASE u.q = shown.q
  <2>1. wanted' = [u EXCEPT !.q = searchInput]
    BY <1>3 DEF Tab!Wants
  <2> QED BY <1>2, <1>3, <2>1
<1>4. CASE u.q # shown.q
  BY <1>4 DEF Tab!Wants
<1> QED BY <1>3, <1>4

\* What is wanted stays on its way, and who is told of an absent note was told by an
\* answer.
LEMMA TabStep ==
  ASSUME NEW g, Tab(g)!ExplorerAssumption, Tab(g)!TabInv, [Tab(g)!Next]_(Tab(g)!vars)
  PROVE  Tab(g)!TabInv' /\ (~g.OthersCreate => Tab(g)!ToldOfMissingOnly)
<1> USE DEF Tab!server, Tab!answers, Tab!OnlyUrl
<1>t. Tab(g)!TypeOK /\ Tab(g)!WantedIsOnItsWay /\ Tab(g)!AbsentIsGone
  BY DEF Tab!TabInv
<1> DEFINE Kept == Tab(g)!WantedIsOnItsWay' /\ Tab(g)!AbsentIsGone'
                    /\ (~g.OthersCreate => Tab(g)!ToldOfMissingOnly)
<1>s. ASSUME UNCHANGED <<searchInput, shown, url, wanted, raced>> PROVE Tab(g)!WantedIsOnItsWay'
  BY <1>s, <1>t DEF Tab!WantedIsOnItsWay
<1>a. ASSUME UNCHANGED <<look, list>>, alive' \subseteq alive \/ g.OthersCreate PROVE Tab(g)!AbsentIsGone'
  BY <1>a, <1>t DEF Tab!AbsentIsGone
<1>o. ASSUME told' = told \/ told'.note = NoNote PROVE Tab(g)!ToldOfMissingOnly
  BY <1>o DEF Tab!ToldOfMissingOnly
<1>d. ASSUME NEW u \in Tab(g)!Urls, NEW l, NEW lf, NEW k, NEW kf, alive' = alive,
             told' = told \/ told' = Tab(g)!NoToast
               \/ (told' = Tab(g)!Reason(u, kf) /\ Tab(g)!Dropped(u, l, lf, k, kf)),
             \A n \in g.Notes : k[n] = "absent" => n \notin alive,
             \A t \in Tab(g)!Texts : l[<<t, "other">>] = NoData
      PROVE  Tab(g)!ToldOfMissingOnly
  <2>1. CASE told' = told \/ told' = Tab(g)!NoToast
    BY <2>1, <1>o DEF Tab!NoToast
  <2>2. CASE told' = Tab(g)!Reason(u, kf) /\ Tab(g)!Dropped(u, l, lf, k, kf)
    <3>1. u.q \in Tab(g)!Texts /\ u.type \in {"all", "host", "other"} /\ u.addr \in g.Notes \cup {NoNote}
      BY DEF Tab!Urls, Tab!EntityTypes
    <3>2. told'.note = u.addr /\ (~told'.failed => u.addr \notin kf)
      BY <2>2 DEF Tab!Reason
    <3>3. CASE Tab(g)!StaleLink(u, l, k, kf)
      BY <1>d, <3>1, <3>2, <3>3 DEF Tab!StaleLink, Tab!hostLookupEnabled, Tab!ToldOfMissingOnly
    <3>4. ~Tab(g)!UnlistedLink(u, l, lf)
      <4>1. SUFFICES ASSUME Tab(g)!UnlistedLink(u, l, lf) PROVE FALSE
        OBVIOUS
      <4>2. u.type = "other"
        BY <3>1, <4>1 DEF Tab!UnlistedLink, Tab!hostLookupEnabled
      <4>3. l[Tab(g)!keyOf(u)] = NoData
        BY <1>d, <3>1, <4>2 DEF Tab!keyOf
      <4> QED BY <4>1, <4>3 DEF Tab!UnlistedLink, Tab!listLoading
    <3> QED BY <2>2, <3>3, <3>4 DEF Tab!Dropped
  <2> QED BY <1>d, <2>1, <2>2
<1>k. ~g.OthersCreate => /\ \A n \in g.Notes : look[n] = "absent" => n \notin alive
                         /\ \A t \in Tab(g)!Texts : list[<<t, "other">>] = NoData
  BY <1>t DEF Tab!AbsentIsGone
<1>u. url \in Tab(g)!Urls /\ shown \in Tab(g)!Urls /\ look \in [g.Notes -> {NoData, "found", "absent"}]
      /\ list \in [Tab(g)!Keys -> {NoData} \cup SUBSET g.Notes]
      /\ past \in Seq(Tab(g)!Urls) /\ searchInput \in Tab(g)!Texts
  BY <1>t DEF Tab!TypeOK
<1>r. /\ url \in [q : Tab(g)!Texts, type : Tab(g)!EntityTypes, addr : g.Notes \cup {NoNote}]
      /\ shown \in [q : Tab(g)!Texts, type : Tab(g)!EntityTypes, addr : g.Notes \cup {NoNote}]
      /\ wanted \in [q : Tab(g)!Texts, type : Tab(g)!EntityTypes, addr : g.Notes \cup {NoNote}]
  BY <1>t DEF Tab!TypeOK, Tab!Urls
<1>e. ASSUME UNCHANGED <<shown, searchInput>>,
             \/ UNCHANGED <<url, wanted, raced>>
             \/ /\ url' = [shown EXCEPT !.addr = NoNote] /\ wanted' = [wanted EXCEPT !.addr = NoNote]
                /\ raced' = (raced \/ url # shown)
      PROVE  Tab(g)!WantedIsOnItsWay'
  <2>1. CASE UNCHANGED <<url, wanted, raced>>
    BY <1>e, <1>s, <2>1
  <2>2. CASE /\ url' = [shown EXCEPT !.addr = NoNote] /\ wanted' = [wanted EXCEPT !.addr = NoNote]
             /\ raced' = (raced \/ url # shown)
    BY <1>e, <1>r, <1>t, <2>2 DEF Tab!WantedIsOnItsWay
  <2> QED BY <1>e, <2>1, <2>2
<1>1. ASSUME Tab(g)!Render PROVE Kept
  <2>1. Tab(g)!WantedIsOnItsWay'
    <3>1. shown' = url /\ searchInput' = IF url.q # shown.q THEN url.q ELSE searchInput
      BY <1>1 DEF Tab!Render, Tab!SyncInput
    <3>2. \/ UNCHANGED <<url, wanted, raced>>
          \/ /\ url' = [url EXCEPT !.addr = NoNote] /\ wanted' = [wanted EXCEPT !.addr = NoNote]
             /\ raced' = (raced \/ url # url)
      BY <1>1, <1>t, <1>u, TabEffects DEF Tab!Render
    <3>3. ~raced => url.type = wanted.type /\ url.addr = wanted.addr /\ searchInput' = wanted.q /\ url.q = shown'.q
      BY <1>t, <3>1 DEF Tab!WantedIsOnItsWay
    <3>4. CASE UNCHANGED <<url, wanted, raced>>
      BY <3>1, <3>3, <3>4 DEF Tab!WantedIsOnItsWay
    <3>5. CASE url' = [url EXCEPT !.addr = NoNote] /\ wanted' = [wanted EXCEPT !.addr = NoNote] /\ raced' = raced
      <4>1. url'.type = url.type /\ url'.q = url.q /\ wanted'.type = wanted.type /\ wanted'.q = wanted.q
            /\ url'.addr = NoNote /\ wanted'.addr = NoNote
        BY <1>r, <3>5
      <4> QED BY <3>1, <3>3, <3>5, <4>1 DEF Tab!WantedIsOnItsWay
    <3>6. raced \in BOOLEAN
      BY <1>t DEF Tab!TypeOK
    <3> QED BY <3>2, <3>4, <3>5, <3>6
  <2>2. Tab(g)!Effects(url, list, listFailed', look, lookFailed', TRUE)
        /\ UNCHANGED <<alive, look, list>>
    BY <1>1 DEF Tab!Render
  <2>3. told' = told \/ told' = Tab(g)!NoToast
          \/ (told' = Tab(g)!Reason(url, lookFailed')
                /\ Tab(g)!Dropped(url, list, listFailed', look, lookFailed'))
    BY <1>t, <1>u, <2>2, TabEffects
  <2>4. ~g.OthersCreate => Tab(g)!ToldOfMissingOnly
    BY <1>d, <1>k, <1>u, <2>2, <2>3
  <2> QED BY <1>a, <2>1, <2>2, <2>4
<1>2. ASSUME NEW t, Tab(g)!Type(t) PROVE Kept
  <2>1. Tab(g)!WantedIsOnItsWay'
    BY <1>2, <1>r, <1>t DEF Tab!Type, Tab!WantedIsOnItsWay
  <2> QED BY <1>2, <1>a, <1>o, <2>1 DEF Tab!Type
<1>v. ASSUME Tab(g)!OnlyUrl, NEW u \in Tab(g)!Urls, url' = u, Tab(g)!Wants(u) PROVE Kept
  <2>1. Tab(g)!WantedIsOnItsWay'
    BY <1>t, <1>v, TabWants
  <2> QED BY <1>v, <1>a, <1>o, <2>1
<1>3. ASSUME Tab(g)!Debounce PROVE Kept
  <2>1. /\ url' = [shown EXCEPT !.q = searchInput] /\ raced' = (raced \/ url # shown)
        /\ wanted' = wanted /\ Tab(g)!OnlyUrl
    BY <1>3 DEF Tab!Debounce, Tab!Replace, Tab!searched
  <2>2. ~raced' => url = shown /\ searchInput = wanted.q /\ url.type = wanted.type /\ url.addr = wanted.addr
    BY <1>t, <2>1 DEF Tab!WantedIsOnItsWay
  <2>3. Tab(g)!WantedIsOnItsWay'
    BY <1>r, <2>1, <2>2 DEF Tab!WantedIsOnItsWay
  <2> QED BY <1>a, <1>o, <2>1, <2>3
<1>c. ASSUME NEW n \in g.Notes \cup {NoNote} PROVE [shown EXCEPT !.addr = n] \in Tab(g)!Urls
  BY <1>c, <1>r DEF Tab!Urls
<1>4. ASSUME Tab(g)!closeSheet \/ Tab(g)!Back PROVE Kept
  <2>1. CASE Tab(g)!closeSheet
    <3>1. [shown EXCEPT !.addr = NoNote] \in Tab(g)!Urls
      BY <1>c
    <3> QED BY <1>v, <2>1, <3>1 DEF Tab!closeSheet, Tab!Replace
  <2>2. CASE Tab(g)!Back
    <3>1. past[Len(past)] \in Tab(g)!Urls
      BY <1>u, <2>2 DEF Tab!Back
    <3> QED BY <1>v, <2>2, <3>1 DEF Tab!Back
  <2> QED BY <1>4, <2>1, <2>2
<1>x. ASSUME NEW t \in {"all", "host"}, Tab(g)!setEntityType(t) PROVE Kept
  <2>1. [shown EXCEPT !.type = t] \in Tab(g)!Urls
    BY <1>r DEF Tab!Urls, Tab!EntityTypes
  <2> QED BY <1>v, <1>x, <2>1 DEF Tab!setEntityType, Tab!Push
<1>y. ASSUME NEW n \in g.Notes, Tab(g)!onSelectNote(n) PROVE Kept
  <2>1. [shown EXCEPT !.addr = n] \in Tab(g)!Urls
    BY <1>c
  <2> QED BY <1>v, <1>y, <2>1 DEF Tab!onSelectNote, Tab!Push
<1>z. ASSUME NEW u \in g.Links, Tab(g)!FollowLink(u) PROVE Kept
  <2>1. u \in Tab(g)!Urls
    BY DEF Tab!ExplorerAssumption
  <2> QED BY <1>v, <1>z, <2>1 DEF Tab!FollowLink, Tab!Push
<1>5. ASSUME Tab(g)!Retry \/ Tab(g)!Reconnect PROVE Kept
  BY <1>5, <1>a, <1>o, <1>s DEF Tab!Retry, Tab!Reconnect
<1>6. ASSUME NEW l, NEW lf, Tab(g)!Listed(l, lf),
             ~g.OthersCreate => \A t \in Tab(g)!Texts : l[<<t, "other">>] = NoData
      PROVE  Kept
  <2>1. Tab(g)!WantedIsOnItsWay'
    <3>1. Tab(g)!Effects(shown, l, lf, look, lookFailed',
                         Tab(g)!hostLookupEnabled(shown, l) # Tab(g)!hostLookupEnabled(shown, list)
                           \/ ~Tab(g)!hostLookupEnabled(shown, l))
          /\ UNCHANGED <<shown, searchInput>>
      BY <1>6 DEF Tab!Listed
    <3> QED BY <1>e, <1>t, <1>u, <3>1, TabEffects
  <2>2. list' = l /\ UNCHANGED <<alive, look>>
    BY <1>6 DEF Tab!Listed
  <2>3. Tab(g)!AbsentIsGone'
    BY <1>6, <1>k, <2>2 DEF Tab!AbsentIsGone
  <2>4. told' = told \/ told' = Tab(g)!NoToast
          \/ (told' = Tab(g)!Reason(shown, lookFailed')
                /\ Tab(g)!Dropped(shown, l, lf, look, lookFailed'))
    BY <1>6, <1>t, <1>u, TabEffects DEF Tab!Listed
  <2>5. ~g.OthersCreate => Tab(g)!ToldOfMissingOnly
    BY <1>6, <1>d, <1>k, <1>u, <2>2, <2>4
  <2> QED BY <2>1, <2>3, <2>5
<1>7. ASSUME Tab(g)!ListAnswer PROVE Kept
  <2>1. CASE shown.type = "other"
    BY <1>6, <1>7, <1>k, <2>1 DEF Tab!ListAnswer
  <2>2. CASE shown.type # "other"
    <3>1. PICK S : Tab(g)!Listed([list EXCEPT ![Tab(g)!keyOf(shown)] = S], listFailed \ {Tab(g)!keyOf(shown)})
      BY <1>7, <2>2 DEF Tab!ListAnswer
    <3>2. \A t \in Tab(g)!Texts : <<t, "other">> # Tab(g)!keyOf(shown) /\ <<t, "other">> \in Tab(g)!Keys
      BY <2>2 DEF Tab!keyOf, Tab!Keys, Tab!EntityTypes
    <3>3. \A t \in Tab(g)!Texts : [list EXCEPT ![Tab(g)!keyOf(shown)] = S][<<t, "other">>] = list[<<t, "other">>]
      BY <1>u, <3>2
    <3> QED BY <1>6, <1>k, <3>1, <3>3
  <2> QED BY <2>1, <2>2
<1>8. ASSUME Tab(g)!ListFails PROVE Kept
  BY <1>6, <1>8, <1>k DEF Tab!ListFails
<1>9. ASSUME NEW k, NEW kf, Tab(g)!LookedUp(k, kf), \A n \in g.Notes : k[n] = "absent" => n \notin alive \/ look[n] = "absent"
      PROVE  Kept
  <2>0. Tab(g)!WantedIsOnItsWay'
    <3>1. Tab(g)!Effects(shown, list, listFailed, k, kf, TRUE) /\ UNCHANGED <<shown, searchInput>>
      BY <1>9 DEF Tab!LookedUp
    <3> QED BY <1>e, <1>t, <1>u, <3>1, TabEffects
  <2>1. look' = k /\ UNCHANGED <<alive, list>>
    BY <1>9 DEF Tab!LookedUp
  <2>2. Tab(g)!AbsentIsGone'
    BY <1>9, <1>k, <2>1 DEF Tab!AbsentIsGone
  <2>3. told' = told \/ told' = Tab(g)!NoToast
          \/ (told' = Tab(g)!Reason(shown, kf) /\ Tab(g)!Dropped(shown, list, listFailed, k, kf))
    BY <1>9, <1>t, <1>u, TabEffects DEF Tab!LookedUp
  <2>4. ~g.OthersCreate => Tab(g)!ToldOfMissingOnly
    BY <1>9, <1>d, <1>k, <1>u, <2>1, <2>3
  <2> QED BY <2>0, <2>2, <2>4
<1>10. ASSUME Tab(g)!LookAnswer PROVE Kept
  <2> DEFINE k == [look EXCEPT ![shown.addr] = IF shown.addr \in alive THEN "found" ELSE "absent"]
  <2>1. \A n \in g.Notes : k[n] = "absent" => n \notin alive \/ look[n] = "absent"
    BY <1>u
  <2>2. Tab(g)!LookedUp(k, lookFailed \ {shown.addr})
    BY <1>10 DEF Tab!LookAnswer
  <2> QED BY <1>9, <2>1, <2>2
<1>11. ASSUME Tab(g)!LookFails PROVE Kept
  BY <1>9, <1>11 DEF Tab!LookFails
<1>12. ASSUME NEW n, Tab(g)!Other(n) PROVE Kept
  BY <1>12, <1>a, <1>o, <1>s DEF Tab!Other
<1> HIDE DEF Kept
<1>13. CASE Tab(g)!Next
  <2>1. Kept
    BY <1>13, <1>1, <1>2, <1>3, <1>4, <1>5, <1>7, <1>8, <1>10, <1>11, <1>12, <1>x, <1>y, <1>z DEF Tab!Next
  <2>2. Tab(g)!TypeOK'
    BY <1>13, <1>t, TabType
  <2> QED BY <2>1, <2>2 DEF Tab!TabInv, Kept
<1>14. CASE UNCHANGED Tab(g)!vars
  <2>1. Tab(g)!TypeOK'
    BY <1>14, <1>t DEF Tab!vars, Tab!TypeOK, Tab!hostLookupEnabled, Tab!listSelected, Tab!listData, Tab!keyOf
  <2> QED BY <1>14, <1>a, <1>o, <1>s, <2>1 DEF Tab!vars, Tab!TabInv
<1> QED BY <1>13, <1>14

LEMMA TabInit ==
  ASSUME NEW g, Tab(g)!ExplorerAssumption, Tab(g)!Init
  PROVE  Tab(g)!TabInv
<1> USE DEF Tab!Init
<1>m. g.MaxMoves \in Nat /\ g.MaxFailures \in Nat /\ g.MaxWrites \in Nat /\ g.Links \subseteq Tab(g)!Urls
  BY DEF Tab!ExplorerAssumption
<1>1. url \in Tab(g)!Urls /\ shown = url /\ searchInput \in Tab(g)!Texts
  BY <1>m DEF Tab!Urls
<1>2. Tab(g)!NoToast \in [note : g.Notes \cup {NoNote}, failed : BOOLEAN]
  BY DEF Tab!NoToast
<1>3. lookAsked \in BOOLEAN
  BY DEF Tab!hostLookupEnabled
<1>4. 0 \in 0..g.MaxMoves /\ 0 \in 0..g.MaxFailures /\ 0 \in 0..g.MaxWrites
  BY <1>m
<1>5. Tab(g)!TypeOK
  <2>1. past \in Seq(Tab(g)!Urls)
    OBVIOUS
  <2>2. list \in [Tab(g)!Keys -> {NoData} \cup SUBSET g.Notes] /\ listFailed \subseteq Tab(g)!Keys
        /\ look \in [g.Notes -> {NoData, "found", "absent"}] /\ lookFailed \subseteq g.Notes
    OBVIOUS
  <2>3. alive \subseteq g.Notes /\ (lookAsked => Tab(g)!hostLookupEnabled(shown, list))
    BY <1>1
  <2>4. url \in Tab(g)!Urls /\ shown \in Tab(g)!Urls
    BY <1>1
  <2>5. {listAsked, lookAsked, raced} \subseteq BOOLEAN /\ wanted \in Tab(g)!Urls
    BY <1>1, <1>3
  <2>6. told \in [note : g.Notes \cup {NoNote}, failed : BOOLEAN]
    BY <1>2
  <2> HIDE DEF Tab!Init
  <2>7. searchInput \in Tab(g)!Texts
    BY <1>1
  <2>8. moves \in 0..g.MaxMoves /\ failures \in 0..g.MaxFailures /\ writes \in 0..g.MaxWrites
    BY <1>4 DEF Tab!Init
  <2> QED BY <2>1, <2>2, <2>3, <2>4, <2>5, <2>6, <2>7, <2>8 DEF Tab!TypeOK
<1>6. Tab(g)!WantedIsOnItsWay
  BY DEF Tab!WantedIsOnItsWay
<1>7. NoData # "absent"
  BY DEF Tab!ExplorerAssumption
<1>8. Tab(g)!AbsentIsGone
  BY <1>7 DEF Tab!AbsentIsGone, Tab!Keys, Tab!EntityTypes
<1> QED BY <1>5, <1>6, <1>8 DEF Tab!TabInv

LEMMA TabHolds ==
  ASSUME NEW g, Tab(g)!ExplorerAssumption, Tab(g)!TabInv
  PROVE  Tab(g)!TypeOK /\ Tab(g)!AsTheUserWants
<1>1. Tab(g)!TypeOK /\ Tab(g)!WantedIsOnItsWay
  BY DEF Tab!TabInv
<1>2. Tab(g)!AsTheUserWants
  BY <1>1 DEF Tab!WantedIsOnItsWay, Tab!AsTheUserWants
<1> QED BY <1>1, <1>2

-----------------------------------------------------------------------------
(* The explorer of the events.                                              *)

\* A request for the event is one that the page needs, and the page that needs one has it,
\* waits for it or says that it failed.

LEMMA EventLooks ==
  ASSUME NEW g, Explorer(g)!TypeOK, Explorer(g)!NeverBlank, NEW u \in Explorer(g)!Urls, NEW l,
         Explorer(g)!useAuditEvent(u, l)
  PROVE  /\ lookAsked' \in BOOLEAN /\ lookFailed' \subseteq g.Events
         /\ lookAsked' => Explorer(g)!fallbackEnabled(u, l)
         /\ Explorer(g)!fallbackEnabled(u, l) =>
              lookAsked' \/ look[u.event] # NoData \/ u.event \in lookFailed'
<1> DEFINE begins == Explorer(g)!fallbackEnabled(u, l)
                       /\ ~(Explorer(g)!fallbackEnabled(shown, list) /\ shown.event = u.event)
<1>1. u.event \in g.Events \cup {NoEvent}
  BY DEF Explorer!Urls
<1>2. CASE begins
  BY <1>1, <1>2 DEF Explorer!useAuditEvent, Explorer!TypeOK
<1>3. CASE ~begins
  <2>1. lookAsked' = (lookAsked /\ Explorer(g)!fallbackEnabled(u, l)) /\ lookFailed' = lookFailed
    BY <1>3 DEF Explorer!useAuditEvent
  <2>2. Explorer(g)!fallbackEnabled(u, l) => Explorer(g)!fallbackEnabled(shown, list) /\ shown.event = u.event
    BY <1>3
  <2>3. Explorer(g)!fallbackEnabled(shown, list) =>
          lookAsked \/ look[shown.event] # NoData \/ shown.event \in lookFailed
    BY DEF Explorer!NeverBlank, Explorer!SheetOpen, Explorer!HasEvent, Explorer!ShowsLoading,
       Explorer!ShowsError, Explorer!fallbackEnabled
  <2>4. lookAsked \in BOOLEAN /\ lookFailed \subseteq g.Events
    BY DEF Explorer!TypeOK
  <2> HIDE DEF begins
  <2> QED BY <2>1, <2>2, <2>3, <2>4
<1> QED BY <1>2, <1>3

LEMMA SheetHasSomething ==
  ASSUME NEW g,
         Explorer(g)!fallbackEnabled(shown, list) =>
           lookAsked \/ look[shown.event] # NoData \/ shown.event \in lookFailed
  PROVE  Explorer(g)!NeverBlank
  BY DEF Explorer!NeverBlank, Explorer!SheetOpen, Explorer!HasEvent, Explorer!ShowsLoading,
     Explorer!ShowsError, Explorer!fallbackEnabled

\* Going to an address from the rendered one leaves what is wanted on its way.
LEMMA ExplorerWants ==
  ASSUME NEW g, Explorer(g)!TypeOK, Explorer(g)!WantedIsOnItsWay, NEW u \in Explorer(g)!Urls,
         Explorer(g)!Wants(u), url' = u, UNCHANGED <<shown, userInput>>
  PROVE  Explorer(g)!WantedIsOnItsWay' /\ wanted' \in Explorer(g)!Urls /\ raced' \in BOOLEAN
<1> USE DEF Explorer!F
<1>1. /\ u \in [filters : Explorer(g)!Filters, event : g.Events \cup {NoEvent}]
      /\ u.filters \in [type : {"all"} \cup Explorer(g)!AUDIT_EVENT_TYPES, user : {AnyUser} \cup g.Users,
                        since : g.Times \cup {NoTime}, until : g.Times \cup {NoTime}]
      /\ userInput \in {AnyUser} \cup g.Users /\ raced \in BOOLEAN
  BY DEF Explorer!TypeOK, Explorer!Urls, Explorer!Filters
<1>2. CASE u.filters.user = shown.filters.user
  <2>1. wanted' = [u EXCEPT !.filters.user = userInput] /\ raced' = (raced \/ url # shown)
    BY <1>2 DEF Explorer!Wants
  <2>2. /\ wanted'.event = u.event /\ wanted'.filters = [u.filters EXCEPT !.user = userInput]
        /\ wanted' \in [filters : Explorer(g)!Filters, event : g.Events \cup {NoEvent}]
    BY <1>1, <2>1 DEF Explorer!Filters
  <2>3. /\ wanted'.filters.user = userInput
        /\ u.filters = [wanted'.filters EXCEPT !.user = u.filters.user]
    BY <1>1, <2>2
  <2> QED BY <1>1, <1>2, <2>1, <2>2, <2>3 DEF Explorer!WantedIsOnItsWay, Explorer!Urls
<1>3. CASE u.filters.user # shown.filters.user
  <2>1. wanted' = u /\ raced' = (raced \/ url # shown)
    BY <1>3 DEF Explorer!Wants
  <2>2. u.filters = [u.filters EXCEPT !.user = u.filters.user]
    BY <1>1
  <2> QED BY <1>1, <1>3, <2>1, <2>2 DEF Explorer!WantedIsOnItsWay
<1> QED BY <1>2, <1>3

LEMMA ExplorerStep ==
  ASSUME NEW g, Explorer(g)!ExplorerAssumption, Explorer(g)!ExplorerInv, Explorer(g)!Next
  PROVE  Explorer(g)!ExplorerInv'
<1> DEFINE Kept == Explorer(g)!ExplorerInv'
           Open == Explorer(g)!fallbackEnabled(shown', list') =>
                     lookAsked' \/ look'[shown'.event] # NoData \/ shown'.event \in lookFailed'
           Lists == [Explorer(g)!Filters -> {NoData} \cup SUBSET g.Events]
<1> SUFFICES Kept
  OBVIOUS
<1> USE DEF Explorer!rows, Explorer!answers, Explorer!OnlyUrl, Explorer!F
<1>t. Explorer(g)!TypeOK /\ Explorer(g)!NeverBlank /\ Explorer(g)!InScope /\ Explorer(g)!WantedIsOnItsWay
  BY DEF Explorer!ExplorerInv
<1>m. g.MaxMoves \in Nat /\ g.MaxFailures \in Nat /\ NoData \notin g.Events /\ NoEvent \notin g.Events
      /\ g.Events \subseteq Nat /\ g.Times \subseteq Nat
  BY DEF Explorer!ExplorerAssumption
<1>o. Explorer(g)!fallbackEnabled(shown, list) =>
        lookAsked \/ look[shown.event] # NoData \/ shown.event \in lookFailed
  BY <1>t DEF Explorer!NeverBlank, Explorer!SheetOpen, Explorer!HasEvent, Explorer!ShowsLoading,
     Explorer!ShowsError, Explorer!fallbackEnabled
<1>u. /\ url \in Explorer(g)!Urls /\ shown \in Explorer(g)!Urls /\ past \in Seq(Explorer(g)!Urls)
      /\ shown.filters \in Explorer(g)!Filters /\ shown.event \in g.Events \cup {NoEvent}
      /\ userInput \in g.Users \cup {AnyUser} /\ list \in Lists
      /\ moves \in 0..g.MaxMoves /\ failures \in 0..g.MaxFailures
  BY <1>t DEF Explorer!TypeOK, Explorer!Urls
<1>b. ASSUME Explorer(g)!Moves PROVE moves' \in 0..g.MaxMoves
  BY <1>b, <1>m, <1>u DEF Explorer!Moves
<1>f. ASSUME failures < g.MaxFailures PROVE failures + 1 \in 0..g.MaxFailures
  BY <1>f, <1>m, <1>u
<1>n. ASSUME Open PROVE Explorer(g)!NeverBlank'
  BY <1>n DEF Explorer!NeverBlank, Explorer!SheetOpen, Explorer!HasEvent, Explorer!ShowsLoading,
     Explorer!ShowsError, Explorer!fallbackEnabled
<1>i. ASSUME UNCHANGED <<list, look>> PROVE Explorer(g)!InScope'
  BY <1>i, <1>t DEF Explorer!InScope
<1>s. ASSUME UNCHANGED <<userInput, shown, url, wanted, raced>> PROVE Explorer(g)!WantedIsOnItsWay'
  BY <1>s, <1>t DEF Explorer!WantedIsOnItsWay
<1>r. /\ wanted \in [filters : Explorer(g)!Filters, event : g.Events \cup {NoEvent}]
      /\ raced \in BOOLEAN
      /\ url.filters \in [type : {"all"} \cup Explorer(g)!AUDIT_EVENT_TYPES, user : {AnyUser} \cup g.Users,
                          since : g.Times \cup {NoTime}, until : g.Times \cup {NoTime}]
      /\ shown.filters \in [type : {"all"} \cup Explorer(g)!AUDIT_EVENT_TYPES, user : {AnyUser} \cup g.Users,
                            since : g.Times \cup {NoTime}, until : g.Times \cup {NoTime}]
      /\ wanted.filters \in [type : {"all"} \cup Explorer(g)!AUDIT_EVENT_TYPES, user : {AnyUser} \cup g.Users,
                             since : g.Times \cup {NoTime}, until : g.Times \cup {NoTime}]
  BY <1>t DEF Explorer!TypeOK, Explorer!Urls, Explorer!Filters
<1>l. ASSUME UNCHANGED <<shown, list, look, lookFailed, lookAsked>>
      PROVE  Open /\ (lookAsked' => Explorer(g)!fallbackEnabled(shown', list'))
  BY <1>l, <1>o, <1>t DEF Explorer!TypeOK
<1>1. ASSUME Explorer(g)!Render PROVE Kept
  <2>1. /\ shown' = url /\ Explorer(g)!useAuditEvent(url, list)
        /\ UNCHANGED <<url, past, list, more, look, moves, failures, wanted, raced>>
    BY <1>1 DEF Explorer!Render
  <2>2. /\ lookAsked' \in BOOLEAN /\ lookFailed' \subseteq g.Events
        /\ lookAsked' => Explorer(g)!fallbackEnabled(url, list)
        /\ Explorer(g)!fallbackEnabled(url, list) =>
              lookAsked' \/ look[url.event] # NoData \/ url.event \in lookFailed'
    BY <1>t, <1>u, <2>1, EventLooks
  <2>3. userInput' \in g.Users \cup {AnyUser}
    BY <1>1, <1>t, <1>u DEF Explorer!Render, Explorer!SyncInput, Explorer!TypeOK, Explorer!Urls, Explorer!Filters
  <2>4. listAsked' \in BOOLEAN /\ listFailed' \subseteq Explorer(g)!Filters
    BY <1>1, <1>t DEF Explorer!Render, Explorer!TypeOK
  <2>5. Explorer(g)!TypeOK'
    BY <1>t, <2>1, <2>2, <2>3, <2>4 DEF Explorer!TypeOK
  <2>6. Explorer(g)!WantedIsOnItsWay'
    <3>1. userInput' = IF url.filters.user # shown.filters.user THEN url.filters.user ELSE userInput
      BY <1>1 DEF Explorer!Render, Explorer!SyncInput
    <3> QED BY <1>t, <2>1, <3>1 DEF Explorer!WantedIsOnItsWay
  <2>7. Open
    BY <2>1, <2>2
  <2> QED BY <1>i, <1>n, <2>1, <2>5, <2>6, <2>7 DEF Explorer!ExplorerInv
<1>2. ASSUME NEW x \in g.Users \cup {AnyUser}, Explorer(g)!Type(x) PROVE Kept
  <2>0. /\ wanted' = [wanted EXCEPT !.filters.user = x] /\ wanted'.event = wanted.event
        /\ wanted'.filters = [wanted.filters EXCEPT !.user = x]
        /\ wanted' \in Explorer(g)!Urls /\ raced' \in BOOLEAN
    BY <1>2, <1>r DEF Explorer!Type, Explorer!Urls, Explorer!Filters
  <2>1. Explorer(g)!TypeOK'
    BY <1>2, <1>b, <1>l, <1>t, <2>0 DEF Explorer!Type, Explorer!TypeOK
  <2>2. Explorer(g)!WantedIsOnItsWay'
    <3>1. /\ UNCHANGED <<url, shown>> /\ userInput' = x
          /\ raced' = (raced \/ url.filters.user # shown.filters.user)
      BY <1>2 DEF Explorer!Type
    <3>2. ~raced' => /\ url.event = wanted.event /\ url.filters.user = shown.filters.user
                     /\ url.filters = [wanted.filters EXCEPT !.user = url.filters.user]
      BY <1>t, <3>1 DEF Explorer!WantedIsOnItsWay
    <3>3. wanted'.filters.user = x
          /\ [wanted'.filters EXCEPT !.user = url.filters.user] = [wanted.filters EXCEPT !.user = url.filters.user]
      BY <1>r, <2>0
    <3> QED BY <2>0, <3>1, <3>2, <3>3 DEF Explorer!WantedIsOnItsWay
  <2>3. Open
    BY <1>2, <1>l DEF Explorer!Type
  <2> QED BY <1>2, <1>i, <1>n, <2>1, <2>2, <2>3 DEF Explorer!Type, Explorer!ExplorerInv
<1>g. ASSUME url' \in Explorer(g)!Urls, Explorer(g)!OnlyUrl, moves' \in 0..g.MaxMoves,
             past' \in Seq(Explorer(g)!Urls), wanted' \in Explorer(g)!Urls, raced' \in BOOLEAN,
             Explorer(g)!WantedIsOnItsWay'
      PROVE  Kept
  <2>1. Explorer(g)!TypeOK'
    BY <1>g, <1>l, <1>t DEF Explorer!TypeOK
  <2> QED BY <1>g, <1>i, <1>l, <1>n, <2>1 DEF Explorer!ExplorerInv
<1>v. ASSUME NEW u \in Explorer(g)!Urls, url' = u, Explorer(g)!Wants(u), Explorer(g)!OnlyUrl,
             moves' \in 0..g.MaxMoves, past' \in Seq(Explorer(g)!Urls)
      PROVE  Kept
  BY <1>g, <1>t, <1>v, ExplorerWants
<1>p. ASSUME NEW u \in Explorer(g)!Urls, Explorer(g)!Push(u) \/ Explorer(g)!Replace(u)
      PROVE  url' = u /\ past' \in Seq(Explorer(g)!Urls)
  BY <1>p, <1>u DEF Explorer!Push, Explorer!Replace
<1>a. ASSUME NEW f \in Explorer(g)!Filters, NEW e \in g.Events \cup {NoEvent}
      PROVE  Explorer(g)!Address(f, e) \in Explorer(g)!Urls
  BY <1>a DEF Explorer!Address, Explorer!Urls
<1>3. ASSUME Explorer(g)!Debounce PROVE Kept
  <2> DEFINE u == Explorer(g)!Address([shown.filters EXCEPT !.user = userInput], shown.event)
  <2>1. Explorer(g)!Replace(u) /\ Explorer(g)!OnlyUrl /\ moves' = moves /\ wanted' = wanted
        /\ raced' = (raced \/ url # shown)
    BY <1>3 DEF Explorer!Debounce, Explorer!typedUser
  <2>2. [shown.filters EXCEPT !.user = userInput] \in Explorer(g)!Filters
    BY <1>u DEF Explorer!Filters
  <2>3. u \in Explorer(g)!Urls
    BY <1>a, <1>u, <2>2
  <2>4. wanted' \in Explorer(g)!Urls /\ raced' \in BOOLEAN
    BY <1>r, <2>1 DEF Explorer!Urls
  <2>5. url' = u /\ past' \in Seq(Explorer(g)!Urls)
    BY <1>p, <2>1, <2>3
  <2>6. Explorer(g)!WantedIsOnItsWay'
    <3>1. u.event = shown.event /\ u.filters = [shown.filters EXCEPT !.user = userInput]
          /\ UNCHANGED <<shown, userInput, wanted>>
      BY <2>1 DEF Explorer!Address
    <3>2. ~raced' => /\ url = shown /\ userInput = wanted.filters.user /\ shown.event = wanted.event
                     /\ shown.filters = [wanted.filters EXCEPT !.user = shown.filters.user]
      BY <1>t, <2>1 DEF Explorer!WantedIsOnItsWay
    <3>3. [[wanted.filters EXCEPT !.user = shown.filters.user] EXCEPT !.user = userInput]
            = [wanted.filters EXCEPT !.user = userInput]
      BY <1>r, <1>u
    <3>4. u.filters.user = userInput
      BY <1>r, <3>1
    <3> HIDE DEF u
    <3>5. ~raced' => u.event = wanted.event /\ u.filters = [wanted.filters EXCEPT !.user = u.filters.user]
                     /\ userInput = wanted.filters.user
      BY <3>1, <3>2, <3>3, <3>4
    <3> QED BY <2>5, <3>1, <3>4, <3>5 DEF Explorer!WantedIsOnItsWay
  <2> QED BY <1>g, <1>u, <2>1, <2>3, <2>4, <2>5, <2>6
<1>4. ASSUME NEW f \in Explorer(g)!Filters, Explorer(g)!setFilter(f) PROVE Kept
  <2>1. Explorer(g)!Address(f, shown.event) \in Explorer(g)!Urls
    BY <1>a, <1>u
  <2> QED BY <1>4, <1>b, <1>p, <1>v, <2>1 DEF Explorer!setFilter
<1>5. ASSUME NEW t \in {"all"} \cup Explorer(g)!AUDIT_EVENT_TYPES, Explorer(g)!setEventType(t) PROVE Kept
  <2>1. [shown.filters EXCEPT !.type = t] \in Explorer(g)!Filters
    BY <1>u DEF Explorer!Filters
  <2> QED BY <1>4, <1>5, <2>1 DEF Explorer!setEventType
<1>6. ASSUME NEW t \in g.Times \cup {NoTime}, Explorer(g)!setSince(t) \/ Explorer(g)!setUntil(t) PROVE Kept
  <2>1. [shown.filters EXCEPT !.since = t] \in Explorer(g)!Filters
        /\ [shown.filters EXCEPT !.until = t] \in Explorer(g)!Filters
    BY <1>u DEF Explorer!Filters
  <2> QED BY <1>4, <1>6, <2>1 DEF Explorer!setSince, Explorer!setUntil
<1>7. ASSUME Explorer(g)!clearAll PROVE Kept
  <2>1. Explorer(g)!NoFilter \in Explorer(g)!Filters
    BY DEF Explorer!NoFilter, Explorer!Filters
  <2> QED BY <1>4, <1>7, <2>1 DEF Explorer!clearAll
<1>8. ASSUME NEW e \in g.Events, Explorer(g)!openEvent(e) PROVE Kept
  <2>1. Explorer(g)!Address(shown.filters, e) \in Explorer(g)!Urls
    BY <1>a, <1>u
  <2> QED BY <1>8, <1>b, <1>p, <1>v, <2>1 DEF Explorer!openEvent
<1>9. ASSUME Explorer(g)!closeSheet PROVE Kept
  <2>1. Explorer(g)!Address(shown.filters, NoEvent) \in Explorer(g)!Urls
    BY <1>a, <1>u
  <2> QED BY <1>9, <1>b, <1>p, <1>v, <2>1 DEF Explorer!closeSheet
<1>10. ASSUME Explorer(g)!Back PROVE Kept
  <2>1. past # <<>> /\ url' = past[Len(past)] /\ past' = SubSeq(past, 1, Len(past) - 1)
        /\ Explorer(g)!OnlyUrl /\ Explorer(g)!Moves /\ Explorer(g)!Wants(past[Len(past)])
    BY <1>10 DEF Explorer!Back
  <2>2. url' \in Explorer(g)!Urls /\ past' \in Seq(Explorer(g)!Urls)
    BY <1>u, <2>1
  <2> QED BY <1>b, <1>v, <2>1, <2>2
<1>11. ASSUME Explorer(g)!Retry PROVE Kept
  <2>1. listAsked' = TRUE /\ listFailed' \subseteq Explorer(g)!Filters
        /\ UNCHANGED <<url, shown, past, userInput, list, more, look, lookFailed, lookAsked,
                       moves, failures, wanted, raced>>
    BY <1>11, <1>t DEF Explorer!Retry, Explorer!TypeOK
  <2>2. Explorer(g)!TypeOK'
    BY <1>l, <1>t, <2>1 DEF Explorer!TypeOK
  <2> QED BY <1>i, <1>l, <1>n, <1>s, <2>1, <2>2 DEF Explorer!ExplorerInv
<1>12. ASSUME NEW l \in Lists, NEW m \in SUBSET Explorer(g)!Filters, NEW lf \in SUBSET Explorer(g)!Filters,
              Explorer(g)!Listed(l, m, lf), failures' \in 0..g.MaxFailures,
              \A x \in Explorer(g)!Filters : l[x] = list[x] \/ l[x] \subseteq Explorer(g)!query(x)
       PROVE  Kept
  <2>1. /\ list' = l /\ more' = m /\ listFailed' = lf /\ listAsked' = FALSE
        /\ Explorer(g)!useAuditEvent(shown, l)
        /\ UNCHANGED <<url, shown, past, userInput, look, moves, wanted, raced>>
    BY <1>12 DEF Explorer!Listed
  <2>2. /\ lookAsked' \in BOOLEAN /\ lookFailed' \subseteq g.Events
        /\ lookAsked' => Explorer(g)!fallbackEnabled(shown, l)
        /\ Explorer(g)!fallbackEnabled(shown, l) =>
              lookAsked' \/ look[shown.event] # NoData \/ shown.event \in lookFailed'
    BY <1>t, <1>u, <2>1, EventLooks
  <2>3. Explorer(g)!TypeOK'
    BY <1>12, <1>t, <2>1, <2>2 DEF Explorer!TypeOK
  <2>4. Open
    BY <2>1, <2>2
  <2>5. ASSUME NEW x \in Explorer(g)!Filters, NEW e \in Explorer(g)!query(x)
        PROVE  /\ g.IsAdmin \/ g.actor[e] = g.Me
               /\ x.since = NoTime \/ x.since <= e
               /\ x.until = NoTime \/ e < x.until
    <3>1. e \in g.Events /\ e \in Nat /\ x.since \in g.Times \cup {NoTime}
      BY <1>m, <2>5 DEF Explorer!query, Explorer!matching, Explorer!Filters
    <3>2. x.since \in Nat \/ x.since = NoTime
      BY <1>m, <3>1
    <3>3. /\ x.since = NoTime \/ e >= x.since
          /\ x.until = NoTime \/ e < x.until
      BY <2>5 DEF Explorer!query, Explorer!matching
    <3> QED BY <2>5, <3>1, <3>2, <3>3 DEF Explorer!query, Explorer!permitted
  <2>6. ASSUME NEW x \in Explorer(g)!Filters, l[x] # NoData, NEW e \in l[x]
        PROVE  /\ g.IsAdmin \/ g.actor[e] = g.Me
               /\ x.since = NoTime \/ x.since <= e
               /\ x.until = NoTime \/ e < x.until
    <3>1. CASE l[x] \subseteq Explorer(g)!query(x)
      BY <2>5, <2>6, <3>1
    <3>2. CASE l[x] = list[x]
      BY <1>t, <2>6, <3>2 DEF Explorer!InScope, Explorer!events, Explorer!Address
    <3> QED BY <1>12, <3>1, <3>2
  <2>7. Explorer(g)!InScope'
    BY <1>t, <2>1, <2>6 DEF Explorer!InScope, Explorer!events, Explorer!Address
  <2> QED BY <1>n, <1>s, <2>1, <2>3, <2>4, <2>7 DEF Explorer!ExplorerInv
<1>q. ASSUME NEW x, NEW S, S \subseteq Explorer(g)!query(x)
      PROVE  /\ [list EXCEPT ![x] = S] \in Lists
             /\ \A y \in Explorer(g)!Filters : [list EXCEPT ![x] = S][y] = list[y]
                                               \/ [list EXCEPT ![x] = S][y] \subseteq Explorer(g)!query(y)
  <2>1. Explorer(g)!query(x) \subseteq g.Events
    BY DEF Explorer!query, Explorer!matching
  <2> QED BY <1>q, <1>u, <2>1
<1>w. more \in SUBSET Explorer(g)!Filters /\ listFailed \in SUBSET Explorer(g)!Filters
  BY <1>t DEF Explorer!TypeOK
<1>13. ASSUME Explorer(g)!fetchAuditEvents PROVE Kept
  <2>1. failures' \in 0..g.MaxFailures
    BY <1>13, <1>u DEF Explorer!fetchAuditEvents
  <2>2. CASE Explorer(g)!refused(shown.filters)
    <3>1. Explorer(g)!Listed(list, more, listFailed \cup {shown.filters})
      BY <1>13, <2>2 DEF Explorer!fetchAuditEvents
    <3> QED BY <1>12, <1>u, <1>w, <2>1, <3>1
  <2>3. CASE ~Explorer(g)!refused(shown.filters)
    <3> DEFINE read == Explorer(g)!firstPage(shown.filters)
    <3>1. read \subseteq Explorer(g)!query(shown.filters)
      BY DEF Explorer!firstPage
    <3>2. PICK m \in SUBSET Explorer(g)!Filters :
            Explorer(g)!Listed([list EXCEPT ![shown.filters] = read], m, listFailed \ {shown.filters})
      <4>1. more \ {shown.filters} \in SUBSET Explorer(g)!Filters
            /\ more \cup {shown.filters} \in SUBSET Explorer(g)!Filters
        BY <1>u, <1>w
      <4> QED BY <1>13, <2>3, <4>1 DEF Explorer!fetchAuditEvents
    <3> HIDE DEF read
    <3>3. listFailed \ {shown.filters} \in SUBSET Explorer(g)!Filters
      BY <1>w
    <3> QED BY <1>12, <1>q, <2>1, <3>1, <3>2, <3>3
  <2> QED BY <2>2, <2>3
<1>14. ASSUME Explorer(g)!fetchNextPage PROVE Kept
  <2>1. failures' \in 0..g.MaxFailures /\ more \ {shown.filters} \in SUBSET Explorer(g)!Filters
        /\ Explorer(g)!Listed([list EXCEPT ![shown.filters] = Explorer(g)!query(shown.filters)],
                            more \ {shown.filters}, listFailed)
    BY <1>14, <1>u, <1>w DEF Explorer!fetchNextPage
  <2> QED BY <1>12, <1>q, <1>w, <2>1
<1>15. ASSUME Explorer(g)!ListFails PROVE Kept
  <2>1. failures' \in 0..g.MaxFailures /\ listFailed \cup {shown.filters} \in SUBSET Explorer(g)!Filters
        /\ Explorer(g)!Listed(list, more, listFailed \cup {shown.filters})
    BY <1>15, <1>f, <1>u, <1>w DEF Explorer!ListFails
  <2> QED BY <1>12, <1>u, <1>w, <2>1
<1>e. lookAsked => shown.event \in g.Events
  BY <1>t, <1>u DEF Explorer!TypeOK, Explorer!fallbackEnabled
<1>16. ASSUME NEW k \in [g.Events -> {NoData} \cup g.Events], NEW kf \in SUBSET g.Events,
              Explorer(g)!LookedUp(k, kf), failures' \in 0..g.MaxFailures,
              k[shown.event] # NoData \/ shown.event \in kf,
              \A e \in g.Events : k[e] = look[e] \/ e \in Explorer(g)!permitted
       PROVE  Kept
  <2>1. look' = k /\ lookFailed' = kf /\ lookAsked' = FALSE
        /\ UNCHANGED <<url, shown, past, userInput, list, more, listFailed, listAsked, moves, wanted, raced>>
    BY <1>16 DEF Explorer!LookedUp
  <2>2. Explorer(g)!TypeOK'
    BY <1>16, <1>t, <2>1 DEF Explorer!TypeOK
  <2>3. Open
    BY <1>16, <2>1
  <2>4. \A e \in Explorer(g)!permitted : g.IsAdmin \/ g.actor[e] = g.Me
    BY DEF Explorer!permitted
  <2>5. Explorer(g)!InScope'
    BY <1>16, <1>t, <2>1, <2>4 DEF Explorer!InScope
  <2> QED BY <1>n, <1>s, <2>1, <2>2, <2>3, <2>5 DEF Explorer!ExplorerInv
<1>k. look \in [g.Events -> {NoData} \cup g.Events] /\ lookFailed \in SUBSET g.Events
  BY <1>t DEF Explorer!TypeOK
<1>17. ASSUME Explorer(g)!fetchAuditEvent PROVE Kept
  <2>1. failures' \in 0..g.MaxFailures /\ shown.event \in g.Events
    BY <1>17, <1>e, <1>u DEF Explorer!fetchAuditEvent
  <2>2. CASE shown.event \in Explorer(g)!permitted
    <3> DEFINE k == [look EXCEPT ![shown.event] = shown.event]
    <3>1. Explorer(g)!LookedUp(k, lookFailed \ {shown.event})
      BY <1>17, <2>2 DEF Explorer!fetchAuditEvent
    <3>2. k \in [g.Events -> {NoData} \cup g.Events] /\ k[shown.event] = shown.event
          /\ \A e \in g.Events : k[e] = look[e] \/ e \in Explorer(g)!permitted
      BY <1>k, <2>1, <2>2
    <3>3. k[shown.event] # NoData /\ lookFailed \ {shown.event} \in SUBSET g.Events
      BY <1>k, <1>m, <2>1, <3>2
    <3> HIDE DEF k
    <3> QED BY <1>16, <2>1, <3>1, <3>2, <3>3
  <2>3. CASE shown.event \notin Explorer(g)!permitted
    <3>1. Explorer(g)!LookedUp(look, lookFailed \cup {shown.event})
      BY <1>17, <2>3 DEF Explorer!fetchAuditEvent, Explorer!failing
    <3>2. lookFailed \cup {shown.event} \in SUBSET g.Events
      BY <1>k, <2>1
    <3> QED BY <1>16, <1>k, <2>1, <3>1, <3>2
  <2> QED BY <2>2, <2>3
<1>18. ASSUME Explorer(g)!LookFails PROVE Kept
  <2>1. failures' \in 0..g.MaxFailures /\ lookFailed \cup {shown.event} \in SUBSET g.Events
        /\ Explorer(g)!LookedUp(look, lookFailed \cup {shown.event})
    BY <1>18, <1>e, <1>f, <1>k DEF Explorer!LookFails, Explorer!failing
  <2> QED BY <1>16, <1>k, <2>1
<1> HIDE DEF Kept
<1> QED BY <1>1, <1>2, <1>3, <1>5, <1>6, <1>7, <1>8, <1>9, <1>10, <1>11, <1>13, <1>14, <1>15,
           <1>17, <1>18 DEF Explorer!Next

LEMMA ExplorerStutters ==
  ASSUME NEW g, Explorer(g)!ExplorerInv, UNCHANGED Explorer(g)!vars
  PROVE  Explorer(g)!ExplorerInv'
<1> USE DEF Explorer!vars, Explorer!ExplorerInv
<1>1. Explorer(g)!TypeOK'
  BY DEF Explorer!TypeOK, Explorer!fallbackEnabled, Explorer!listSelected, Explorer!events
<1>2. Explorer(g)!NeverBlank'
  BY DEF Explorer!NeverBlank, Explorer!SheetOpen, Explorer!HasEvent, Explorer!ShowsLoading,
     Explorer!ShowsError, Explorer!fallbackEnabled, Explorer!listSelected, Explorer!events
<1>3. Explorer(g)!InScope' /\ Explorer(g)!WantedIsOnItsWay'
  BY DEF Explorer!InScope, Explorer!WantedIsOnItsWay, Explorer!events
<1> QED BY <1>1, <1>2, <1>3

LEMMA ExplorerInit ==
  ASSUME NEW g, Explorer(g)!ExplorerAssumption, Explorer(g)!Init
  PROVE  Explorer(g)!ExplorerInv
<1>m. g.MaxMoves \in Nat /\ g.MaxFailures \in Nat /\ g.Starts \subseteq Explorer(g)!Urls
  BY DEF Explorer!ExplorerAssumption
<1>1. url \in Explorer(g)!Urls /\ shown = url /\ userInput = url.filters.user
  BY <1>m DEF Explorer!Init, Explorer!F
<1>2. userInput \in g.Users \cup {AnyUser}
  BY <1>1 DEF Explorer!Urls, Explorer!Filters
<1>3. /\ past \in Seq(Explorer(g)!Urls) /\ list \in [Explorer(g)!Filters -> {NoData} \cup SUBSET g.Events]
      /\ look \in [g.Events -> {NoData} \cup g.Events] /\ more = {} /\ listFailed = {}
      /\ lookFailed = {} /\ listAsked = TRUE /\ raced = FALSE /\ wanted = url /\ lookAsked \in BOOLEAN
  BY DEF Explorer!Init, Explorer!fallbackEnabled
<1>4. lookAsked <=> Explorer(g)!fallbackEnabled(shown, list)
  BY DEF Explorer!Init
<1>5. moves \in 0..g.MaxMoves /\ failures \in 0..g.MaxFailures
  BY <1>m DEF Explorer!Init
<1>a. url.filters = [url.filters EXCEPT !.user = url.filters.user]
  BY <1>1 DEF Explorer!Urls, Explorer!Filters
<1>6. Explorer(g)!TypeOK
  BY <1>1, <1>2, <1>3, <1>4, <1>5 DEF Explorer!TypeOK
<1>7. Explorer(g)!NeverBlank
  BY <1>4, SheetHasSomething
<1>8. Explorer(g)!InScope
  BY DEF Explorer!Init, Explorer!InScope, Explorer!events, Explorer!F, Explorer!Address
<1>9. Explorer(g)!WantedIsOnItsWay
  BY <1>1, <1>3, <1>a DEF Explorer!WantedIsOnItsWay, Explorer!F
<1> QED BY <1>6, <1>7, <1>8, <1>9 DEF Explorer!ExplorerInv

LEMMA ExplorerHolds ==
  ASSUME NEW g, Explorer(g)!ExplorerAssumption, Explorer(g)!ExplorerInv
  PROVE  Explorer(g)!TypeOK /\ Explorer(g)!NeverBlank /\ Explorer(g)!InScope /\ Explorer(g)!AsTheUserWants
<1>1. Explorer(g)!TypeOK /\ Explorer(g)!NeverBlank /\ Explorer(g)!InScope /\ Explorer(g)!WantedIsOnItsWay
  BY DEF Explorer!ExplorerInv
<1>2. Explorer(g)!AsTheUserWants
  BY <1>1 DEF Explorer!WantedIsOnItsWay, Explorer!AsTheUserWants, Explorer!F
<1> QED BY <1>1, <1>2

-----------------------------------------------------------------------------
(* The panel of the note of a host.                                         *)

\* The shapes of the state, part by part: what is told and counted, what is on the
\* screen, the fetch and the fetch of the revisions.
NotesCounted(g) ==
  /\ note \in [g.Hosts -> Panel(g)!Note] /\ dirty \subseteq g.Hosts
  /\ log \in [g.Hosts -> Panel(g)!Revisions \cup {NoData}] /\ logDirty \subseteq g.Hosts
  /\ own \in [g.Hosts -> Nat] /\ heard \in [g.Hosts -> Nat]
  /\ writes \in 0..g.MaxWrites /\ failures \in 0..g.MaxFailures /\ looks \in 0..g.MaxLooks
  /\ clock \in Nat
NotesScreen(g) ==
  /\ at \in g.Hosts \cup {Closed} /\ cache \in [g.Hosts -> Panel(g)!Note \cup {NoData}]
  /\ failed \subseteq g.Hosts /\ editing \in BOOLEAN /\ (at = Closed => ~editing)
  /\ editor \in Panel(g)!Editors \cup {NoEditor}
  /\ (editor # NoEditor) <=> Panel(g)!ShowsEditor
  /\ editor # NoEditor => editor.key = cache[at].rev
  /\ opened \in BOOLEAN /\ (opened => Panel(g)!ShowsNote)
NotesCalls(g) ==
  /\ calls \subseteq Panel(g)!Calls /\ \A c \in calls : c.answer \in Panel(g)!Answered(c.op)
  /\ Panel(g)!PendingInFlight
NotesFetch(g) == fetch \in Panel(g)!Note \cup {Idle, Asked} /\ (fetch # Idle => at # Closed)
NotesLook(g) == look \in Panel(g)!Revisions \cup {Idle, Asked} /\ (look # Idle => Panel(g)!ShowsNote)

LEMMA NotesParts ==
  ASSUME NEW g
  PROVE  Panel(g)!TypeOK <=> NotesCounted(g) /\ NotesScreen(g) /\ NotesCalls(g) /\ NotesFetch(g) /\ NotesLook(g)
  BY DEF Panel!TypeOK, NotesCounted, NotesScreen, NotesCalls, NotesFetch, NotesLook

\* Two records of a call, which differ in the host it is for at most.
SameCall(x, y) ==
  /\ x.n = y.n /\ x.op = y.op /\ x.host = y.host /\ x.expected = y.expected /\ x.draft = y.draft
  /\ x.answer = y.answer /\ x.over = y.over /\ x.done = y.done

\* What a render leaves: the editor is the former one or a new one for the note.
NotesRendered(g, h, c, e, ed, cs) ==
  /\ at' = h /\ cache' = c /\ failed' = e /\ editing' = ed
  /\ NotesScreen(g)' /\ (Panel(g)!NoteStays(h, c, e, ed) => Panel(g)!ShowsNote')
  /\ editor' # NoEditor =>
       h \in g.Hosts /\ c[h] \in Panel(g)!Note /\ (editor' = editor \/ editor' = Panel(g)!Fresh(h, c[h]))
  /\ calls' \subseteq Panel(g)!Calls /\ \A x \in calls' : \E y \in cs : SameCall(x, y)
  /\ Panel(g)!PendingInFlight'

LEMMA BodyIsNote ==
  ASSUME NEW g, NEW h \in g.Hosts \cup {Closed}, NEW c \in [g.Hosts -> Panel(g)!Note \cup {NoData}],
         NEW e, Panel(g)!HasBody(h, c, e)
  PROVE  h \in g.Hosts /\ c[h] \in Panel(g)!Note
  BY DEF Panel!HasBody, Panel!isLoading

LEMMA FreshEditor ==
  ASSUME NEW g, Panel(g)!PanelAssumption, NEW h \in g.Hosts, NEW n \in Panel(g)!Note
  PROVE  Panel(g)!Fresh(h, n) \in Panel(g)!Editors /\ Panel(g)!Fresh(h, n) # NoEditor
         /\ Panel(g)!Fresh(h, n).key = n.rev /\ Panel(g)!Fresh(h, n).pending = 0
<1>1. g.MaxWrites \in Nat
  BY DEF Panel!PanelAssumption
<1>2. 0 \in 0..g.MaxWrites
  BY <1>1
<1>3. Panel(g)!Draft(h, n) \in Panel(g)!Drafts
  BY DEF Panel!Draft, Panel!Drafts, Panel!Note
<1>4. Panel(g)!Fresh(h, n) \in Panel(g)!Editors
  BY <1>2, <1>3 DEF Panel!Fresh, Panel!Editors, Panel!Note
<1> QED BY <1>4 DEF Panel!PanelAssumption, Panel!Fresh

LEMMA NotesRendering ==
  ASSUME NEW g, Panel(g)!PanelAssumption, NotesScreen(g), NotesCalls(g),
         NEW h \in g.Hosts \cup {Closed}, NEW c \in [g.Hosts -> Panel(g)!Note \cup {NoData}],
         NEW e \in SUBSET g.Hosts, NEW ed \in BOOLEAN, NEW cs \in SUBSET calls, h = Closed => ~ed,
         deleting # 0 => \E x \in cs : x.n = deleting /\ x.op = "delete",
         ed /\ editor # NoEditor /\ editor.pending # 0 =>
           \E x \in cs : x.n = editor.pending /\ x.op = "save",
         Panel(g)!Render(h, c, e, ed, cs)
  PROVE  NotesRendered(g, h, c, e, ed, cs)
<1> DEFINE stays == Panel(g)!NoteStays(h, c, e, ed)
           next == Panel(g)!Rendered(h, c, e, ed)
           kept == stays \/ (editor # NoEditor /\ next # NoEditor /\ next.pending # 0)
<1>1. /\ at' = h /\ cache' = c /\ failed' = e /\ editing' = ed /\ editor' = next
      /\ deleting' = (IF stays THEN deleting ELSE 0) /\ opened' = (opened /\ stays)
      /\ calls' = {Panel(g)!Readdressed(x, h, kept) : x \in cs}
  BY DEF Panel!Render
<1>2. Panel(g)!HasBody(h, c, e) => h \in g.Hosts /\ c[h] \in Panel(g)!Note
  BY BodyIsNote
<1>3. IF ed /\ Panel(g)!HasBody(h, c, e)
        THEN /\ next \in Panel(g)!Editors /\ next # NoEditor /\ next.key = c[h].rev
             /\ next = editor \/ (next = Panel(g)!Fresh(h, c[h]) /\ next.pending = 0)
        ELSE next = NoEditor
  <2>1. CASE ed /\ Panel(g)!HasBody(h, c, e)
    <3>1. next = Panel(g)!Keyed(h, c[h])
      BY <2>1 DEF Panel!Rendered
    <3>2. CASE editor # NoEditor /\ editor.key = c[h].rev
      BY <2>1, <3>1, <3>2 DEF Panel!Keyed, NotesScreen
    <3>3. CASE ~(editor # NoEditor /\ editor.key = c[h].rev)
      <4>1. next = Panel(g)!Fresh(h, c[h])
        BY <3>1, <3>3 DEF Panel!Keyed
      <4>2. h \in g.Hosts /\ c[h] \in Panel(g)!Note
        BY <1>2, <2>1
      <4> HIDE DEF next
      <4> QED BY <2>1, <4>1, <4>2, FreshEditor
    <3> QED BY <3>2, <3>3
  <2>2. CASE ~(ed /\ Panel(g)!HasBody(h, c, e))
    BY <2>2 DEF Panel!Rendered
  <2> QED BY <2>1, <2>2
<1> HIDE DEF next
<1>4. kept => h \in g.Hosts
  BY <1>2, <1>3 DEF Panel!NoteStays
<1>5. stays => Panel(g)!ShowsNote'
  BY <1>1 DEF Panel!NoteStays, Panel!ShowsNote
<1>6. (editor' # NoEditor) <=> Panel(g)!ShowsEditor'
  BY <1>1, <1>3 DEF Panel!ShowsEditor
<1> HIDE DEF stays, kept
<1>7. NotesScreen(g)'
  <2>1. editor' \in Panel(g)!Editors \cup {NoEditor} /\ (editor' # NoEditor => editor'.key = cache'[at'].rev)
    BY <1>1, <1>3
  <2>2. opened' \in BOOLEAN /\ (opened' => Panel(g)!ShowsNote')
    BY <1>1, <1>5 DEF NotesScreen, stays
  <2> QED BY <1>1, <1>6, <2>1, <2>2 DEF NotesScreen
<1>8. ASSUME NEW y \in cs
      PROVE  SameCall(Panel(g)!Readdressed(y, h, kept), y) /\ Panel(g)!Readdressed(y, h, kept) \in Panel(g)!Calls
  <2>1. y \in Panel(g)!Calls
    BY DEF NotesCalls
  <2>2. CASE Panel(g)!Mounted(y) /\ kept
    <3>1. Panel(g)!Readdressed(y, h, kept) = [y EXCEPT !.key = h]
      BY <2>2 DEF Panel!Readdressed
    <3> QED BY <1>4, <2>1, <2>2, <3>1 DEF Panel!Calls, SameCall
  <2>3. CASE ~(Panel(g)!Mounted(y) /\ kept)
    BY <2>1, <2>3 DEF Panel!Readdressed, SameCall
  <2> QED BY <2>2, <2>3
<1>9. calls' \subseteq Panel(g)!Calls /\ \A x \in calls' : \E y \in cs : SameCall(x, y)
  BY <1>1, <1>8
<1>10. \A y \in cs : \E x \in calls' : x.n = y.n /\ x.op = y.op
  BY <1>1, <1>8 DEF SameCall
<1>11. Panel(g)!PendingInFlight'
  <2>1. deleting' # 0 => \E x \in calls' : x.n = deleting' /\ x.op = "delete"
    BY <1>1, <1>10
  <2>2. editor' # NoEditor /\ editor'.pending # 0 => ed /\ editor' = editor
    BY <1>1, <1>3
  <2>3. editor' # NoEditor /\ editor'.pending # 0 => \E x \in calls' : x.n = editor'.pending /\ x.op = "save"
    BY <1>10, <2>2
  <2> QED BY <2>1, <2>3 DEF Panel!PendingInFlight
<1>12. editor' # NoEditor =>
         h \in g.Hosts /\ c[h] \in Panel(g)!Note /\ (editor' = editor \/ editor' = Panel(g)!Fresh(h, c[h]))
  BY <1>1, <1>2, <1>3
<1> QED BY <1>1, <1>5, <1>7, <1>9, <1>11, <1>12 DEF NotesRendered, stays

LEMMA NotesCallsKept ==
  ASSUME NEW g, NotesCalls(g), NEW h, NEW c, NEW e, NEW ed, NEW cs \in SUBSET calls,
         NotesRendered(g, h, c, e, ed, cs)
  PROVE  NotesCalls(g)'
  BY DEF NotesCalls, NotesRendered, SameCall

LEMMA NotesLooking ==
  ASSUME NEW g, NotesLook(g), NEW h, NEW stays \in BOOLEAN, Panel(g)!Looking(h, stays),
         stays => Panel(g)!ShowsNote'
  PROVE  NotesLook(g)' /\ UNCHANGED <<log, logDirty, looks, heard>>
<1>1. look' \in {look, Idle, Asked} /\ (look' # Idle => stays) /\ UNCHANGED <<log, logDirty, looks, heard>>
  BY DEF Panel!Looking, Panel!LookUp
<1> QED BY <1>1 DEF NotesLook

LEMMA NotesInvalidated ==
  ASSUME NEW g, NotesLook(g), NotesCounted(g), NEW h \in g.Hosts, NEW stays \in BOOLEAN,
         Panel(g)!InvalidateLog(h, stays), stays => Panel(g)!ShowsNote', own' \in [g.Hosts -> Nat]
  PROVE  NotesLook(g)' /\ UNCHANGED <<log, looks>> /\ logDirty' \subseteq g.Hosts
         /\ heard' \in [g.Hosts -> Nat]
<1>1. look' \in {look, Idle, Asked} /\ (look' # Idle => stays) /\ UNCHANGED <<log, looks>>
  BY DEF Panel!InvalidateLog
<1>2. logDirty' \subseteq g.Hosts /\ heard' \in [g.Hosts -> Nat]
  BY DEF Panel!InvalidateLog, NotesCounted
<1> QED BY <1>1, <1>2 DEF NotesLook

LEMMA NotesTold ==
  ASSUME NEW g, NotesCounted(g), NEW c \in Panel(g)!Calls, Panel(g)!Told(c)
  PROVE  own' \in [g.Hosts -> Nat]
<1>1. c.host \in g.Hosts /\ c.done \in Nat
  BY DEF Panel!Calls
<1>2. own \in [g.Hosts -> Nat]
  BY DEF NotesCounted
<1> QED BY <1>1, <1>2 DEF Panel!Told, Panel!Newer

\* What the server makes of a note, of any of the two.
LEMMA NoteWritten ==
  ASSUME NEW g, NEW n \in Panel(g)!Note, NEW w \in Nat
  PROVE  Panel(g)!Saved(n, w) \in Panel(g)!Note /\ Panel(g)!Deleted(w) \in Panel(g)!Note
  BY DEF Panel!Saved, Panel!Deleted, Panel!Note

LEMMA NotesScreenKept ==
  ASSUME NEW g, NotesScreen(g), UNCHANGED <<at, cache, failed, editing, editor, opened>>
  PROVE  NotesScreen(g)'
  BY DEF NotesScreen, Panel!ShowsEditor, Panel!ShowsNote, Panel!HasBody, Panel!isLoading

\* The editor changes, and is the editor of the same note.
LEMMA NotesEdited ==
  ASSUME NEW g, NotesScreen(g), UNCHANGED <<at, cache, failed, editing, opened>>,
         editor # NoEditor, editor' \in Panel(g)!Editors, editor' # NoEditor, editor'.key = editor.key
  PROVE  NotesScreen(g)'
  BY DEF NotesScreen, Panel!ShowsEditor, Panel!ShowsNote, Panel!HasBody, Panel!isLoading

LEMMA NotesLookKept ==
  ASSUME NEW g, NotesLook(g), UNCHANGED <<at, cache, failed, editing, look>>
  PROVE  NotesLook(g)'
  BY DEF NotesLook, Panel!ShowsNote, Panel!HasBody, Panel!isLoading

\* An answer is noted on a call.
LEMMA NotesAnswered ==
  ASSUME NEW g, NotesCalls(g), NEW c \in calls, NEW x \in Panel(g)!Calls, x.n = c.n, x.op = c.op,
         x.answer \in Panel(g)!Answered(c.op), calls' = (calls \ {c}) \cup {x},
         UNCHANGED <<editor, deleting>>
  PROVE  NotesCalls(g)'
  BY DEF NotesCalls, Panel!PendingInFlight

\* A call ends, and nothing waits for it any more.
LEMMA NotesEnded ==
  ASSUME NEW g, NotesCalls(g), NEW c \in calls, calls' = calls \ {c},
         deleting' = deleting \/ deleting' = 0, c.op = "delete" => deleting' # c.n \/ deleting' = 0,
         editor' # NoEditor => (editor # NoEditor /\ editor'.pending = editor.pending) \/ editor'.pending = 0,
         c.op = "save" /\ editor' # NoEditor => editor'.pending # c.n \/ editor'.pending = 0
  PROVE  NotesCalls(g)'
<1>1. calls' \subseteq Panel(g)!Calls /\ \A x \in calls' : x.answer \in Panel(g)!Answered(x.op)
  BY DEF NotesCalls
<1>2. deleting' # 0 => \E x \in calls' : x.n = deleting' /\ x.op = "delete"
  BY DEF NotesCalls, Panel!PendingInFlight
<1>3. editor' # NoEditor /\ editor'.pending # 0 => \E x \in calls' : x.n = editor'.pending /\ x.op = "save"
  BY DEF NotesCalls, Panel!PendingInFlight
<1> QED BY <1>1, <1>2, <1>3 DEF NotesCalls, Panel!PendingInFlight

LEMMA NotesType ==
  ASSUME NEW g, Panel(g)!PanelAssumption, Panel(g)!TypeOK, Panel(g)!Next
  PROVE  Panel(g)!TypeOK'
<1> DEFINE Kept == /\ NotesCounted(g)' /\ NotesScreen(g)' /\ NotesCalls(g)' /\ NotesFetch(g)' /\ NotesLook(g)'
           Caches == [g.Hosts -> Panel(g)!Note \cup {NoData}]
<1> SUFFICES Kept
  BY DEF Panel!TypeOK, NotesCounted, NotesScreen, NotesCalls, NotesFetch, NotesLook
<1> USE DEF Panel!history
<1>t. NotesCounted(g) /\ NotesScreen(g) /\ NotesCalls(g) /\ NotesFetch(g) /\ NotesLook(g)
  BY NotesParts
<1>m. g.MaxWrites \in Nat /\ g.MaxFailures \in Nat /\ g.MaxLooks \in Nat /\ Closed \notin g.Hosts
  BY DEF Panel!PanelAssumption
<1>s. /\ at \in g.Hosts \cup {Closed} /\ cache \in Caches /\ failed \in SUBSET g.Hosts /\ editing \in BOOLEAN
      /\ note \in [g.Hosts -> Panel(g)!Note] /\ clock \in Nat /\ writes \in 0..g.MaxWrites
      /\ failures \in 0..g.MaxFailures /\ calls \subseteq Panel(g)!Calls
  BY <1>t DEF NotesScreen, NotesCounted, NotesCalls
<1>p. /\ deleting # 0 => \E x \in calls : x.n = deleting /\ x.op = "delete"
      /\ editor # NoEditor /\ editor.pending # 0 => \E x \in calls : x.n = editor.pending /\ x.op = "save"
  BY <1>t DEF NotesCalls, Panel!PendingInFlight
<1>b. Panel(g)!ShowsEditor \/ Panel(g)!ShowsNote \/ Panel(g)!ShowsEmpty => at \in g.Hosts /\ cache[at] \in Panel(g)!Note
  BY <1>s, BodyIsNote DEF Panel!ShowsEditor, Panel!ShowsNote, Panel!ShowsEmpty
<1>e. editor # NoEditor => Panel(g)!ShowsEditor /\ editor \in Panel(g)!Editors /\ editor.key = cache[at].rev
  BY <1>t DEF NotesScreen
<1>f. ASSUME failures < g.MaxFailures, failures' = failures + 1 PROVE failures' \in 0..g.MaxFailures
  BY <1>f, <1>m, <1>s
<1>w. ASSUME writes < g.MaxWrites PROVE writes + 1 \in 0..g.MaxWrites /\ writes + 1 \in 1..g.MaxWrites
  BY <1>w, <1>m, <1>s
<1>c. UNCHANGED <<note, dirty, log, logDirty, own, heard, writes, failures, looks, clock>> => NotesCounted(g)'
  BY <1>t DEF NotesCounted
<1>r. ASSUME NEW h \in g.Hosts \cup {Closed}, NEW c \in Caches, NEW e \in SUBSET g.Hosts, NEW ed \in BOOLEAN,
             h = Closed => ~ed, Panel(g)!Render(h, c, e, ed, calls), NEW stays \in BOOLEAN,
             stays => Panel(g)!NoteStays(h, c, e, ed), Panel(g)!Looking(h, stays)
      PROVE  /\ NotesScreen(g)' /\ NotesCalls(g)' /\ NotesLook(g)' /\ at' = h
             /\ UNCHANGED <<log, logDirty, looks, heard>>
  <2>1. NotesRendered(g, h, c, e, ed, calls)
    BY <1>p, <1>r, <1>t, NotesRendering
  <2>2. NotesScreen(g)' /\ (stays => Panel(g)!ShowsNote') /\ at' = h
    BY <1>r, <2>1 DEF NotesRendered
  <2>3. NotesCalls(g)'
    BY <1>t, <2>1, NotesCallsKept
  <2> QED BY <1>r, <1>t, <2>2, <2>3, NotesLooking
<1>ra. ASSUME NEW cs \in SUBSET calls, NEW ed \in BOOLEAN, at = Closed => ~ed,
              deleting # 0 => \E x \in cs : x.n = deleting /\ x.op = "delete",
              ed /\ editor # NoEditor /\ editor.pending # 0 =>
                \E x \in cs : x.n = editor.pending /\ x.op = "save",
              Panel(g)!Render(at, cache, failed, ed, cs)
       PROVE  NotesRendered(g, at, cache, failed, ed, cs)
  BY <1>ra, <1>s, <1>t, NotesRendering
<1>y. \A h, c, e, ed : Panel(g)!NoteStays(h, c, e, ed) \in BOOLEAN
  BY DEF Panel!NoteStays, Panel!ShowsNote, Panel!HasBody
<1>q. ASSUME NEW h, Panel(g)!Refetched(h) PROVE fetch' \in {fetch, Asked}
  BY <1>q DEF Panel!Refetched
<1>i. Idle # Asked /\ Asked \notin Panel(g)!Note /\ Idle \notin Panel(g)!Note /\ NoData \notin Panel(g)!Note
  BY DEF Panel!PanelAssumption
<1>z. 0 \in 0..g.MaxWrites
  BY <1>m
<1>n1. NoEditor \notin Panel(g)!Editors
  BY DEF Panel!PanelAssumption
<1>n. ASSUME UNCHANGED <<at, cache, failed, editing, opened, deleting, calls>>, editor # NoEditor,
             editor' \in Panel(g)!Editors, editor'.key = editor.key, editor'.pending \in {0, editor.pending}
      PROVE  NotesScreen(g)' /\ NotesCalls(g)'
  <2>1. NotesScreen(g)'
    BY <1>n, <1>n1, <1>t, NotesEdited
  <2>2. NotesCalls(g)'
    BY <1>n, <1>t DEF NotesCalls, Panel!PendingInFlight
  <2> QED BY <2>1, <2>2
<1>1. ASSUME NEW h \in g.Hosts, Panel(g)!Open(h) PROVE Kept
  <2>1. /\ at = Closed /\ at' = h /\ fetch' \in {Asked, Idle} /\ failed' \in SUBSET g.Hosts
        /\ UNCHANGED <<note, cache, dirty, editing, editor, deleting, calls, opened, log, logDirty,
                       look, looks, heard, writes, failures, clock, own>>
    BY <1>1, <1>s DEF Panel!Open, Panel!useHostNote
  <2>2. ~Panel(g)!ShowsEditor /\ ~Panel(g)!ShowsNote
    BY <2>1 DEF Panel!ShowsEditor, Panel!ShowsNote, Panel!HasBody
  <2>3. editor = NoEditor /\ opened = FALSE /\ look = Idle
    BY <1>t, <2>2 DEF NotesScreen, NotesLook
  <2> QED BY <1>c, <1>t, <2>1, <2>2, <2>3, <1>m
          DEF NotesScreen, NotesCalls, NotesFetch, NotesLook, Panel!PendingInFlight, Panel!ShowsEditor
<1>2. ASSUME NEW h \in g.Hosts, Panel(g)!goToHost(h) PROVE Kept
  <2> DEFINE e == IF cache[h] = NoData THEN failed \ {h} ELSE failed
             stays == Panel(g)!NoteStays(h, cache, e, editing)
  <2>1. /\ Panel(g)!Render(h, cache, e, editing, calls) /\ Panel(g)!Looking(h, stays)
        /\ fetch' \in {Asked, Idle} /\ UNCHANGED <<note, dirty, writes, failures, clock, own>>
    BY <1>2 DEF Panel!goToHost
  <2>2. e \in SUBSET g.Hosts /\ stays \in BOOLEAN
    BY <1>s, <1>y
  <2> HIDE DEF e
  <2>3. /\ NotesScreen(g)' /\ NotesCalls(g)' /\ NotesLook(g)' /\ at' = h
        /\ UNCHANGED <<log, logDirty, looks, heard>>
    BY <1>m, <1>r, <1>s, <2>1, <2>2
  <2> QED BY <1>c, <1>m, <2>1, <2>3 DEF NotesFetch
<1>3. ASSUME Panel(g)!closeDetail PROVE Kept
  <2>1. /\ Panel(g)!Render(Closed, cache, failed, FALSE, calls) /\ Panel(g)!Looking(Closed, FALSE)
        /\ fetch' = Idle /\ UNCHANGED <<note, dirty, writes, failures, clock, own>>
    BY <1>3 DEF Panel!closeDetail
  <2>2. /\ NotesScreen(g)' /\ NotesCalls(g)' /\ NotesLook(g)' /\ at' = Closed
        /\ UNCHANGED <<log, logDirty, looks, heard>>
    BY <1>r, <1>s, <2>1
  <2> QED BY <1>c, <2>1, <2>2 DEF NotesFetch
<1>4. ASSUME Panel(g)!Reconnect PROVE Kept
  <2>1. /\ \/ at # Closed /\ fetch = Idle /\ fetch' = Asked /\ UNCHANGED look
           \/ opened /\ look = Idle /\ look' = Asked /\ UNCHANGED fetch
        /\ UNCHANGED <<note, at, cache, dirty, failed, editing, editor, deleting, calls, opened, log,
                       logDirty, looks, heard, writes, failures, clock, own>>
    BY <1>4 DEF Panel!Reconnect
  <2>2. NotesScreen(g)' /\ (Panel(g)!ShowsNote => Panel(g)!ShowsNote')
    BY <1>t, <2>1, NotesScreenKept DEF Panel!ShowsNote, Panel!HasBody, Panel!isLoading
  <2>3. NotesCalls(g)' /\ NotesFetch(g)'
    BY <1>t, <2>1 DEF NotesCalls, NotesFetch, Panel!PendingInFlight
  <2>4. NotesLook(g)'
    BY <1>t, <2>1, <2>2 DEF NotesLook, NotesScreen
  <2> QED BY <1>c, <2>1, <2>2, <2>3, <2>4
<1>5. ASSUME Panel(g)!ServeFetch PROVE Kept
  <2>1. /\ fetch = Asked /\ fetch' = note[at]
        /\ UNCHANGED <<note, at, cache, dirty, failed, editing, editor, deleting, calls, opened, log,
                       logDirty, look, looks, heard, writes, failures, clock, own>>
    BY <1>5 DEF Panel!ServeFetch
  <2>2. at \in g.Hosts
    BY <1>s, <1>t, <2>1, <1>i DEF NotesFetch
  <2>3. NotesFetch(g)'
    BY <1>s, <2>1, <2>2, <1>m DEF NotesFetch
  <2> QED BY <1>c, <1>t, <2>1, <2>3, NotesScreenKept, NotesLookKept DEF NotesCalls, Panel!PendingInFlight
<1>6. ASSUME Panel(g)!fetchHostNote PROVE Kept
  <2> DEFINE c == [cache EXCEPT ![at] = fetch]
             stays == Panel(g)!NoteStays(at, c, failed \ {at}, editing)
  <2>1. /\ fetch \notin {Idle, Asked} /\ fetch' = Idle /\ dirty' = dirty \ {at}
        /\ Panel(g)!Render(at, c, failed \ {at}, editing, calls) /\ Panel(g)!Looking(at, stays)
        /\ UNCHANGED <<note, writes, failures, clock, own>>
    BY <1>6 DEF Panel!fetchHostNote
  <2>2. at \in g.Hosts /\ fetch \in Panel(g)!Note
    BY <1>s, <1>t, <2>1 DEF NotesFetch
  <2>3. c \in Caches /\ failed \ {at} \in SUBSET g.Hosts /\ stays \in BOOLEAN
    BY <1>s, <1>y, <2>2
  <2> HIDE DEF c
  <2>4. /\ NotesScreen(g)' /\ NotesCalls(g)' /\ NotesLook(g)' /\ at' = at
        /\ UNCHANGED <<log, logDirty, looks, heard>>
    BY <1>m, <1>r, <1>s, <2>1, <2>2, <2>3
  <2>5. NotesCounted(g)'
    BY <1>t, <2>1, <2>4 DEF NotesCounted
  <2> QED BY <2>1, <2>4, <2>5 DEF NotesFetch
<1>7. ASSUME Panel(g)!FetchFails PROVE Kept
  <2>1. /\ fetch # Idle /\ failures < g.MaxFailures /\ failures' = failures + 1 /\ fetch' = Idle
        /\ Panel(g)!Render(at, cache, failed \cup {at}, editing, calls) /\ Panel(g)!Looking(at, FALSE)
        /\ UNCHANGED <<note, dirty, writes, clock, own>>
    BY <1>7 DEF Panel!FetchFails
  <2>2. at \in g.Hosts /\ at # Closed
    BY <1>s, <1>t, <2>1 DEF NotesFetch
  <2>3. failed \cup {at} \in SUBSET g.Hosts
    BY <1>s, <2>2
  <2>4. /\ NotesScreen(g)' /\ NotesCalls(g)' /\ NotesLook(g)' /\ UNCHANGED <<log, logDirty, looks, heard>>
    BY <1>r, <1>s, <2>1, <2>2, <2>3
  <2>5. failures' \in 0..g.MaxFailures
    BY <1>f, <2>1
  <2>6. NotesCounted(g)'
    BY <1>t, <2>1, <2>4, <2>5 DEF NotesCounted
  <2> QED BY <2>1, <2>4, <2>6 DEF NotesFetch
<1>8. ASSUME Panel(g)!StartEditing PROVE Kept
  <2>1. /\ Panel(g)!ShowsNote \/ Panel(g)!ShowsEmpty
        /\ Panel(g)!Render(at, cache, failed, TRUE, calls) /\ Panel(g)!Looking(at, FALSE)
        /\ UNCHANGED <<note, dirty, fetch, writes, failures, clock, own>>
    BY <1>8 DEF Panel!StartEditing
  <2>2. at \in g.Hosts /\ at # Closed
    BY <1>b, <1>m, <2>1
  <2>3. /\ NotesScreen(g)' /\ NotesCalls(g)' /\ NotesLook(g)' /\ at' = at
        /\ UNCHANGED <<log, logDirty, looks, heard>>
    BY <1>r, <1>s, <2>1, <2>2
  <2> QED BY <1>c, <1>t, <2>1, <2>3 DEF NotesFetch
<1>9. ASSUME Panel(g)!Cancel PROVE Kept
  <2>1. /\ Panel(g)!Render(at, cache, failed, FALSE, calls) /\ Panel(g)!Looking(at, FALSE)
        /\ UNCHANGED <<note, dirty, fetch, writes, failures, clock, own>>
    BY <1>9 DEF Panel!Cancel
  <2>2. /\ NotesScreen(g)' /\ NotesCalls(g)' /\ NotesLook(g)' /\ at' = at
        /\ UNCHANGED <<log, logDirty, looks, heard>>
    BY <1>r, <1>s, <2>1
  <2> QED BY <1>c, <1>t, <2>1, <2>2 DEF NotesFetch
<1>k. UNCHANGED <<at, cache, failed, editing, look>> => NotesLook(g)'
  BY <1>t, NotesLookKept
<1>g. UNCHANGED <<at, fetch>> => NotesFetch(g)'
  BY <1>t DEF NotesFetch
<1>o. UNCHANGED <<at, cache, failed, editing, editor, opened>> => NotesScreen(g)'
  BY <1>t, NotesScreenKept
<1>10. ASSUME Panel(g)!Type PROVE Kept
  <2>1. /\ editor # NoEditor /\ editor' = [editor EXCEPT !.draft.typed = TRUE]
        /\ UNCHANGED <<note, at, cache, dirty, failed, opened, log, logDirty, look, looks, heard,
                       writes, failures, clock, own, fetch, editing, deleting, calls>>
    BY <1>10 DEF Panel!Type, Panel!Rest
  <2>2. editor' \in Panel(g)!Editors /\ editor'.key = editor.key /\ editor'.pending = editor.pending
    BY <1>e, <2>1 DEF Panel!Editors, Panel!Drafts
  <2> QED BY <1>c, <1>g, <1>k, <1>n, <2>1, <2>2
<1>11. ASSUME Panel(g)!submit PROVE Kept
  <2> DEFINE c == [n |-> writes + 1, op |-> "save", host |-> at, key |-> at,
                   expected |-> cache[at].rev, draft |-> editor.draft,
                   answer |-> "none", over |-> Panel(g)!Never, done |-> 0]
  <2>1. /\ editor # NoEditor /\ writes < g.MaxWrites /\ writes' = writes + 1 /\ calls' = calls \cup {c}
        /\ editor' = [editor EXCEPT !.pending = writes + 1]
        /\ UNCHANGED <<note, at, cache, dirty, failed, opened, log, logDirty, look, looks, heard,
                       failures, clock, own, fetch, editing, deleting>>
    BY <1>11 DEF Panel!submit
  <2>2. at \in g.Hosts /\ cache[at] \in Panel(g)!Note /\ editor \in Panel(g)!Editors
    BY <1>b, <1>e, <2>1
  <2>3. writes + 1 \in 0..g.MaxWrites /\ writes + 1 \in 1..g.MaxWrites
    BY <1>w, <2>1
  <2>4. c \in Panel(g)!Calls
    BY <2>2, <2>3 DEF Panel!Calls, Panel!Editors, Panel!Note, Panel!Never
  <2>5. /\ editor' \in Panel(g)!Editors /\ editor'.key = editor.key /\ editor' # NoEditor
        /\ editor'.pending = writes + 1
    BY <1>n1, <2>1, <2>2, <2>3 DEF Panel!Editors
  <2>6. NotesScreen(g)'
    BY <1>t, <2>1, <2>5, NotesEdited
  <2>7. c.n = writes + 1 /\ c.op = "save" /\ c.answer = "none"
    OBVIOUS
  <2> HIDE DEF c
  <2>8. NotesCalls(g)'
    BY <1>t, <2>1, <2>4, <2>5, <2>7 DEF NotesCalls, Panel!PendingInFlight, Panel!Answered
  <2>9. NotesCounted(g)'
    BY <1>t, <2>1, <2>3 DEF NotesCounted
  <2> QED BY <1>g, <1>k, <2>1, <2>6, <2>8, <2>9
<1>12. ASSUME Panel(g)!onDelete PROVE Kept
  <2> DEFINE c == [n |-> writes + 1, op |-> "delete", host |-> at, key |-> at,
                   expected |-> 0, draft |-> Panel(g)!Draft(at, cache[at]),
                   answer |-> "none", over |-> Panel(g)!Never, done |-> 0]
  <2>1. /\ Panel(g)!ShowsNote /\ writes < g.MaxWrites /\ writes' = writes + 1 /\ calls' = calls \cup {c}
        /\ deleting' = writes + 1
        /\ UNCHANGED <<note, at, cache, dirty, failed, opened, log, logDirty, look, looks, heard,
                       failures, clock, own, fetch, editing, editor>>
    BY <1>12 DEF Panel!onDelete
  <2>2. at \in g.Hosts /\ cache[at] \in Panel(g)!Note
    BY <1>b, <2>1
  <2>3. writes + 1 \in 0..g.MaxWrites /\ writes + 1 \in 1..g.MaxWrites
    BY <1>w, <2>1
  <2>4. c \in Panel(g)!Calls
    BY <2>2, <2>3 DEF Panel!Calls, Panel!Draft, Panel!Drafts, Panel!Note, Panel!Never
  <2>5. c.n = writes + 1 /\ c.op = "delete" /\ c.answer = "none"
    OBVIOUS
  <2> HIDE DEF c
  <2>6. NotesCalls(g)'
    BY <1>t, <2>1, <2>4, <2>5 DEF NotesCalls, Panel!PendingInFlight, Panel!Answered
  <2>7. NotesCounted(g)'
    BY <1>t, <2>1, <2>3 DEF NotesCounted
  <2> QED BY <1>g, <1>k, <1>o, <2>1, <2>6, <2>7
<1>13. ASSUME Panel(g)!OpenHistory PROVE Kept
  <2>1. /\ Panel(g)!ShowsNote /\ looks < g.MaxLooks /\ opened' = TRUE /\ looks' = looks + 1
        /\ look' \in Panel(g)!LookUp(at, look)
        /\ UNCHANGED <<note, at, cache, dirty, failed, fetch, editing, editor, deleting, calls, log,
                       logDirty, heard, writes, failures, clock, own>>
    BY <1>13 DEF Panel!OpenHistory
  <2>2. look' \in {look, Asked, Idle}
    BY <2>1 DEF Panel!LookUp
  <2>3. NotesScreen(g)' /\ Panel(g)!ShowsNote'
    BY <1>t, <2>1 DEF NotesScreen, Panel!ShowsEditor, Panel!ShowsNote, Panel!HasBody, Panel!isLoading
  <2>4. NotesCalls(g)'
    BY <1>t, <2>1 DEF NotesCalls, Panel!PendingInFlight
  <2>5. NotesLook(g)'
    BY <1>t, <2>2, <2>3 DEF NotesLook
  <2>6. looks' \in 0..g.MaxLooks
    BY <1>m, <1>t, <2>1 DEF NotesCounted
  <2>7. NotesCounted(g)'
    BY <1>t, <2>1, <2>6 DEF NotesCounted
  <2> QED BY <1>g, <2>1, <2>3, <2>4, <2>5, <2>7
<1>14. ASSUME Panel(g)!HideHistory PROVE Kept
  <2>1. /\ opened' = FALSE
        /\ UNCHANGED <<note, at, cache, dirty, failed, fetch, editing, editor, deleting, calls, log,
                       logDirty, look, looks, heard, writes, failures, clock, own>>
    BY <1>14 DEF Panel!HideHistory
  <2>2. NotesScreen(g)'
    BY <1>t, <2>1 DEF NotesScreen, Panel!ShowsEditor, Panel!HasBody, Panel!isLoading
  <2>3. NotesCalls(g)'
    BY <1>t, <2>1 DEF NotesCalls, Panel!PendingInFlight
  <2> QED BY <1>c, <1>g, <1>k, <2>1, <2>2, <2>3
<1>15. ASSUME Panel(g)!KeepEditing PROVE Kept
  <2>1. /\ editor # NoEditor /\ editor' = [editor EXCEPT !.conflict = FALSE]
        /\ UNCHANGED <<note, at, cache, dirty, failed, opened, log, logDirty, look, looks, heard,
                       writes, failures, clock, own, fetch, editing, deleting, calls>>
    BY <1>15 DEF Panel!KeepEditing, Panel!Rest
  <2>2. editor' \in Panel(g)!Editors /\ editor'.key = editor.key /\ editor'.pending = editor.pending
    BY <1>e, <2>1 DEF Panel!Editors
  <2> QED BY <1>c, <1>g, <1>k, <1>n, <2>1, <2>2
<1>16. ASSUME Panel(g)!onReloadLatest PROVE Kept
  <2>1. /\ editor # NoEditor /\ editor' = [editor EXCEPT !.conflict = FALSE, !.copying = TRUE]
        /\ UNCHANGED <<note, at, cache, dirty, failed, opened, log, logDirty, look, looks, heard,
                       writes, failures, clock, own, fetch, editing, deleting, calls>>
    BY <1>16 DEF Panel!onReloadLatest, Panel!Rest
  <2>2. editor' \in Panel(g)!Editors /\ editor'.key = editor.key /\ editor'.pending = editor.pending
    BY <1>e, <2>1 DEF Panel!Editors
  <2> QED BY <1>c, <1>g, <1>k, <1>n, <2>1, <2>2
<1>17. ASSUME Panel(g)!onReloadNote PROVE Kept
  <2>1. /\ editor # NoEditor /\ editor' = [editor EXCEPT !.copying = FALSE, !.copied = TRUE]
        /\ Panel(g)!Refetched(at)
        /\ UNCHANGED <<note, at, cache, dirty, failed, opened, log, logDirty, look, looks, heard,
                       writes, failures, clock, own, editing, deleting, calls>>
    BY <1>17 DEF Panel!onReloadNote, Panel!Rest
  <2>2. editor' \in Panel(g)!Editors /\ editor'.key = editor.key /\ editor'.pending = editor.pending
    BY <1>e, <2>1 DEF Panel!Editors
  <2>3. fetch' \in {fetch, Asked}
    BY <1>q, <2>1
  <2>4. NotesFetch(g)'
    BY <1>b, <1>e, <1>m, <1>t, <2>1, <2>3 DEF NotesFetch
  <2> QED BY <1>c, <1>k, <1>n, <2>1, <2>2, <2>4
<1>18. ASSUME NEW c \in calls, Panel(g)!put_note(c) PROVE Kept
  <2> DEFINE old == note[c.host]
             kind == CASE old.rev = c.expected -> "saved" [] old.rev = 0 -> "not_found" [] OTHER -> "conflict"
             x == [c EXCEPT !.answer = kind, !.over = old, !.done = note'[c.host].id]
  <2>1. /\ c.op = "save" /\ c.answer = "none" /\ calls' = (calls \ {c}) \cup {x}
        /\ IF kind = "saved"
             THEN note' = [note EXCEPT ![c.host] = Panel(g)!Saved(old, clock + 1)] /\ clock' = clock + 1
             ELSE UNCHANGED <<note, clock>>
        /\ UNCHANGED <<at, cache, dirty, failed, fetch, editing, editor, deleting, opened, log, logDirty,
                       look, looks, heard, writes, failures, own>>
    BY <1>18 DEF Panel!put_note
  <2>2. c \in Panel(g)!Calls /\ c.host \in g.Hosts /\ old \in Panel(g)!Note
    BY <1>s DEF Panel!Calls
  <2>3. kind \in {"saved", "not_found", "conflict"}
    OBVIOUS
  <2> HIDE DEF old, kind
  <2>4. note' \in [g.Hosts -> Panel(g)!Note] /\ clock' \in Nat
    BY <1>s, <2>1, <2>2, NoteWritten
  <2>5. x \in Panel(g)!Calls /\ x.n = c.n /\ x.op = c.op /\ x.answer \in Panel(g)!Answered(c.op)
    BY <2>1, <2>2, <2>3, <2>4 DEF Panel!Calls, Panel!Note, Panel!Answered
  <2> HIDE DEF x
  <2>6. NotesCalls(g)'
    BY <1>t, <2>1, <2>5, NotesAnswered
  <2>7. NotesCounted(g)'
    BY <1>t, <2>1, <2>4 DEF NotesCounted
  <2> QED BY <1>g, <1>k, <1>o, <2>1, <2>6, <2>7
<1>19. ASSUME NEW c \in calls, Panel(g)!delete_note(c) PROVE Kept
  <2> DEFINE old == note[c.host]
             kind == Panel(g)!deleteHostNote(old)
             x == [c EXCEPT !.answer = kind, !.over = old, !.done = note'[c.host].id]
  <2>1. /\ c.op = "delete" /\ c.answer = "none" /\ calls' = (calls \ {c}) \cup {x}
        /\ IF old.rev > 0
             THEN note' = [note EXCEPT ![c.host] = Panel(g)!Deleted(clock + 1)] /\ clock' = clock + 1
             ELSE UNCHANGED <<note, clock>>
        /\ UNCHANGED <<at, cache, dirty, failed, fetch, editing, editor, deleting, opened, log, logDirty,
                       look, looks, heard, writes, failures, own>>
    BY <1>19 DEF Panel!delete_note
  <2>2. c \in Panel(g)!Calls /\ c.host \in g.Hosts /\ old \in Panel(g)!Note
    BY <1>s DEF Panel!Calls
  <2>3. kind \in {"deleted", "absent"}
    BY DEF Panel!deleteHostNote
  <2> HIDE DEF old, kind
  <2>4. note' \in [g.Hosts -> Panel(g)!Note] /\ clock' \in Nat
    BY <1>s, <2>1, <2>2, NoteWritten
  <2>5. x \in Panel(g)!Calls /\ x.n = c.n /\ x.op = c.op /\ x.answer \in Panel(g)!Answered(c.op)
    BY <2>1, <2>2, <2>3, <2>4 DEF Panel!Calls, Panel!Note, Panel!Answered
  <2> HIDE DEF x
  <2>6. NotesCalls(g)'
    BY <1>t, <2>1, <2>5, NotesAnswered
  <2>7. NotesCounted(g)'
    BY <1>t, <2>1, <2>4 DEF NotesCounted
  <2> QED BY <1>g, <1>k, <1>o, <2>1, <2>6, <2>7
<1>20. ASSUME NEW h \in g.Hosts, Panel(g)!Other(h) PROVE Kept
  <2>1. /\ writes < g.MaxWrites /\ writes' = writes + 1 /\ clock' = clock + 1
        /\ \/ note' = [note EXCEPT ![h] = Panel(g)!Saved(note[h], clock')]
           \/ note' = [note EXCEPT ![h] = Panel(g)!Deleted(clock')]
        /\ UNCHANGED <<at, cache, dirty, failed, fetch, editing, editor, deleting, calls, opened, log,
                       logDirty, look, looks, heard, failures, own>>
    BY <1>20, <1>s DEF Panel!Other
  <2>2. note' \in [g.Hosts -> Panel(g)!Note] /\ clock' \in Nat
    BY <1>s, <2>1, NoteWritten
  <2>3. NotesCalls(g)'
    BY <1>t, <2>1 DEF NotesCalls, Panel!PendingInFlight
  <2>4. writes' \in 0..g.MaxWrites
    BY <1>w, <2>1
  <2>5. NotesCounted(g)'
    BY <1>t, <2>1, <2>2, <2>4 DEF NotesCounted
  <2> QED BY <1>g, <1>k, <1>o, <2>1, <2>3, <2>5
<1>d. UNCHANGED <<calls, editor, deleting>> => NotesCalls(g)'
  BY <1>t DEF NotesCalls, Panel!PendingInFlight
<1>21. ASSUME Panel(g)!ServeLook PROVE Kept
  <2>1. /\ look = Asked /\ look' = Panel(g)!list_revisions(note[at])
        /\ UNCHANGED <<note, at, cache, dirty, failed, fetch, editing, editor, deleting, calls, opened, log,
                       logDirty, looks, heard, writes, failures, clock, own>>
    BY <1>21 DEF Panel!ServeLook, Panel!Panel
  <2>2. Panel(g)!ShowsNote /\ at \in g.Hosts
    BY <1>b, <1>i, <1>t, <2>1 DEF NotesLook
  <2>3. look' \in Panel(g)!Revisions
    BY <1>s, <2>1, <2>2 DEF Panel!list_revisions, Panel!Revisions, Panel!Note
  <2>4. NotesLook(g)'
    BY <2>1, <2>2, <2>3 DEF NotesLook, Panel!ShowsNote, Panel!HasBody, Panel!isLoading
  <2> QED BY <1>c, <1>d, <1>g, <1>o, <2>1, <2>4
<1>22. ASSUME Panel(g)!fetchHostNoteRevisions PROVE Kept
  <2>1. /\ look \notin {Idle, Asked} /\ log' = [log EXCEPT ![at] = look] /\ logDirty' = logDirty \ {at}
        /\ look' = Idle
        /\ UNCHANGED <<note, at, cache, dirty, failed, fetch, editing, editor, deleting, calls, opened,
                       looks, heard, writes, failures, clock, own>>
    BY <1>22 DEF Panel!fetchHostNoteRevisions, Panel!Panel
  <2>2. look \in Panel(g)!Revisions
    BY <1>t, <2>1 DEF NotesLook
  <2>3. NotesCounted(g)' /\ NotesLook(g)'
    BY <1>t, <2>1, <2>2 DEF NotesCounted, NotesLook
  <2> QED BY <1>d, <1>g, <1>o, <2>1, <2>3
<1>23. ASSUME Panel(g)!LookFails PROVE Kept
  <2>1. /\ failures < g.MaxFailures /\ look' = Idle /\ failures' = failures + 1
        /\ UNCHANGED <<note, at, cache, dirty, failed, fetch, editing, editor, deleting, calls, opened, log,
                       logDirty, looks, heard, writes, clock, own>>
    BY <1>23 DEF Panel!LookFails, Panel!Panel
  <2>2. failures' \in 0..g.MaxFailures
    BY <1>f, <2>1
  <2>3. NotesCounted(g)' /\ NotesLook(g)'
    BY <1>t, <2>1, <2>2 DEF NotesCounted, NotesLook
  <2> QED BY <1>d, <1>g, <1>o, <2>1, <2>3
<1>24. ASSUME NEW c \in calls, Panel(g)!useSaveHostNote(c) PROVE Kept
  <2> DEFINE ed == IF Panel(g)!Mounted(c) THEN FALSE ELSE editing
             stays == Panel(g)!NoteStays(at, cache, failed, ed)
  <2>1. /\ c.answer = "saved" /\ Panel(g)!Told(c) /\ Panel(g)!Invalidate(c.key)
        /\ Panel(g)!Render(at, cache, failed, ed, calls \ {c}) /\ Panel(g)!InvalidateLog(c.key, stays)
        /\ UNCHANGED <<note, writes, failures, clock>>
    BY <1>24 DEF Panel!useSaveHostNote
  <2>2. c \in Panel(g)!Calls /\ c.key \in g.Hosts /\ c.op = "save" /\ ed \in BOOLEAN /\ stays \in BOOLEAN
    BY <1>s, <1>t, <1>y, <2>1 DEF Panel!Calls, NotesCalls, Panel!Answered
  <2>3. calls \ {c} \in SUBSET calls
    OBVIOUS
  <2>4. deleting # 0 => \E x \in calls \ {c} : x.n = deleting /\ x.op = "delete"
    BY <1>p, <2>2
  <2>5. ed /\ editor # NoEditor /\ editor.pending # 0 => \E x \in calls \ {c} : x.n = editor.pending /\ x.op = "save"
    BY <1>p, <2>2 DEF Panel!Mounted
  <2>c. at = Closed => ~ed
    BY <1>t DEF NotesScreen
  <2> HIDE DEF ed
  <2>6. NotesRendered(g, at, cache, failed, ed, calls \ {c})
    BY <1>s, <1>t, <2>1, <2>2, <2>3, <2>4, <2>5, <2>c, <1>ra
  <2>7. NotesScreen(g)' /\ at' = at /\ (stays => Panel(g)!ShowsNote')
    BY <2>6 DEF NotesRendered
  <2>8. NotesCalls(g)'
    BY <1>t, <2>3, <2>6, NotesCallsKept
  <2>9. own' \in [g.Hosts -> Nat]
    BY <1>t, <2>1, <2>2, NotesTold
  <2> HIDE DEF stays
  <2>10. NotesLook(g)' /\ UNCHANGED <<log, looks>> /\ logDirty' \subseteq g.Hosts /\ heard' \in [g.Hosts -> Nat]
    BY <1>t, <2>1, <2>2, <2>7, <2>9, NotesInvalidated
  <2>11. dirty' \subseteq g.Hosts /\ (fetch' = fetch \/ (at = c.key /\ fetch' = Asked))
    BY <1>t, <1>q, <2>1, <2>2 DEF Panel!Invalidate, NotesCounted
  <2>12. NotesFetch(g)'
    BY <1>m, <1>t, <2>2, <2>7, <2>11 DEF NotesFetch
  <2>13. NotesCounted(g)'
    BY <1>t, <2>1, <2>9, <2>10, <2>11 DEF NotesCounted
  <2> QED BY <2>7, <2>8, <2>10, <2>12, <2>13
<1>v. ASSUME NEW c \in calls, c.op = "save", calls' = calls \ {c}, deleting' = deleting, NEW f \in Panel(g)!Editors,
             editor # NoEditor => f.key = editor.key /\ f.pending = 0,
             editor' = IF Panel(g)!Mounted(c) THEN f ELSE editor,
             UNCHANGED <<at, cache, failed, editing, opened>>
      PROVE  NotesScreen(g)' /\ NotesCalls(g)'
  <2>1. Panel(g)!Mounted(c) <=> (editor # NoEditor /\ editor.pending = c.n)
    BY <1>v DEF Panel!Mounted
  <2>2. NotesScreen(g)'
    BY <1>n1, <1>o, <1>t, <1>v, <2>1, NotesEdited
  <2>3. NotesCalls(g)'
    BY <1>n1, <1>t, <1>v, <2>1, NotesEnded
  <2> QED BY <2>2, <2>3
<1>25. ASSUME NEW c \in calls, Panel(g)!Conflict(c) PROVE Kept
  <2> DEFINE f == [editor EXCEPT !.pending = 0, !.conflict = TRUE]
  <2>1. /\ c.answer = "conflict" /\ calls' = calls \ {c}
        /\ editor' = IF Panel(g)!Mounted(c) THEN f ELSE editor
        /\ UNCHANGED <<note, at, cache, dirty, failed, opened, log, logDirty, look, looks, heard,
                       writes, failures, clock, own, fetch, editing, deleting>>
    BY <1>25 DEF Panel!Conflict, Panel!Rest
  <2>2. c.op = "save"
    BY <1>s, <1>t, <2>1 DEF NotesCalls, Panel!Answered, Panel!Calls
  <2>3. editor # NoEditor => f \in Panel(g)!Editors /\ f.key = editor.key /\ f.pending = 0
    BY <1>e, <1>z DEF Panel!Editors
  <2>4. CASE editor # NoEditor
    <3> HIDE DEF f
    <3>1. NotesScreen(g)' /\ NotesCalls(g)'
      BY <1>v, <2>1, <2>2, <2>3, <2>4
    <3> QED BY <1>c, <1>g, <1>k, <2>1, <3>1
  <2>5. CASE editor = NoEditor
    <3>1. editor' = editor
      BY <2>1, <2>2, <2>5 DEF Panel!Mounted
    <3>2. NotesCalls(g)'
      BY <1>t, <2>1, <2>2, <2>5, <3>1, NotesEnded
    <3> QED BY <1>c, <1>g, <1>k, <1>o, <2>1, <3>1, <3>2
  <2> QED BY <2>4, <2>5
<1>26. ASSUME NEW c \in calls, Panel(g)!handleNotFound(c) PROVE Kept
  <2> DEFINE f == [editor EXCEPT !.pending = 0, !.copying = TRUE]
  <2>1. /\ c.answer = "not_found" /\ calls' = calls \ {c}
        /\ editor' = IF Panel(g)!Mounted(c) THEN f ELSE editor
        /\ UNCHANGED <<note, at, cache, dirty, failed, opened, log, logDirty, look, looks, heard,
                       writes, failures, clock, own, fetch, editing, deleting>>
    BY <1>26 DEF Panel!handleNotFound, Panel!Rest
  <2>2. c.op = "save"
    BY <1>s, <1>t, <2>1 DEF NotesCalls, Panel!Answered, Panel!Calls
  <2>3. editor # NoEditor => f \in Panel(g)!Editors /\ f.key = editor.key /\ f.pending = 0
    BY <1>e, <1>z DEF Panel!Editors
  <2>4. CASE editor # NoEditor
    <3> HIDE DEF f
    <3>1. NotesScreen(g)' /\ NotesCalls(g)'
      BY <1>v, <2>1, <2>2, <2>3, <2>4
    <3> QED BY <1>c, <1>g, <1>k, <2>1, <3>1
  <2>5. CASE editor = NoEditor
    <3>1. editor' = editor
      BY <2>1, <2>2, <2>5 DEF Panel!Mounted
    <3>2. NotesCalls(g)'
      BY <1>t, <2>1, <2>2, <2>5, <3>1, NotesEnded
    <3> QED BY <1>c, <1>g, <1>k, <1>o, <2>1, <3>1, <3>2
  <2> QED BY <2>4, <2>5
<1>27. ASSUME NEW c \in calls, Panel(g)!useDeleteHostNote(c) PROVE Kept
  <2>1. /\ c.answer \in {"deleted", "absent"} /\ Panel(g)!Told(c) /\ Panel(g)!Invalidate(c.key)
        /\ Panel(g)!InvalidateLog(c.key, Panel(g)!ShowsNote) /\ calls' = calls \ {c}
        /\ deleting' = (IF Panel(g)!Mounted(c) THEN 0 ELSE deleting)
        /\ UNCHANGED <<note, at, cache, failed, editing, editor, opened, writes, failures, clock>>
    BY <1>27 DEF Panel!useDeleteHostNote
  <2>2. c \in Panel(g)!Calls /\ c.key \in g.Hosts /\ c.op = "delete" /\ Panel(g)!ShowsNote \in BOOLEAN
    BY <1>s, <1>t, <2>1 DEF Panel!Calls, NotesCalls, Panel!Answered, Panel!ShowsNote, Panel!HasBody
  <2>3. Panel(g)!ShowsNote => Panel(g)!ShowsNote'
    BY <2>1 DEF Panel!ShowsNote, Panel!HasBody, Panel!isLoading
  <2>4. NotesCalls(g)'
    BY <1>t, <2>1, <2>2, NotesEnded DEF Panel!Mounted
  <2>5. own' \in [g.Hosts -> Nat]
    BY <1>t, <2>1, <2>2, NotesTold
  <2>6. NotesLook(g)' /\ UNCHANGED <<log, looks>> /\ logDirty' \subseteq g.Hosts /\ heard' \in [g.Hosts -> Nat]
    BY <1>t, <2>1, <2>2, <2>3, <2>5, NotesInvalidated
  <2>7. dirty' \subseteq g.Hosts /\ (fetch' = fetch \/ (at = c.key /\ fetch' = Asked))
    BY <1>t, <1>q, <2>1, <2>2 DEF Panel!Invalidate, NotesCounted
  <2>8. NotesFetch(g)'
    BY <1>m, <1>t, <2>1, <2>2, <2>7 DEF NotesFetch
  <2>9. NotesCounted(g)'
    BY <1>t, <2>1, <2>5, <2>6, <2>7 DEF NotesCounted
  <2> QED BY <1>o, <2>1, <2>4, <2>6, <2>8, <2>9
<1>28. ASSUME NEW c \in calls, Panel(g)!CallFails(c) PROVE Kept
  <2> DEFINE f == [editor EXCEPT !.pending = 0]
  <2>1. /\ failures < g.MaxFailures /\ failures' = failures + 1 /\ calls' = calls \ {c}
        /\ deleting' = (IF Panel(g)!Mounted(c) /\ c.op = "delete" THEN 0 ELSE deleting)
        /\ editor' = (IF Panel(g)!Mounted(c) /\ c.op = "save" THEN f ELSE editor)
        /\ UNCHANGED <<note, at, cache, dirty, failed, fetch, editing, opened, log, logDirty, look, looks,
                       heard, writes, clock, own>>
    BY <1>28 DEF Panel!CallFails
  <2>2. c.op \in {"save", "delete"}
    BY <1>s DEF Panel!Calls
  <2>3. editor # NoEditor => f \in Panel(g)!Editors /\ f.key = editor.key /\ f.pending = 0
    BY <1>e, <1>z DEF Panel!Editors
  <2>4. failures' \in 0..g.MaxFailures
    BY <1>f, <2>1
  <2>5. NotesCounted(g)'
    BY <1>t, <2>1, <2>4 DEF NotesCounted
  <2>6. CASE c.op = "save" /\ editor # NoEditor
    <3> HIDE DEF f
    <3>1. NotesScreen(g)' /\ NotesCalls(g)'
      BY <1>v, <2>1, <2>3, <2>6
    <3> QED BY <1>g, <1>k, <2>1, <2>5, <3>1
  <2>7. CASE ~(c.op = "save" /\ editor # NoEditor)
    <3>1. editor' = editor
      BY <2>1, <2>2, <2>7 DEF Panel!Mounted
    <3>2. NotesCalls(g)'
      BY <1>t, <2>1, <2>2, <2>7, <3>1, NotesEnded DEF Panel!Mounted
    <3> QED BY <1>g, <1>k, <1>o, <2>1, <2>5, <3>1, <3>2
  <2> QED BY <2>6, <2>7
<1> HIDE DEF Kept
<1> QED BY <1>1, <1>2, <1>3, <1>4, <1>5, <1>6, <1>7, <1>8, <1>9, <1>10, <1>11, <1>12, <1>13, <1>14,
          <1>15, <1>16, <1>17, <1>18, <1>19, <1>20, <1>21, <1>22, <1>23, <1>24, <1>25, <1>26, <1>27, <1>28
       DEF Panel!Next, Panel!Sheet, Panel!NoteEditor, Panel!saveHostNote

\* What a step does to the notes of the server: one write at most.
NotesWrites(g) ==
  \/ UNCHANGED <<note, clock>>
  \/ /\ clock' = clock + 1
     /\ \E h \in g.Hosts : \/ note' = [note EXCEPT ![h] = Panel(g)!Saved(note[h], clock')]
                           \/ note' = [note EXCEPT ![h] = Panel(g)!Deleted(clock')]

\* To what was read of them: an answer comes into the cache, a fetch is served.
NotesReads(g) ==
  /\ \/ cache' = cache /\ dirty \subseteq dirty'
     \/ /\ fetch \notin {Idle, Asked} /\ at \in g.Hosts
        /\ cache' = [cache EXCEPT ![at] = fetch] /\ dirty' = dirty \ {at}
  /\ \/ fetch' \in {Idle, Asked}
     \/ at' = at /\ fetch' = fetch
     \/ at' = at /\ at \in g.Hosts /\ fetch' = note[at] /\ UNCHANGED note

\* To the editor: its text is of where it was started, or it is started from the cache.
SameStart(d, b) == d.host = b.host /\ d.seen = b.seen /\ d.life = b.life
NotesEdits(g) ==
  editor' # NoEditor =>
    \/ editor # NoEditor /\ editor'.key = editor.key /\ SameStart(editor'.draft, editor.draft)
    \/ /\ at' \in g.Hosts /\ cache'[at'] \in Panel(g)!Note /\ editor'.key = cache'[at'].rev
       /\ editor'.draft = Panel(g)!Draft(at', cache'[at'])

\* To the calls: one is sent, or answered by the server, and the others stay.
SentNow(g, x) ==
  /\ x.answer = "none" /\ x.host \in g.Hosts /\ x.done = 0 /\ cache[x.host] # NoData
  /\ x.op = "save" => editor # NoEditor /\ x.expected = editor.key /\ x.draft = editor.draft
AnsweredNow(x, y) ==
  /\ y.answer = "none" /\ x.answer # "none"
  /\ x.op = y.op /\ x.host = y.host /\ x.draft = y.draft /\ x.expected = y.expected
  /\ x.over = note[y.host] /\ x.done = note'[y.host].id
  /\ x.answer = "saved" => x.op = "save" /\ y.expected = note[y.host].rev
NotesSends(g) ==
  \A x \in calls' : SentNow(g, x) \/ \E y \in calls : SameCall(x, y) \/ AnsweredNow(x, y)

\* To the revisions that were read, while the panel is told of nothing.
NotesLooks(g) ==
  /\ UNCHANGED <<own, heard>>
  /\ \/ UNCHANGED <<log, logDirty>>
     \/ /\ look \notin {Idle, Asked} /\ at \in g.Hosts
        /\ log' = [log EXCEPT ![at] = look] /\ logDirty' = logDirty \ {at}
  /\ \/ look' \in {Idle, Asked}
     \/ at' = at /\ look' = look
     \/ at' = at /\ at \in g.Hosts /\ look' = Panel(g)!list_revisions(note[at]) /\ UNCHANGED note
\* And when it is told of a save or a deletion.
NotesHears(g) ==
  \E c \in calls, stays \in BOOLEAN :
    /\ Panel(g)!Told(c) /\ Panel(g)!Invalidate(c.key) /\ Panel(g)!InvalidateLog(c.key, stays)
    /\ stays => at \in g.Hosts
    /\ UNCHANGED <<note, clock, at, cache>>

NotesMoved(g) == NotesWrites(g) /\ NotesReads(g) /\ NotesEdits(g) /\ NotesSends(g) /\ (NotesLooks(g) \/ NotesHears(g))

\* A render with the calls in flight, but for a save that ended and whose editor is left.
LEMMA NotesRenders ==
  ASSUME NEW g, Panel(g)!PanelAssumption, Panel(g)!TypeOK,
         NEW h \in g.Hosts \cup {Closed}, NEW c \in [g.Hosts -> Panel(g)!Note \cup {NoData}],
         NEW e \in SUBSET g.Hosts, NEW ed \in BOOLEAN, NEW cs \in SUBSET calls, h = Closed => ~ed,
         \/ cs = calls
         \/ \E x \in calls : x.op = "save" /\ cs = calls \ {x} /\ (ed => ~Panel(g)!Mounted(x)),
         Panel(g)!Render(h, c, e, ed, cs)
  PROVE  NotesEdits(g) /\ NotesSends(g) /\ at' = h /\ cache' = c
<1>1. NotesScreen(g) /\ NotesCalls(g)
  BY NotesParts
<1>2. deleting # 0 => \E x \in cs : x.n = deleting /\ x.op = "delete"
  BY <1>1 DEF NotesCalls, Panel!PendingInFlight
<1>3. ed /\ editor # NoEditor /\ editor.pending # 0 => \E x \in cs : x.n = editor.pending /\ x.op = "save"
  BY <1>1 DEF NotesCalls, Panel!PendingInFlight, Panel!Mounted
<1>4. NotesRendered(g, h, c, e, ed, cs)
  BY <1>1, <1>2, <1>3, NotesRendering
<1>5. NotesSends(g) /\ at' = h /\ cache' = c
  BY <1>4 DEF NotesRendered, NotesSends
<1>6. NotesEdits(g)
  BY <1>4 DEF NotesRendered, NotesEdits, SameStart, Panel!Fresh
<1> QED BY <1>5, <1>6

LEMMA NotesMove ==
  ASSUME NEW g, Panel(g)!PanelAssumption, Panel(g)!TypeOK, Panel(g)!Next
  PROVE  NotesMoved(g)
<1> DEFINE Caches == [g.Hosts -> Panel(g)!Note \cup {NoData}]
           M == NotesMoved(g)
<1> USE DEF Panel!history
<1>t. NotesCounted(g) /\ NotesScreen(g) /\ NotesCalls(g) /\ NotesFetch(g) /\ NotesLook(g)
  BY NotesParts
<1>s. /\ at \in g.Hosts \cup {Closed} /\ cache \in Caches /\ failed \in SUBSET g.Hosts /\ editing \in BOOLEAN
      /\ note \in [g.Hosts -> Panel(g)!Note] /\ clock \in Nat /\ calls \subseteq Panel(g)!Calls
      /\ (at = Closed => ~editing) /\ calls \in SUBSET calls
  BY <1>t DEF NotesScreen, NotesCounted, NotesCalls
<1>m. Closed \notin g.Hosts
  BY DEF Panel!PanelAssumption
<1>b. Panel(g)!ShowsEditor \/ Panel(g)!ShowsNote \/ Panel(g)!ShowsEmpty =>
        at \in g.Hosts /\ at # Closed /\ cache[at] # NoData /\ cache[at] \in Panel(g)!Note
  BY <1>s, BodyIsNote DEF Panel!ShowsEditor, Panel!ShowsNote, Panel!ShowsEmpty, Panel!HasBody, Panel!isLoading
<1>e. editor # NoEditor => Panel(g)!ShowsEditor /\ editor \in Panel(g)!Editors /\ editor.key = cache[at].rev
  BY <1>t DEF NotesScreen
<1>h. /\ fetch # Idle => at \in g.Hosts
      /\ look # Idle => at \in g.Hosts
  BY <1>b, <1>s, <1>t DEF NotesFetch, NotesLook
<1>A. UNCHANGED <<note, clock>> => NotesWrites(g)
  BY DEF NotesWrites
<1>B. UNCHANGED <<cache, dirty>> /\ (fetch' \in {Idle, Asked} \/ UNCHANGED <<at, fetch>>) => NotesReads(g)
  BY DEF NotesReads
<1>C. ASSUME editor' # NoEditor => editor # NoEditor /\ editor'.key = editor.key /\ SameStart(editor'.draft, editor.draft)
      PROVE  NotesEdits(g)
  BY <1>C DEF NotesEdits
<1>D. calls' \subseteq calls => NotesSends(g)
  BY DEF NotesSends, SameCall
<1>E. UNCHANGED <<own, heard, log, logDirty>> /\ (look' \in {Idle, Asked} \/ UNCHANGED <<at, look>>) => NotesLooks(g)
  BY DEF NotesLooks
<1>U. UNCHANGED <<at, note, clock, cache, dirty, fetch>> => NotesWrites(g) /\ NotesReads(g)
  BY <1>A, <1>B
<1>V. UNCHANGED <<editor, calls>> => NotesEdits(g) /\ NotesSends(g)
  BY <1>C, <1>D DEF SameStart
<1>W. UNCHANGED <<at, own, heard, log, logDirty, look>> => NotesLooks(g)
  BY <1>E
<1>L. ASSUME NEW h, NEW stays \in BOOLEAN, Panel(g)!Looking(h, stays), at' = h, UNCHANGED own PROVE NotesLooks(g)
  <2>1. UNCHANGED <<own, log, logDirty, heard>> /\ (look' \in {Idle, Asked} \/ (h = at /\ look' = look))
    BY <1>L DEF Panel!Looking, Panel!LookUp
  <2> QED BY <1>L, <1>E, <2>1
<1>y. \A h, c, e, ed : Panel(g)!NoteStays(h, c, e, ed) \in BOOLEAN
  BY DEF Panel!NoteStays, Panel!ShowsNote, Panel!HasBody
<1>1. ASSUME NEW h \in g.Hosts, Panel(g)!Open(h) PROVE M
  <2>1. /\ at = Closed /\ fetch' \in {Asked, Idle}
        /\ UNCHANGED <<note, cache, dirty, editor, calls, log, logDirty, look, heard, clock, own>>
    BY <1>1 DEF Panel!Open, Panel!useHostNote
  <2>2. look = Idle
    BY <1>h, <1>m, <2>1
  <2> QED BY <1>A, <1>B, <1>V, <1>E, <2>1, <2>2 DEF NotesMoved
<1>2. ASSUME NEW h \in g.Hosts, Panel(g)!goToHost(h) PROVE M
  <2> DEFINE e == IF cache[h] = NoData THEN failed \ {h} ELSE failed
             stays == Panel(g)!NoteStays(h, cache, e, editing)
  <2>1. /\ Panel(g)!Render(h, cache, e, editing, calls) /\ Panel(g)!Looking(h, stays)
        /\ fetch' \in {Asked, Idle} /\ UNCHANGED <<note, dirty, clock, own>>
    BY <1>2 DEF Panel!goToHost
  <2>2. e \in SUBSET g.Hosts /\ stays \in BOOLEAN
    BY <1>s, <1>y
  <2> HIDE DEF e
  <2>3. NotesEdits(g) /\ NotesSends(g) /\ at' = h /\ cache' = cache
    BY <1>m, <1>s, <2>1, <2>2, NotesRenders
  <2>4. NotesLooks(g)
    BY <1>L, <2>1, <2>2, <2>3
  <2> QED BY <1>A, <1>B, <2>1, <2>3, <2>4 DEF NotesMoved
<1>3. ASSUME Panel(g)!closeDetail PROVE M
  <2>1. /\ Panel(g)!Render(Closed, cache, failed, FALSE, calls) /\ Panel(g)!Looking(Closed, FALSE)
        /\ fetch' = Idle /\ UNCHANGED <<note, dirty, clock, own>>
    BY <1>3 DEF Panel!closeDetail
  <2>2. NotesEdits(g) /\ NotesSends(g) /\ at' = Closed /\ cache' = cache
    BY <1>s, <2>1, NotesRenders
  <2>3. NotesLooks(g)
    BY <1>L, <2>1, <2>2
  <2> QED BY <1>A, <1>B, <2>1, <2>2, <2>3 DEF NotesMoved
<1>4. ASSUME Panel(g)!Reconnect PROVE M
  <2>1. /\ \/ fetch' = Asked /\ UNCHANGED look
           \/ look' = Asked /\ UNCHANGED fetch
        /\ UNCHANGED <<note, at, cache, dirty, editor, calls, log, logDirty, heard, clock, own>>
    BY <1>4 DEF Panel!Reconnect
  <2> QED BY <1>A, <1>B, <1>V, <1>E, <2>1 DEF NotesMoved
<1>5. ASSUME Panel(g)!ServeFetch PROVE M
  <2>1. /\ fetch = Asked /\ fetch' = note[at]
        /\ UNCHANGED <<note, at, cache, dirty, editor, calls, log, logDirty, look, heard, clock, own>>
    BY <1>5 DEF Panel!ServeFetch
  <2>2. at \in g.Hosts
    BY <1>h, <2>1 DEF Panel!PanelAssumption
  <2>3. NotesReads(g)
    BY <2>1, <2>2 DEF NotesReads
  <2> QED BY <1>A, <1>V, <1>W, <2>1, <2>3 DEF NotesMoved
<1>6. ASSUME Panel(g)!fetchHostNote PROVE M
  <2> DEFINE c == [cache EXCEPT ![at] = fetch]
             stays == Panel(g)!NoteStays(at, c, failed \ {at}, editing)
  <2>1. /\ fetch \notin {Idle, Asked} /\ fetch' = Idle /\ dirty' = dirty \ {at}
        /\ Panel(g)!Render(at, c, failed \ {at}, editing, calls) /\ Panel(g)!Looking(at, stays)
        /\ UNCHANGED <<note, clock, own>>
    BY <1>6 DEF Panel!fetchHostNote
  <2>2. at \in g.Hosts /\ fetch \in Panel(g)!Note
    BY <1>h, <1>t, <2>1 DEF NotesFetch
  <2>3. c \in Caches /\ failed \ {at} \in SUBSET g.Hosts /\ stays \in BOOLEAN
    BY <1>s, <1>y, <2>2
  <2> HIDE DEF c
  <2>4. NotesEdits(g) /\ NotesSends(g) /\ at' = at /\ cache' = c
    BY <1>m, <1>s, <2>1, <2>2, <2>3, NotesRenders
  <2>5. NotesLooks(g)
    BY <1>L, <2>1, <2>3, <2>4
  <2>6. NotesReads(g)
    BY <2>1, <2>2, <2>4 DEF NotesReads, c
  <2> QED BY <1>A, <2>1, <2>4, <2>5, <2>6 DEF NotesMoved
<1>7. ASSUME Panel(g)!FetchFails PROVE M
  <2>1. /\ fetch # Idle /\ fetch' = Idle
        /\ Panel(g)!Render(at, cache, failed \cup {at}, editing, calls) /\ Panel(g)!Looking(at, FALSE)
        /\ UNCHANGED <<note, dirty, clock, own>>
    BY <1>7 DEF Panel!FetchFails
  <2>2. failed \cup {at} \in SUBSET g.Hosts
    BY <1>h, <1>s, <2>1
  <2>3. NotesEdits(g) /\ NotesSends(g) /\ at' = at /\ cache' = cache
    BY <1>s, <2>1, <2>2, NotesRenders
  <2>4. NotesLooks(g)
    BY <1>L, <2>1, <2>3
  <2> QED BY <1>A, <1>B, <2>1, <2>3, <2>4 DEF NotesMoved
<1>8. ASSUME Panel(g)!StartEditing PROVE M
  <2>1. /\ Panel(g)!ShowsNote \/ Panel(g)!ShowsEmpty
        /\ Panel(g)!Render(at, cache, failed, TRUE, calls) /\ Panel(g)!Looking(at, FALSE)
        /\ UNCHANGED <<note, dirty, fetch, clock, own>>
    BY <1>8 DEF Panel!StartEditing
  <2>2. NotesEdits(g) /\ NotesSends(g) /\ at' = at /\ cache' = cache
    BY <1>b, <1>s, <2>1, NotesRenders
  <2>3. NotesLooks(g)
    BY <1>L, <2>1, <2>2
  <2> QED BY <1>A, <1>B, <2>1, <2>2, <2>3 DEF NotesMoved
<1>9. ASSUME Panel(g)!Cancel PROVE M
  <2>1. /\ Panel(g)!Render(at, cache, failed, FALSE, calls) /\ Panel(g)!Looking(at, FALSE)
        /\ UNCHANGED <<note, dirty, fetch, clock, own>>
    BY <1>9 DEF Panel!Cancel
  <2>2. NotesEdits(g) /\ NotesSends(g) /\ at' = at /\ cache' = cache
    BY <1>s, <2>1, NotesRenders
  <2>3. NotesLooks(g)
    BY <1>L, <2>1, <2>2
  <2> QED BY <1>A, <1>B, <2>1, <2>2, <2>3 DEF NotesMoved
<1>10. ASSUME Panel(g)!Type \/ Panel(g)!KeepEditing \/ Panel(g)!onReloadLatest PROVE M
  <2>1. /\ editor # NoEditor
        /\ \/ editor' = [editor EXCEPT !.draft.typed = TRUE]
           \/ editor' = [editor EXCEPT !.conflict = FALSE]
           \/ editor' = [editor EXCEPT !.conflict = FALSE, !.copying = TRUE]
        /\ UNCHANGED <<note, at, cache, dirty, log, logDirty, look, heard, clock, own, fetch, calls>>
    BY <1>10 DEF Panel!Type, Panel!KeepEditing, Panel!onReloadLatest, Panel!Rest
  <2>2. editor'.key = editor.key /\ SameStart(editor'.draft, editor.draft)
    BY <1>e, <2>1 DEF Panel!Editors, Panel!Drafts, SameStart
  <2>3. NotesEdits(g)
    BY <1>C, <2>1, <2>2
  <2> QED BY <1>D, <1>U, <1>W, <2>1, <2>3 DEF NotesMoved
<1>11. ASSUME Panel(g)!submit PROVE M
  <2> DEFINE c == [n |-> writes + 1, op |-> "save", host |-> at, key |-> at,
                   expected |-> cache[at].rev, draft |-> editor.draft,
                   answer |-> "none", over |-> Panel(g)!Never, done |-> 0]
  <2>1. /\ editor # NoEditor /\ calls' = calls \cup {c} /\ editor' = [editor EXCEPT !.pending = writes + 1]
        /\ UNCHANGED <<note, at, cache, dirty, log, logDirty, look, heard, clock, own, fetch>>
    BY <1>11 DEF Panel!submit
  <2>2. editor'.key = editor.key /\ SameStart(editor'.draft, editor.draft)
    BY <1>e, <2>1 DEF Panel!Editors, SameStart
  <2>3. NotesEdits(g)
    BY <1>C, <2>1, <2>2
  <2>4. SentNow(g, c)
    BY <1>b, <1>e, <2>1 DEF SentNow
  <2>5. NotesSends(g)
    BY <2>1, <2>4 DEF NotesSends, SameCall
  <2> QED BY <1>U, <1>W, <2>1, <2>3, <2>5 DEF NotesMoved
<1>12. ASSUME Panel(g)!onDelete PROVE M
  <2> DEFINE c == [n |-> writes + 1, op |-> "delete", host |-> at, key |-> at,
                   expected |-> 0, draft |-> Panel(g)!Draft(at, cache[at]),
                   answer |-> "none", over |-> Panel(g)!Never, done |-> 0]
  <2>1. /\ Panel(g)!ShowsNote /\ calls' = calls \cup {c}
        /\ UNCHANGED <<note, at, cache, dirty, log, logDirty, look, heard, clock, own, fetch, editor>>
    BY <1>12 DEF Panel!onDelete
  <2>2. SentNow(g, c)
    BY <1>b, <2>1 DEF SentNow
  <2>3. NotesSends(g)
    BY <2>1, <2>2 DEF NotesSends, SameCall
  <2>4. NotesEdits(g)
    BY <1>C, <2>1 DEF SameStart
  <2> QED BY <1>U, <1>W, <2>1, <2>3, <2>4 DEF NotesMoved
<1>13. ASSUME Panel(g)!OpenHistory \/ Panel(g)!HideHistory PROVE M
  <2>1. /\ look' \in {look, Asked, Idle}
        /\ UNCHANGED <<note, at, cache, dirty, fetch, editor, calls, log, logDirty, heard, clock, own>>
    BY <1>13 DEF Panel!OpenHistory, Panel!HideHistory, Panel!LookUp
  <2> QED BY <1>E, <1>U, <1>V, <2>1 DEF NotesMoved
<1>17. ASSUME Panel(g)!onReloadNote PROVE M
  <2>1. /\ editor # NoEditor /\ editor' = [editor EXCEPT !.copying = FALSE, !.copied = TRUE]
        /\ fetch' \in {fetch, Asked}
        /\ UNCHANGED <<note, at, cache, dirty, log, logDirty, look, heard, clock, own, calls>>
    BY <1>17 DEF Panel!onReloadNote, Panel!Rest, Panel!Refetched
  <2>2. editor'.key = editor.key /\ SameStart(editor'.draft, editor.draft)
    BY <1>e, <2>1 DEF Panel!Editors, SameStart
  <2>3. NotesEdits(g)
    BY <1>C, <2>1, <2>2
  <2>4. NotesReads(g)
    BY <1>B, <2>1
  <2> QED BY <1>A, <1>D, <1>W, <2>1, <2>3, <2>4 DEF NotesMoved
<1>18. ASSUME NEW c \in calls, Panel(g)!put_note(c) PROVE M
  <2> DEFINE old == note[c.host]
             kind == CASE old.rev = c.expected -> "saved" [] old.rev = 0 -> "not_found" [] OTHER -> "conflict"
             x == [c EXCEPT !.answer = kind, !.over = old, !.done = note'[c.host].id]
  <2>1. /\ c.op = "save" /\ c.answer = "none" /\ calls' = (calls \ {c}) \cup {x}
        /\ IF kind = "saved"
             THEN note' = [note EXCEPT ![c.host] = Panel(g)!Saved(old, clock + 1)] /\ clock' = clock + 1
             ELSE UNCHANGED <<note, clock>>
        /\ UNCHANGED <<at, cache, dirty, fetch, editor, log, logDirty, look, heard, own>>
    BY <1>18 DEF Panel!put_note
  <2>2. c \in Panel(g)!Calls /\ c.host \in g.Hosts
    BY <1>s DEF Panel!Calls
  <2>3. kind \in {"saved", "not_found", "conflict"} /\ (kind = "saved" => old.rev = c.expected)
    OBVIOUS
  <2>4. NotesWrites(g)
    BY <2>1, <2>2 DEF NotesWrites
  <2> HIDE DEF kind
  <2>5. AnsweredNow(x, c)
    BY <2>1, <2>2, <2>3 DEF Panel!Calls, AnsweredNow
  <2> HIDE DEF x
  <2>6. NotesSends(g)
    BY <2>1, <2>5 DEF NotesSends, SameCall
  <2>7. NotesEdits(g)
    BY <1>C, <2>1 DEF SameStart
  <2> QED BY <1>B, <1>W, <2>1, <2>4, <2>6, <2>7 DEF NotesMoved
<1>19. ASSUME NEW c \in calls, Panel(g)!delete_note(c) PROVE M
  <2> DEFINE old == note[c.host]
             kind == Panel(g)!deleteHostNote(old)
             x == [c EXCEPT !.answer = kind, !.over = old, !.done = note'[c.host].id]
  <2>1. /\ c.op = "delete" /\ c.answer = "none" /\ calls' = (calls \ {c}) \cup {x}
        /\ IF old.rev > 0
             THEN note' = [note EXCEPT ![c.host] = Panel(g)!Deleted(clock + 1)] /\ clock' = clock + 1
             ELSE UNCHANGED <<note, clock>>
        /\ UNCHANGED <<at, cache, dirty, fetch, editor, log, logDirty, look, heard, own>>
    BY <1>19 DEF Panel!delete_note
  <2>2. c \in Panel(g)!Calls /\ c.host \in g.Hosts
    BY <1>s DEF Panel!Calls
  <2>3. kind \in {"deleted", "absent"}
    BY DEF Panel!deleteHostNote
  <2>4. NotesWrites(g)
    BY <2>1, <2>2 DEF NotesWrites
  <2> HIDE DEF kind
  <2>5. AnsweredNow(x, c)
    BY <2>1, <2>2, <2>3 DEF Panel!Calls, AnsweredNow
  <2> HIDE DEF x
  <2>6. NotesSends(g)
    BY <2>1, <2>5 DEF NotesSends, SameCall
  <2>7. NotesEdits(g)
    BY <1>C, <2>1 DEF SameStart
  <2> QED BY <1>B, <1>W, <2>1, <2>4, <2>6, <2>7 DEF NotesMoved
<1>20. ASSUME NEW h \in g.Hosts, Panel(g)!Other(h) PROVE M
  <2>1. /\ clock' = clock + 1
        /\ \/ note' = [note EXCEPT ![h] = Panel(g)!Saved(note[h], clock')]
           \/ note' = [note EXCEPT ![h] = Panel(g)!Deleted(clock')]
        /\ UNCHANGED <<at, cache, dirty, fetch, editor, calls, log, logDirty, look, heard, own>>
    BY <1>20, <1>s DEF Panel!Other
  <2>2. NotesWrites(g)
    BY <2>1 DEF NotesWrites
  <2> QED BY <1>B, <1>V, <1>W, <2>1, <2>2 DEF NotesMoved
<1>21. ASSUME Panel(g)!ServeLook PROVE M
  <2>1. /\ look = Asked /\ look' = Panel(g)!list_revisions(note[at])
        /\ UNCHANGED <<note, at, cache, dirty, fetch, editor, calls, log, logDirty, heard, clock, own>>
    BY <1>21 DEF Panel!ServeLook, Panel!Panel
  <2>2. at \in g.Hosts
    BY <1>h, <2>1 DEF Panel!PanelAssumption
  <2>3. NotesLooks(g)
    BY <2>1, <2>2 DEF NotesLooks
  <2> QED BY <1>U, <1>V, <2>1, <2>3 DEF NotesMoved
<1>22. ASSUME Panel(g)!fetchHostNoteRevisions PROVE M
  <2>1. /\ look \notin {Idle, Asked} /\ log' = [log EXCEPT ![at] = look] /\ logDirty' = logDirty \ {at}
        /\ look' = Idle
        /\ UNCHANGED <<note, at, cache, dirty, fetch, editor, calls, heard, clock, own>>
    BY <1>22 DEF Panel!fetchHostNoteRevisions, Panel!Panel
  <2>2. NotesLooks(g)
    BY <1>h, <2>1 DEF NotesLooks
  <2> QED BY <1>U, <1>V, <2>1, <2>2 DEF NotesMoved
<1>23. ASSUME Panel(g)!LookFails PROVE M
  <2>1. look' = Idle /\ UNCHANGED <<note, at, cache, dirty, fetch, editor, calls, log, logDirty, heard, clock, own>>
    BY <1>23 DEF Panel!LookFails, Panel!Panel
  <2> QED BY <1>E, <1>U, <1>V, <2>1 DEF NotesMoved
<1>i. ASSUME NEW h, Panel(g)!Invalidate(h), UNCHANGED <<at, cache>> PROVE NotesReads(g)
  BY <1>i DEF Panel!Invalidate, Panel!Refetched, NotesReads
<1>24. ASSUME NEW c \in calls, Panel(g)!useSaveHostNote(c) PROVE M
  <2> DEFINE ed == IF Panel(g)!Mounted(c) THEN FALSE ELSE editing
             stays == Panel(g)!NoteStays(at, cache, failed, ed)
  <2>1. /\ c.answer = "saved" /\ Panel(g)!Told(c) /\ Panel(g)!Invalidate(c.key)
        /\ Panel(g)!Render(at, cache, failed, ed, calls \ {c}) /\ Panel(g)!InvalidateLog(c.key, stays)
        /\ UNCHANGED <<note, clock>>
    BY <1>24 DEF Panel!useSaveHostNote
  <2>2. c.op = "save" /\ ed \in BOOLEAN /\ stays \in BOOLEAN /\ (ed => ~Panel(g)!Mounted(c)) /\ (at = Closed => ~ed)
    BY <1>s, <1>t, <1>y, <2>1 DEF Panel!Calls, NotesCalls, Panel!Answered
  <2>3. stays => at \in g.Hosts
    BY <1>b DEF Panel!NoteStays
  <2> HIDE DEF ed, stays
  <2>4. calls \ {c} \in SUBSET calls
    OBVIOUS
  <2>r. \E x \in calls : x.op = "save" /\ calls \ {c} = calls \ {x} /\ (ed => ~Panel(g)!Mounted(x))
    BY <2>2
  <2>5. NotesEdits(g) /\ NotesSends(g) /\ at' = at /\ cache' = cache
    BY <1>s, <2>1, <2>2, <2>4, <2>r, NotesRenders, SMTT(60)
  <2>6. NotesHears(g)
    BY <2>1, <2>2, <2>3, <2>5 DEF NotesHears
  <2> QED BY <1>A, <1>i, <2>1, <2>5, <2>6 DEF NotesMoved
<1>25. ASSUME NEW c \in calls, Panel(g)!Conflict(c) \/ Panel(g)!handleNotFound(c) PROVE M
  <2>1. /\ calls' = calls \ {c}
        /\ \/ editor' = editor
           \/ editor' = [editor EXCEPT !.pending = 0, !.conflict = TRUE]
           \/ editor' = [editor EXCEPT !.pending = 0, !.copying = TRUE]
        /\ c.op = "save" /\ (editor' # editor => editor # NoEditor)
        /\ UNCHANGED <<note, at, cache, dirty, log, logDirty, look, heard, clock, own, fetch>>
    BY <1>25, <1>s, <1>t DEF Panel!Conflict, Panel!handleNotFound, Panel!Rest, Panel!Mounted, NotesCalls,
       Panel!Answered, Panel!Calls
  <2>2. editor # NoEditor => editor'.key = editor.key /\ SameStart(editor'.draft, editor.draft)
    BY <1>e, <2>1 DEF Panel!Editors, SameStart
  <2>3. NotesEdits(g)
    BY <1>C, <2>1, <2>2
  <2> QED BY <1>D, <1>U, <1>W, <2>1, <2>3 DEF NotesMoved
<1>27. ASSUME NEW c \in calls, Panel(g)!useDeleteHostNote(c) PROVE M
  <2>1. /\ Panel(g)!Told(c) /\ Panel(g)!Invalidate(c.key) /\ calls' \subseteq calls
        /\ Panel(g)!InvalidateLog(c.key, Panel(g)!ShowsNote)
        /\ UNCHANGED <<note, at, cache, editor, clock>>
    BY <1>27 DEF Panel!useDeleteHostNote
  <2>2. Panel(g)!ShowsNote \in BOOLEAN /\ (Panel(g)!ShowsNote => at \in g.Hosts)
    BY <1>b DEF Panel!ShowsNote, Panel!HasBody
  <2>3. NotesHears(g)
    BY <2>1, <2>2 DEF NotesHears
  <2>4. NotesEdits(g)
    BY <1>C, <2>1 DEF SameStart
  <2> QED BY <1>A, <1>D, <1>i, <2>1, <2>3, <2>4 DEF NotesMoved
<1>28. ASSUME NEW c \in calls, Panel(g)!CallFails(c) PROVE M
  <2>1. /\ calls' = calls \ {c}
        /\ editor' = editor \/ editor' = [editor EXCEPT !.pending = 0]
        /\ (editor' # editor => editor # NoEditor)
        /\ UNCHANGED <<note, at, cache, dirty, log, logDirty, look, heard, clock, own, fetch>>
    BY <1>28 DEF Panel!CallFails, Panel!Mounted
  <2>2. editor # NoEditor => editor'.key = editor.key /\ SameStart(editor'.draft, editor.draft)
    BY <1>e, <2>1 DEF Panel!Editors, SameStart
  <2>3. NotesEdits(g)
    BY <1>C, <2>1, <2>2
  <2> QED BY <1>D, <1>U, <1>W, <2>1, <2>3 DEF NotesMoved
<1> HIDE DEF M
<1> QED BY <1>1, <1>2, <1>3, <1>4, <1>5, <1>6, <1>7, <1>8, <1>9, <1>10, <1>11, <1>12, <1>13,
          <1>17, <1>18, <1>19, <1>20, <1>21, <1>22, <1>23, <1>24, <1>25, <1>27, <1>28
       DEF Panel!Next, Panel!Sheet, Panel!NoteEditor, Panel!saveHostNote, M

\* What was read of a note that is now n fits it, at time k.
Fits(n, k, rev, id, life) ==
  rev > 0 => /\ life <= k
             /\ (n.rev > 0 /\ n.life = life) => rev <= n.rev /\ (rev = n.rev => id = n.id)
\* A note of the server was written before now.
Known(n, k) == n.id <= k /\ n.life <= k

\* What fits a note fits what any step makes of it, and the note itself fits.
LEMMA NotesGrow ==
  ASSUME NEW g, note \in [g.Hosts -> Panel(g)!Note], clock \in Nat,
         \A h \in g.Hosts : Known(note[h], clock), NotesWrites(g), NEW h \in g.Hosts
  PROVE  /\ note'[h] \in Panel(g)!Note /\ Known(note'[h], clock') /\ note[h].id <= note'[h].id
         /\ clock' \in Nat /\ clock <= clock'
         /\ \A rev, id, life \in Nat :
              Fits(note[h], clock, rev, id, life) => Fits(note'[h], clock', rev, id, life)
         /\ Fits(note[h], clock, note[h].rev, note[h].id, note[h].life)
<1>1. note[h] \in Panel(g)!Note /\ note[h].rev \in Nat /\ note[h].id \in Nat /\ note[h].life \in Nat
  BY DEF Panel!Note
<1>2. \/ note'[h] = note[h] /\ clock' \in {clock, clock + 1}
      \/ clock' = clock + 1 /\ (note'[h] = Panel(g)!Saved(note[h], clock') \/ note'[h] = Panel(g)!Deleted(clock'))
  BY DEF NotesWrites
<1>3. Fits(note[h], clock, note[h].rev, note[h].id, note[h].life)
  BY <1>1 DEF Known, Fits
<1>4. CASE note'[h] = note[h] /\ clock' \in {clock, clock + 1}
  BY <1>1, <1>3, <1>4 DEF Known, Fits
<1>5. CASE clock' = clock + 1 /\ note'[h] = Panel(g)!Saved(note[h], clock')
  <2>1. /\ note'[h].rev = note[h].rev + 1 /\ note'[h].id = clock + 1 /\ note'[h] \in Panel(g)!Note
        /\ note'[h].life = (IF note[h].rev = 0 THEN clock + 1 ELSE note[h].life)
    BY <1>1, <1>5 DEF Panel!Saved, Panel!Note
  <2> QED BY <1>1, <1>3, <1>5, <2>1 DEF Known, Fits
<1>6. CASE clock' = clock + 1 /\ note'[h] = Panel(g)!Deleted(clock')
  <2>1. note'[h].rev = 0 /\ note'[h].id = clock + 1 /\ note'[h].life = 0 /\ note'[h] \in Panel(g)!Note
    BY <1>6 DEF Panel!Deleted, Panel!Note
  <2> QED BY <1>1, <1>3, <1>6, <2>1 DEF Known, Fits
<1> QED BY <1>2, <1>4, <1>5, <1>6

LEMMA NotesAgree ==
  ASSUME NEW g, Panel(g)!PanelAssumption, Panel(g)!SavesInv, Panel(g)!Next
  PROVE  (Panel(g)!ReadsAgree /\ Panel(g)!DraftsAgree /\ Panel(g)!UpdateReplacesWhatWasSeen)'
<1>t. NotesCounted(g) /\ NotesScreen(g) /\ NotesCalls(g) /\ NotesFetch(g) /\ Panel(g)!TypeOK
  BY NotesParts DEF Panel!SavesInv
<1>u. Panel(g)!TypeOK' /\ NotesCounted(g)' /\ NotesScreen(g)'
  BY <1>t, NotesType DEF NotesCounted, NotesScreen, Panel!TypeOK
<1>m. NotesWrites(g) /\ NotesReads(g) /\ NotesEdits(g) /\ NotesSends(g)
  BY <1>t, NotesMove DEF NotesMoved
<1>s. /\ note \in [g.Hosts -> Panel(g)!Note] /\ clock \in Nat /\ cache \in [g.Hosts -> Panel(g)!Note \cup {NoData}]
      /\ fetch \in Panel(g)!Note \cup {Idle, Asked} /\ calls \subseteq Panel(g)!Calls
  BY <1>t DEF NotesCounted, NotesScreen, NotesFetch, NotesCalls
<1>n. NoData \notin Panel(g)!Note
  BY DEF Panel!PanelAssumption
<1>a. /\ \A h \in g.Hosts : Known(note[h], clock)
      /\ \A h \in g.Hosts : cache[h] # NoData => Fits(note[h], clock, cache[h].rev, cache[h].id, cache[h].life)
      /\ fetch \notin {Idle, Asked} => Fits(note[at], clock, fetch.rev, fetch.id, fetch.life)
      /\ editor # NoEditor =>
           Fits(note[editor.draft.host], clock, editor.key, editor.draft.seen, editor.draft.life)
      /\ \A c \in calls : c.op = "save" /\ c.answer = "none" =>
           Fits(note[c.draft.host], clock, c.expected, c.draft.seen, c.draft.life)
      /\ \A c \in calls : c.answer = "saved" /\ c.draft.host = c.host
           /\ c.over.rev > 0 /\ c.over.life = c.draft.life => c.over.id = c.draft.seen
  BY DEF Panel!SavesInv, Panel!ReadsAgree, Panel!DraftsAgree, Panel!UpdateReplacesWhatWasSeen,
         Panel!Agrees, Known, Fits
<1>g. ASSUME NEW h \in g.Hosts
      PROVE  /\ note'[h] \in Panel(g)!Note /\ Known(note'[h], clock')
             /\ \A rev, id, life \in Nat :
                  Fits(note[h], clock, rev, id, life) => Fits(note'[h], clock', rev, id, life)
             /\ Fits(note[h], clock, note[h].rev, note[h].id, note[h].life)
  BY <1>a, <1>m, <1>s, NotesGrow
<1>1. \A h \in g.Hosts : Known(note'[h], clock')
  BY <1>g
<1>2. ASSUME NEW h \in g.Hosts, cache'[h] # NoData
      PROVE  Fits(note'[h], clock', cache'[h].rev, cache'[h].id, cache'[h].life)
  <2>1. /\ cache'[h] \in Panel(g)!Note
        /\ Fits(note[h], clock, cache'[h].rev, cache'[h].id, cache'[h].life)
    <3>1. CASE cache' = cache
      BY <1>2, <1>a, <1>s, <3>1
    <3>2. CASE fetch \notin {Idle, Asked} /\ at \in g.Hosts /\ cache' = [cache EXCEPT ![at] = fetch]
      BY <1>2, <1>a, <1>s, <3>2
    <3> QED BY <1>m, <3>1, <3>2 DEF NotesReads
  <2> QED BY <1>g, <2>1 DEF Panel!Note
<1>3. ASSUME fetch' \notin {Idle, Asked}
      PROVE  Fits(note'[at'], clock', fetch'.rev, fetch'.id, fetch'.life)
  <2>1. CASE at' = at /\ fetch' = fetch
    <3>1. fetch \in Panel(g)!Note /\ at \in g.Hosts
      BY <1>3, <1>s, <1>t, <2>1 DEF NotesFetch, NotesScreen
    <3> QED BY <1>3, <1>a, <1>g, <2>1, <3>1 DEF Panel!Note
  <2>2. CASE at' = at /\ at \in g.Hosts /\ fetch' = note[at] /\ UNCHANGED note
    <3>1. note[at] \in Panel(g)!Note
      BY <1>s, <2>2
    <3> QED BY <1>g, <2>2, <3>1 DEF Panel!Note
  <2> QED BY <1>3, <1>m, <2>1, <2>2 DEF NotesReads
<1>d. ASSUME NEW d \in Panel(g)!Drafts PROVE d.host \in g.Hosts /\ d.seen \in Nat /\ d.life \in Nat
  BY DEF Panel!Drafts
<1>4. ASSUME editor' # NoEditor
      PROVE  Fits(note'[editor'.draft.host], clock', editor'.key, editor'.draft.seen, editor'.draft.life)
  <2>1. CASE editor # NoEditor /\ editor'.key = editor.key /\ SameStart(editor'.draft, editor.draft)
    <3>1. editor \in Panel(g)!Editors
      BY <1>t, <2>1 DEF NotesScreen
    <3>2. editor.key \in Nat /\ editor.draft \in Panel(g)!Drafts
      BY <3>1 DEF Panel!Editors
    <3>3. Fits(note'[editor.draft.host], clock', editor.key, editor.draft.seen, editor.draft.life)
      BY <1>a, <1>d, <1>g, <2>1, <3>2
    <3> QED BY <2>1, <3>3 DEF SameStart
  <2>2. CASE /\ at' \in g.Hosts /\ cache'[at'] \in Panel(g)!Note /\ editor'.key = cache'[at'].rev
             /\ editor'.draft = Panel(g)!Draft(at', cache'[at'])
    <3>1. Fits(note'[at'], clock', cache'[at'].rev, cache'[at'].id, cache'[at'].life)
      BY <1>2, <1>n, <2>2
    <3>2. editor'.draft.host = at' /\ editor'.draft.seen = cache'[at'].id /\ editor'.draft.life = cache'[at'].life
      BY <2>2 DEF Panel!Draft
    <3> QED BY <2>2, <3>1, <3>2
  <2> QED BY <1>4, <1>m, <2>1, <2>2 DEF NotesEdits
<1>c. ASSUME NEW c \in calls PROVE c.expected \in Nat /\ c.draft \in Panel(g)!Drafts /\ c.host \in g.Hosts
  BY <1>s DEF Panel!Calls
<1>5. ASSUME NEW x \in calls', x.op = "save", x.answer = "none"
      PROVE  Fits(note'[x.draft.host], clock', x.expected, x.draft.seen, x.draft.life)
  <2>1. CASE SentNow(g, x)
    <3>1. editor # NoEditor /\ x.expected = editor.key /\ x.draft = editor.draft
      BY <1>5, <2>1 DEF SentNow
    <3>2. editor \in Panel(g)!Editors
      BY <1>t, <3>1 DEF NotesScreen
    <3>3. editor.key \in Nat /\ editor.draft \in Panel(g)!Drafts
      BY <3>2 DEF Panel!Editors
    <3>4. Fits(note'[editor.draft.host], clock', editor.key, editor.draft.seen, editor.draft.life)
      BY <1>a, <1>d, <1>g, <3>1, <3>3
    <3> QED BY <3>1, <3>4
  <2>2. CASE \E y \in calls : SameCall(x, y)
    <3>1. PICK y \in calls : SameCall(x, y)
      BY <2>2
    <3>2. y.op = "save" /\ y.answer = "none" /\ x.draft = y.draft /\ x.expected = y.expected
      BY <1>5, <3>1 DEF SameCall
    <3>3. Fits(note'[y.draft.host], clock', y.expected, y.draft.seen, y.draft.life)
      BY <1>a, <1>c, <1>d, <1>g, <3>2
    <3> QED BY <3>2, <3>3
  <2> QED BY <1>5, <1>m, <2>1, <2>2 DEF NotesSends, AnsweredNow
<1>6. ASSUME NEW x \in calls', x.answer = "saved", x.draft.host = x.host, x.over.rev > 0, x.over.life = x.draft.life
      PROVE  x.over.id = x.draft.seen
  <2>1. CASE \E y \in calls : SameCall(x, y)
    BY <1>6, <1>a, <2>1 DEF SameCall
  <2>2. CASE \E y \in calls : AnsweredNow(x, y)
    <3>1. PICK y \in calls : AnsweredNow(x, y)
      BY <2>2
    <3>2. /\ y.op = "save" /\ y.answer = "none" /\ x.draft = y.draft /\ x.over = note[y.host] /\ x.host = y.host
          /\ y.expected = note[y.host].rev
      BY <1>6, <3>1 DEF AnsweredNow
    <3>3. Fits(note[y.host], clock, y.expected, y.draft.seen, y.draft.life)
      BY <1>6, <1>a, <3>2
    <3>4. note[y.host].rev \in Nat
      BY <1>c, <1>s DEF Panel!Note
    <3> QED BY <1>6, <3>2, <3>3, <3>4 DEF Fits
  <2>3. ~SentNow(g, x)
    BY <1>6 DEF SentNow
  <2> QED BY <1>m, <2>1, <2>2, <2>3 DEF NotesSends
<1>7. (Panel(g)!ReadsAgree)'
  BY <1>1, <1>2, <1>3 DEF Panel!ReadsAgree, Panel!Agrees, Known, Fits
<1>8. (Panel(g)!DraftsAgree)'
  BY <1>4, <1>5 DEF Panel!DraftsAgree, Panel!Agrees, Fits
<1>9. (Panel(g)!UpdateReplacesWhatWasSeen)'
  BY <1>6 DEF Panel!UpdateReplacesWhatWasSeen
<1> QED BY <1>7, <1>8, <1>9

\* With one host, what the panel is told of comes after what it shows: the answer of a
\* call invalidates the note and the revisions of the very host it was about.
LEMMA NotesOwnWrites ==
  ASSUME NEW g, Panel(g)!PanelAssumption, Panel(g)!SavesInv, Panel(g)!OwnWritesInv, Panel(g)!Next,
         NEW k, g.Hosts = {k}
  PROVE  Panel(g)!OwnWritesInv'
<1>t. NotesCounted(g) /\ NotesScreen(g) /\ NotesCalls(g) /\ NotesFetch(g) /\ NotesLook(g) /\ Panel(g)!TypeOK
  BY NotesParts DEF Panel!SavesInv
<1>m. NotesWrites(g) /\ NotesReads(g) /\ NotesSends(g) /\ (NotesLooks(g) \/ NotesHears(g))
  BY <1>t, NotesMove DEF NotesMoved
<1>s. /\ note \in [g.Hosts -> Panel(g)!Note] /\ clock \in Nat /\ cache \in [g.Hosts -> Panel(g)!Note \cup {NoData}]
      /\ fetch \in Panel(g)!Note \cup {Idle, Asked} /\ calls \subseteq Panel(g)!Calls
      /\ own \in [g.Hosts -> Nat] /\ heard \in [g.Hosts -> Nat] /\ log \in [g.Hosts -> Panel(g)!Revisions \cup {NoData}]
      /\ look \in Panel(g)!Revisions \cup {Idle, Asked}
  BY <1>t DEF NotesCounted, NotesScreen, NotesFetch, NotesCalls, NotesLook
<1>n. NoData \notin Panel(g)!Note /\ NoData \notin Panel(g)!Revisions
  BY DEF Panel!PanelAssumption
<1>a. /\ \A c \in calls : c.done <= note[c.host].id /\ cache[c.host] # NoData
      /\ \A h \in g.Hosts : heard[h] <= own[h] /\ own[h] <= note[h].id
      /\ \A h \in g.Hosts : cache[h] # NoData /\ h \notin dirty => cache[h].id >= own[h]
      /\ fetch \notin {Idle, Asked} => fetch.id >= own[at]
      /\ \A h \in g.Hosts : log[h] # NoData /\ h \notin logDirty => log[h].id >= heard[h]
      /\ look \notin {Idle, Asked} => look.id >= heard[at]
  BY DEF Panel!OwnWritesInv, Panel!ToldIsWritten, Panel!ReadsAfterTold, Panel!LooksAfterHeard
<1>g. ASSUME NEW h \in g.Hosts
      PROVE  note[h].id \in Nat /\ note'[h].id \in Nat /\ note[h].id <= note'[h].id
  <2>1. \A j \in g.Hosts : Known(note[j], clock)
    BY DEF Panel!SavesInv, Panel!ReadsAgree, Known
  <2>2. note'[h] \in Panel(g)!Note /\ note[h].id <= note'[h].id
    BY <1>m, <1>s, <2>1, NotesGrow
  <2> QED BY <1>s, <2>2 DEF Panel!Note
<1>c. ASSUME NEW c \in calls PROVE c.host = k /\ c.key = k /\ c.done \in Nat
  BY <1>s DEF Panel!Calls
<1>k. ASSUME NEW h \in g.Hosts, cache[h] # NoData PROVE cache'[h] # NoData
  BY <1>k, <1>m, <1>n, <1>s DEF NotesReads
<1>1. ASSUME NEW x \in calls' PROVE x.done <= note'[x.host].id /\ cache'[x.host] # NoData
  <2>1. CASE SentNow(g, x)
    <3>1. x.done = 0 /\ x.host \in g.Hosts /\ cache[x.host] # NoData
      BY <2>1 DEF SentNow
    <3> QED BY <1>g, <1>k, <3>1
  <2>2. CASE \E y \in calls : SameCall(x, y)
    <3>1. PICK y \in calls : SameCall(x, y)
      BY <2>2
    <3>2. x.done = y.done /\ x.host = y.host /\ y.host = k /\ y.done \in Nat
      BY <1>c, <3>1 DEF SameCall
    <3>3. y.done <= note[y.host].id /\ cache[y.host] # NoData
      BY <1>a
    <3>4. y.done <= note'[k].id /\ cache'[k] # NoData
      BY <1>g, <1>k, <3>2, <3>3
    <3> QED BY <3>2, <3>4
  <2>3. CASE \E y \in calls : AnsweredNow(x, y)
    <3>1. PICK y \in calls : AnsweredNow(x, y)
      BY <2>3
    <3>2. x.done = note'[k].id /\ x.host = k /\ cache[k] # NoData
      BY <1>a, <1>c, <3>1 DEF AnsweredNow
    <3> QED BY <1>g, <1>k, <3>2
  <2> QED BY <1>m, <2>1, <2>2, <2>3 DEF NotesSends
<1>h. k \in g.Hosts /\ own[k] \in Nat /\ heard[k] \in Nat /\ note[k].id \in Nat
  BY <1>g, <1>s
<1>2. CASE NotesLooks(g)
  <2>1. UNCHANGED <<own, heard>>
    BY <1>2 DEF NotesLooks
  <2>2. heard'[k] <= own'[k] /\ own'[k] <= note'[k].id
    BY <1>a, <1>g, <1>h, <2>1
  <2>3. cache'[k] # NoData /\ k \notin dirty' => cache'[k].id >= own'[k]
    <3>1. CASE cache' = cache /\ dirty \subseteq dirty'
      BY <1>a, <1>h, <2>1, <3>1
    <3>2. CASE fetch \notin {Idle, Asked} /\ at \in g.Hosts /\ cache' = [cache EXCEPT ![at] = fetch]
      BY <1>a, <1>h, <1>s, <2>1, <3>2
    <3> QED BY <1>m, <3>1, <3>2 DEF NotesReads
  <2>4. fetch' \notin {Idle, Asked} => fetch'.id >= own'[at']
    BY <1>a, <1>h, <1>m, <2>1 DEF NotesReads
  <2>5. log'[k] # NoData /\ k \notin logDirty' => log'[k].id >= heard'[k]
    <3>1. CASE UNCHANGED <<log, logDirty>>
      BY <1>a, <1>h, <2>1, <3>1
    <3>2. CASE look \notin {Idle, Asked} /\ at \in g.Hosts /\ log' = [log EXCEPT ![at] = look]
      BY <1>a, <1>h, <1>s, <2>1, <3>2
    <3> QED BY <1>2, <3>1, <3>2 DEF NotesLooks
  <2>6. look' \notin {Idle, Asked} => look'.id >= heard'[at']
    <3>1. CASE at' = at /\ look' = look
      BY <1>a, <2>1, <3>1
    <3>2. CASE at' = at /\ at \in g.Hosts /\ look' = Panel(g)!list_revisions(note[at])
      <4>1. look'.id = note[k].id /\ at' = k
        BY <3>2 DEF Panel!list_revisions
      <4> QED BY <1>a, <1>h, <2>1, <4>1
    <3> QED BY <1>2, <3>1, <3>2 DEF NotesLooks
  <2> QED BY <1>1, <2>2, <2>3, <2>4, <2>5, <2>6
          DEF Panel!OwnWritesInv, Panel!ToldIsWritten, Panel!ReadsAfterTold, Panel!LooksAfterHeard
<1>3. CASE NotesHears(g)
  <2>1. PICK c \in calls, stays \in BOOLEAN :
          /\ Panel(g)!Told(c) /\ Panel(g)!Invalidate(c.key) /\ Panel(g)!InvalidateLog(c.key, stays)
          /\ stays => at \in g.Hosts
          /\ UNCHANGED <<note, clock, at, cache>>
    BY <1>3 DEF NotesHears
  <2>2. c.host = k /\ c.key = k /\ c.done \in Nat /\ c.done <= note[k].id /\ cache[k] # NoData
    BY <1>a, <1>c
  <2>3. own'[k] \in {own[k], c.done} /\ own'[k] >= own[k] /\ own'[k] \in Nat
    BY <1>h, <1>s, <2>1, <2>2 DEF Panel!Told, Panel!Newer
  <2>4. heard'[k] \in {heard[k], own'[k]}
    BY <1>h, <1>s, <2>1, <2>2 DEF Panel!InvalidateLog
  <2>5. heard'[k] <= own'[k] /\ own'[k] <= note'[k].id
    BY <1>a, <1>h, <2>1, <2>2, <2>3, <2>4
  <2>6. k \in dirty' /\ k \in logDirty'
    BY <2>1, <2>2 DEF Panel!Invalidate, Panel!InvalidateLog
  <2>7. fetch' \in {Idle, Asked}
    <3>1. CASE at = k
      BY <2>1, <2>2, <3>1 DEF Panel!Invalidate, Panel!Refetched
    <3>2. CASE at # k
      <4>1. fetch = Idle
        BY <1>t, <3>2 DEF NotesFetch, NotesScreen
      <4> QED BY <2>1, <2>2, <3>2, <4>1 DEF Panel!Invalidate
    <3> QED BY <3>1, <3>2
  <2>8. look' \notin {Idle, Asked} => look'.id >= heard'[at']
    <3>1. CASE ~stays
      BY <2>1, <3>1 DEF Panel!InvalidateLog
    <3>2. CASE stays /\ Panel(g)!Outlives(k, stays)
      <4>1. at = k /\ at' = at /\ (look' = look \/ look' = Asked) /\ heard'[k] = heard[k]
        BY <1>h, <1>s, <2>1, <2>2, <3>2 DEF Panel!InvalidateLog
      <4> QED BY <1>a, <4>1
    <3>3. CASE stays /\ ~Panel(g)!Outlives(k, stays)
      <4>1. at = k
        BY <2>1, <3>3
      <4>2. opened \/ look = Idle
        BY <3>3, <4>1 DEF Panel!Outlives
      <4> QED BY <2>1, <2>2, <3>3, <4>1, <4>2 DEF Panel!InvalidateLog
    <3> QED BY <3>1, <3>2, <3>3
  <2> QED BY <1>1, <2>5, <2>6, <2>7, <2>8
          DEF Panel!OwnWritesInv, Panel!ToldIsWritten, Panel!ReadsAfterTold, Panel!LooksAfterHeard
<1> QED BY <1>m, <1>2, <1>3

NotesInv(g) == Panel(g)!SavesInv /\ (OneHost(g) => Panel(g)!OwnWritesInv)

LEMMA NotesInit ==
  ASSUME NEW g, Panel(g)!PanelAssumption, Panel(g)!Init
  PROVE  NotesInv(g)
<1> USE DEF Panel!Init
<1>m. /\ g.MaxWrites \in Nat /\ g.MaxFailures \in Nat /\ g.MaxLooks \in Nat /\ Closed \notin g.Hosts
      /\ NoData \notin Panel(g)!Note /\ NoEditor \notin Panel(g)!Editors
  BY DEF Panel!PanelAssumption
<1>1. Panel(g)!Never \in Panel(g)!Note
  BY DEF Panel!Never, Panel!Note
<1>2. NotesCounted(g)
  BY <1>1, <1>m DEF NotesCounted
<1>3. NotesScreen(g) /\ NotesFetch(g) /\ NotesLook(g)
  BY <1>m DEF NotesScreen, NotesFetch, NotesLook, Panel!ShowsEditor
<1>4. NotesCalls(g)
  BY DEF NotesCalls, Panel!PendingInFlight
<1>5. Panel(g)!TypeOK
  BY <1>2, <1>3, <1>4, NotesParts
<1>6. Panel(g)!ReadsAgree /\ Panel(g)!DraftsAgree /\ Panel(g)!UpdateReplacesWhatWasSeen
  BY DEF Panel!ReadsAgree, Panel!DraftsAgree, Panel!UpdateReplacesWhatWasSeen, Panel!Never
<1>7. Panel(g)!OwnWritesInv
  BY DEF Panel!OwnWritesInv, Panel!ToldIsWritten, Panel!ReadsAfterTold, Panel!LooksAfterHeard, Panel!Never
<1> QED BY <1>5, <1>6, <1>7 DEF NotesInv, Panel!SavesInv

LEMMA NotesStep ==
  ASSUME NEW g, Panel(g)!PanelAssumption, NotesInv(g), [Panel(g)!Next]_(Panel(g)!vars)
  PROVE  NotesInv(g)'
<1>1. CASE Panel(g)!Next
  <2>1. Panel(g)!TypeOK' /\ (Panel(g)!ReadsAgree /\ Panel(g)!DraftsAgree /\ Panel(g)!UpdateReplacesWhatWasSeen)'
    BY <1>1, NotesType, NotesAgree DEF NotesInv, Panel!SavesInv
  <2>2. OneHost(g) => Panel(g)!OwnWritesInv'
    BY <1>1, NotesOwnWrites DEF NotesInv, OneHost
  <2> QED BY <2>1, <2>2 DEF NotesInv, Panel!SavesInv, OneHost
<1>2. CASE UNCHANGED Panel(g)!vars
  <2> USE <1>2 DEF Panel!vars, Panel!history, Panel!ShowsEditor, Panel!ShowsNote, Panel!HasBody, Panel!isLoading
  <2>1. Panel(g)!TypeOK'
    BY DEF NotesInv, Panel!SavesInv, Panel!TypeOK, Panel!PendingInFlight
  <2>2. (Panel(g)!ReadsAgree /\ Panel(g)!DraftsAgree /\ Panel(g)!UpdateReplacesWhatWasSeen)'
    BY DEF NotesInv, Panel!SavesInv, Panel!ReadsAgree, Panel!DraftsAgree, Panel!UpdateReplacesWhatWasSeen, Panel!Agrees
  <2>3. OneHost(g) => Panel(g)!OwnWritesInv'
    BY DEF NotesInv, Panel!OwnWritesInv, Panel!ToldIsWritten, Panel!ReadsAfterTold, Panel!LooksAfterHeard
  <2> QED BY <2>1, <2>2, <2>3 DEF NotesInv, Panel!SavesInv, OneHost
<1> QED BY <1>1, <1>2

\* What the invariants say to a reader of the screen.
LEMMA NotesHold ==
  ASSUME NEW g, Panel(g)!PanelAssumption, NotesInv(g)
  PROVE  /\ Panel(g)!TypeOK /\ Panel(g)!UpdateReplacesWhatWasSeen
         /\ OneHost(g) => Panel(g)!ReadYourWrites /\ Panel(g)!HistoryHasOwnWrites
<1>1. Panel(g)!TypeOK /\ Panel(g)!UpdateReplacesWhatWasSeen
  BY DEF NotesInv, Panel!SavesInv
<1>2. ASSUME OneHost(g) PROVE Panel(g)!ReadYourWrites /\ Panel(g)!HistoryHasOwnWrites
  <2>1. Panel(g)!OwnWritesInv
    BY <1>2 DEF NotesInv
  <2>2. Panel(g)!ReadYourWrites
    BY <2>1 DEF Panel!OwnWritesInv, Panel!ReadsAfterTold, Panel!ReadYourWrites
  <2>3. opened => at \in g.Hosts
    BY <1>1, BodyIsNote DEF Panel!TypeOK, Panel!ShowsNote
  <2>4. Panel(g)!HistoryHasOwnWrites
    BY <2>1, <2>3 DEF Panel!OwnWritesInv, Panel!LooksAfterHeard, Panel!HistoryHasOwnWrites, Panel!RevisionsList
  <2> QED BY <2>2, <2>4
<1> QED BY <1>1, <1>2

-----------------------------------------------------------------------------
(* The pages of the trail.                                                  *)

\* Among numbers: the least, and the greatest of those that are bounded.
LEMMA LeastNumber ==
  ASSUME NEW S \in SUBSET Nat, S # {}
  PROVE  \E m \in S : \A y \in S : m <= y
<1> DEFINE T == {0 .. x : x \in S}
<1>1. T \subseteq FiniteSubsetsOf(Nat) /\ T # {}
  <2>1. ASSUME NEW x \in S PROVE 0 .. x \in FiniteSubsetsOf(Nat)
    <3>1. IsFiniteSet(0 .. x) /\ 0 .. x \in SUBSET Nat
      BY FS_Interval
    <3> QED BY <3>1 DEF FiniteSubsetsOf
  <2> QED BY <2>1
<1>2. PICK t \in T : \A u \in T : ~(<<u, t>> \in StrictSubsetOrdering(Nat))
  BY <1>1, WFMin, FS_StrictSubsetOrderingWellFounded
<1>3. PICK x \in S : t = 0 .. x
  OBVIOUS
<1>4. ASSUME NEW y \in S, y < x PROVE FALSE
  <2>1. 0 .. y \in T /\ 0 .. y \subseteq 0 .. x /\ x \in 0 .. x /\ x \notin 0 .. y
    BY <1>4
  <2>2. 0 .. y \in SUBSET Nat /\ 0 .. x \in SUBSET Nat /\ 0 .. y # 0 .. x
    BY <2>1
  <2>3. <<0 .. y, 0 .. x>> \in StrictSubsetOrdering(Nat)
    BY <2>1, <2>2 DEF StrictSubsetOrdering
  <2> QED BY <1>2, <1>3, <2>1, <2>3
<1>5. \A y \in S : x <= y
  BY <1>4
<1> QED BY <1>5

LEMMA GreatestNumber ==
  ASSUME NEW S \in SUBSET Nat, S # {}, NEW n \in Nat, \A s \in S : s <= n
  PROVE  \E m \in S : \A y \in S : y <= m
<1> DEFINE T == {n - s : s \in S}
<1>0. \A s \in S : s \in Nat /\ n - s \in Nat
  OBVIOUS
<1>1. T \in SUBSET Nat /\ T # {}
  BY <1>0
<1>2. PICK t \in T : \A y \in T : t <= y
  BY <1>1, LeastNumber
<1>3. PICK m \in S : t = n - m
  OBVIOUS
<1>4. ASSUME NEW y \in S PROVE y <= m
  <2>1. n - y \in T
    OBVIOUS
  <2>2. n - m <= n - y /\ m \in Nat /\ y \in Nat
    BY <1>2, <1>3, <2>1
  <2> QED BY <2>2
<1> QED BY <1>4

\* A finite set of numbers is bounded.
LEMMA FiniteBounded ==
  ASSUME NEW S \in SUBSET Nat, IsFiniteSet(S)
  PROVE  \E n \in Nat : \A y \in S : y <= n
<1> SUFFICES ASSUME \A n \in Nat : \E y \in S : y > n PROVE FALSE
  OBVIOUS
<1> DEFINE U(m) == {y \in S : y > m}
           T == {U(m) : m \in Nat}
<1>1. T \subseteq FiniteSubsetsOf(Nat) /\ T # {}
  <2>1. ASSUME NEW m \in Nat PROVE U(m) \in FiniteSubsetsOf(Nat)
    <3>1. U(m) \in SUBSET S /\ U(m) \in SUBSET Nat
      OBVIOUS
    <3>2. IsFiniteSet(U(m))
      BY <3>1, FS_Subset
    <3> QED BY <3>1, <3>2 DEF FiniteSubsetsOf
  <2>2. U(0) \in T
    OBVIOUS
  <2> QED BY <2>1, <2>2
<1>2. PICK t \in T : \A u \in T : ~(<<u, t>> \in StrictSubsetOrdering(Nat))
  BY <1>1, WFMin, FS_StrictSubsetOrderingWellFounded
<1>3. PICK m \in Nat : t = U(m)
  OBVIOUS
<1>4. PICK y \in S : y > m
  OBVIOUS
<1>n. \A z \in S : z \in Nat
  OBVIOUS
<1>5. y \in Nat /\ U(y) \in T /\ U(y) \subseteq U(m) /\ y \in U(m) /\ y \notin U(y)
  <2>1. y \in Nat /\ y \in U(m) /\ U(y) \in T
    BY <1>4, <1>n
  <2>2. ASSUME NEW z \in S, z > y PROVE z > m
    BY <1>4, <1>n, <2>2
  <2>3. U(y) \subseteq U(m)
    BY <2>2
  <2>4. ~(y > y)
    BY <2>1
  <2> QED BY <2>1, <2>3, <2>4
<1>6. U(y) \in SUBSET Nat /\ U(m) \in SUBSET Nat /\ U(y) # U(m)
  BY <1>5
<1>7. <<U(y), U(m)>> \in StrictSubsetOrdering(Nat)
  BY <1>5, <1>6 DEF StrictSubsetOrdering
<1> QED BY <1>2, <1>3, <1>5, <1>7

\* How many of the events Q are newer than i, and a page of them.
Newer(Q, i) == Cardinality({j \in Q : j > i})
PageOf(Q, skip, n) == {i \in Q : skip <= Newer(Q, i) /\ Newer(Q, i) < skip + n}
Before(Q, c) == {i \in Q : Newer(Q, i) < c}

LEMMA NewerOrder ==
  ASSUME NEW Q \in SUBSET Nat, IsFiniteSet(Q), NEW i \in Nat
  PROVE  /\ Newer(Q, i) \in Nat
         /\ \A k \in Nat : i <= k => Newer(Q, k) <= Newer(Q, i)
         /\ i \in Q => Newer(Q, i) < Cardinality(Q)
<1>1. ASSUME NEW k \in Nat PROVE IsFiniteSet({j \in Q : j > k}) /\ Newer(Q, k) \in Nat
  BY FS_Subset, FS_CardinalityType DEF Newer
<1>2. ASSUME NEW k \in Nat, i <= k PROVE Newer(Q, k) <= Newer(Q, i)
  <2>0. ASSUME NEW j \in Q, j > k PROVE j > i
    <3>1. j \in Nat
      OBVIOUS
    <3> QED BY <1>2, <2>0, <3>1
  <2>1. {j \in Q : j > k} \in SUBSET {j \in Q : j > i}
    BY <2>0
  <2> QED BY <1>1, <2>1, FS_Subset DEF Newer
<1>3. ASSUME i \in Q PROVE Newer(Q, i) < Cardinality(Q)
  <2>1. {j \in Q : j > i} \in SUBSET (Q \ {i})
    OBVIOUS
  <2>2. IsFiniteSet(Q \ {i}) /\ Cardinality(Q \ {i}) = Cardinality(Q) - 1 /\ Cardinality(Q) \in Nat
    BY <1>3, FS_RemoveElement, FS_CardinalityType
  <2>3. Newer(Q, i) <= Cardinality(Q \ {i})
    BY <2>1, <2>2, FS_Subset DEF Newer
  <2>4. Newer(Q, i) \in Nat
    BY <1>1
  <2> QED BY <2>2, <2>3, <2>4
<1> QED BY <1>1, <1>2, <1>3

LEMMA BeforeSize ==
  ASSUME NEW Q \in SUBSET Nat, IsFiniteSet(Q), NEW c \in Nat
  PROVE  /\ IsFiniteSet(Before(Q, c)) /\ Cardinality(Before(Q, c)) \in Nat
         /\ Cardinality(Before(Q, c)) <= c
         /\ (\E e \in Q : Newer(Q, e) >= c) => Cardinality(Before(Q, c)) = c
<1> DEFINE B == Before(Q, c)
<1>1. IsFiniteSet(B) /\ Cardinality(B) \in Nat /\ B \in SUBSET Nat /\ B \subseteq Q
  BY FS_Subset, FS_CardinalityType DEF Before
<1>2. Cardinality(B) <= c
  <2>1. CASE B = {}
    BY <1>1, <2>1, FS_EmptySet
  <2>2. CASE B # {}
    <3>1. PICK m \in B : \A y \in B : m <= y
      BY <1>1, <2>2, LeastNumber
    <3>2. m \in Nat /\ m \in Q /\ Newer(Q, m) < c /\ Newer(Q, m) \in Nat
      BY <1>1, <3>1, NewerOrder DEF Before
    <3>3. IsFiniteSet({j \in Q : j > m}) /\ m \notin {j \in Q : j > m}
      BY <3>2, FS_Subset
    <3>4. /\ IsFiniteSet({j \in Q : j > m} \cup {m})
          /\ Cardinality({j \in Q : j > m} \cup {m}) = Newer(Q, m) + 1
      BY <3>3, FS_AddElement DEF Newer
    <3>5. B \in SUBSET ({j \in Q : j > m} \cup {m})
      BY <1>1, <3>1, <3>2
    <3>6. Cardinality(B) <= Newer(Q, m) + 1
      BY <3>4, <3>5, FS_Subset
    <3> QED BY <1>1, <3>2, <3>6
  <2> QED BY <2>1, <2>2
<1>3. ASSUME NEW e \in Q, Newer(Q, e) >= c PROVE Cardinality(B) >= c
  <2> DEFINE T == Q \ B
  <2>1. e \in T /\ T \in SUBSET Nat
    <3>1. e \in Nat
      OBVIOUS
    <3>2. Newer(Q, e) \in Nat
      BY <3>1, NewerOrder
    <3>3. ~(Newer(Q, e) < c)
      BY <1>3, <3>2
    <3>4. e \notin B
      BY <3>3 DEF Before
    <3> QED BY <3>4
  <2>2. PICK m \in T : \A y \in T : y <= m
    <3>1. PICK n \in Nat : \A y \in Q : y <= n
      BY FiniteBounded
    <3> QED BY <2>1, <3>1, GreatestNumber
  <2>3. {j \in Q : j > m} \in SUBSET B
    BY <2>1, <2>2
  <2>4. Newer(Q, m) <= Cardinality(B)
    BY <1>1, <2>3, FS_Subset DEF Newer
  <2>5. m \in Nat /\ Newer(Q, m) \in Nat /\ Newer(Q, m) >= c
    BY <2>1, <2>2, NewerOrder DEF Before
  <2> QED BY <1>1, <2>4, <2>5
<1> QED BY <1>1, <1>2, <1>3

\* A page has as many events as it may have, if there is one behind it.
LEMMA PageOfSize ==
  ASSUME NEW Q \in SUBSET Nat, IsFiniteSet(Q), NEW skip \in Nat, NEW n \in Nat
  PROVE  /\ IsFiniteSet(PageOf(Q, skip, n)) /\ Cardinality(PageOf(Q, skip, n)) \in 0..n
         /\ (\E e \in Q : Newer(Q, e) >= skip + n) => Cardinality(PageOf(Q, skip, n)) = n
<1> DEFINE A == Before(Q, skip)
           B == Before(Q, skip + n)
           P == PageOf(Q, skip, n)
<1>0. skip + n \in Nat
  OBVIOUS
<1>1. /\ IsFiniteSet(A) /\ Cardinality(A) \in Nat /\ Cardinality(A) <= skip
      /\ (\E e \in Q : Newer(Q, e) >= skip) => Cardinality(A) = skip
  BY BeforeSize
<1>2. /\ IsFiniteSet(B) /\ Cardinality(B) \in Nat /\ Cardinality(B) <= skip + n
      /\ (\E e \in Q : Newer(Q, e) >= skip + n) => Cardinality(B) = skip + n
  BY <1>0, BeforeSize
<1>n. \A e \in Q : e \in Nat /\ Newer(Q, e) \in Nat
  BY NewerOrder
<1>3. P = B \ A /\ B \cap A = A
  <2>1. ASSUME NEW e \in Q
        PROVE  /\ (e \in B /\ e \notin A) <=> (skip <= Newer(Q, e) /\ Newer(Q, e) < skip + n)
               /\ e \in A => e \in B
    <3>1. Newer(Q, e) \in Nat
      BY <1>n
    <3>2. (e \in B <=> Newer(Q, e) < skip + n) /\ (e \in A <=> Newer(Q, e) < skip)
      BY DEF Before
    <3> HIDE DEF A, B
    <3> QED BY <3>1, <3>2
  <2>2. A \subseteq Q /\ B \subseteq Q
    BY DEF Before
  <2> HIDE DEF A, B
  <2> QED BY <2>1, <2>2 DEF PageOf
<1>4. IsFiniteSet(P) /\ Cardinality(P) = Cardinality(B) - Cardinality(A) /\ Cardinality(P) \in Nat
  <2>1. IsFiniteSet(B \ A) /\ Cardinality(B \ A) = Cardinality(B) - Cardinality(B \cap A)
    BY <1>1, <1>2, FS_Difference
  <2>2. IsFiniteSet(P) /\ Cardinality(P) = Cardinality(B) - Cardinality(A)
    BY <1>3, <2>1
  <2> QED BY <2>2, FS_CardinalityType
<1>5. Cardinality(P) <= n
  <2>1. CASE P = {}
    BY <2>1, FS_EmptySet
  <2>2. CASE P # {}
    <3>1. \E e \in Q : Newer(Q, e) >= skip
      BY <1>n, <2>2 DEF PageOf
    <3> HIDE DEF A, B, P
    <3> QED BY <1>1, <1>2, <1>4, <3>1
  <2> QED BY <2>1, <2>2
<1>6. ASSUME NEW e \in Q, Newer(Q, e) >= skip + n PROVE Cardinality(P) = n
  <2>1. Cardinality(B) = skip + n
    BY <1>2, <1>6
  <2> HIDE DEF A, B, P
  <2> QED BY <1>1, <1>4, <1>5, <2>1
<1> HIDE DEF P
<1>7. Cardinality(P) \in 0..n
  BY <1>4, <1>5
<1> QED BY <1>4, <1>6, <1>7 DEF P

\* Of products: the pages of a list, and those of a list with one page more.
LEMMA NatProduct ==
  ASSUME NEW p \in Nat, NEW n \in Nat
  PROVE  p * n \in Nat /\ p * (n + 1) = p * n + p
  OBVIOUS

\* What a list has of the events Q, with pages of size P: an event that is missing comes
\* after its pages or is newer than its rows, and those of the first page's time are older.
Beyond(Q, P, l) ==
  /\ \A i \in Q \ l.rows : Newer(Q, i) >= P * l.pages \/ \A x \in l.rows : i > x
  /\ \A i \in Q \ l.rows : (\E x \in l.first : i <= x) =>
       Newer(Q, i) >= P * l.pages /\ \A x \in l.rows : i < x
  /\ l.pages > 0 /\ ~(l.last >= P) => \A i \in Q \ l.rows, x \in l.rows : i > x

LEMMA BeyondKept ==
  ASSUME NEW Q \in SUBSET Nat, IsFiniteSet(Q), NEW R \in SUBSET Nat, IsFiniteSet(R), NEW P \in Nat,
         NEW l, l.pages \in Nat, l.rows \in SUBSET Nat, l.first \subseteq l.rows, Beyond(Q, P, l),
         \A i \in R : i \in Q \/ \A x \in l.rows : i > x,
         \A i \in R, j \in Q : j > i => j \in R
  PROVE  Beyond(R, P, l)
<1> DEFINE b == P * l.pages
<1>1. b \in Nat
  BY NatProduct
<1> HIDE DEF b
<1>2. /\ \A i \in Q \ l.rows : Newer(Q, i) >= b \/ \A x \in l.rows : i > x
      /\ \A i \in Q \ l.rows : (\E x \in l.first : i <= x) => Newer(Q, i) >= b /\ \A x \in l.rows : i < x
      /\ l.pages > 0 /\ ~(l.last >= P) => \A i \in Q \ l.rows, x \in l.rows : i > x
  BY DEF Beyond, b
<1>3. ASSUME NEW i \in R, i \in Q PROVE Newer(Q, i) <= Newer(R, i) /\ Newer(Q, i) \in Nat /\ Newer(R, i) \in Nat
  <2>1. {j \in Q : j > i} \in SUBSET {j \in R : j > i}
    BY <1>3
  <2>2. IsFiniteSet({j \in R : j > i})
    BY FS_Subset
  <2> QED BY <2>1, <2>2, FS_Subset, NewerOrder DEF Newer
<1>4. ASSUME NEW i \in R \ l.rows PROVE Newer(R, i) >= b \/ \A x \in l.rows : i > x
  BY <1>1, <1>2, <1>3
<1>5. ASSUME NEW i \in R \ l.rows, NEW x \in l.first, i <= x
      PROVE  Newer(R, i) >= b /\ \A y \in l.rows : i < y
  <2>1. i \in Nat /\ x \in Nat /\ x \in l.rows
    OBVIOUS
  <2>2. i \in Q
    BY <1>5, <2>1
  <2>3. Newer(Q, i) >= b /\ \A y \in l.rows : i < y
    BY <1>2, <1>5, <2>2
  <2> QED BY <1>1, <1>3, <2>2, <2>3
<1>6. ASSUME l.pages > 0, ~(l.last >= P), NEW i \in R \ l.rows, NEW x \in l.rows PROVE i > x
  BY <1>2, <1>6
<1> QED BY <1>4, <1>5, <1>6 DEF Beyond, b

LEMMA BeyondAppended ==
  ASSUME NEW Q \in SUBSET Nat, IsFiniteSet(Q), NEW P \in Nat,
         NEW l, l.pages \in Nat, l.rows \in SUBSET Nat, l.first \subseteq l.rows, Beyond(Q, P, l),
         l.pages = 0 => l.rows = {},
         NEW m, m.pages = l.pages + 1, m.rows = l.rows \cup PageOf(Q, P * l.pages, P),
         m.first = (IF l.pages = 0 THEN PageOf(Q, P * l.pages, P) ELSE l.first),
         m.last = Cardinality(PageOf(Q, P * l.pages, P))
  PROVE  Beyond(Q, P, m)
<1> DEFINE b == P * l.pages
           read == PageOf(Q, b, P)
<1>1. b \in Nat /\ P * m.pages = b + P
  BY NatProduct
<1>2. /\ \A i \in Q \ l.rows : Newer(Q, i) >= b \/ \A x \in l.rows : i > x
      /\ \A i \in Q \ l.rows : (\E x \in l.first : i <= x) => Newer(Q, i) >= b /\ \A x \in l.rows : i < x
  BY DEF Beyond
<1>3. /\ m.rows = l.rows \cup read /\ m.first = (IF l.pages = 0 THEN read ELSE l.first)
      /\ m.last = Cardinality(read)
  OBVIOUS
<1> HIDE DEF b
<1>4. Cardinality(read) \in 0..P /\ ((\E e \in Q : Newer(Q, e) >= b + P) => Cardinality(read) = P)
  BY <1>1, PageOfSize
<1>n. \A e \in Q : e \in Nat /\ Newer(Q, e) \in Nat
  BY NewerOrder
<1>p. \A e \in read : e \in Q /\ e \in Nat /\ b <= Newer(Q, e) /\ Newer(Q, e) < b + P
  BY <1>n DEF PageOf
<1>q. ASSUME NEW i \in Q \ read PROVE Newer(Q, i) < b \/ Newer(Q, i) >= b + P
  BY <1>1, <1>n DEF PageOf
<1> HIDE DEF read
<1>o. ASSUME NEW i \in Q, NEW x \in read, Newer(Q, i) < b PROVE i > x
  <2>1. i \in Nat /\ x \in Nat /\ Newer(Q, x) \in Nat /\ Newer(Q, i) \in Nat /\ Newer(Q, x) >= b
    BY <1>n, <1>p
  <2>2. i <= x => Newer(Q, x) <= Newer(Q, i)
    BY <2>1, NewerOrder
  <2> QED BY <1>1, <1>o, <2>1, <2>2
<1>r. ASSUME NEW i \in Q, NEW x \in read, Newer(Q, i) >= b + P PROVE i < x
  <2>1. i \in Nat /\ x \in Nat /\ Newer(Q, x) \in Nat /\ Newer(Q, i) \in Nat /\ Newer(Q, x) < b + P
    BY <1>n, <1>p
  <2>2. x <= i => Newer(Q, i) <= Newer(Q, x)
    BY <2>1, NewerOrder
  <2> QED BY <1>1, <1>r, <2>1, <2>2
<1>5. ASSUME NEW i \in Q \ m.rows PROVE Newer(Q, i) >= b + P \/ \A x \in m.rows : i > x
  <2>1. i \in Q \ read /\ i \in Q \ l.rows
    BY <1>3
  <2>2. CASE Newer(Q, i) < b
    <3>1. ~(Newer(Q, i) >= b)
      BY <1>1, <1>n, <2>1, <2>2
    <3>2. \A x \in l.rows : i > x
      BY <1>2, <2>1, <3>1
    <3> QED BY <1>3, <1>o, <2>1, <2>2, <3>2
  <2> QED BY <1>q, <2>1, <2>2
<1>6. ASSUME NEW i \in Q \ m.rows, NEW x \in m.first, i <= x
      PROVE  Newer(Q, i) >= b + P /\ \A y \in m.rows : i < y
  <2>1. i \in Q \ read /\ i \in Q \ l.rows /\ i \in Nat /\ Newer(Q, i) \in Nat
    BY <1>3, <1>n
  <2>2. CASE l.pages = 0
    <3>1. x \in read /\ l.rows = {}
      BY <1>3, <1>6, <2>2
    <3>2. x \in Nat /\ ~(i > x)
      BY <1>6, <1>p, <2>1, <3>1
    <3>3. ~(Newer(Q, i) < b)
      BY <1>o, <2>1, <3>1, <3>2
    <3>4. Newer(Q, i) >= b + P
      BY <1>q, <2>1, <3>3
    <3> QED BY <1>3, <1>r, <2>1, <3>1, <3>4
  <2>3. CASE l.pages # 0
    <3>1. x \in l.first
      BY <1>3, <1>6, <2>3
    <3>2. Newer(Q, i) >= b /\ \A y \in l.rows : i < y
      BY <1>2, <1>6, <2>1, <3>1
    <3>3. ~(Newer(Q, i) < b)
      BY <1>1, <2>1, <3>2
    <3>4. Newer(Q, i) >= b + P
      BY <1>q, <2>1, <3>3
    <3> QED BY <1>3, <1>r, <2>1, <3>2, <3>4
  <2> QED BY <2>2, <2>3
<1>7. ASSUME ~(m.last >= P), NEW i \in Q \ m.rows, NEW x \in m.rows PROVE i > x
  <2>1. Cardinality(read) # P
    BY <1>3, <1>4, <1>7
  <2>2. ~(Newer(Q, i) >= b + P)
    BY <1>4, <2>1
  <2> QED BY <1>5, <2>2
<1> QED BY <1>1, <1>5, <1>6, <1>7 DEF Beyond

\* Of spans of positions.
LEMMA SpanOfNat ==
  ASSUME NEW p \in Nat, NEW n \in Nat
  PROVE  /\ p + 1 \in Nat /\ IsFiniteSet((p + 1)..n) /\ (p + 1)..n \in SUBSET Nat /\ (p + 1)..n \subseteq 1..n
         /\ \A i \in (p + 1)..n : i \in Nat
  BY FS_Interval

LEMMA SpanAbove ==
  ASSUME NEW q \in Nat, NEW m \in Nat, NEW n \in Nat, n <= m, NEW i \in (q + 1)..m, NEW j \in 1..n, j > i
  PROVE  j \in (q + 1)..m
  OBVIOUS

LEMMA SpanBelow ==
  ASSUME NEW p \in Nat, NEW q \in Nat, NEW n \in Nat, NEW m \in Nat, p <= q, n <= m,
         NEW i \in (q + 1)..m
  PROVE  /\ i <= n => i \in (p + 1)..n /\ i \in 1..n
         /\ i <= n \/ i > n
  OBVIOUS

\* The counts of the pages are the cardinalities of the finite sets.
LEMMA TrailCount ==
  ASSUME NEW g, NEW S
  PROVE  Trail(g)!Cardinality(S) = Cardinality(S)
  BY Zenon DEF Trail!Cardinality, Cardinality

\* The log has a length, and is purged within it.
LEMMA TrailLength ==
  ASSUME NEW g, Trail(g)!TypeOK
  PROVE  trail \in Seq(g.Users) /\ Len(trail) \in Nat /\ purged \in 0..Len(trail) /\ purged \in Nat
<1>1. trail \in Seq(g.Users) /\ purged \in 0..Len(trail)
  BY DEF Trail!TypeOK
<1>2. Len(trail) \in Nat
  BY <1>1
<1> QED BY <1>1, <1>2

\* The events of a filter are numbers, as many as the log has at most.
LEMMA TrailQuery ==
  ASSUME NEW g, Trail(g)!TypeOK, NEW f
  PROVE  /\ Trail(g)!query(f) \in SUBSET Nat /\ IsFiniteSet(Trail(g)!query(f))
         /\ Trail(g)!query(f) \subseteq 1..Len(trail) /\ Cardinality(Trail(g)!query(f)) \in Nat
<1>1. Len(trail) \in Nat /\ purged \in Nat
  BY TrailLength
<1>2. Trail(g)!query(f) \subseteq purged + 1..Len(trail)
  BY DEF Trail!query
<1>3. IsFiniteSet(purged + 1..Len(trail))
  BY <1>1, SpanOfNat
<1>4. IsFiniteSet(Trail(g)!query(f)) /\ Cardinality(Trail(g)!query(f)) \in Nat
  BY <1>2, <1>3, FS_Subset, FS_CardinalityType
<1>5. purged + 1..Len(trail) \subseteq 1..Len(trail) /\ 1..Len(trail) \subseteq Nat
  BY <1>1
<1> QED BY <1>2, <1>4, <1>5

\* The invariant of a list, in terms of its events.
LEMMA TrailListInv ==
  ASSUME NEW g, NEW f, NEW l
  PROVE  Trail(g)!ListInv(f, l) <=>
           /\ \A i \in l.rows : Trail(g)!scope(f) \in {NoUser, trail[i]}
           /\ g.PageSize <= g.MaxResults => Beyond(Trail(g)!query(f), g.PageSize, l)
  BY TrailCount DEF Trail!ListInv, Trail!OfFilter, Trail!MissingIsBeyond, Trail!OldIsBeyond, Trail!ShortIsLast,
         Trail!Missing, Trail!Reached, Trail!newer, Trail!hasNextPage, Beyond, Newer

\* What a step does to the log: nothing, one event more, or the oldest purged.
TrailLogged(g) ==
  \/ UNCHANGED <<trail, purged>>
  \/ UNCHANGED purged /\ \E u \in g.Users : trail' = Append(trail, u)
  \/ UNCHANGED trail /\ purged' \in purged..Len(trail)

LEMMA TrailLog ==
  ASSUME NEW g, Trail(g)!TypeOK, TrailLogged(g)
  PROVE  /\ trail' \in Seq(g.Users) /\ purged' \in 0..Len(trail') /\ Len(trail) <= Len(trail')
         /\ \A i \in 1..Len(trail) : trail'[i] = trail[i]
         /\ \A f : /\ \A i \in Trail(g)!query(f)' : i \in Trail(g)!query(f) \/ i > Len(trail)
                   /\ \A i \in Trail(g)!query(f)', j \in Trail(g)!query(f) : j > i => j \in Trail(g)!query(f)'
                   /\ Trail(g)!query(f)' \in SUBSET Nat /\ IsFiniteSet(Trail(g)!query(f)')
<1>1. trail \in Seq(g.Users) /\ purged \in 0..Len(trail) /\ Len(trail) \in Nat
  BY TrailLength
<1>2. /\ trail' \in Seq(g.Users) /\ Len(trail') \in Nat /\ Len(trail) <= Len(trail') /\ purged <= purged'
      /\ purged' \in 0..Len(trail')
      /\ \A i \in 1..Len(trail) : trail'[i] = trail[i]
  <2>1. CASE UNCHANGED purged /\ \E u \in g.Users : trail' = Append(trail, u)
    BY <1>1, <2>1
  <2>2. CASE UNCHANGED trail /\ purged' \in purged..Len(trail)
    BY <1>1, <2>2
  <2>3. CASE UNCHANGED <<trail, purged>>
    BY <1>1, <2>3
  <2> QED BY <2>1, <2>2, <2>3 DEF TrailLogged
<1>3. ASSUME NEW f
      PROVE  /\ \A i \in Trail(g)!query(f)' : i \in Trail(g)!query(f) \/ i > Len(trail)
             /\ \A i \in Trail(g)!query(f)', j \in Trail(g)!query(f) : j > i => j \in Trail(g)!query(f)'
             /\ Trail(g)!query(f)' \in SUBSET Nat /\ IsFiniteSet(Trail(g)!query(f)')
  <2>1. Trail(g)!query(f)' = {i \in purged' + 1..Len(trail') : Trail(g)!scope(f) \in {NoUser, trail'[i]}}
    BY DEF Trail!query, Trail!scope
  <2>2. Trail(g)!query(f) = {i \in purged + 1..Len(trail) : Trail(g)!scope(f) \in {NoUser, trail[i]}}
    BY DEF Trail!query
  <2>n. purged \in Nat /\ purged' \in Nat /\ Len(trail) \in Nat /\ Len(trail') \in Nat
        /\ purged <= purged' /\ Len(trail) <= Len(trail')
    BY <1>1, <1>2
  <2>3. ASSUME NEW i \in purged' + 1..Len(trail'), i <= Len(trail)
        PROVE  i \in purged + 1..Len(trail) /\ i \in 1..Len(trail)
    BY <2>n, <2>3, SpanBelow
  <2>4. \A i \in Trail(g)!query(f)' : i \in Trail(g)!query(f) \/ i > Len(trail)
    <3>1. ASSUME NEW i \in purged' + 1..Len(trail') PROVE i <= Len(trail) \/ i > Len(trail)
      BY <2>n, SpanBelow
    <3> QED BY <1>2, <2>1, <2>2, <2>3, <3>1
  <2>5. ASSUME NEW i \in Trail(g)!query(f)', NEW j \in Trail(g)!query(f), j > i PROVE j \in Trail(g)!query(f)'
    <3>1. i \in purged' + 1..Len(trail') /\ j \in purged + 1..Len(trail)
      BY <2>1, <2>2
    <3>2. j \in purged' + 1..Len(trail') /\ j \in 1..Len(trail)
      <4>1. j \in 1..Len(trail)
        BY <2>n, <3>1, SpanOfNat
      <4> QED BY <2>n, <2>5, <3>1, <4>1, SpanAbove
    <3> QED BY <1>2, <2>1, <2>2, <3>2
  <2>6. Trail(g)!query(f)' \in SUBSET Nat /\ IsFiniteSet(Trail(g)!query(f)')
    <3>2. IsFiniteSet(purged' + 1..Len(trail')) /\ purged' + 1..Len(trail') \in SUBSET Nat
      BY <2>n, SpanOfNat
    <3>3. Trail(g)!query(f)' \in SUBSET (purged' + 1..Len(trail'))
      BY <2>1
    <3> QED BY <3>2, <3>3, FS_Subset
  <2> QED BY <2>4, <2>5, <2>6
<1> QED BY <1>2, <1>3

\* A list is as good after a step that does not change it.
LEMMA TrailListKept ==
  ASSUME NEW g, Trail(g)!AuditAssumption, Trail(g)!TypeOK, TrailLogged(g), NEW f, NEW l, Trail(g)!ListOK(l),
         Trail(g)!ListInv(f, l)
  PROVE  (Trail(g)!ListOK(l) /\ Trail(g)!ListInv(f, l))'
<1>1. /\ l \in Trail(g)!Lists /\ l.first \subseteq l.rows /\ l.rows \subseteq 1..Len(trail) /\ Len(trail) \in Nat
      /\ l.pages \in Nat /\ l.rows \in SUBSET Nat
  <2>1. l \in Trail(g)!Lists /\ l.first \subseteq l.rows /\ l.rows \subseteq 1..Len(trail)
    BY DEF Trail!ListOK
  <2>2. l.pages \in Nat /\ l.rows \in SUBSET Nat
    BY <2>1 DEF Trail!Lists
  <2> QED BY <2>1, <2>2, TrailLength
<1>2. g.PageSize \in Nat
  BY DEF Trail!AuditAssumption
<1>3. Len(trail') \in Nat /\ Len(trail) <= Len(trail') /\ \A i \in 1..Len(trail) : trail'[i] = trail[i]
  BY TrailLog
<1>4. (Trail(g)!ListOK(l))'
  BY <1>1, <1>3 DEF Trail!ListOK
<1>5. \A i \in l.rows : Trail(g)!scope(f) \in {NoUser, trail'[i]}
  BY <1>1, <1>3, TrailListInv
<1>6. ASSUME g.PageSize <= g.MaxResults PROVE Beyond(Trail(g)!query(f)', g.PageSize, l)
  <2> DEFINE Q == Trail(g)!query(f)
             R == Trail(g)!query(f)'
  <2>1. Q \in SUBSET Nat /\ IsFiniteSet(Q)
    BY TrailQuery
  <2>2. /\ R \in SUBSET Nat /\ IsFiniteSet(R) /\ \A i \in R : i \in Q \/ i > Len(trail)
        /\ \A i \in R, j \in Q : j > i => j \in R
    BY TrailLog
  <2>3. Beyond(Q, g.PageSize, l)
    BY <1>6, TrailListInv
  <2> HIDE DEF Q, R
  <2>4. \A i \in R : i \in Q \/ \A x \in l.rows : i > x
    <3>1. ASSUME NEW i \in R, i > Len(trail), NEW x \in l.rows PROVE i > x
      <4>1. x \in 1..Len(trail) /\ i \in Nat
        BY <1>1, <2>2
      <4> QED BY <1>1, <3>1, <4>1
    <3> QED BY <2>2, <3>1
  <2>5. Beyond(R, g.PageSize, l)
    BY <1>1, <1>2, <2>1, <2>2, <2>3, <2>4, BeyondKept
  <2> QED BY <2>5 DEF R
<1>7. (Trail(g)!ListInv(f, l))'
  BY <1>5, <1>6, TrailCount DEF Trail!ListInv, Trail!OfFilter, Trail!MissingIsBeyond, Trail!OldIsBeyond, Trail!ShortIsLast,
         Trail!Missing, Trail!Reached, Trail!newer, Trail!hasNextPage, Beyond, Newer, Trail!scope
<1> QED BY <1>4, <1>7

\* And it is good with the next page.
LEMMA TrailListExtended ==
  ASSUME NEW g, Trail(g)!AuditAssumption, Trail(g)!TypeOK, NEW f, NEW l, Trail(g)!ListOK(l), Trail(g)!ListInv(f, l),
         l.pages = 0 => l.rows = {}
  PROVE  LET m == Trail(g)!appended(l, Trail(g)!list_audit_events(f, g.PageSize * l.pages))
         IN  /\ Trail(g)!ListOK(m) /\ Trail(g)!ListInv(f, m) /\ m.pages = l.pages + 1
             /\ l.rows \subseteq m.rows
<1> DEFINE Q == Trail(g)!query(f)
           b == g.PageSize * l.pages
           read == Trail(g)!list_audit_events(f, b)
           m == Trail(g)!appended(l, read)
<1>1. /\ l \in Trail(g)!Lists /\ l.first \subseteq l.rows /\ l.rows \subseteq 1..Len(trail)
      /\ l.pages \in Nat /\ l.rows \in SUBSET Nat /\ l.shown \in Nat /\ l.shown <= b
      /\ l.first \in SUBSET Nat
  BY DEF Trail!ListOK, Trail!Lists
<1>2. /\ g.PageSize \in Nat /\ g.MaxResults \in Nat /\ Trail(g)!limit \in Nat /\ Trail(g)!limit <= g.PageSize
      /\ g.PageSize <= g.MaxResults => Trail(g)!limit = g.PageSize
  <2>1. g.PageSize \in Nat /\ g.MaxResults \in Nat
    BY DEF Trail!AuditAssumption
  <2> QED BY <2>1 DEF Trail!limit
<1>3. b \in Nat /\ g.PageSize * (l.pages + 1) = b + g.PageSize
  BY <1>1, <1>2, NatProduct
<1>4. Q \in SUBSET Nat /\ IsFiniteSet(Q) /\ Q \subseteq 1..Len(trail)
  BY TrailQuery
<1>5. read = PageOf(Q, b, Trail(g)!limit) /\ read \subseteq Q
  BY TrailCount DEF Trail!list_audit_events, Trail!newer, PageOf, Newer
<1> HIDE DEF Q, b
<1>6. Cardinality(read) \in 0..Trail(g)!limit /\ Cardinality(read) \in Nat
  <2>1. Cardinality(PageOf(Q, b, Trail(g)!limit)) \in 0..Trail(g)!limit
    BY <1>2, <1>3, <1>4, PageOfSize
  <2> QED BY <1>2, <1>5, <2>1
<1>7. /\ m.pages = l.pages + 1 /\ m.rows = l.rows \cup read /\ m.last = Cardinality(read)
      /\ m.first = (IF l.pages = 0 THEN read ELSE l.first) /\ m.shown = l.shown + Cardinality(read)
      /\ m = [pages |-> m.pages, first |-> m.first, rows |-> m.rows, shown |-> m.shown, last |-> m.last]
  BY TrailCount DEF Trail!appended
<1> HIDE DEF m, read
<1>8. Trail(g)!ListOK(m)
  <2>1. m.pages \in Nat /\ m.rows \in SUBSET Nat /\ m.first \in SUBSET Nat /\ m.shown \in Nat /\ m.last \in Nat
    <3>1. read \in SUBSET Nat
      BY <1>4, <1>5
    <3>2. m.rows \in SUBSET Nat /\ m.first \in SUBSET Nat
      BY <1>1, <1>7, <3>1
    <3>3. m.pages \in Nat /\ m.shown \in Nat /\ m.last \in Nat
      BY <1>1, <1>6, <1>7
    <3> QED BY <3>2, <3>3
  <2>2. m \in Trail(g)!Lists
    BY <1>7, <2>1 DEF Trail!Lists
  <2>3. m.first \subseteq m.rows /\ m.rows \subseteq 1..Len(trail)
    BY <1>1, <1>4, <1>5, <1>7
  <2>4. m.shown <= b + g.PageSize
    BY <1>1, <1>2, <1>3, <1>6, <1>7
  <2>5. m.shown <= g.PageSize * m.pages
    BY <1>3, <1>7, <2>4
  <2>6. m.pages # 0
    BY <1>1, <1>7
  <2> QED BY <2>2, <2>3, <2>5, <2>6 DEF Trail!ListOK
<1>9. \A i \in m.rows : Trail(g)!scope(f) \in {NoUser, trail[i]}
  <2>1. \A i \in read : Trail(g)!scope(f) \in {NoUser, trail[i]}
    BY <1>5 DEF Q, Trail!query
  <2> QED BY <1>7, <2>1, TrailListInv
<1>10. ASSUME g.PageSize <= g.MaxResults PROVE Beyond(Q, g.PageSize, m)
  <2>1. Beyond(Q, g.PageSize, l)
    BY <1>10, TrailListInv DEF Q
  <2>2. read = PageOf(Q, g.PageSize * l.pages, g.PageSize)
    BY <1>2, <1>5, <1>10 DEF b
  <2> QED BY <1>1, <1>2, <1>4, <1>7, <2>1, <2>2, BeyondAppended
<1>11. Trail(g)!ListInv(f, m)
  BY <1>9, <1>10, TrailListInv DEF Q
<1> QED BY <1>7, <1>8, <1>11 DEF m, read, b

\* The invariant in three parts: the log, the plain values, and the lists.
TrailPlain(g) ==
  /\ me \in {"loading", "anonymous", "signed in"}
  /\ draft \in Trail(g)!Filters /\ applied \in Trail(g)!Filters /\ failed \subseteq Trail(g)!Filters
  /\ count \in [Trail(g)!Filters -> Nat \cup {NoData}] /\ countAsked \in BOOLEAN
  /\ failures \in 0..g.MaxFailures /\ fetches \in 0..g.MaxFetches
TrailListed(g) ==
  /\ pages \in [Trail(g)!Filters -> Trail(g)!Lists \cup {NoData}]
  /\ \A f \in Trail(g)!Filters : pages[f] # NoData =>
       Trail(g)!ListOK(pages[f]) /\ pages[f].pages > 0 /\ Trail(g)!ListInv(f, pages[f])
  /\ fetch \in Trail(g)!Fetches \cup {NoFetch}
  /\ fetch # NoFetch => Trail(g)!ListOK(fetch.done) /\ Trail(g)!ListInv(applied, fetch.done)
  /\ fetch # NoFetch /\ fetch.kind = "more" => pages[applied] # NoData

LEMMA TrailParts ==
  ASSUME NEW g
  PROVE  Trail(g)!PagesInv <=>
           trail \in Seq(g.Users) /\ purged \in 0..Len(trail) /\ TrailPlain(g) /\ TrailListed(g)
  BY DEF Trail!PagesInv, Trail!TypeOK, Trail!isFetchingMore, TrailPlain, TrailListed

\* What a step that reads no page does to the lists: at most a fetch is begun or given up.
TrailFetching(g) ==
  /\ pages' = pages
  /\ \/ fetch' = fetch /\ applied' = applied
     \/ fetch' = NoFetch
     \/ \E n \in Nat : fetch' = Trail(g)!NewFetch("all", n)
     \/ fetch' = Trail(g)!NewFetch("more", 1) /\ pages[applied'] # NoData

\* A list without a page has nothing beyond it.
LEMMA BeyondNothing ==
  ASSUME NEW Q \in SUBSET Nat, IsFiniteSet(Q), NEW P \in Nat
  PROVE  Beyond(Q, P, [pages |-> 0, first |-> {}, rows |-> {}, shown |-> 0, last |-> 0])
<1> DEFINE l == [pages |-> 0, first |-> {}, rows |-> {}, shown |-> 0, last |-> 0]
<1>1. l.pages = 0 /\ l.first = {} /\ l.rows = {} /\ P * l.pages = 0
  OBVIOUS
<1>2. \A i \in Q : Newer(Q, i) \in Nat
  BY NewerOrder
<1> HIDE DEF l
<1>3. Beyond(Q, P, l)
  BY <1>1, <1>2 DEF Beyond
<1> QED BY <1>3 DEF l

\* A list without a page is good, after a step too.
LEMMA TrailNoRowsNext ==
  ASSUME NEW g, Trail(g)!AuditAssumption, (trail \in Seq(g.Users) /\ purged \in 0..Len(trail))'
  PROVE  \A l, f : l = [pages |-> 0, first |-> {}, rows |-> {}, shown |-> 0, last |-> 0] =>
           (Trail(g)!ListOK(l))' /\ (Trail(g)!ListInv(f, l))'
<1> SUFFICES ASSUME NEW l, NEW f, l = [pages |-> 0, first |-> {}, rows |-> {}, shown |-> 0, last |-> 0]
             PROVE  (Trail(g)!ListOK(l))' /\ (Trail(g)!ListInv(f, l))'
  OBVIOUS
<1>1. l.pages = 0 /\ l.first = {} /\ l.rows = {} /\ l.shown = 0 /\ l \in Trail(g)!Lists
  BY DEF Trail!Lists
<1>2. g.PageSize \in Nat /\ g.PageSize * l.pages = 0
  BY <1>1 DEF Trail!AuditAssumption
<1>3. (Trail(g)!ListOK(l))'
  BY <1>1, <1>2 DEF Trail!ListOK
<1>4. Trail(g)!query(f)' \in SUBSET Nat /\ IsFiniteSet(Trail(g)!query(f)')
  <2>1. Len(trail') \in Nat /\ purged' \in Nat
    OBVIOUS
  <2>2. Trail(g)!query(f)' \in SUBSET ((purged' + 1)..Len(trail'))
    BY DEF Trail!query
  <2> QED BY <2>1, <2>2, SpanOfNat, FS_Subset
<1>5. Beyond(Trail(g)!query(f)', g.PageSize, l)
  BY <1>2, <1>4, BeyondNothing
<1>6. (Trail(g)!ListInv(f, l))'
  BY <1>1, <1>5, TrailCount DEF Trail!ListInv, Trail!OfFilter, Trail!MissingIsBeyond, Trail!OldIsBeyond,
         Trail!ShortIsLast, Trail!Missing, Trail!Reached, Trail!newer, Trail!hasNextPage, Beyond, Newer
<1> QED BY <1>3, <1>6

LEMMA TrailInit ==
  ASSUME NEW g, Trail(g)!AuditAssumption, Trail(g)!Init
  PROVE  Trail(g)!PagesInv
<1>1. trail \in Seq(g.Users) /\ purged \in 0..Len(trail)
  BY DEF Trail!Init
<1>2. TrailPlain(g)
  <2>1. g.MaxFailures \in Nat /\ g.MaxFetches \in Nat
    BY DEF Trail!AuditAssumption
  <2>2. 0 \in 0..g.MaxFailures /\ 0 \in 0..g.MaxFetches
    BY <2>1
  <2> QED BY <2>2 DEF Trail!Init, Trail!Filters, TrailPlain
<1>3. TrailListed(g)
  BY DEF Trail!Init, Trail!Filters, TrailListed
<1> QED BY <1>1, <1>2, <1>3, TrailParts

\* A fetch that begins has read nothing.
LEMMA TrailNewFetch ==
  ASSUME NEW g, Trail(g)!AuditAssumption, NEW n \in Nat, NEW k \in {"all", "more"}
  PROVE  /\ Trail(g)!NewFetch(k, n) \in Trail(g)!Fetches /\ Trail(g)!NewFetch(k, n) # NoFetch
         /\ Trail(g)!NewFetch(k, n).kind = k /\ Trail(g)!NewFetch(k, n).done = Trail(g)!NoRows
<1>1. Trail(g)!NoRows \in Trail(g)!Lists
  BY DEF Trail!NoRows, Trail!Lists
<1>2. Trail(g)!NewFetch(k, n) \in Trail(g)!Fetches
  BY <1>1 DEF Trail!NewFetch, Trail!Fetches
<1> QED BY <1>2 DEF Trail!NewFetch, Trail!AuditAssumption

LEMMA TrailFetchingStep ==
  ASSUME NEW g, Trail(g)!AuditAssumption, Trail(g)!PagesInv, TrailLogged(g), TrailFetching(g)
  PROVE  TrailListed(g)'
<1>0. Trail(g)!TypeOK /\ TrailListed(g)
  BY TrailParts DEF Trail!PagesInv
<1>1. pages' \in [Trail(g)!Filters -> Trail(g)!Lists \cup {NoData}]
  BY <1>0 DEF TrailListed, TrailFetching
<1>2. ASSUME NEW f \in Trail(g)!Filters, pages'[f] # NoData
      PROVE  (Trail(g)!ListOK(pages[f]))' /\ pages'[f].pages > 0 /\ (Trail(g)!ListInv(f, pages[f]))'
  <2>1. /\ pages'[f] = pages[f] /\ Trail(g)!ListOK(pages[f]) /\ Trail(g)!ListInv(f, pages[f])
        /\ pages[f].pages > 0
    BY <1>0, <1>2 DEF TrailListed, TrailFetching
  <2> DEFINE l == pages[f]
  <2>2. Trail(g)!ListOK(l) /\ Trail(g)!ListInv(f, l)
    BY <2>1
  <2> HIDE DEF l
  <2>3. \A x : Trail(g)!ListOK(x) /\ Trail(g)!ListInv(f, x) => (Trail(g)!ListOK(x) /\ Trail(g)!ListInv(f, x))'
    BY <1>0, TrailListKept
  <2> QED BY <2>1, <2>3
<1>3. /\ fetch' \in Trail(g)!Fetches \cup {NoFetch}
      /\ fetch' # NoFetch => (Trail(g)!ListOK(fetch.done))' /\ (Trail(g)!ListInv(applied, fetch.done))'
      /\ fetch' # NoFetch /\ fetch'.kind = "more" => pages'[applied'] # NoData
  <2> DEFINE Kept == /\ fetch' \in Trail(g)!Fetches \cup {NoFetch}
                     /\ fetch' # NoFetch =>
                          (Trail(g)!ListOK(fetch.done))' /\ (Trail(g)!ListInv(applied, fetch.done))'
                     /\ fetch' # NoFetch /\ fetch'.kind = "more" => pages'[applied'] # NoData
  <2> SUFFICES Kept
    OBVIOUS
  <2>a. ASSUME NEW k \in {"all", "more"}, NEW n \in Nat, fetch' = Trail(g)!NewFetch(k, n),
               k = "more" => pages'[applied'] # NoData
        PROVE  Kept
    <3>1. /\ fetch' \in Trail(g)!Fetches /\ fetch'.kind = k
          /\ fetch'.done = [pages |-> 0, first |-> {}, rows |-> {}, shown |-> 0, last |-> 0]
      BY <2>a, TrailNewFetch DEF Trail!NoRows
    <3>2. (trail \in Seq(g.Users) /\ purged \in 0..Len(trail))'
      BY <1>0, TrailLog
    <3>3. (Trail(g)!ListOK(fetch.done) /\ Trail(g)!ListInv(applied, fetch.done))'
      BY <3>1, <3>2, TrailNoRowsNext
    <3> QED BY <2>a, <3>1, <3>3
  <2>1. CASE fetch' = NoFetch
    BY <2>1
  <2>2. CASE fetch' = fetch /\ applied' = applied
    <3>1. /\ fetch \in Trail(g)!Fetches \cup {NoFetch}
          /\ fetch # NoFetch => Trail(g)!ListOK(fetch.done) /\ Trail(g)!ListInv(applied, fetch.done)
          /\ fetch # NoFetch /\ fetch.kind = "more" => pages[applied] # NoData
      BY <1>0 DEF TrailListed
    <3>2. ASSUME fetch # NoFetch
          PROVE  (Trail(g)!ListOK(fetch.done))' /\ (Trail(g)!ListInv(applied, fetch.done))'
      <4> DEFINE l == fetch.done
                 f == applied
      <4>1. Trail(g)!ListOK(l) /\ Trail(g)!ListInv(f, l) /\ fetch'.done = l /\ applied' = f
        BY <2>2, <3>1, <3>2
      <4> HIDE DEF l, f
      <4>2. \A x, y : Trail(g)!ListOK(x) /\ Trail(g)!ListInv(y, x) => (Trail(g)!ListOK(x) /\ Trail(g)!ListInv(y, x))'
        BY <1>0, TrailListKept
      <4> QED BY <4>1, <4>2
    <3>3. pages' = pages
      BY DEF TrailFetching
    <3> QED BY <2>2, <3>1, <3>2, <3>3
  <2>3. CASE \E n \in Nat : fetch' = Trail(g)!NewFetch("all", n)
    BY <2>3, <2>a
  <2>4. CASE fetch' = Trail(g)!NewFetch("more", 1) /\ pages[applied'] # NoData
    BY <2>4, <2>a DEF TrailFetching
  <2> HIDE DEF Kept
  <2> QED BY <2>1, <2>2, <2>3, <2>4 DEF TrailFetching
<1> QED BY <1>1, <1>2, <1>3 DEF TrailListed

\* The pages that are fetched again are as many as there were.
LEMMA TrailPagesOf ==
  ASSUME NEW g, TrailListed(g), NEW f \in Trail(g)!Filters
  PROVE  Trail(g)!PagesOf(f) \in Nat
<1>1. pages[f] \in Trail(g)!Lists \/ pages[f] = NoData
  BY DEF TrailListed
<1> QED BY <1>1 DEF Trail!PagesOf, Trail!Lists

\* Filter f begins to be shown.
LEMMA TrailShows ==
  ASSUME NEW g, Trail(g)!AuditAssumption, TrailPlain(g), TrailListed(g), NEW f \in Trail(g)!Filters,
         Trail(g)!useAuditEvents(f), Trail(g)!useAuditCount(f)
  PROVE  /\ failed' \subseteq Trail(g)!Filters /\ fetches' \in 0..g.MaxFetches /\ countAsked' \in BOOLEAN
         /\ fetch' = NoFetch \/ \E n \in Nat : fetch' = Trail(g)!NewFetch("all", n)
<1>1. Trail(g)!PagesOf(f) \in Nat
  BY TrailPagesOf
<1>2. g.MaxFetches \in Nat
  BY DEF Trail!AuditAssumption
<1>3. failed' \subseteq Trail(g)!Filters
  BY DEF Trail!useAuditEvents, TrailPlain
<1>4. fetches' \in 0..g.MaxFetches
  <2>1. fetches \in 0..g.MaxFetches
    BY DEF TrailPlain
  <2>2. fetches' = fetches \/ (fetches < g.MaxFetches /\ fetches' = fetches + 1)
    BY DEF Trail!useAuditEvents
  <2> QED BY <1>2, <2>1, <2>2
<1>5. countAsked' \in BOOLEAN
  BY DEF Trail!useAuditCount
<1>6. fetch' = NoFetch \/ \E n \in Nat : fetch' = Trail(g)!NewFetch("all", n)
  BY <1>1 DEF Trail!useAuditEvents
<1> QED BY <1>3, <1>4, <1>5, <1>6

\* The actions that read no page of the log.
TrailOther(g) ==
  \/ Trail(g)!AuthMe \/ Trail(g)!apply \/ Trail(g)!clear \/ Trail(g)!fetchNextPage \/ Trail(g)!Refetch
  \/ Trail(g)!FetchFails \/ Trail(g)!fetchAuditCount
  \/ \E d \in Trail(g)!Filters : Trail(g)!Type(d)
  \/ \E u \in g.Users : Trail(g)!Record(u)
  \/ \E n \in 1..Len(trail) : Trail(g)!purge_older_than(n)
  \/ UNCHANGED Trail(g)!vars

LEMMA TrailOtherStep ==
  ASSUME NEW g, Trail(g)!AuditAssumption, Trail(g)!PagesInv, TrailOther(g)
  PROVE  TrailLogged(g) /\ TrailFetching(g) /\ TrailPlain(g)'
<1> DEFINE Kept == TrailLogged(g) /\ TrailFetching(g) /\ TrailPlain(g)'
           F == Trail(g)!Filters
<1> SUFFICES Kept
  OBVIOUS
<1>1. /\ trail \in Seq(g.Users) /\ purged \in 0..Len(trail) /\ TrailPlain(g) /\ TrailListed(g)
      /\ Trail(g)!TypeOK
  BY TrailParts DEF Trail!PagesInv
<1>2. NoUser \in F /\ applied \in F /\ draft \in F
  BY <1>1 DEF Trail!Filters, TrailPlain
<1>3. /\ g.MaxFetches \in Nat /\ g.MaxFailures \in Nat /\ fetches \in 0..g.MaxFetches
      /\ failures \in 0..g.MaxFailures /\ failed \subseteq F
  BY <1>1 DEF Trail!AuditAssumption, TrailPlain
<1>s. ASSUME NEW f \in F, Trail(g)!Applied(f), draft' \in F PROVE Kept
  <2>1. UNCHANGED <<trail, purged, me, pages, count, failures>> /\ applied' = f
    BY <1>s DEF Trail!Applied, Trail!logged
  <2>2. CASE f = applied
    <3>1. UNCHANGED <<fetch, failed, fetches, countAsked>>
      BY <1>s, <2>2 DEF Trail!Applied
    <3> QED BY <1>1, <1>s, <2>1, <2>2, <3>1 DEF TrailLogged, TrailFetching, TrailPlain
  <2>3. CASE f # applied
    <3>1. Trail(g)!useAuditEvents(f) /\ Trail(g)!useAuditCount(f)
      BY <1>s, <2>3 DEF Trail!Applied
    <3>2. /\ failed' \subseteq Trail(g)!Filters /\ fetches' \in 0..g.MaxFetches /\ countAsked' \in BOOLEAN
          /\ fetch' = NoFetch \/ \E n \in Nat : fetch' = Trail(g)!NewFetch("all", n)
      BY <1>1, <3>1, TrailShows
    <3> QED BY <1>1, <1>s, <2>1, <3>2 DEF TrailLogged, TrailFetching, TrailPlain
  <2> QED BY <2>2, <2>3
<1>4. CASE Trail(g)!AuthMe
  <2>1. UNCHANGED <<trail, purged, draft, applied, pages, count, failures>>
    BY <1>4 DEF Trail!AuthMe, Trail!logged
  <2>2. CASE me' = "anonymous" /\ UNCHANGED <<fetch, failed, fetches, countAsked>>
    BY <1>1, <2>1, <2>2 DEF TrailLogged, TrailFetching, TrailPlain
  <2>3. CASE me' = "signed in" /\ Trail(g)!useAuditEvents(applied) /\ Trail(g)!useAuditCount(applied)
    <3>1. /\ failed' \subseteq Trail(g)!Filters /\ fetches' \in 0..g.MaxFetches /\ countAsked' \in BOOLEAN
          /\ fetch' = NoFetch \/ \E n \in Nat : fetch' = Trail(g)!NewFetch("all", n)
      BY <1>1, <1>2, <2>3, TrailShows
    <3> QED BY <1>1, <2>1, <2>3, <3>1 DEF TrailLogged, TrailFetching, TrailPlain
  <2> QED BY <1>4, <2>2, <2>3 DEF Trail!AuthMe
<1>5. CASE Trail(g)!apply
  <2>1. Trail(g)!Applied(draft) /\ draft' = draft
    BY <1>5 DEF Trail!apply
  <2> QED BY <1>2, <1>s, <2>1
<1>6. CASE Trail(g)!clear
  <2>1. Trail(g)!Applied(NoUser) /\ draft' = NoUser
    BY <1>6 DEF Trail!clear
  <2> QED BY <1>2, <1>s, <2>1
<1>7. CASE Trail(g)!fetchNextPage
  <2>1. /\ UNCHANGED <<trail, purged, me, draft, applied, pages, failed, count, countAsked, failures>>
        /\ pages[applied] # NoData /\ fetch' = Trail(g)!NewFetch("more", 1)
        /\ fetches < g.MaxFetches /\ fetches' = fetches + 1
    BY <1>7 DEF Trail!fetchNextPage, Trail!logged, Trail!counting, Trail!ShowsList
  <2>2. fetches' \in 0..g.MaxFetches
    BY <1>3, <2>1
  <2> QED BY <1>1, <2>1, <2>2 DEF TrailLogged, TrailFetching, TrailPlain
<1>8. CASE Trail(g)!Refetch
  <2>1. /\ UNCHANGED <<trail, purged, me, draft, applied, pages, count, failures>>
        /\ fetch' = Trail(g)!NewFetch("all", Trail(g)!PagesOf(applied))
        /\ fetches < g.MaxFetches /\ fetches' = fetches + 1 /\ countAsked' = TRUE
    BY <1>8 DEF Trail!Refetch, Trail!logged
  <2>2. fetches' \in 0..g.MaxFetches
    BY <1>3, <2>1
  <2>3. failed' \subseteq F
    BY <1>3, <1>8 DEF Trail!Refetch
  <2>4. \E n \in Nat : fetch' = Trail(g)!NewFetch("all", n)
    BY <1>1, <1>2, <2>1, TrailPagesOf
  <2> QED BY <1>1, <2>1, <2>2, <2>3, <2>4 DEF TrailLogged, TrailFetching, TrailPlain
<1>9. CASE Trail(g)!FetchFails
  <2>1. /\ UNCHANGED <<trail, purged, me, draft, applied, pages, count, countAsked, fetches>>
        /\ fetch' = NoFetch /\ failed' = failed \cup {applied}
        /\ failures < g.MaxFailures /\ failures' = failures + 1
    BY <1>9 DEF Trail!FetchFails, Trail!logged, Trail!counting
  <2>2. failures' \in 0..g.MaxFailures
    BY <1>3, <2>1
  <2>3. failed' \subseteq F
    BY <1>2, <1>3, <2>1
  <2> QED BY <1>1, <2>1, <2>2, <2>3 DEF TrailLogged, TrailFetching, TrailPlain
<1>10. CASE Trail(g)!fetchAuditCount
  <2>1. /\ UNCHANGED <<trail, purged, me, draft, applied, pages, failed, fetch, failures, fetches>>
        /\ countAsked' = FALSE
        /\ count' = [count EXCEPT ![applied] = Trail(g)!Cardinality(Trail(g)!query(applied))]
    BY <1>10 DEF Trail!fetchAuditCount, Trail!logged
  <2>2. Trail(g)!Cardinality(Trail(g)!query(applied)) \in Nat
    BY <1>1, TrailQuery, TrailCount
  <2>3. count' \in [F -> Nat \cup {NoData}]
    BY <1>1, <1>2, <2>1, <2>2 DEF TrailPlain
  <2> QED BY <1>1, <2>1, <2>3 DEF TrailLogged, TrailFetching, TrailPlain
<1>11. ASSUME NEW d \in F, Trail(g)!Type(d) PROVE Kept
  <2>1. /\ UNCHANGED <<trail, purged, me, applied, pages, failed, fetch, count, countAsked, failures, fetches>>
        /\ draft' = d
    BY <1>11 DEF Trail!Type, Trail!logged, Trail!counting
  <2> QED BY <1>1, <1>11, <2>1 DEF TrailLogged, TrailFetching, TrailPlain
<1>12. ASSUME NEW u \in g.Users, Trail(g)!Record(u) PROVE Kept
  <2>1. /\ UNCHANGED <<purged, me, draft, applied, pages, failed, fetch, count, countAsked, failures, fetches>>
        /\ trail' = Append(trail, u)
    BY <1>12 DEF Trail!Record, Trail!counting
  <2> QED BY <1>1, <1>12, <2>1 DEF TrailLogged, TrailFetching, TrailPlain
<1>13. ASSUME NEW n \in 1..Len(trail), Trail(g)!purge_older_than(n) PROVE Kept
  <2>1. /\ UNCHANGED <<trail, me, draft, applied, pages, failed, fetch, count, countAsked, failures, fetches>>
        /\ purged < n /\ purged' = n
    BY <1>13 DEF Trail!purge_older_than, Trail!counting
  <2>2. purged' \in purged..Len(trail)
    <3>1. purged \in Nat /\ Len(trail) \in Nat
      BY <1>1
    <3> QED BY <2>1, <3>1
  <2> QED BY <1>1, <2>1, <2>2 DEF TrailLogged, TrailFetching, TrailPlain
<1>14. CASE UNCHANGED Trail(g)!vars
  BY <1>1, <1>14 DEF Trail!vars, TrailLogged, TrailFetching, TrailPlain
<1> HIDE DEF Kept, F
<1> QED BY <1>4, <1>5, <1>6, <1>7, <1>8, <1>9, <1>10, <1>11, <1>12, <1>13, <1>14 DEF TrailOther, F

\* A page arrives.
LEMMA TrailPageStep ==
  ASSUME NEW g, Trail(g)!AuditAssumption, Trail(g)!PagesInv, Trail(g)!fetchAuditEvents
  PROVE  /\ UNCHANGED <<trail, purged>> /\ TrailPlain(g)' /\ TrailListed(g)'
         /\ (Trail(g)!isFetchingMore => pages[applied].rows \subseteq pages'[applied].rows)
<1> DEFINE l == Trail(g)!readSoFar
           read == Trail(g)!list_audit_events(applied, g.PageSize * l.pages)
           m == Trail(g)!appended(l, read)
<1>1. /\ trail \in Seq(g.Users) /\ purged \in 0..Len(trail) /\ TrailPlain(g) /\ TrailListed(g)
      /\ Trail(g)!TypeOK /\ fetch # NoFetch /\ applied \in Trail(g)!Filters
  BY TrailParts DEF Trail!PagesInv, Trail!fetchAuditEvents, TrailPlain
<1>2. /\ Trail(g)!ListOK(l) /\ Trail(g)!ListInv(applied, l)
      /\ fetch.kind = "more" => pages[applied] # NoData /\ l = pages[applied]
  BY <1>1 DEF TrailListed, Trail!readSoFar
<1>3. /\ UNCHANGED <<trail, purged, me, draft, applied, count, countAsked, failures, fetches>>
      /\ \/ pages' = [pages EXCEPT ![applied] = m] /\ failed' = failed \ {applied} /\ fetch' = NoFetch
         \/ /\ fetch' = [fetch EXCEPT !.done = m] /\ UNCHANGED <<pages, failed>>
            /\ fetch.kind # "more"
  BY DEF Trail!fetchAuditEvents, Trail!Fetched, Trail!logged, Trail!counting, Trail!offset
<1> HIDE DEF l
<1>l. l.pages = 0 => l.rows = {}
  BY <1>2 DEF Trail!ListOK
<1>4. /\ Trail(g)!ListOK(m) /\ Trail(g)!ListInv(applied, m) /\ m.pages = l.pages + 1 /\ l.rows \subseteq m.rows
      /\ m \in Trail(g)!Lists /\ l.pages \in Nat
  <2>1. /\ Trail(g)!ListOK(m) /\ Trail(g)!ListInv(applied, m) /\ m.pages = l.pages + 1
        /\ l.rows \subseteq m.rows
    BY <1>1, <1>2, <1>l, TrailListExtended
  <2> HIDE DEF m
  <2>2. l \in Trail(g)!Lists /\ m \in Trail(g)!Lists
    BY <1>2, <2>1 DEF Trail!ListOK
  <2> QED BY <2>1, <2>2 DEF Trail!Lists
<1> HIDE DEF m
<1>5. TrailPlain(g)'
  BY <1>1, <1>3 DEF TrailPlain
<1>6. \A x, y : (Trail(g)!ListOK(x))' = Trail(g)!ListOK(x) /\ (Trail(g)!ListInv(y, x))' = Trail(g)!ListInv(y, x)
  BY <1>3 DEF Trail!ListOK, Trail!ListInv, Trail!OfFilter, Trail!MissingIsBeyond, Trail!OldIsBeyond,
         Trail!ShortIsLast, Trail!Missing, Trail!Reached, Trail!newer, Trail!hasNextPage, Trail!query
<1>7. CASE pages' = [pages EXCEPT ![applied] = m] /\ fetch' = NoFetch
  <2>1. pages' \in [Trail(g)!Filters -> Trail(g)!Lists \cup {NoData}]
    BY <1>1, <1>4, <1>7 DEF TrailListed
  <2>2. ASSUME NEW f \in Trail(g)!Filters, pages'[f] # NoData
        PROVE  Trail(g)!ListOK(pages'[f]) /\ pages'[f].pages > 0 /\ Trail(g)!ListInv(f, pages'[f])
    <3>1. CASE f = applied
      <4>1. pages'[f] = m
        BY <1>1, <1>7, <3>1 DEF TrailListed
      <4>2. m.pages > 0
        BY <1>4
      <4> QED BY <1>4, <3>1, <4>1, <4>2
    <3>2. CASE f # applied
      BY <1>1, <1>7, <2>2, <3>2 DEF TrailListed
    <3> QED BY <3>1, <3>2
  <2>3. \A f \in Trail(g)!Filters : pages'[f] # NoData =>
          (Trail(g)!ListOK(pages[f]))' /\ pages'[f].pages > 0 /\ (Trail(g)!ListInv(f, pages[f]))'
    BY <1>6, <2>2
  <2>4. TrailListed(g)'
    BY <1>7, <2>1, <2>3 DEF TrailListed
  <2>5. fetch.kind = "more" => pages[applied].rows \subseteq pages'[applied].rows
    BY <1>1, <1>2, <1>4, <1>7 DEF TrailListed
  <2> QED BY <1>3, <1>5, <2>4, <2>5 DEF Trail!isFetchingMore
<1>8. CASE fetch' = [fetch EXCEPT !.done = m] /\ pages' = pages /\ fetch.kind # "more"
  <2>1. fetch \in Trail(g)!Fetches /\ fetch \in [kind : {"all", "more"}, done : Trail(g)!Lists, left : Nat]
    BY <1>1 DEF TrailListed, Trail!Fetches
  <2>2. fetch' \in Trail(g)!Fetches /\ fetch'.done = m /\ fetch'.kind = fetch.kind
    BY <1>4, <1>8, <2>1 DEF Trail!Fetches
  <2>3. (Trail(g)!ListOK(fetch.done))' /\ (Trail(g)!ListInv(applied, fetch.done))'
    BY <1>3, <1>4, <1>6, <2>2
  <2>4. \A f \in Trail(g)!Filters : pages'[f] # NoData =>
          (Trail(g)!ListOK(pages[f]))' /\ pages'[f].pages > 0 /\ (Trail(g)!ListInv(f, pages[f]))'
    BY <1>1, <1>6, <1>8 DEF TrailListed
  <2>5. pages' \in [Trail(g)!Filters -> Trail(g)!Lists \cup {NoData}]
    BY <1>1, <1>8 DEF TrailListed
  <2>6. TrailListed(g)'
    BY <1>8, <2>2, <2>3, <2>4, <2>5 DEF TrailListed
  <2> QED BY <1>3, <1>5, <1>8, <2>6 DEF Trail!isFetchingMore
<1> QED BY <1>3, <1>7, <1>8

\* Every step keeps the invariant, and load more keeps the rows.
LEMMA TrailStep ==
  ASSUME NEW g, Trail(g)!AuditAssumption, Trail(g)!PagesInv, [Trail(g)!Next]_(Trail(g)!vars)
  PROVE  Trail(g)!PagesInv' /\ Trail(g)!MoreKeepsRows
<1>1. /\ trail \in Seq(g.Users) /\ purged \in 0..Len(trail) /\ TrailPlain(g) /\ TrailListed(g)
      /\ Trail(g)!TypeOK
  BY TrailParts DEF Trail!PagesInv
<1>2. CASE TrailOther(g)
  <2>1. TrailLogged(g) /\ TrailFetching(g) /\ TrailPlain(g)'
    BY <1>2, TrailOtherStep
  <2>2. trail' \in Seq(g.Users) /\ purged' \in 0..Len(trail')
    BY <1>1, <2>1, TrailLog
  <2>3. TrailListed(g)'
    BY <2>1, TrailFetchingStep
  <2>4. Trail(g)!PagesInv'
    BY <2>1, <2>2, <2>3 DEF Trail!PagesInv, Trail!TypeOK, Trail!isFetchingMore, TrailPlain, TrailListed
  <2> QED BY <2>1, <2>4 DEF Trail!MoreKeepsRows, TrailFetching
<1>3. CASE Trail(g)!fetchAuditEvents
  <2>1. /\ UNCHANGED <<trail, purged>> /\ TrailPlain(g)' /\ TrailListed(g)'
        /\ (Trail(g)!isFetchingMore => pages[applied].rows \subseteq pages'[applied].rows)
    BY <1>3, TrailPageStep
  <2>2. Trail(g)!PagesInv'
    BY <1>1, <2>1 DEF Trail!PagesInv, Trail!TypeOK, Trail!isFetchingMore, TrailPlain, TrailListed
  <2> QED BY <2>1, <2>2 DEF Trail!MoreKeepsRows
<1>4. TrailOther(g) \/ Trail(g)!fetchAuditEvents
  BY Zenon DEF Trail!Next, TrailOther
<1> QED BY <1>2, <1>3, <1>4

\* A missing event is not newer than the events of the filter.
LEMMA TrailRank ==
  ASSUME NEW g, Trail(g)!TypeOK, NEW f, NEW i \in Trail(g)!query(f)
  PROVE  /\ Trail(g)!newer(f, i) \in Nat
         /\ Trail(g)!newer(f, i) < Trail(g)!Cardinality(Trail(g)!query(f))
<1> DEFINE Q == Trail(g)!query(f)
           S == {j \in Q : j > i}
<1>1. Q \in SUBSET Nat /\ IsFiniteSet(Q) /\ i \in Q
  BY TrailQuery
<1>2. Trail(g)!newer(f, i) = Cardinality(S) /\ Trail(g)!Cardinality(Q) = Cardinality(Q)
  BY TrailCount DEF Trail!newer
<1> HIDE DEF Q
<1>3. S \in SUBSET Q /\ S # Q
  BY <1>1
<1> HIDE DEF S
<1>4. IsFiniteSet(S) /\ Cardinality(S) <= Cardinality(Q) /\ (Cardinality(S) = Cardinality(Q) => S = Q)
  BY <1>1, <1>3, FS_Subset
<1>5. Cardinality(S) \in Nat /\ Cardinality(Q) \in Nat
  BY <1>1, <1>4, FS_CardinalityType
<1>6. Cardinality(S) < Cardinality(Q)
  BY <1>3, <1>4, <1>5
<1> QED BY <1>2, <1>5, <1>6 DEF Q

\* What the invariant says of the panels.
LEMMA TrailHolds ==
  ASSUME NEW g, Trail(g)!AuditAssumption, Trail(g)!PagesInv
  PROVE  /\ Trail(g)!TypeOK /\ Trail(g)!OwnTrailOnly /\ Trail(g)!RowsFitTheFilter
         /\ g.PageSize <= g.MaxResults =>
              Trail(g)!NoGap /\ Trail(g)!ShortPageIsLast /\ Trail(g)!BareCountMeansAll
<1>1. Trail(g)!TypeOK /\ TrailListed(g) /\ TrailPlain(g)
  BY TrailParts DEF Trail!PagesInv
<1>2. NoUser \notin g.Users /\ g.Me \in g.Users /\ g.PageSize \in Nat
  BY DEF Trail!AuditAssumption
<1>3. ASSUME NEW f \in Trail(g)!Filters, pages[f] # NoData
      PROVE  /\ Trail(g)!ListInv(f, pages[f]) /\ pages[f].pages > 0 /\ Trail(g)!ListOK(pages[f])
             /\ \A i \in pages[f].rows : Trail(g)!scope(f) \in {NoUser, trail[i]}
  BY <1>1, <1>3 DEF TrailListed, Trail!ListInv, Trail!OfFilter
<1>4. Trail(g)!OwnTrailOnly
  BY <1>2, <1>3 DEF Trail!OwnTrailOnly, Trail!scope
<1>5. Trail(g)!RowsFitTheFilter
  BY <1>2, <1>3 DEF Trail!RowsFitTheFilter, Trail!scope, Trail!Filters
<1>6. ASSUME g.PageSize <= g.MaxResults PROVE Trail(g)!NoGap
  BY <1>3, <1>6 DEF Trail!NoGap, Trail!ListInv, Trail!OldIsBeyond
<1>7. ASSUME g.PageSize <= g.MaxResults PROVE Trail(g)!ShortPageIsLast
  BY <1>3, <1>7 DEF Trail!ShortPageIsLast, Trail!ListInv, Trail!ShortIsLast
<1>8. ASSUME g.PageSize <= g.MaxResults PROVE Trail(g)!BareCountMeansAll
  <2> SUFFICES ASSUME Trail(g)!ShowsList, count[applied] = Trail(g)!Cardinality(Trail(g)!query(applied)),
                      Len(Trail(g)!formatResultsCount(pages[applied].shown, count[applied])) = 1,
                      NEW i \in Trail(g)!Missing(applied, pages[applied]), NEW x \in pages[applied].rows
               PROVE  i > x
    BY DEF Trail!BareCountMeansAll
  <2> DEFINE l == pages[applied]
             c == Trail(g)!Cardinality(Trail(g)!query(applied))
             b == g.PageSize * l.pages
  <2>1. l # NoData /\ applied \in Trail(g)!Filters
    BY <1>1 DEF Trail!ShowsList, TrailPlain
  <2>2. Trail(g)!ListInv(applied, l) /\ Trail(g)!ListOK(l) /\ l.pages \in Nat /\ l.shown \in Nat
    BY <1>3, <2>1 DEF Trail!ListOK, Trail!Lists
  <2>3. c \in Nat /\ c # NoData
    BY <1>1, TrailQuery, TrailCount DEF Trail!AuditAssumption
  <2>4. c <= l.shown
    BY <2>3 DEF Trail!formatResultsCount
  <2>5. l.shown <= b /\ b \in Nat
    BY <1>2, <2>2, NatProduct DEF Trail!ListOK
  <2>6. i \in Trail(g)!query(applied)
    BY DEF Trail!Missing
  <2>7. Trail(g)!newer(applied, i) \in Nat /\ Trail(g)!newer(applied, i) < c
    BY <1>1, <2>6, TrailRank
  <2>8. ~Trail(g)!Reached(applied, i, l)
    <3>1. ~(Trail(g)!newer(applied, i) >= b)
      <4> HIDE DEF b, c, l
      <4> QED BY <2>2, <2>3, <2>4, <2>5, <2>7
    <3> QED BY <3>1 DEF Trail!Reached
  <2> QED BY <1>8, <2>2, <2>8 DEF Trail!ListInv, Trail!MissingIsBeyond
<1> QED BY <1>1, <1>4, <1>5, <1>6, <1>7, <1>8

-----------------------------------------------------------------------------
(* The filter of the classic interface.                                     *)

\* The place and the size of a page.
LEMMA ClassicPage ==
  ASSUME NEW g, Classic(g)!LegacyAssumption, NEW q \in Classic(g)!Query
  PROVE  /\ Classic(g)!Offset(q) \in Nat /\ Classic(g)!PageSize(q) \in 0..g.Limit
         /\ Classic(g)!load_params(q) \in Classic(g)!Query
<1>1. /\ g.Limit \in Nat \ {0} /\ q.skip \in Int \cup {NoSkip, NaN} /\ q.words \in SUBSET g.Words
      /\ g.Matches[q.words] \in Nat
  BY DEF Classic!LegacyAssumption, Classic!Query
<1>2. Classic(g)!Offset(q) \in Nat
  BY <1>1 DEF Classic!Offset, Classic!Max0
<1>3. Classic(g)!PageSize(q) \in 0..g.Limit
  BY <1>1, <1>2 DEF Classic!PageSize, Classic!AtMost, Classic!Max0
<1>4. Classic(g)!load_params(q) \in Classic(g)!Query
  BY DEF Classic!load_params, Classic!Query
<1> QED BY <1>2, <1>3, <1>4

LEMMA ClassicCardinality ==
  ASSUME NEW g, NEW S
  PROVE  Classic(g)!Cardinality(S) = Cardinality(S)
  BY Zenon DEF Classic!Cardinality, Cardinality

\* The hosts of a list of answers are counted, and those of one answer are its page.
LEMMA ClassicCount ==
  ASSUME NEW g, Classic(g)!LegacyAssumption,
         NEW answers \in Seq([id : Nat, query : Classic(g)!Query])
  PROVE  /\ Classic(g)!HostCount(answers) \in Nat
         /\ \A a \in [id : Nat, query : Classic(g)!Query] :
              answers = <<a>> => Classic(g)!HostCount(answers) = Classic(g)!PageSize(a.query)
<1> DEFINE S == (1..Len(answers)) \X (1..g.Limit)
           H == {p \in S : p[2] <= Classic(g)!PageSize(answers[p[1]].query)}
<1>1. g.Limit \in Nat /\ Len(answers) \in Nat
  BY DEF Classic!LegacyAssumption
<1>2. IsFiniteSet(S)
  <2>1. IsFiniteSet(1..Len(answers)) /\ IsFiniteSet(1..g.Limit)
    BY <1>1, FS_Interval
  <2> QED BY <2>1, FS_Product
<1>3. IsFiniteSet(H) /\ Cardinality(H) \in Nat
  BY <1>2, FS_Subset, FS_CardinalityType
<1>4. ASSUME NEW a \in [id : Nat, query : Classic(g)!Query], answers = <<a>>
      PROVE  Cardinality(H) = Classic(g)!PageSize(a.query)
  <2> DEFINE m == Classic(g)!PageSize(a.query)
  <2>1. m \in 0..g.Limit
    BY ClassicPage
  <2>2. Len(answers) = 1 /\ answers[1] = a
    BY <1>4
  <2> HIDE DEF m
  <2>3. H = (1..1) \X (1..m)
    <3>1. ASSUME NEW p \in H PROVE p \in (1..1) \X (1..m)
      BY <1>1, <2>1, <2>2, <3>1 DEF m
    <3>2. ASSUME NEW p \in (1..1) \X (1..m) PROVE p \in H
      <4>1. p[1] = 1 /\ p[2] \in 1..m /\ p \in S
        BY <1>1, <2>1, <2>2
      <4> QED BY <4>1, <2>1, <2>2 DEF m
    <3> HIDE DEF H
    <3> QED BY <3>1, <3>2
  <2>4. Cardinality(1..1) = 1 /\ Cardinality(1..m) = m /\ IsFiniteSet(1..1) /\ IsFiniteSet(1..m)
    <3>1. m \in Int /\ 1 \in Int /\ m >= 0
      BY <1>1, <2>1
    <3>2. /\ IsFiniteSet(1..m) /\ Cardinality(1..m) = IF 1 > m THEN 0 ELSE m - 1 + 1
          /\ IsFiniteSet(1..1) /\ Cardinality(1..1) = IF 1 > 1 THEN 0 ELSE 1 - 1 + 1
      BY <3>1, FS_Interval
    <3> QED BY <3>1, <3>2
  <2>5. Cardinality((1..1) \X (1..m)) = 1 * m
    BY <2>4, FS_Product
  <2>6. m = 1 * m
    BY <1>1, <2>1
  <2> QED BY <2>3, <2>5, <2>6 DEF m
<1>5. Classic(g)!HostCount(answers) = Cardinality(H)
  BY ClassicCardinality DEF Classic!HostCount
<1> HIDE DEF H
<1> QED BY <1>3, <1>4, <1>5

\* A query that becomes the one of the page is asked for, unless it is the one on record.
LEMMA ClassicUpdate ==
  ASSUME NEW g, Classic(g)!LegacyAssumption, Classic(g)!FilterInv, NEW q \in Classic(g)!Query,
         Classic(g)!on_query_update(q)
  PROVE  /\ query' = q /\ prev' \in Classic(g)!Query \cup {Undefined}
         /\ requests' \subseteq [kind : {"count", "results"}, id : Nat, query : Classic(g)!Query]
         /\ shown' \in Seq([id : Nat, query : Classic(g)!Query])
         /\ count' \in Nat \cup {Undefined} /\ UNCHANGED <<first, last>>
         /\ newest' \in Nat /\ failed' \subseteq Nat /\ calm' \in BOOLEAN
         /\ Classic(g)!Numbered' /\ Classic(g)!NewestIsNeverLost' /\ Classic(g)!CalmIsCurrent'
<1> USE DEF Classic!FilterInv
<1>q. q # Undefined
  BY DEF Classic!LegacyAssumption, Classic!Query
<1>0. /\ query' = q /\ calm' = (calm /\ requests = {}) /\ UNCHANGED <<prev, first, last, failed>>
      /\ prev \in Classic(g)!Query \cup {Undefined} /\ failed \subseteq Nat /\ calm \in BOOLEAN
      /\ count \in Nat \cup {Undefined} /\ newest \in Nat
      /\ shown \in Seq([id : Nat, query : Classic(g)!Query])
      /\ requests \subseteq [kind : {"count", "results"}, id : Nat, query : Classic(g)!Query]
  BY DEF Classic!on_query_update, Classic!TypeOK
<1>1. CASE ~Classic(g)!need_update(q)
  <2>1. UNCHANGED <<requests, count, shown, newest>> /\ q = prev
    BY <1>1 DEF Classic!on_query_update, Classic!need_update
  <2>2. query # Undefined
    BY <1>q, <2>1 DEF Classic!Numbered
  <2>3. Classic(g)!Numbered' /\ Classic(g)!NewestIsNeverLost'
    BY <1>0, <1>q, <2>1 DEF Classic!Numbered, Classic!NewestIsNeverLost, Classic!InFlight
  <2>4. ASSUME calm' PROVE query = q
    <3>1. calm /\ Classic(g)!InFlight("results") = {}
      BY <1>0, <2>4 DEF Classic!InFlight
    <3> QED BY <2>1, <2>2, <3>1 DEF Classic!CalmIsCurrent
  <2>5. Classic(g)!CalmIsCurrent'
    <3> SUFFICES ASSUME calm' PROVE Classic(g)!CalmIsCurrent'
      BY DEF Classic!CalmIsCurrent
    <3>1. query' = query /\ calm
      BY <1>0, <2>4
    <3> QED BY <1>0, <2>1, <2>2, <3>1 DEF Classic!CalmIsCurrent, Classic!InFlight, Classic!Newest
  <2> QED BY <1>0, <2>1, <2>3, <2>5
<1>2. CASE Classic(g)!need_update(q)
  <2> DEFINE asked == Classic(g)!do_get_results(q)
             counted == Classic(g)!do_count(q)
  <2>1. /\ requests' = requests \cup counted \cup asked /\ newest' = newest + 1 /\ shown' = <<>>
        /\ count' \in Nat \cup {Undefined}
    BY <1>0, <1>2 DEF Classic!on_query_update, Classic!clear_hosts
  <2>2. asked = {[kind |-> "results", id |-> newest + 1, query |-> q]}
    BY DEF Classic!do_get_results
  <2>3. counted \subseteq {[kind |-> "count", id |-> newest + 1, query |-> q]}
    BY DEF Classic!do_count
  <2> HIDE DEF asked, counted
  <2>4. requests' \subseteq [kind : {"count", "results"}, id : Nat, query : Classic(g)!Query]
    BY <1>0, <2>1, <2>2, <2>3
  <2>5. Classic(g)!Numbered'
    <3>1. ASSUME NEW r \in requests' PROVE r.id \in 1..newest'
      BY <1>0, <2>1, <2>2, <2>3 DEF Classic!Numbered
    <3>2. failed' \subseteq 1..newest'
      BY <1>0, <2>1 DEF Classic!Numbered
    <3> QED BY <1>0, <1>q, <3>1, <3>2 DEF Classic!Numbered
  <2>6. newest + 1 \notin failed
    BY <1>0 DEF Classic!Numbered
  <2>7. \E r \in Classic(g)!InFlight("results")' : r.id = newest'
    <3> DEFINE r == [kind |-> "results", id |-> newest + 1, query |-> q]
    <3>1. r \in requests' /\ r.kind = "results" /\ r.id = newest'
      BY <2>1, <2>2
    <3> HIDE DEF r
    <3>2. r \in Classic(g)!InFlight("results")'
      BY <3>1 DEF Classic!InFlight
    <3> QED BY <3>1, <3>2
  <2>8. Classic(g)!NewestIsNeverLost'
    BY <2>7 DEF Classic!NewestIsNeverLost
  <2>9. Classic(g)!CalmIsCurrent'
    <3>1. ASSUME calm', NEW r \in requests' PROVE r.id = newest' /\ r.query = query'
      <4>1. requests = {}
        BY <1>0, <3>1
      <4>2. r \in counted \cup asked
        BY <2>1, <3>1, <4>1
      <4>3. r.id = newest + 1 /\ r.query = q
        BY <2>2, <2>3, <4>2
      <4> QED BY <1>0, <2>1, <4>3
    <3> QED BY <1>0, <2>1, <2>6, <2>7, <3>1 DEF Classic!CalmIsCurrent
  <2>10. newest' \in Nat /\ shown' \in Seq([id : Nat, query : Classic(g)!Query])
    BY <1>0, <2>1
  <2> QED BY <1>0, <2>1, <2>4, <2>5, <2>8, <2>9, <2>10
<1> QED BY <1>1, <1>2

\* The program writes the hash: the event that comes of it has its handler.
LEMMA ClassicWritten ==
  ASSUME NEW g, Classic(g)!LegacyAssumption, Classic(g)!FilterInv, NEW q \in Classic(g)!Query,
         NEW consumed \in {0, 1}, consumed = 1 => shots = 0 /\ pending > 0,
         Classic(g)!update_query(q, consumed), moves' \in 0..g.MaxMoves
  PROVE  Classic(g)!FilterInv'
<1> DEFINE to == Classic(g)!load_params(q)
<1>1. to \in Classic(g)!Query /\ Classic(g)!on_query_update(to) /\ Classic(g)!param_update(to, consumed)
  BY ClassicPage DEF Classic!update_query
<1> HIDE DEF to
<1>2. /\ shots' = shots + 1 /\ hash' = to /\ swallows' = (swallows \/ hash = to)
      /\ pending' = (pending - consumed) + (IF hash = to THEN 0 ELSE 1)
  BY <1>1 DEF Classic!param_update, Classic!set_hash
<1>3. pending \in Nat /\ shots \in Nat /\ swallows \in BOOLEAN
  BY DEF Classic!FilterInv, Classic!TypeOK
<1>4. pending' \in Nat /\ shots' \in Nat /\ swallows' \in BOOLEAN /\ hash' \in Classic(g)!Query
  BY <1>1, <1>2, <1>3
<1>5. /\ query' = to /\ prev' \in Classic(g)!Query \cup {Undefined}
      /\ requests' \subseteq [kind : {"count", "results"}, id : Nat, query : Classic(g)!Query]
      /\ shown' \in Seq([id : Nat, query : Classic(g)!Query])
      /\ count' \in Nat \cup {Undefined} /\ UNCHANGED <<first, last>>
      /\ newest' \in Nat /\ failed' \subseteq Nat /\ calm' \in BOOLEAN
      /\ Classic(g)!Numbered' /\ Classic(g)!NewestIsNeverLost' /\ Classic(g)!CalmIsCurrent'
  BY <1>1, ClassicUpdate
<1>6. Classic(g)!TypeOK'
  BY <1>1, <1>4, <1>5 DEF Classic!FilterInv, Classic!TypeOK
<1>7. Classic(g)!EventsAreDue'
  <2> SUFFICES ASSUME ~swallows' PROVE shots' <= pending' /\ hash' = query'
    BY DEF Classic!EventsAreDue
  <2>1. ~swallows /\ hash # to /\ pending' = pending - consumed + 1
    BY <1>2, <1>3
  <2>2. shots <= pending
    BY <2>1 DEF Classic!FilterInv, Classic!EventsAreDue
  <2> QED BY <1>2, <1>3, <1>5, <2>1, <2>2
<1> QED BY <1>5, <1>6, <1>7 DEF Classic!FilterInv

\* A request that ends puts the query on record, and the bounds of what is listed.
LEMMA ClassicComplete ==
  ASSUME NEW g, Classic(g)!LegacyAssumption, Classic(g)!FilterInv, requests # {},
         NEW answers \in Seq([id : Nat, query : Classic(g)!Query]), Classic(g)!complete(answers)
  PROVE  /\ query # Undefined /\ query \in Classic(g)!Query
         /\ prev' \in Classic(g)!Query \cup {Undefined}
         /\ first' \in Int \cup {Undefined, NaN} /\ last' \in Int \cup {Undefined, NaN}
         /\ calm' \in BOOLEAN
         /\ calm' => /\ calm /\ prev' = query
                     /\ query.skip # NaN /\ Classic(g)!HostCount(answers) > 0 =>
                          /\ first' = Classic(g)!Offset(query) + 1
                          /\ last' = Classic(g)!Offset(query) + Classic(g)!HostCount(answers)
<1> DEFINE skip == IF query.skip = NoSkip THEN 0 ELSE query.skip
           n == Classic(g)!HostCount(answers)
<1>1. /\ query # Undefined /\ query \in Classic(g)!Query /\ calm \in BOOLEAN
      /\ prev \in Classic(g)!Query \cup {Undefined}
      /\ first \in Int \cup {Undefined, NaN} /\ last \in Int \cup {Undefined, NaN}
  BY DEF Classic!FilterInv, Classic!TypeOK, Classic!Numbered
<1>2. n \in Nat /\ skip \in Int \cup {NaN} /\ query.skip \in Int \cup {NoSkip, NaN}
  BY <1>1, ClassicCount DEF Classic!Query
<1>3. NaN \notin Int /\ NoSkip \notin Int /\ NoSkip # NaN
  BY DEF Classic!LegacyAssumption
<1>4. CASE skip \in Int /\ skip < 0
  <2>1. calm' = FALSE /\ UNCHANGED <<prev, first, last>>
    BY <1>4 DEF Classic!complete
  <2> QED BY <1>1, <2>1
<1>5. CASE ~(skip \in Int /\ skip < 0)
  <2>1. /\ calm' = calm /\ prev' = query
        /\ IF skip = NaN
           THEN first' = NaN /\ last' = NaN
           ELSE IF n > 0 THEN first' = skip + 1 /\ last' = skip + n
           ELSE UNCHANGED <<first, last>>
    BY <1>5 DEF Classic!complete
  <2>2. ASSUME query.skip # NaN
        PROVE  skip \in Nat /\ skip # NaN /\ skip = Classic(g)!Offset(query)
    BY <1>2, <1>3, <1>5, <2>2 DEF Classic!Offset, Classic!Max0
  <2>3. first' \in Int \cup {Undefined, NaN} /\ last' \in Int \cup {Undefined, NaN}
    <3>1. CASE skip = NaN
      BY <2>1, <3>1
    <3>2. CASE skip # NaN
      <4>1. skip \in Int
        BY <1>2, <3>2
      <4> HIDE DEF skip, n
      <4> QED BY <1>1, <1>2, <2>1, <3>2, <4>1
    <3> QED BY <3>1, <3>2
  <2> HIDE DEF skip, n
  <2>4. query.skip # NaN /\ n > 0 =>
          first' = Classic(g)!Offset(query) + 1 /\ last' = Classic(g)!Offset(query) + n
    BY <2>1, <2>2
  <2> QED BY <1>1, <2>1, <2>3, <2>4 DEF n
<1> QED BY <1>4, <1>5

\* A request for results that ends is the newest one, or is not waited for.
LEMMA ClassicAnswer ==
  ASSUME NEW g, Classic(g)!LegacyAssumption, Classic(g)!FilterInv, NEW r \in requests,
         Classic(g)!get_results_success(r) \/ Classic(g)!get_results_error(r)
  PROVE  Classic(g)!FilterInv'
<1> USE DEF Classic!FilterInv
<1> DEFINE Answers == [id : Nat, query : Classic(g)!Query]
<1>1. /\ r.kind = "results" /\ r.id \in 1..newest /\ r.query \in Classic(g)!Query
      /\ newest \in Nat /\ shown \in Seq(Answers) /\ failed \subseteq 1..newest
      /\ requests \subseteq [kind : {"count", "results"}, id : Nat, query : Classic(g)!Query]
  BY DEF Classic!TypeOK, Classic!Numbered, Classic!get_results_success,
     Classic!get_results_error
<1>2. /\ requests' = requests \ {r} /\ Classic(g)!complete(shown')
      /\ UNCHANGED <<query, count, moves, newest, swallows, hash, pending, shots>>
      /\ \/ failed' = failed /\ shown' = Append(shown, [id |-> r.id, query |-> r.query])
            /\ r.query.skip # NaN
         \/ failed' = failed \cup {r.id} /\ shown' = shown
  BY DEF Classic!get_results_success, Classic!get_results_error, Classic!add_hosts,
     Classic!hashVars, Classic!complete
<1>3. shown' \in Seq(Answers) /\ failed' \subseteq 1..newest
  <2>1. [id |-> r.id, query |-> r.query] \in Answers
    BY <1>1
  <2>2. shown' \in Seq(Answers)
    <3> HIDE DEF Answers
    <3> QED BY <1>1, <1>2, <2>1
  <2>3. failed' \subseteq 1..newest
    BY <1>1, <1>2
  <2> QED BY <2>2, <2>3
<1>4. /\ query # Undefined /\ query \in Classic(g)!Query
      /\ prev' \in Classic(g)!Query \cup {Undefined}
      /\ first' \in Int \cup {Undefined, NaN} /\ last' \in Int \cup {Undefined, NaN}
      /\ calm' \in BOOLEAN
      /\ calm' => /\ calm /\ prev' = query
                  /\ query.skip # NaN /\ Classic(g)!HostCount(shown') > 0 =>
                       /\ first' = Classic(g)!Offset(query) + 1
                       /\ last' = Classic(g)!Offset(query) + Classic(g)!HostCount(shown')
  BY <1>2, <1>3, ClassicComplete
<1>5. Classic(g)!TypeOK'
  BY <1>1, <1>2, <1>3, <1>4 DEF Classic!TypeOK
<1>6. Classic(g)!Numbered'
  BY <1>1, <1>2, <1>3, <1>4 DEF Classic!Numbered
<1>7. Classic(g)!NewestIsNeverLost'
  <2>1. CASE r.id = newest
    <3>1. CASE failed' = failed \cup {r.id}
      BY <1>2, <2>1, <3>1 DEF Classic!NewestIsNeverLost
    <3>2. CASE shown' = Append(shown, [id |-> r.id, query |-> r.query])
      <4>1. Len(shown) + 1 \in DOMAIN shown' /\ shown'[Len(shown) + 1].id = r.id
        BY <1>1, <3>2
      <4> QED BY <1>2, <2>1, <4>1 DEF Classic!NewestIsNeverLost
    <3> QED BY <1>2, <3>1, <3>2
  <2>2. CASE r.id # newest
    <3>1. \A i \in DOMAIN shown : i \in DOMAIN shown' /\ shown'[i] = shown[i]
      BY <1>1, <1>2
    <3>2. \A q \in Classic(g)!InFlight("results") : q # r => q \in Classic(g)!InFlight("results")'
      BY <1>2 DEF Classic!InFlight
    <3>3. newest' = newest /\ failed \subseteq failed'
      BY <1>2
    <3> QED BY <2>2, <3>1, <3>2, <3>3 DEF Classic!NewestIsNeverLost
  <2> QED BY <2>1, <2>2
<1>8. Classic(g)!CalmIsCurrent'
  <2> SUFFICES ASSUME calm' PROVE Classic(g)!CalmIsCurrent'
    BY DEF Classic!CalmIsCurrent
  <2>1. /\ \A q \in requests : q.id = newest /\ q.query = query
        /\ shown = <<>> /\ newest \notin failed
    <3>1. r \in Classic(g)!InFlight("results")
      BY <1>1 DEF Classic!InFlight
    <3> QED BY <1>4, <3>1 DEF Classic!CalmIsCurrent
  <2>2. \A q \in requests : q.kind = "results" => q = r
    <3> TAKE q \in requests
    <3>1. q.id = r.id /\ q.query = r.query
      BY <2>1
    <3>2. q \in [kind : {"count", "results"}, id : Nat, query : Classic(g)!Query]
          /\ r \in [kind : {"count", "results"}, id : Nat, query : Classic(g)!Query]
      BY <1>1
    <3> QED BY <1>1, <3>1, <3>2
  <2>3. Classic(g)!InFlight("results")' = {}
    BY <1>2, <2>2 DEF Classic!InFlight
  <2>4. ASSUME newest' \notin failed'
        PROVE  /\ shown' = <<[id |-> newest, query |-> query]>>
               /\ Classic(g)!PageSize(query) > 0 =>
                    /\ first' = Classic(g)!Offset(query) + 1
                    /\ last' = Classic(g)!Offset(query) + Classic(g)!PageSize(query)
    <3>1. shown' = <<[id |-> newest, query |-> query]>> /\ query.skip # NaN
      BY <1>2, <2>1, <2>4
    <3>2. [id |-> newest, query |-> query] \in Answers
      BY <1>1, <1>4
    <3>3. \A a \in [id : Nat, query : Classic(g)!Query] :
             shown' = <<a>> => Classic(g)!HostCount(shown') = Classic(g)!PageSize(a.query)
      BY <1>3, ClassicCount
    <3>4. Classic(g)!HostCount(shown') = Classic(g)!PageSize(query)
      BY <3>1, <3>2, <3>3
    <3> QED BY <1>4, <3>1, <3>4
  <2>5. \A q \in requests' : q.id = newest' /\ q.query = query'
    BY <1>2, <2>1
  <2>6. prev' = query'
    BY <1>2, <1>4
  <2>7. Classic(g)!PageSize(query)' = Classic(g)!PageSize(query) /\ Classic(g)!Newest' = [id |-> newest, query |-> query]
        /\ Classic(g)!Offset(query)' = Classic(g)!Offset(query)
    BY <1>2 DEF Classic!PageSize, Classic!Offset, Classic!Newest
  <2> QED BY <2>3, <2>4, <2>5, <2>6, <2>7 DEF Classic!CalmIsCurrent
<1>9. Classic(g)!EventsAreDue'
  BY <1>2 DEF Classic!EventsAreDue
<1> QED BY <1>5, <1>6, <1>7, <1>8, <1>9

\* What the buttons of the pages give is a query.
LEMMA ClassicSkip ==
  ASSUME NEW g, Classic(g)!LegacyAssumption, Classic(g)!FilterInv,
         NEW s \in Int \cup {NaN}, Classic(g)!setparam_skip(s)
  PROVE  Classic(g)!FilterInv'
<1>1. query # Undefined /\ moves < g.MaxMoves /\ moves' = moves + 1
      /\ Classic(g)!update_query([query EXCEPT !.skip = s], 0)
  BY DEF Classic!setparam_skip, Classic!Move
<1>2. query \in Classic(g)!Query /\ moves' \in 0..g.MaxMoves
  BY <1>1 DEF Classic!FilterInv, Classic!TypeOK, Classic!LegacyAssumption
<1>3. [query EXCEPT !.skip = s] \in Classic(g)!Query
  BY <1>2 DEF Classic!Query
<1> QED BY <1>1, <1>2, <1>3, ClassicWritten

LEMMA ClassicSums ==
  ASSUME NEW g, NEW a, NEW b
  PROVE  Classic(g)!Sum(a, b) \in Int \cup {NaN} /\ Classic(g)!Minus(a, b) \in Int \cup {NaN}
  BY DEF Classic!Sum, Classic!Minus

LEMMA ClassicStep ==
  ASSUME NEW g, Classic(g)!LegacyAssumption, Classic(g)!FilterInv,
         [Classic(g)!Next]_(Classic(g)!vars)
  PROVE  Classic(g)!FilterInv'
<1> DEFINE Kept == Classic(g)!FilterInv'
<1> SUFFICES Kept
  OBVIOUS
<1>0. g.MaxMoves \in Nat /\ g.Limit \in Nat \ {0}
  BY DEF Classic!LegacyAssumption
<1>m. ASSUME Classic(g)!Move PROVE query \in Classic(g)!Query /\ moves' \in 0..g.MaxMoves
  BY <1>0, <1>m DEF Classic!Move, Classic!FilterInv, Classic!TypeOK
<1>1. ASSUME Classic(g)!on_param_update PROVE Kept
  <2>1. Classic(g)!Move
    BY <1>1 DEF Classic!on_param_update
  <2>2. PICK W \in SUBSET g.Words, s \in {query.skip, NoSkip} :
          Classic(g)!update_query([words |-> W, skip |-> s], 0)
    BY <1>1 DEF Classic!on_param_update
  <2>3. [words |-> W, skip |-> s] \in Classic(g)!Query
    BY <1>m, <2>1 DEF Classic!Query
  <2> QED BY <1>m, <2>1, <2>2, <2>3, ClassicWritten
<1>2. ASSUME Classic(g)!setparam_word PROVE Kept
  <2>1. Classic(g)!Move
    BY <1>2 DEF Classic!setparam_word
  <2>2. PICK w \in g.Words :
          Classic(g)!update_query([words |-> query.words \cup {w}, skip |-> NoSkip], 0)
    BY <1>2 DEF Classic!setparam_word
  <2>3. [words |-> query.words \cup {w}, skip |-> NoSkip] \in Classic(g)!Query
    BY <1>m, <2>1 DEF Classic!Query
  <2> QED BY <1>m, <2>1, <2>2, <2>3, ClassicWritten
<1>3. ASSUME Classic(g)!goto_start \/ Classic(g)!goto_end \/ Classic(g)!go_forward PROVE Kept
  <2>1. CASE Classic(g)!goto_start
    BY <2>1, ClassicSkip DEF Classic!goto_start
  <2>2. CASE Classic(g)!goto_end
    <3> DEFINE s == Classic(g)!Minus(Classic(g)!Sum(Classic(g)!Minus(count, last), first), 1)
    <3>1. s \in Int \cup {NaN} /\ Classic(g)!setparam_skip(s)
      BY <2>2, ClassicSums DEF Classic!goto_end
    <3> QED BY <3>1, ClassicSkip
  <2>3. CASE Classic(g)!go_forward
    <3> DEFINE s == Classic(g)!Minus(Classic(g)!Sum(first, g.Limit), 1)
    <3>1. s \in Int \cup {NaN} /\ Classic(g)!setparam_skip(s)
      BY <2>3, ClassicSums DEF Classic!go_forward
    <3> QED BY <3>1, ClassicSkip
  <2> QED BY <1>3, <2>1, <2>2, <2>3
<1>4. ASSUME Classic(g)!go_back PROVE Kept
  <2> DEFINE s == Classic(g)!Minus(Classic(g)!Minus(first, g.Limit), 1)
             t == IF s \in Int THEN Classic(g)!Max0(s) ELSE s
  <2>1. s \in Int \cup {NaN}
    BY ClassicSums
  <2>2. t \in Int \cup {NaN}
    BY <2>1 DEF Classic!Max0
  <2>3. Classic(g)!setparam_skip(t)
    BY <1>4 DEF Classic!go_back
  <2> QED BY <2>2, <2>3, ClassicSkip
<1>5. ASSUME Classic(g)!Navigate PROVE Kept
  <2>1. PICK q \in [words : SUBSET g.Words, skip : {NoSkip, 0, g.Limit}] : hash' = q
    BY <1>5 DEF Classic!Navigate
  <2>2. q \in Classic(g)!Query
    BY <1>0 DEF Classic!Query
  <2>3. /\ moves < g.MaxMoves /\ moves' = moves + 1 /\ pending' = pending + 1
        /\ UNCHANGED <<query, prev, shots, requests, shown, count, first, last, newest,
                       failed, calm, swallows>>
    BY <1>5 DEF Classic!Navigate, Classic!ghosts
  <2>4. Classic(g)!TypeOK'
    BY <1>0, <2>1, <2>2, <2>3 DEF Classic!FilterInv, Classic!TypeOK
  <2>5. Classic(g)!EventsAreDue'
    <3>1. pending \in Nat /\ shots \in Nat
      BY DEF Classic!FilterInv, Classic!TypeOK
    <3> QED BY <2>3, <3>1 DEF Classic!FilterInv, Classic!EventsAreDue
  <2>6. Classic(g)!Numbered' /\ Classic(g)!NewestIsNeverLost' /\ Classic(g)!CalmIsCurrent'
    BY <2>3 DEF Classic!FilterInv, Classic!Numbered, Classic!NewestIsNeverLost,
       Classic!CalmIsCurrent, Classic!InFlight, Classic!Newest, Classic!PageSize,
       Classic!Offset
  <2> QED BY <2>4, <2>5, <2>6 DEF Classic!FilterInv
<1>6. ASSUME Classic(g)!onhashchange PROVE Kept
  <2>1. /\ pending > 0 /\ moves' = moves /\ pending \in Nat /\ shots \in Nat
        /\ moves' \in 0..g.MaxMoves /\ hash \in Classic(g)!Query
    BY <1>6 DEF Classic!onhashchange, Classic!FilterInv, Classic!TypeOK
  <2>2. ASSUME shots > 0, shots' = shots - 1, pending' = pending - 1,
               UNCHANGED <<query, prev, hash, requests, shown, count, first, last>>,
               UNCHANGED Classic(g)!ghosts
        PROVE  Kept
    <3>1. UNCHANGED <<query, prev, hash, requests, shown, count, first, last, newest, failed,
                      calm, swallows, moves>>
      BY <2>1, <2>2 DEF Classic!ghosts
    <3>2. Classic(g)!TypeOK'
      BY <2>1, <2>2, <3>1 DEF Classic!FilterInv, Classic!TypeOK
    <3>3. Classic(g)!EventsAreDue'
      BY <2>1, <2>2, <3>1 DEF Classic!FilterInv, Classic!EventsAreDue
    <3>4. Classic(g)!Numbered' /\ Classic(g)!NewestIsNeverLost' /\ Classic(g)!CalmIsCurrent'
      BY <3>1 DEF Classic!FilterInv, Classic!Numbered, Classic!NewestIsNeverLost,
         Classic!CalmIsCurrent, Classic!InFlight, Classic!Newest, Classic!PageSize,
         Classic!Offset
    <3> QED BY <3>2, <3>3, <3>4 DEF Classic!FilterInv
  <2>3. ASSUME shots = 0, pending' = pending - 1, Classic(g)!on_query_update(hash),
               UNCHANGED <<hash, shots, swallows>>
        PROVE  Kept
    <3>1. /\ query' = hash /\ prev' \in Classic(g)!Query \cup {Undefined}
          /\ requests' \subseteq [kind : {"count", "results"}, id : Nat, query : Classic(g)!Query]
          /\ shown' \in Seq([id : Nat, query : Classic(g)!Query])
          /\ count' \in Nat \cup {Undefined} /\ UNCHANGED <<first, last>>
          /\ newest' \in Nat /\ failed' \subseteq Nat /\ calm' \in BOOLEAN
          /\ Classic(g)!Numbered' /\ Classic(g)!NewestIsNeverLost' /\ Classic(g)!CalmIsCurrent'
      BY <2>1, <2>3, ClassicUpdate
    <3>2. Classic(g)!TypeOK'
      BY <2>1, <2>3, <3>1 DEF Classic!FilterInv, Classic!TypeOK
    <3>3. Classic(g)!EventsAreDue'
      BY <2>1, <2>3, <3>1 DEF Classic!EventsAreDue
    <3> QED BY <3>1, <3>2, <3>3 DEF Classic!FilterInv
  <2>4. ASSUME shots = 0, Classic(g)!update_query(hash, 1) PROVE Kept
    BY <2>1, <2>4, ClassicWritten
  <2> QED BY <1>6, <2>2, <2>3, <2>4 DEF Classic!onhashchange
<1>7. ASSUME NEW r \in requests, Classic(g)!count_success(r) \/ Classic(g)!count_error(r)
      PROVE  Kept
  <2>1. /\ r.kind = "count" /\ requests' = requests \ {r}
        /\ UNCHANGED <<query, prev, shown, first, last, moves, hash, pending, shots, newest,
                       failed, calm, swallows>>
        /\ count' = count \/ count' = g.Matches[r.query.words]
    BY <1>7 DEF Classic!count_success, Classic!count_error, Classic!hashVars, Classic!ghosts
  <2>2. r.query.words \in SUBSET g.Words
    BY DEF Classic!FilterInv, Classic!TypeOK, Classic!Query
  <2>3. count' \in Nat \cup {Undefined}
    BY <2>1, <2>2 DEF Classic!FilterInv, Classic!TypeOK, Classic!LegacyAssumption
  <2>4. Classic(g)!TypeOK'
    BY <2>1, <2>3 DEF Classic!FilterInv, Classic!TypeOK
  <2>5. Classic(g)!InFlight("results")' = Classic(g)!InFlight("results")
    BY <2>1 DEF Classic!InFlight
  <2>6. Classic(g)!NewestIsNeverLost'
    BY <2>1, <2>5 DEF Classic!FilterInv, Classic!NewestIsNeverLost
  <2>7. Classic(g)!Numbered' /\ Classic(g)!EventsAreDue'
    BY <2>1 DEF Classic!FilterInv, Classic!Numbered, Classic!EventsAreDue
  <2>8. Classic(g)!CalmIsCurrent'
    BY <2>1, <2>5 DEF Classic!FilterInv, Classic!CalmIsCurrent, Classic!Newest,
       Classic!PageSize, Classic!Offset
  <2> QED BY <2>4, <2>6, <2>7, <2>8 DEF Classic!FilterInv
<1>8. ASSUME Classic(g)!Answer PROVE Kept
  BY <1>7, <1>8, ClassicAnswer DEF Classic!Answer
<1>9. ASSUME UNCHANGED Classic(g)!vars PROVE Kept
  BY <1>9 DEF Classic!vars, Classic!FilterInv, Classic!TypeOK, Classic!Numbered,
     Classic!NewestIsNeverLost, Classic!CalmIsCurrent, Classic!EventsAreDue,
     Classic!InFlight, Classic!Newest, Classic!PageSize, Classic!Offset
<1> HIDE DEF Kept
<1> QED BY <1>1, <1>2, <1>3, <1>4, <1>5, <1>6, <1>8, <1>9 DEF Classic!Next

LEMMA ClassicInit ==
  ASSUME NEW g, Classic(g)!LegacyAssumption, Classic(g)!Init
  PROVE  Classic(g)!FilterInv
<1>1. hash \in Classic(g)!Query /\ 0 \in 0..g.MaxMoves
  BY DEF Classic!LegacyAssumption, Classic!Query, Classic!Empty, Classic!Init
<1>2. Classic(g)!TypeOK
  <2>1. /\ query = Undefined /\ prev = Undefined /\ count = Undefined /\ first = Undefined
        /\ last = Undefined /\ pending = 1 /\ shots = 0 /\ requests = {} /\ shown = <<>>
        /\ moves = 0 /\ newest = 0 /\ failed = {} /\ calm = TRUE /\ swallows = FALSE
    BY DEF Classic!Init
  <2>2. shown \in Seq([id : Nat, query : Classic(g)!Query])
    BY <2>1
  <2>3. requests \subseteq [kind : {"count", "results"}, id : Nat, query : Classic(g)!Query]
        /\ failed \subseteq Nat
    BY <2>1
  <2> QED BY <1>1, <2>1, <2>2, <2>3 DEF Classic!TypeOK
<1>3. Classic(g)!Numbered /\ Classic(g)!NewestIsNeverLost /\ Classic(g)!CalmIsCurrent
      /\ Classic(g)!EventsAreDue
  BY DEF Classic!Numbered, Classic!NewestIsNeverLost, Classic!CalmIsCurrent,
     Classic!EventsAreDue, Classic!Init
<1> QED BY <1>2, <1>3 DEF Classic!FilterInv

\* What the run checks of the page follows.
LEMMA ClassicHolds ==
  ASSUME NEW g, Classic(g)!FilterInv
  PROVE  /\ Classic(g)!TypeOK /\ Classic(g)!NewestIsNeverLost /\ Classic(g)!CalmShowsTheQuery
         /\ Classic(g)!CalmBoundsAreThePages /\ Classic(g)!EventsKeepTheHash
<1> USE DEF Classic!FilterInv
<1>1. requests = {} => Classic(g)!InFlight("results") = {}
  BY DEF Classic!InFlight
<1>2. Classic(g)!CalmShowsTheQuery /\ Classic(g)!CalmBoundsAreThePages
  BY <1>1 DEF Classic!CalmShowsTheQuery, Classic!CalmBoundsAreThePages, Classic!CalmIsCurrent
<1>3. Classic(g)!EventsKeepTheHash
  <2>1. pending \in Nat /\ shots \in Nat
    BY DEF Classic!TypeOK
  <2> QED BY <2>1 DEF Classic!EventsKeepTheHash, Classic!EventsAreDue
<1> QED BY <1>2, <1>3

-----------------------------------------------------------------------------
(* The comparison of two filters.                                           *)

\* Two states of the page with the same queries of some filters; with one more request of
\* a filter.
CompareKeeps(s, t, H) == \A h \in H : t.query[h] = s.query[h] /\ t.prev[h] = s.prev[h]
CompareTicks(s, t, f) ==
  \A h \in DOMAIN s.newest : t.newest[h] = IF h = f THEN s.newest[h] + 1 ELSE s.newest[h]

\* A filter that asks for the number of the hosts of a query it is given.
LEMMA CompareAsks ==
  ASSUME NEW g, NEW s, Compare(g)!Sound(s), NEW f \in Compare(g)!Filters,
         NEW W \in SUBSET g.Words, NEW t,
         t = Compare(g)!do_count(Compare(g)!Written(s, f, W), f)
  PROVE  /\ Compare(g)!Sound(t) /\ t.query[f] = W /\ t.prev = s.prev
         /\ CompareKeeps(s, t, Compare(g)!Filters \ {f}) /\ CompareTicks(s, t, f)
<1> DEFINE r0 == [of |-> f, query |-> W, id |-> s.newest[f] + 1]
<1>1. s \in Compare(g)!Pages /\ Compare(g)!Numbered(s) /\ Compare(g)!Counted(s) /\ Compare(g)!Failed(s)
  BY DEF Compare!Sound
<1>2. /\ s.query \in [Compare(g)!Filters -> SUBSET g.Words]
      /\ s.prev \in [Compare(g)!Filters -> SUBSET g.Words]
      /\ s.count \in [Compare(g)!Filters -> Nat \cup {Undefined}]
      /\ s.requests \in SUBSET [of : Compare(g)!Filters, query : SUBSET g.Words, id : Nat]
      /\ s.newest \in [Compare(g)!Filters -> Nat] /\ s.crossed \in SUBSET Compare(g)!Filters
  BY <1>1 DEF Compare!Pages
<1> DEFINE a == Compare(g)!Written(s, f, W)
<1>3. /\ a \in Compare(g)!Pages /\ a.query = [s.query EXCEPT ![f] = W] /\ a.query[f] = W
      /\ a.prev = s.prev /\ a.count = s.count /\ a.requests = s.requests
      /\ a.newest = s.newest /\ a.crossed = s.crossed
  BY <1>1, <1>2 DEF Compare!Pages, Compare!Written
<1>4. t = [a EXCEPT !.count[f] = Undefined, !.newest[f] = @ + 1,
                    !.crossed = IF Compare(g)!Asking(a, f) THEN @ \cup {f} ELSE @,
                    !.requests = @ \cup {[of |-> f, query |-> a.query[f], id |-> a.newest[f] + 1]}]
  BY DEF Compare!do_count
<1> HIDE DEF a
<1>5. /\ t.query = a.query /\ t.prev = a.prev
      /\ t.count = [s.count EXCEPT ![f] = Undefined]
      /\ t.newest = [s.newest EXCEPT ![f] = @ + 1]
      /\ t.requests = s.requests \cup {r0}
      /\ t.crossed = IF Compare(g)!Asking(s, f) THEN s.crossed \cup {f} ELSE s.crossed
      /\ DOMAIN t = DOMAIN a
  BY <1>3, <1>4 DEF Compare!Pages, Compare!Asking
<1>6. r0 \in [of : Compare(g)!Filters, query : SUBSET g.Words, id : Nat]
  BY <1>2
<1> HIDE DEF r0
<1>7. /\ t.query \in [Compare(g)!Filters -> SUBSET g.Words]
      /\ t.prev \in [Compare(g)!Filters -> SUBSET g.Words]
      /\ t.count \in [Compare(g)!Filters -> Nat \cup {Undefined}]
      /\ t.requests \in SUBSET [of : Compare(g)!Filters, query : SUBSET g.Words, id : Nat]
      /\ t.newest \in [Compare(g)!Filters -> Nat] /\ t.crossed \in SUBSET Compare(g)!Filters
  BY <1>2, <1>3, <1>5, <1>6
<1>8. t \in Compare(g)!Pages
  <2>1. t = [query |-> t.query, prev |-> t.prev, count |-> t.count, requests |-> t.requests,
             newest |-> t.newest, crossed |-> t.crossed]
    BY <1>3, <1>4 DEF Compare!Pages
  <2> QED BY <1>7, <2>1 DEF Compare!Pages
<1>9. Compare(g)!Numbered(t)
  <2> SUFFICES ASSUME NEW r \in t.requests
               PROVE  /\ r.id \in 1..t.newest[r.of]
                      /\ r.id = t.newest[r.of] => r.query = t.query[r.of]
                      /\ r.of \notin t.crossed => r.id = t.newest[r.of]
    BY DEF Compare!Numbered
  <2>1. CASE r = r0
    BY <1>2, <1>3, <1>5, <2>1 DEF r0
  <2>2. CASE r \in s.requests /\ r.of # f
    BY <1>1, <1>2, <1>3, <1>5, <2>2 DEF Compare!Numbered
  <2>3. CASE r \in s.requests /\ r.of = f
    <3>1. f \in t.crossed
      BY <1>5, <2>3 DEF Compare!Asking
    <3>2. r.id \in 1..s.newest[f] /\ t.newest[f] = s.newest[f] + 1 /\ s.newest[f] \in Nat
      BY <1>1, <1>2, <1>5, <2>3 DEF Compare!Numbered
    <3> QED BY <2>3, <3>1, <3>2
  <2> QED BY <1>5, <2>1, <2>2, <2>3
<1>10. Compare(g)!Counted(t)
  <2> SUFFICES ASSUME NEW h \in Compare(g)!Filters, h \notin t.crossed, ~Compare(g)!Asking(t, h),
                      <<h, t.newest[h]>> \notin failed
               PROVE  t.count[h] = g.Matches[t.query[h]]
    BY DEF Compare!Counted
  <2>1. h # f
    <3>1. r0 \in t.requests /\ r0.of = f
      BY <1>5 DEF r0
    <3>2. Compare(g)!Asking(t, f)
      BY <3>1 DEF Compare!Asking
    <3> QED BY <3>2
  <2>2. h \notin s.crossed /\ ~Compare(g)!Asking(s, h) /\ t.newest[h] = s.newest[h]
        /\ t.count[h] = s.count[h] /\ t.query[h] = s.query[h]
    BY <1>2, <1>3, <1>5, <2>1 DEF Compare!Asking
  <2> QED BY <1>1, <2>2 DEF Compare!Counted
<1>11. Compare(g)!Failed(t)
  <2> SUFFICES ASSUME NEW h \in Compare(g)!Filters, NEW n \in Nat, <<h, n>> \in failed
               PROVE  n <= t.newest[h]
    BY DEF Compare!Failed
  <2>1. n <= s.newest[h] /\ s.newest[h] \in Nat
    BY <1>1, <1>2 DEF Compare!Failed
  <2>2. t.newest[h] = s.newest[h] \/ t.newest[h] = s.newest[h] + 1
    BY <1>2, <1>5
  <2> QED BY <2>1, <2>2
<1>12. /\ t.query[f] = W /\ t.prev = s.prev
       /\ CompareKeeps(s, t, Compare(g)!Filters \ {f}) /\ CompareTicks(s, t, f)
  BY <1>2, <1>3, <1>5 DEF CompareKeeps, CompareTicks
<1> QED BY <1>8, <1>9, <1>10, <1>11, <1>12 DEF Compare!Sound

\* What a filter last asked with is put on record.
LEMMA CompareRecords ==
  ASSUME NEW g, NEW s, Compare(g)!Sound(s), NEW f \in Compare(g)!Filters,
         NEW W \in SUBSET g.Words, NEW t, t = Compare(g)!Recorded(s, f, W)
  PROVE  /\ Compare(g)!Sound(t) /\ t.query = s.query /\ t.newest = s.newest
         /\ t.prev[f] = W /\ CompareKeeps(s, t, Compare(g)!Filters \ {f})
<1>1. s \in Compare(g)!Pages
  BY DEF Compare!Sound
<1>2. /\ t \in Compare(g)!Pages /\ t.query = s.query /\ t.newest = s.newest /\ t.count = s.count
      /\ t.requests = s.requests /\ t.crossed = s.crossed /\ t.prev = [s.prev EXCEPT ![f] = W]
  BY <1>1 DEF Compare!Pages, Compare!Recorded
<1>3. t.prev[f] = W /\ CompareKeeps(s, t, Compare(g)!Filters \ {f})
  BY <1>1, <1>2 DEF Compare!Pages, CompareKeeps
<1> QED BY <1>2, <1>3 DEF Compare!Sound, Compare!Numbered, Compare!Counted, Compare!Failed, Compare!Asking

\* An update that asks for nothing leaves the queries; one that does composes that of both
\* sets.
CompareFollows(g, s, t) ==
  \/ t.newest = s.newest /\ t.query = s.query
  \/ t.newest["all"] > s.newest["all"] /\ Compare(g)!AllComposes(t)

LEMMA CompareAll ==
  ASSUME NEW g, NEW s, Compare(g)!Sound(s), NEW t, t = Compare(g)!UpdateAll(s)
  PROVE  /\ Compare(g)!Sound(t) /\ Compare(g)!AllComposes(t)
         /\ t.newest["all"] = s.newest["all"] + 1
         /\ CompareKeeps(s, t, Compare(g)!Filters \ {"all"})
<1> DEFINE W == s.query["set1"] \cup s.query["set2"]
           u == Compare(g)!do_count(Compare(g)!Written(s, "all", W), "all")
<1>1. /\ "all" \in Compare(g)!Filters /\ {} \in SUBSET g.Words
      /\ "set1" \in Compare(g)!Filters /\ "set2" \in Compare(g)!Filters
  BY DEF Compare!Filters, Compare!Sets
<1>2. W \in SUBSET g.Words
  BY DEF Compare!Sound, Compare!Pages, Compare!Filters, Compare!Sets
<1>a. u = Compare(g)!do_count(Compare(g)!Written(s, "all", W), "all")
  OBVIOUS
<1>4. t = Compare(g)!Recorded(u, "all", {})
  BY DEF Compare!UpdateAll, Compare!Update
<1> HIDE DEF u, W
<1>3. /\ Compare(g)!Sound(u) /\ u.query["all"] = W /\ u.prev = s.prev
      /\ CompareKeeps(s, u, Compare(g)!Filters \ {"all"}) /\ CompareTicks(s, u, "all")
  BY <1>a, <1>1, <1>2, CompareAsks
<1>5. /\ Compare(g)!Sound(t) /\ t.query = u.query /\ t.newest = u.newest
      /\ CompareKeeps(u, t, Compare(g)!Filters \ {"all"})
  BY <1>1, <1>3, <1>4, CompareRecords
<1>6. DOMAIN s.newest = Compare(g)!Filters
  BY DEF Compare!Sound, Compare!Pages
<1> QED BY <1>1, <1>3, <1>5, <1>6 DEF W, Compare!AllComposes, CompareKeeps, CompareTicks

\* A set that is given words of its own, once it must update.
LEMMA CompareForced ==
  ASSUME NEW g, NEW s, Compare(g)!Sound(s), NEW f \in Compare(g)!Sets, NEW mine \in SUBSET g.Words,
         NEW t, t = Compare(g)!UpdateSet(s, f, mine, TRUE)
  PROVE  /\ Compare(g)!Sound(t) /\ Compare(g)!SetComposes(t, f)
         /\ CompareKeeps(s, t, {"common", "set1", "set2"} \ {f})
         /\ t.newest["all"] > s.newest["all"] /\ Compare(g)!AllComposes(t)
<1>1. /\ s \in Compare(g)!Pages /\ f \in Compare(g)!Filters /\ f \in {"set1", "set2"}
      /\ "common" \in Compare(g)!Filters /\ "set1" \in Compare(g)!Filters
      /\ "set2" \in Compare(g)!Filters /\ "all" \in Compare(g)!Filters
  BY DEF Compare!Sound, Compare!Filters, Compare!Sets
<1>2. /\ s.query["common"] \in SUBSET g.Words /\ s.newest["all"] \in Nat
      /\ DOMAIN s.newest = Compare(g)!Filters
  BY <1>1 DEF Compare!Pages
<1> DEFINE W == mine \cup s.query["common"]
           u == Compare(g)!do_count(Compare(g)!Written(s, f, W), f)
           v == Compare(g)!UpdateAll(u)
<1>3. W \in SUBSET g.Words
  BY <1>2
<1>4. t = Compare(g)!Recorded(v, f, mine)
  BY DEF Compare!UpdateSet, Compare!Update
<1>5. u = Compare(g)!do_count(Compare(g)!Written(s, f, W), f) /\ v = Compare(g)!UpdateAll(u)
  OBVIOUS
<1> HIDE DEF u, v, W
<1>6. /\ Compare(g)!Sound(u) /\ u.query[f] = W /\ u.prev = s.prev
      /\ CompareKeeps(s, u, Compare(g)!Filters \ {f}) /\ CompareTicks(s, u, f)
  BY <1>1, <1>3, <1>5, CompareAsks
<1>7. /\ Compare(g)!Sound(v) /\ Compare(g)!AllComposes(v)
      /\ v.newest["all"] = u.newest["all"] + 1
      /\ CompareKeeps(u, v, Compare(g)!Filters \ {"all"})
  BY <1>5, <1>6, CompareAll
<1>8. /\ Compare(g)!Sound(t) /\ t.query = v.query /\ t.newest = v.newest
      /\ t.prev[f] = mine /\ CompareKeeps(v, t, Compare(g)!Filters \ {f})
  BY <1>1, <1>4, <1>7, CompareRecords
<1>9. CompareKeeps(s, t, {"common", "set1", "set2"} \ {f})
  BY <1>1, <1>6, <1>7, <1>8 DEF CompareKeeps
<1>10. t.query[f] = W /\ t.prev[f] = mine /\ t.query["common"] = s.query["common"]
  BY <1>1, <1>6, <1>7, <1>8 DEF CompareKeeps
<1>11. t.newest["all"] > s.newest["all"] /\ Compare(g)!AllComposes(t)
  <2>1. u.newest["all"] = s.newest["all"]
    BY <1>1, <1>2, <1>6 DEF CompareTicks
  <2>2. t.newest["all"] = s.newest["all"] + 1
    BY <1>7, <1>8, <2>1
  <2>3. Compare(g)!AllComposes(t)
    BY <1>7, <1>8 DEF Compare!AllComposes
  <2>4. \A m \in Nat : m + 1 > m
    OBVIOUS
  <2>5. t.newest["all"] > s.newest["all"]
    BY <1>2, <2>2, <2>4
  <2> QED BY <2>3, <2>5
<1> QED BY <1>8, <1>9, <1>10, <1>11 DEF Compare!SetComposes, W

\* A set whose words may not change.
LEMMA CompareSet ==
  ASSUME NEW g, NEW s, Compare(g)!Sound(s), NEW f \in Compare(g)!Sets, NEW mine \in SUBSET g.Words,
         Compare(g)!SetComposes(s, f), NEW t, t = Compare(g)!UpdateSet(s, f, mine, FALSE)
  PROVE  /\ Compare(g)!Sound(t) /\ Compare(g)!SetComposes(t, f)
         /\ CompareKeeps(s, t, {"common", "set1", "set2"} \ {f})
         /\ CompareFollows(g, s, t)
<1>1. CASE mine # s.prev[f]
  <2>1. t = Compare(g)!UpdateSet(s, f, mine, TRUE)
    BY <1>1 DEF Compare!UpdateSet
  <2>2. /\ Compare(g)!Sound(t) /\ Compare(g)!SetComposes(t, f)
        /\ CompareKeeps(s, t, {"common", "set1", "set2"} \ {f})
        /\ t.newest["all"] > s.newest["all"] /\ Compare(g)!AllComposes(t)
    BY <2>1, CompareForced
  <2> QED BY <2>2 DEF CompareFollows
<1>2. CASE mine = s.prev[f]
  <2>1. t = Compare(g)!Written(s, f, s.query[f])
    BY <1>2 DEF Compare!UpdateSet, Compare!SetComposes
  <2>2. s \in Compare(g)!Pages /\ f \in Compare(g)!Filters
    BY DEF Compare!Sound, Compare!Filters
  <2>3. [s.query EXCEPT ![f] = s.query[f]] = s.query
    BY <2>2 DEF Compare!Pages
  <2>4. t = s
    BY <2>1, <2>2, <2>3 DEF Compare!Pages, Compare!Written
  <2> QED BY <2>4 DEF CompareFollows, CompareKeeps
<1> QED BY <1>1, <1>2

LEMMA CompareCommon ==
  ASSUME NEW g, NEW s, Compare(g)!Sound(s), Compare(g)!Composes(s), NEW words \in SUBSET g.Words,
         NEW box \in [Compare(g)!Sets -> SUBSET g.Words],
         NEW t, t = Compare(g)!UpdateCommon(s, words, box)
  PROVE  /\ Compare(g)!Sound(t) /\ Compare(g)!Composes(t) /\ CompareFollows(g, s, t)
<1>1. /\ s \in Compare(g)!Pages
      /\ "common" \in Compare(g)!Filters /\ "set1" \in Compare(g)!Filters
      /\ "set2" \in Compare(g)!Filters /\ "all" \in Compare(g)!Filters
      /\ "set1" \in Compare(g)!Sets /\ "set2" \in Compare(g)!Sets
  BY DEF Compare!Sound, Compare!Filters, Compare!Sets
<1>2. /\ s.query \in [Compare(g)!Filters -> SUBSET g.Words]
      /\ s.prev \in [Compare(g)!Filters -> SUBSET g.Words]
      /\ s.newest \in [Compare(g)!Filters -> Nat]
  BY <1>1 DEF Compare!Pages
<1> DEFINE a == Compare(g)!Written(s, "common", words)
           u == Compare(g)!do_count(a, "common")
           v == Compare(g)!UpdateSet(u, "set1", box["set1"], TRUE)
           w == Compare(g)!UpdateSet(v, "set2", box["set2"], TRUE)
<1>3. CASE words # s.prev["common"]
  <2>2. t = Compare(g)!Recorded(w, "common", words)
    BY <1>3 DEF Compare!UpdateCommon, Compare!Update
  <2>a. /\ u = Compare(g)!do_count(Compare(g)!Written(s, "common", words), "common")
        /\ v = Compare(g)!UpdateSet(u, "set1", box["set1"], TRUE)
        /\ w = Compare(g)!UpdateSet(v, "set2", box["set2"], TRUE)
    OBVIOUS
  <2>b. box["set1"] \in SUBSET g.Words /\ box["set2"] \in SUBSET g.Words
    BY <1>1
  <2> HIDE DEF u, v, w
  <2>1. /\ Compare(g)!Sound(u) /\ u.query["common"] = words /\ u.prev = s.prev
        /\ CompareKeeps(s, u, Compare(g)!Filters \ {"common"}) /\ CompareTicks(s, u, "common")
    <3>1. "common" \in Compare(g)!Filters /\ words \in SUBSET g.Words
      BY <1>1
    <3>2. u = Compare(g)!do_count(Compare(g)!Written(s, "common", words), "common")
      BY <2>a
    <3> QED BY <3>1, <3>2, CompareAsks
  <2>3. /\ Compare(g)!Sound(v) /\ Compare(g)!SetComposes(v, "set1")
        /\ CompareKeeps(u, v, {"common", "set1", "set2"} \ {"set1"})
        /\ v.newest["all"] > u.newest["all"] /\ Compare(g)!AllComposes(v)
    BY <2>a, <2>b, <1>1, <2>1, CompareForced
  <2>4. /\ Compare(g)!Sound(w) /\ Compare(g)!SetComposes(w, "set2")
        /\ CompareKeeps(v, w, {"common", "set1", "set2"} \ {"set2"})
        /\ w.newest["all"] > v.newest["all"] /\ Compare(g)!AllComposes(w)
    BY <2>a, <2>b, <1>1, <2>3, CompareForced
  <2>5. /\ Compare(g)!Sound(t) /\ t.query = w.query /\ t.newest = w.newest
        /\ t.prev["common"] = words
        /\ CompareKeeps(w, t, Compare(g)!Filters \ {"common"})
    BY <1>1, <2>2, <2>4, CompareRecords
  <2>6. /\ t.query["common"] = words /\ t.query["set1"] = v.query["set1"]
        /\ t.query["set2"] = w.query["set2"] /\ w.query["common"] = words
        /\ v.query["common"] = words /\ w.prev["set1"] = v.prev["set1"]
    BY <1>1, <1>2, <2>1, <2>3, <2>4, <2>5 DEF CompareKeeps
  <2>7. /\ t.prev["common"] = words /\ t.prev["set1"] = w.prev["set1"]
        /\ t.prev["set2"] = w.prev["set2"]
    BY <1>1, <2>5 DEF CompareKeeps
  <2>8. Compare(g)!Composes(t)
    BY <2>3, <2>4, <2>6, <2>7 DEF Compare!Composes, Compare!SetComposes
  <2>9. t.newest["all"] > s.newest["all"] /\ Compare(g)!AllComposes(t)
    <3>1. s.newest["all"] \in Nat /\ u.newest["all"] = s.newest["all"]
      BY <1>1, <1>2, <2>1 DEF CompareTicks
    <3>2. w.newest["all"] \in Nat /\ v.newest["all"] \in Nat
      BY <1>1, <2>3, <2>4 DEF Compare!Sound, Compare!Pages
    <3>3. t.newest["all"] > s.newest["all"]
      BY <2>3, <2>4, <2>5, <3>1, <3>2
    <3> QED BY <2>4, <2>5, <3>3 DEF Compare!AllComposes
  <2> QED BY <2>5, <2>8, <2>9 DEF CompareFollows
<1>4. CASE words = s.prev["common"]
  <2>1. t = a /\ words = s.query["common"]
    BY <1>4 DEF Compare!UpdateCommon, Compare!Composes
  <2>2. [s.query EXCEPT !["common"] = s.query["common"]] = s.query
    BY <1>1, <1>2
  <2>3. a = s
    BY <1>1, <2>1, <2>2 DEF Compare!Pages, Compare!Written
  <2> QED BY <2>1, <2>3 DEF CompareFollows
<1> QED BY <1>3, <1>4

\* The page that the user makes.
LEMMA CompareMoves ==
  ASSUME NEW g, Compare(g)!CompareInv, NEW t, Compare(g)!Moves(t), Compare(g)!Sound(t),
         Compare(g)!Composes(t), CompareFollows(g, page, t)
  PROVE  Compare(g)!CompareInv'
<1>1. page' = t /\ touched' = (touched \/ t.newest # page.newest) /\ failed' = failed
  BY DEF Compare!Moves
<1>2. Compare(g)!Sound(page)' /\ Compare(g)!Composes(page)'
  BY <1>1 DEF Compare!Sound, Compare!Numbered, Compare!Counted, Compare!Failed,
     Compare!Asking, Compare!Composes, Compare!SetComposes
<1>3. touched' => Compare(g)!AllComposes(t)
  <2>1. CASE t.newest = page.newest /\ t.query = page.query
    BY <1>1, <2>1 DEF Compare!CompareInv, Compare!AllComposes
  <2>2. CASE Compare(g)!AllComposes(t)
    BY <2>2
  <2> QED BY <2>1, <2>2 DEF CompareFollows
<1> QED BY <1>1, <1>2, <1>3 DEF Compare!CompareInv, Compare!AllComposes

LEMMA CompareChains ==
  ASSUME NEW g, NEW s, NEW t, NEW u, Compare(g)!Sound(s), Compare(g)!Sound(t), Compare(g)!Sound(u),
         CompareFollows(g, s, t), CompareFollows(g, t, u)
  PROVE  CompareFollows(g, s, u)
<1>1. /\ s.newest["all"] \in Nat /\ t.newest["all"] \in Nat /\ u.newest["all"] \in Nat
  BY DEF Compare!Sound, Compare!Pages, Compare!Filters
<1>2. CASE u.newest = t.newest /\ u.query = t.query
  BY <1>2 DEF CompareFollows, Compare!AllComposes
<1>3. CASE u.newest["all"] > t.newest["all"] /\ Compare(g)!AllComposes(u)
  BY <1>1, <1>3 DEF CompareFollows
<1> QED BY <1>2, <1>3 DEF CompareFollows

LEMMA CompareStep ==
  ASSUME NEW g, Compare(g)!CompareAssumption, Compare(g)!CompareInv,
         [Compare(g)!Next]_(Compare(g)!vars)
  PROVE  Compare(g)!CompareInv'
<1>0. /\ Compare(g)!Sound(page) /\ Compare(g)!Composes(page)
      /\ touched => Compare(g)!AllComposes(page)
  BY DEF Compare!CompareInv
<1>p. /\ page \in Compare(g)!Pages /\ Compare(g)!Numbered(page) /\ Compare(g)!Counted(page)
      /\ Compare(g)!Failed(page)
  BY <1>0 DEF Compare!Sound
<1>f. /\ "set1" \in Compare(g)!Sets /\ "set2" \in Compare(g)!Sets
      /\ {"common", "set1", "set2"} \subseteq Compare(g)!Filters
  BY DEF Compare!Sets, Compare!Filters
<1>1. ASSUME Compare(g)!submitform PROVE Compare(g)!CompareInv'
  <2>1. PICK words \in SUBSET g.Words, box \in Compare(g)!Boxes :
          LET common == Compare(g)!UpdateCommon(page, words, box)
              first_ == Compare(g)!UpdateSet(common, "set1", box["set1"], FALSE) IN
            Compare(g)!Moves(Compare(g)!UpdateSet(first_, "set2", box["set2"], FALSE))
    BY <1>1 DEF Compare!submitform
  <2> DEFINE c == Compare(g)!UpdateCommon(page, words, box)
             d == Compare(g)!UpdateSet(c, "set1", box["set1"], FALSE)
             e == Compare(g)!UpdateSet(d, "set2", box["set2"], FALSE)
  <2>2. Compare(g)!Moves(e)
    BY <2>1
  <2>3. /\ c = Compare(g)!UpdateCommon(page, words, box)
        /\ d = Compare(g)!UpdateSet(c, "set1", box["set1"], FALSE)
        /\ e = Compare(g)!UpdateSet(d, "set2", box["set2"], FALSE)
    OBVIOUS
  <2>4. /\ box \in [Compare(g)!Sets -> SUBSET g.Words]
        /\ box["set1"] \in SUBSET g.Words /\ box["set2"] \in SUBSET g.Words
    BY <1>f DEF Compare!Boxes
  <2> HIDE DEF c, d, e
  <2>5. Compare(g)!Sound(c) /\ Compare(g)!Composes(c) /\ CompareFollows(g, page, c)
    BY <1>0, <2>3, <2>4, CompareCommon
  <2>6. Compare(g)!SetComposes(c, "set1")
    BY <2>5 DEF Compare!Composes
  <2>7. /\ Compare(g)!Sound(d) /\ Compare(g)!SetComposes(d, "set1")
        /\ CompareKeeps(c, d, {"common", "set1", "set2"} \ {"set1"})
        /\ CompareFollows(g, c, d)
    BY <1>f, <2>3, <2>4, <2>5, <2>6, CompareSet
  <2>8. Compare(g)!Composes(d)
    BY <2>5, <2>7 DEF Compare!Composes, Compare!SetComposes, CompareKeeps
  <2>9. /\ Compare(g)!Sound(e) /\ Compare(g)!SetComposes(e, "set2")
        /\ CompareKeeps(d, e, {"common", "set1", "set2"} \ {"set2"})
        /\ CompareFollows(g, d, e)
    <3>1. Compare(g)!SetComposes(d, "set2")
      BY <2>8 DEF Compare!Composes
    <3> QED BY <1>f, <2>3, <2>4, <2>7, <3>1, CompareSet
  <2>10. Compare(g)!Composes(e)
    BY <2>8, <2>9 DEF Compare!Composes, Compare!SetComposes, CompareKeeps
  <2>11. CompareFollows(g, page, d)
    BY <1>0, <2>5, <2>7, CompareChains
  <2>12. CompareFollows(g, page, e)
    BY <1>0, <2>7, <2>9, <2>11, CompareChains
  <2> QED BY <2>2, <2>9, <2>10, <2>12, CompareMoves
<1>2. ASSUME Compare(g)!setparam PROVE Compare(g)!CompareInv'
  <2>1. PICK w \in g.Words, box \in Compare(g)!Boxes :
          Compare(g)!Moves(Compare(g)!UpdateCommon(page, page.query["common"] \cup {w}, box))
    BY <1>2 DEF Compare!setparam
  <2> DEFINE words == page.query["common"] \cup {w}
             c == Compare(g)!UpdateCommon(page, words, box)
  <2>2. words \in SUBSET g.Words
    BY <1>f, <1>p DEF Compare!Pages
  <2>3. Compare(g)!Moves(c) /\ c = Compare(g)!UpdateCommon(page, words, box)
    BY <2>1
  <2>4. box \in [Compare(g)!Sets -> SUBSET g.Words]
    BY DEF Compare!Boxes
  <2> HIDE DEF c, words
  <2>5. Compare(g)!Sound(c) /\ Compare(g)!Composes(c) /\ CompareFollows(g, page, c)
    BY <1>0, <2>2, <2>3, <2>4, CompareCommon
  <2> QED BY <2>3, <2>5, CompareMoves
<1>3. ASSUME NEW r \in page.requests, touched' = touched, page'.requests = page.requests \ {r},
             page'.query = page.query, page'.prev = page.prev, page'.newest = page.newest,
             page'.crossed = page.crossed, page' \in Compare(g)!Pages,
             \/ failed' = failed /\ page'.count = [page.count EXCEPT ![r.of] = g.Matches[r.query]]
             \/ failed' = failed \cup {<<r.of, r.id>>} /\ page'.count = page.count
      PROVE  Compare(g)!CompareInv'
  <2>1. /\ r \in [of : Compare(g)!Filters, query : SUBSET g.Words, id : Nat]
        /\ page.requests \in SUBSET [of : Compare(g)!Filters, query : SUBSET g.Words, id : Nat]
        /\ r.of \in Compare(g)!Filters /\ r.id \in 1..page.newest[r.of]
        /\ page.newest \in [Compare(g)!Filters -> Nat]
        /\ page.count \in [Compare(g)!Filters -> Nat \cup {Undefined}]
    BY <1>p DEF Compare!Pages, Compare!Numbered
  <2>2. Compare(g)!Numbered(page)'
    BY <1>3, <1>p DEF Compare!Numbered
  <2>3. Compare(g)!Counted(page)'
    <3> SUFFICES ASSUME NEW f \in Compare(g)!Filters, f \notin page.crossed,
                        ~Compare(g)!Asking(page', f), <<f, page.newest[f]>> \notin failed'
                 PROVE  page'.count[f] = g.Matches[page.query[f]]
      BY <1>3 DEF Compare!Counted, Compare!Asking
    <3>1. CASE f = r.of
      <4>1. r.id = page.newest[f] /\ r.query = page.query[f]
        BY <1>p, <3>1 DEF Compare!Numbered
      <4>2. failed' = failed
        BY <1>3, <3>1, <4>1
      <4> QED BY <1>3, <2>1, <3>1, <4>1, <4>2
    <3>2. CASE f # r.of
      <4>1. ~Compare(g)!Asking(page, f)
        BY <1>3, <3>2 DEF Compare!Asking
      <4>2. <<f, page.newest[f]>> \notin failed /\ page'.count[f] = page.count[f]
        BY <1>3, <2>1, <3>2
      <4> QED BY <1>p, <4>1, <4>2 DEF Compare!Counted
    <3> QED BY <3>1, <3>2
  <2>4. Compare(g)!Failed(page)'
    <3> SUFFICES ASSUME NEW f \in Compare(g)!Filters, NEW n \in Nat, <<f, n>> \in failed'
                 PROVE  n <= page.newest[f]
      BY <1>3 DEF Compare!Failed
    <3>1. CASE <<f, n>> \in failed
      BY <1>p, <3>1 DEF Compare!Failed
    <3>2. CASE <<f, n>> = <<r.of, r.id>>
      BY <2>1, <3>2
    <3> QED BY <1>3, <3>1, <3>2
  <2>5. Compare(g)!Composes(page)' /\ (touched => Compare(g)!AllComposes(page))'
    BY <1>0, <1>3 DEF Compare!Composes, Compare!SetComposes, Compare!AllComposes
  <2> QED BY <1>3, <2>2, <2>3, <2>4, <2>5 DEF Compare!CompareInv, Compare!Sound
<1>4. ASSUME Compare(g)!success PROVE Compare(g)!CompareInv'
  <2>1. PICK r \in page.requests :
          page' = [page EXCEPT !.count[r.of] = g.Matches[r.query], !.requests = @ \ {r}]
    BY <1>4 DEF Compare!success
  <2>2. g.Matches[r.query] \in Nat /\ r.of \in Compare(g)!Filters
    BY <1>p DEF Compare!CompareAssumption, Compare!Pages
  <2>3. page' \in Compare(g)!Pages
    BY <1>p, <2>1, <2>2 DEF Compare!Pages
  <2>4. /\ touched' = touched /\ failed' = failed /\ page'.requests = page.requests \ {r}
        /\ page'.query = page.query /\ page'.prev = page.prev /\ page'.newest = page.newest
        /\ page'.crossed = page.crossed
        /\ page'.count = [page.count EXCEPT ![r.of] = g.Matches[r.query]]
    BY <1>4, <1>p, <2>1 DEF Compare!success, Compare!Pages
  <2> QED BY <1>3, <2>3, <2>4
<1>5. ASSUME Compare(g)!error PROVE Compare(g)!CompareInv'
  <2>1. PICK r \in page.requests :
          page' = [page EXCEPT !.requests = @ \ {r}] /\ failed' = failed \cup {<<r.of, r.id>>}
    BY <1>5 DEF Compare!error
  <2>2. page' \in Compare(g)!Pages
    BY <1>p, <2>1 DEF Compare!Pages
  <2>3. /\ touched' = touched /\ page'.requests = page.requests \ {r}
        /\ page'.query = page.query /\ page'.prev = page.prev /\ page'.newest = page.newest
        /\ page'.crossed = page.crossed /\ page'.count = page.count
    BY <1>5, <1>p, <2>1 DEF Compare!error, Compare!Pages
  <2> QED BY <1>3, <2>1, <2>2, <2>3
<1>6. ASSUME UNCHANGED Compare(g)!vars PROVE Compare(g)!CompareInv'
  BY <1>6 DEF Compare!vars, Compare!CompareInv, Compare!Sound, Compare!Numbered,
     Compare!Counted, Compare!Failed, Compare!Asking, Compare!Composes,
     Compare!SetComposes, Compare!AllComposes
<1> QED BY <1>1, <1>2, <1>4, <1>5, <1>6 DEF Compare!Next

LEMMA CompareInit ==
  ASSUME NEW g, Compare(g)!Init
  PROVE  Compare(g)!CompareInv
<1>1. PICK words \in SUBSET g.Words : page = Compare(g)!Loaded(words)
  BY DEF Compare!Init
<1>2. failed = {} /\ touched = FALSE
  BY DEF Compare!Init
<1> DEFINE Ask(f) == [of |-> f, query |-> IF f = "all" THEN {} ELSE words, id |-> 1]
<1>3. /\ page.query = [f \in Compare(g)!Filters |-> IF f = "all" THEN {} ELSE words]
      /\ page.prev = [f \in Compare(g)!Filters |-> IF f = "common" THEN words ELSE {}]
      /\ page.count = [f \in Compare(g)!Filters |-> Undefined]
      /\ page.requests = {Ask(f) : f \in Compare(g)!Filters}
      /\ page.newest = [f \in Compare(g)!Filters |-> 1] /\ page.crossed = {}
  BY <1>1 DEF Compare!Loaded
<1>4. page \in Compare(g)!Pages
  <2>1. \A f \in Compare(g)!Filters :
          Ask(f) \in [of : Compare(g)!Filters, query : SUBSET g.Words, id : Nat]
    OBVIOUS
  <2>2. page = [query |-> page.query, prev |-> page.prev, count |-> page.count,
                requests |-> page.requests, newest |-> page.newest, crossed |-> page.crossed]
    BY <1>1 DEF Compare!Loaded
  <2> HIDE DEF Ask
  <2>3. /\ page.query \in [Compare(g)!Filters -> SUBSET g.Words]
        /\ page.prev \in [Compare(g)!Filters -> SUBSET g.Words]
        /\ page.count \in [Compare(g)!Filters -> Nat \cup {Undefined}]
        /\ page.requests \in SUBSET [of : Compare(g)!Filters, query : SUBSET g.Words, id : Nat]
        /\ page.newest \in [Compare(g)!Filters -> Nat]
        /\ page.crossed \in SUBSET Compare(g)!Filters
    BY <1>3, <2>1
  <2> QED BY <2>2, <2>3 DEF Compare!Pages
<1>5. Compare(g)!Numbered(page)
  BY <1>3 DEF Compare!Numbered
<1>6. \A f \in Compare(g)!Filters : Compare(g)!Asking(page, f)
  <2> TAKE f \in Compare(g)!Filters
  <2>1. Ask(f) \in page.requests /\ Ask(f).of = f
    BY <1>3
  <2> QED BY <2>1 DEF Compare!Asking
<1>7. Compare(g)!Counted(page) /\ Compare(g)!Failed(page)
  BY <1>2, <1>6 DEF Compare!Counted, Compare!Failed
<1>8. Compare(g)!Composes(page)
  BY <1>3 DEF Compare!Composes, Compare!SetComposes, Compare!Filters, Compare!Sets
<1> QED BY <1>2, <1>4, <1>5, <1>7, <1>8 DEF Compare!CompareInv, Compare!Sound

LEMMA CompareHolds ==
  ASSUME NEW g, Compare(g)!CompareInv
  PROVE  /\ Compare(g)!TypeOK /\ Compare(g)!QueriesCompose /\ Compare(g)!NewestIsTheQuery
         /\ Compare(g)!CountsAreOfTheQueries
<1>1. page \in Compare(g)!Pages /\ Compare(g)!Numbered(page) /\ Compare(g)!Counted(page)
  BY DEF Compare!CompareInv, Compare!Sound
<1>2. Compare(g)!TypeOK
  BY <1>1 DEF Compare!TypeOK, Compare!Pages, Compare!Numbered
<1>3. Compare(g)!QueriesCompose
  BY DEF Compare!CompareInv, Compare!QueriesCompose, Compare!Composes, Compare!SetComposes,
     Compare!AllComposes, Compare!Sets
<1>4. Compare(g)!NewestIsTheQuery
  BY <1>1 DEF Compare!NewestIsTheQuery, Compare!Numbered
<1>5. Compare(g)!CountsAreOfTheQueries
  BY <1>1 DEF Compare!CountsAreOfTheQueries, Compare!Counted
<1> QED BY <1>2, <1>3, <1>4, <1>5

-----------------------------------------------------------------------------
(* The scenes: each takes the steps of its page, and keeps its invariant.   *)

\* The scene of the panel takes its steps, and no other scene does.
LEMMA LookingRun ==
  /\ Init /\ scene = "panel" => Panel(looking)!Init
  /\ [Next]_vars /\ scene = "panel" => [Panel(looking)!Next]_(Panel(looking)!vars)
  /\ [Next]_vars => scene' = scene
  BY DEF Init, Next, vars, Panel!vars, Panel!history

\* And keeps its invariant.
LEMMA LookingInv ==
  Spec => [](scene = "panel" => NotesInv(looking))
<1>1. Init => (scene = "panel" => NotesInv(looking))
  BY LookingRun, NotesInit, LookingAssumption
<1>2. (scene = "panel" => NotesInv(looking)) /\ [Next]_vars => (scene = "panel" => NotesInv(looking))'
  <2> SUFFICES ASSUME scene = "panel", scene' = "panel", NotesInv(looking), [Next]_vars PROVE NotesInv(looking)'
    BY LookingRun
  <2>1. [Panel(looking)!Next]_(Panel(looking)!vars)
    BY LookingRun
  <2> QED BY <2>1, NotesStep, LookingAssumption
<1> QED BY <1>1, <1>2, PTL DEF Spec

\* The scene of the panel of one host takes its steps, and no other scene does.
LEMMA StayingRun ==
  /\ Init /\ scene = "onehost" => Panel(staying)!Init
  /\ [Next]_vars /\ scene = "onehost" => [Panel(staying)!Next]_(Panel(staying)!vars)
  /\ [Next]_vars => scene' = scene
  BY DEF Init, Next, vars, Panel!vars, Panel!history

\* And keeps its invariant.
LEMMA StayingInv ==
  Spec => [](scene = "onehost" => NotesInv(staying))
<1>1. Init => (scene = "onehost" => NotesInv(staying))
  BY StayingRun, NotesInit, StayingAssumption
<1>2. (scene = "onehost" => NotesInv(staying)) /\ [Next]_vars => (scene = "onehost" => NotesInv(staying))'
  <2> SUFFICES ASSUME scene = "onehost", scene' = "onehost", NotesInv(staying), [Next]_vars PROVE NotesInv(staying)'
    BY StayingRun
  <2>1. [Panel(staying)!Next]_(Panel(staying)!vars)
    BY StayingRun
  <2> QED BY <2>1, NotesStep, StayingAssumption
<1> QED BY <1>1, <1>2, PTL DEF Spec

\* The scene of the notes takes its steps, and no other scene does.
LEMMA SearchingRun ==
  /\ Init /\ scene = "notes" => Tab(searching)!Init
  /\ [Next]_vars /\ scene = "notes" => [Tab(searching)!Next]_(Tab(searching)!vars)
  /\ [Next]_vars => scene' = scene
  BY DEF Init, Next, vars, Tab!vars, Tab!server

\* And keeps its invariant.
LEMMA SearchingInv ==
  Spec => [](scene = "notes" => Tab(searching)!TabInv)
<1>1. Init => (scene = "notes" => Tab(searching)!TabInv)
  BY SearchingRun, TabInit, SearchingAssumption
<1>2. (scene = "notes" => Tab(searching)!TabInv) /\ [Next]_vars => (scene = "notes" => Tab(searching)!TabInv)'
  <2> SUFFICES ASSUME scene = "notes", scene' = "notes", Tab(searching)!TabInv, [Next]_vars PROVE Tab(searching)!TabInv'
    BY SearchingRun
  <2>1. [Tab(searching)!Next]_(Tab(searching)!vars)
    BY SearchingRun
  <2> QED BY <2>1, TabStep, SearchingAssumption
<1> QED BY <1>1, <1>2, PTL DEF Spec

\* The scene of the notes that others write takes its steps, and no other scene does.
LEMMA CreatingRun ==
  /\ Init /\ scene = "created" => Tab(creating)!Init
  /\ [Next]_vars /\ scene = "created" => [Tab(creating)!Next]_(Tab(creating)!vars)
  /\ [Next]_vars => scene' = scene
  BY DEF Init, Next, vars, Tab!vars, Tab!server

\* And keeps its invariant.
LEMMA CreatingInv ==
  Spec => [](scene = "created" => Tab(creating)!TabInv)
<1>1. Init => (scene = "created" => Tab(creating)!TabInv)
  BY CreatingRun, TabInit, CreatingAssumption
<1>2. (scene = "created" => Tab(creating)!TabInv) /\ [Next]_vars => (scene = "created" => Tab(creating)!TabInv)'
  <2> SUFFICES ASSUME scene = "created", scene' = "created", Tab(creating)!TabInv, [Next]_vars PROVE Tab(creating)!TabInv'
    BY CreatingRun
  <2>1. [Tab(creating)!Next]_(Tab(creating)!vars)
    BY CreatingRun
  <2> QED BY <2>1, TabStep, CreatingAssumption
<1> QED BY <1>1, <1>2, PTL DEF Spec

\* The scene of the events takes its steps, and no other scene does.
LEMMA ReadingRun ==
  /\ Init /\ scene = "events" => Explorer(reading)!Init
  /\ [Next]_vars /\ scene = "events" => [Explorer(reading)!Next]_(Explorer(reading)!vars)
  /\ [Next]_vars => scene' = scene
  BY DEF Init, Next, vars, Explorer!vars

\* And keeps its invariant.
LEMMA ReadingInv ==
  Spec => [](scene = "events" => Explorer(reading)!ExplorerInv)
<1>1. Init => (scene = "events" => Explorer(reading)!ExplorerInv)
  BY ReadingRun, ExplorerInit, ReadingAssumption
<1>2. (scene = "events" => Explorer(reading)!ExplorerInv) /\ [Next]_vars => (scene = "events" => Explorer(reading)!ExplorerInv)'
  <2> SUFFICES ASSUME scene = "events", scene' = "events", Explorer(reading)!ExplorerInv, [Next]_vars PROVE Explorer(reading)!ExplorerInv'
    BY ReadingRun
  <2>1. [Explorer(reading)!Next]_(Explorer(reading)!vars)
    BY ReadingRun
  <2> QED BY <2>1, ExplorerStep, ExplorerStutters, ReadingAssumption
<1> QED BY <1>1, <1>2, PTL DEF Spec

\* The scene of the links to events takes its steps, and no other scene does.
LEMMA FollowingRun ==
  /\ Init /\ scene = "links" => Explorer(following)!Init
  /\ [Next]_vars /\ scene = "links" => [Explorer(following)!Next]_(Explorer(following)!vars)
  /\ [Next]_vars => scene' = scene
  BY DEF Init, Next, vars, Explorer!vars

\* And keeps its invariant.
LEMMA FollowingInv ==
  Spec => [](scene = "links" => Explorer(following)!ExplorerInv)
<1>1. Init => (scene = "links" => Explorer(following)!ExplorerInv)
  BY FollowingRun, ExplorerInit, FollowingAssumption
<1>2. (scene = "links" => Explorer(following)!ExplorerInv) /\ [Next]_vars => (scene = "links" => Explorer(following)!ExplorerInv)'
  <2> SUFFICES ASSUME scene = "links", scene' = "links", Explorer(following)!ExplorerInv, [Next]_vars PROVE Explorer(following)!ExplorerInv'
    BY FollowingRun
  <2>1. [Explorer(following)!Next]_(Explorer(following)!vars)
    BY FollowingRun
  <2> QED BY <2>1, ExplorerStep, ExplorerStutters, FollowingAssumption
<1> QED BY <1>1, <1>2, PTL DEF Spec

\* The scene of the trail of everyone takes its steps, and no other scene does.
LEMMA AuditingRun ==
  /\ Init /\ scene = "admin" => Trail(auditing)!Init
  /\ [Next]_vars /\ scene = "admin" => [Trail(auditing)!Next]_(Trail(auditing)!vars)
  /\ [Next]_vars => scene' = scene
  BY DEF Init, Next, vars, Trail!vars

\* And keeps its invariant.
LEMMA AuditingInv ==
  Spec => [](scene = "admin" => Trail(auditing)!PagesInv)
<1>1. Init => (scene = "admin" => Trail(auditing)!PagesInv)
  BY AuditingRun, TrailInit, AuditingAssumption
<1>2. (scene = "admin" => Trail(auditing)!PagesInv) /\ [Next]_vars => (scene = "admin" => Trail(auditing)!PagesInv)'
  <2> SUFFICES ASSUME scene = "admin", scene' = "admin", Trail(auditing)!PagesInv, [Next]_vars PROVE Trail(auditing)!PagesInv'
    BY AuditingRun
  <2>1. [Trail(auditing)!Next]_(Trail(auditing)!vars)
    BY AuditingRun
  <2> QED BY <2>1, TrailStep, AuditingAssumption
<1> QED BY <1>1, <1>2, PTL DEF Spec

\* The scene of the trail of the reader takes its steps, and no other scene does.
LEMMA ReviewingRun ==
  /\ Init /\ scene = "mine" => Trail(reviewing)!Init
  /\ [Next]_vars /\ scene = "mine" => [Trail(reviewing)!Next]_(Trail(reviewing)!vars)
  /\ [Next]_vars => scene' = scene
  BY DEF Init, Next, vars, Trail!vars

\* And keeps its invariant.
LEMMA ReviewingInv ==
  Spec => [](scene = "mine" => Trail(reviewing)!PagesInv)
<1>1. Init => (scene = "mine" => Trail(reviewing)!PagesInv)
  BY ReviewingRun, TrailInit, ReviewingAssumption
<1>2. (scene = "mine" => Trail(reviewing)!PagesInv) /\ [Next]_vars => (scene = "mine" => Trail(reviewing)!PagesInv)'
  <2> SUFFICES ASSUME scene = "mine", scene' = "mine", Trail(reviewing)!PagesInv, [Next]_vars PROVE Trail(reviewing)!PagesInv'
    BY ReviewingRun
  <2>1. [Trail(reviewing)!Next]_(Trail(reviewing)!vars)
    BY ReviewingRun
  <2> QED BY <2>1, TrailStep, ReviewingAssumption
<1> QED BY <1>1, <1>2, PTL DEF Spec

\* The scene of the keys takes its steps, and no other scene does.
LEMMA OwningRun ==
  /\ Init /\ scene = "account" => Account(owning)!Init
  /\ [Next]_vars /\ scene = "account" => [Account(owning)!Next]_(Account(owning)!vars)
  /\ [Next]_vars => scene' = scene
  BY DEF Init, Next, vars, Account!vars, Account!server, Account!lists, Account!panel

\* And keeps its invariant.
LEMMA OwningInv ==
  Spec => [](scene = "account" => (Account(owning)!RevocationInv /\ Account(owning)!SessionInv))
<1>1. Init => (scene = "account" => (Account(owning)!RevocationInv /\ Account(owning)!SessionInv))
  BY OwningRun, AccountInit, OwningAssumption
<1>2. (scene = "account" => (Account(owning)!RevocationInv /\ Account(owning)!SessionInv)) /\ [Next]_vars => (scene = "account" => (Account(owning)!RevocationInv /\ Account(owning)!SessionInv))'
  <2> SUFFICES ASSUME scene = "account", scene' = "account", (Account(owning)!RevocationInv /\ Account(owning)!SessionInv), [Next]_vars PROVE (Account(owning)!RevocationInv /\ Account(owning)!SessionInv)'
    BY OwningRun
  <2>1. [Account(owning)!Next]_(Account(owning)!vars)
    BY OwningRun
  <2> QED BY <2>1, AccountStep, OwningAssumption
<1> QED BY <1>1, <1>2, PTL DEF Spec

\* The scene of the keys in two tabs takes its steps, and no other scene does.
LEMMA SharingRun ==
  /\ Init /\ scene = "tabs" => Account(sharing)!Init
  /\ [Next]_vars /\ scene = "tabs" => [Account(sharing)!Next]_(Account(sharing)!vars)
  /\ [Next]_vars => scene' = scene
  BY DEF Init, Next, vars, Account!vars, Account!server, Account!lists, Account!panel

\* And keeps its invariant.
LEMMA SharingInv ==
  Spec => [](scene = "tabs" => (Account(sharing)!RevocationInv /\ Account(sharing)!SessionInv))
<1>1. Init => (scene = "tabs" => (Account(sharing)!RevocationInv /\ Account(sharing)!SessionInv))
  BY SharingRun, AccountInit, SharingAssumption
<1>2. (scene = "tabs" => (Account(sharing)!RevocationInv /\ Account(sharing)!SessionInv)) /\ [Next]_vars => (scene = "tabs" => (Account(sharing)!RevocationInv /\ Account(sharing)!SessionInv))'
  <2> SUFFICES ASSUME scene = "tabs", scene' = "tabs", (Account(sharing)!RevocationInv /\ Account(sharing)!SessionInv), [Next]_vars PROVE (Account(sharing)!RevocationInv /\ Account(sharing)!SessionInv)'
    BY SharingRun
  <2>1. [Account(sharing)!Next]_(Account(sharing)!vars)
    BY SharingRun
  <2> QED BY <2>1, AccountStep, SharingAssumption
<1> QED BY <1>1, <1>2, PTL DEF Spec

\* The scene of the users takes its steps, and no other scene does.
LEMMA ManagingRun ==
  /\ Init /\ scene = "users" => Admin(managing)!Init
  /\ [Next]_vars /\ scene = "users" => [Admin(managing)!Next]_(Admin(managing)!vars)
  /\ [Next]_vars => scene' = scene
  BY DEF Init, Next, vars, Admin!vars, Admin!list, Admin!dialog, Admin!budgets

\* And keeps its invariant.
LEMMA ManagingInv ==
  Spec => [](scene = "users" => (Admin(managing)!DialogInv /\ Admin(managing)!ToldInv))
<1>1. Init => (scene = "users" => (Admin(managing)!DialogInv /\ Admin(managing)!ToldInv))
  BY ManagingRun, UsersInit, ManagingAssumption
<1>2. (scene = "users" => (Admin(managing)!DialogInv /\ Admin(managing)!ToldInv)) /\ [Next]_vars => (scene = "users" => (Admin(managing)!DialogInv /\ Admin(managing)!ToldInv))'
  <2> SUFFICES ASSUME scene = "users", scene' = "users", (Admin(managing)!DialogInv /\ Admin(managing)!ToldInv), [Next]_vars PROVE (Admin(managing)!DialogInv /\ Admin(managing)!ToldInv)'
    BY ManagingRun
  <2>1. [Admin(managing)!Next]_(Admin(managing)!vars)
    BY ManagingRun
  <2> QED BY <2>1, UsersStep, ManagingAssumption
<1> QED BY <1>1, <1>2, PTL DEF Spec

\* The scene of the users of two administrators takes its steps, and no other scene does.
LEMMA CompetingRun ==
  /\ Init /\ scene = "admins" => Admin(competing)!Init
  /\ [Next]_vars /\ scene = "admins" => [Admin(competing)!Next]_(Admin(competing)!vars)
  /\ [Next]_vars => scene' = scene
  BY DEF Init, Next, vars, Admin!vars, Admin!list, Admin!dialog, Admin!budgets

\* And keeps its invariant.
LEMMA CompetingInv ==
  Spec => [](scene = "admins" => (Admin(competing)!DialogInv /\ Admin(competing)!ToldInv))
<1>1. Init => (scene = "admins" => (Admin(competing)!DialogInv /\ Admin(competing)!ToldInv))
  BY CompetingRun, UsersInit, CompetingAssumption
<1>2. (scene = "admins" => (Admin(competing)!DialogInv /\ Admin(competing)!ToldInv)) /\ [Next]_vars => (scene = "admins" => (Admin(competing)!DialogInv /\ Admin(competing)!ToldInv))'
  <2> SUFFICES ASSUME scene = "admins", scene' = "admins", (Admin(competing)!DialogInv /\ Admin(competing)!ToldInv), [Next]_vars PROVE (Admin(competing)!DialogInv /\ Admin(competing)!ToldInv)'
    BY CompetingRun
  <2>1. [Admin(competing)!Next]_(Admin(competing)!vars)
    BY CompetingRun
  <2> QED BY <2>1, UsersStep, CompetingAssumption
<1> QED BY <1>1, <1>2, PTL DEF Spec

\* The scene of the classic filter takes its steps, and no other scene does.
LEMMA BrowsingRun ==
  /\ Init /\ scene = "hosts" => Classic(browsing)!Init
  /\ [Next]_vars /\ scene = "hosts" => [Classic(browsing)!Next]_(Classic(browsing)!vars)
  /\ [Next]_vars => scene' = scene
  BY DEF Init, Next, vars, Classic!vars

\* And keeps its invariant.
LEMMA BrowsingInv ==
  Spec => [](scene = "hosts" => Classic(browsing)!FilterInv)
<1>1. Init => (scene = "hosts" => Classic(browsing)!FilterInv)
  BY BrowsingRun, ClassicInit, BrowsingAssumption
<1>2. (scene = "hosts" => Classic(browsing)!FilterInv) /\ [Next]_vars => (scene = "hosts" => Classic(browsing)!FilterInv)'
  <2> SUFFICES ASSUME scene = "hosts", scene' = "hosts", Classic(browsing)!FilterInv, [Next]_vars PROVE Classic(browsing)!FilterInv'
    BY BrowsingRun
  <2>1. [Classic(browsing)!Next]_(Classic(browsing)!vars)
    BY BrowsingRun
  <2> QED BY <2>1, ClassicStep, BrowsingAssumption
<1> QED BY <1>1, <1>2, PTL DEF Spec

\* The scene of two sets takes its steps, and no other scene does.
LEMMA ComparingRun ==
  /\ Init /\ scene = "sets" => Compare(comparing)!Init
  /\ [Next]_vars /\ scene = "sets" => [Compare(comparing)!Next]_(Compare(comparing)!vars)
  /\ [Next]_vars => scene' = scene
  BY DEF Init, Next, vars, Compare!vars

\* And keeps its invariant.
LEMMA ComparingInv ==
  Spec => [](scene = "sets" => Compare(comparing)!CompareInv)
<1>1. Init => (scene = "sets" => Compare(comparing)!CompareInv)
  BY ComparingRun, CompareInit, ComparingAssumption
<1>2. (scene = "sets" => Compare(comparing)!CompareInv) /\ [Next]_vars => (scene = "sets" => Compare(comparing)!CompareInv)'
  <2> SUFFICES ASSUME scene = "sets", scene' = "sets", Compare(comparing)!CompareInv, [Next]_vars PROVE Compare(comparing)!CompareInv'
    BY ComparingRun
  <2>1. [Compare(comparing)!Next]_(Compare(comparing)!vars)
    BY ComparingRun
  <2> QED BY <2>1, CompareStep, ComparingAssumption
<1> QED BY <1>1, <1>2, PTL DEF Spec

\* The scene of two sets that are asked in turn takes its steps, and no other scene does.
LEMMA ReturningRun ==
  /\ Init /\ scene = "again" => Compare(returning)!Init
  /\ [Next]_vars /\ scene = "again" => [Compare(returning)!Next]_(Compare(returning)!vars)
  /\ [Next]_vars => scene' = scene
  BY DEF Init, Next, vars, Compare!vars

\* And keeps its invariant.
LEMMA ReturningInv ==
  Spec => [](scene = "again" => Compare(returning)!CompareInv)
<1>1. Init => (scene = "again" => Compare(returning)!CompareInv)
  BY ReturningRun, CompareInit, ReturningAssumption
<1>2. (scene = "again" => Compare(returning)!CompareInv) /\ [Next]_vars => (scene = "again" => Compare(returning)!CompareInv)'
  <2> SUFFICES ASSUME scene = "again", scene' = "again", Compare(returning)!CompareInv, [Next]_vars PROVE Compare(returning)!CompareInv'
    BY ReturningRun
  <2>1. [Compare(returning)!Next]_(Compare(returning)!vars)
    BY ReturningRun
  <2> QED BY <2>1, CompareStep, ReturningAssumption
<1> QED BY <1>1, <1>2, PTL DEF Spec

\* A save replaces the text the user started from, or the server refuses it, and the panel
\* of the only host shows what its user saved, whatever is answered when, lost, or written
\* by others (HostNotesPanel.tsx).
THEOREM PanelAlways == Spec => []PanelHolds
<1>1. NotesInv(looking) => PanelIsHonest(looking)
  BY NotesHold, LookingAssumption DEF PanelIsHonest
<1>2. NotesInv(staying) => PanelIsHonest(staying)
  BY NotesHold, StayingAssumption DEF PanelIsHonest
<1>3. /\ (scene = "panel" => PanelIsHonest(looking))
       /\ (scene = "onehost" => PanelIsHonest(staying))
       => PanelHolds
  BY DEF PanelHolds
<1> QED
  BY <1>1, <1>2, <1>3, LookingInv, StayingInv, PTL

\* Once an address is rendered both explorers have the text, the filters and the sheet that
\* the user asked for last, but for the races with the timer of the box that AsTheUserWants
\* names; and the sheet of an event has one the reader may see, or says why it has none
\* (notes.tsx, AuditExplorer.tsx).
THEOREM ExplorersAlways == Spec => []ExplorersHold
<1>1. Tab(searching)!TabInv => TabIsCalm(searching)
  BY TabHolds, SearchingAssumption DEF TabIsCalm
<1>2. Tab(creating)!TabInv => TabIsCalm(creating)
  BY TabHolds, CreatingAssumption DEF TabIsCalm
<1>3. Explorer(reading)!ExplorerInv => EventsAreInScope(reading)
  BY ExplorerHolds, ReadingAssumption DEF EventsAreInScope
<1>4. Explorer(following)!ExplorerInv => EventsAreInScope(following)
  BY ExplorerHolds, FollowingAssumption DEF EventsAreInScope
<1>5. /\ (scene = "notes" => TabIsCalm(searching))
       /\ (scene = "created" => TabIsCalm(creating))
       /\ (scene = "events" => EventsAreInScope(reading))
       /\ (scene = "links" => EventsAreInScope(following))
       => ExplorersHold
  BY DEF ExplorersHold
<1> QED
  BY <1>1, <1>2, <1>3, <1>4, <1>5, SearchingInv, CreatingInv, ReadingInv, FollowingInv, PTL

\* However the log grows and is purged between two pages, the list of a filter has the
\* events of that filter and leaves none out between two rows (audit.ts, app.py).
THEOREM AuditAlways == Spec => []AuditHolds
<1>1. Trail(auditing)!PagesInv => TrailIsWhole(auditing)
  BY TrailHolds, AuditingAssumption DEF TrailIsWhole
<1>2. Trail(reviewing)!PagesInv => TrailIsWhole(reviewing)
  BY TrailHolds, ReviewingAssumption DEF TrailIsWhole
<1>3. /\ (scene = "admin" => TrailIsWhole(auditing))
       /\ (scene = "mine" => TrailIsWhole(reviewing))
       => AuditHolds
  BY DEF AuditHolds
<1> QED
  BY <1>1, <1>2, <1>3, AuditingInv, ReviewingInv, PTL

\* In whatever order answers come, a key that was revoked leaves the list, a tab has no key
\* of another user, and what is said of a user is so (api-keys.tsx, AdminUsersPanel.tsx).
THEOREM AccountsAlways == Spec => []AccountsHold
<1>1. (Account(owning)!RevocationInv /\ Account(owning)!SessionInv) => KeysAreOwn(owning)
  BY AccountHolds, OwningAssumption DEF KeysAreOwn
<1>2. (Account(sharing)!RevocationInv /\ Account(sharing)!SessionInv) => KeysAreOwn(sharing)
  BY AccountHolds, SharingAssumption DEF KeysAreOwn
<1>3. (Admin(managing)!DialogInv /\ Admin(managing)!ToldInv) => AdminIsTold(managing)
  BY UsersHold, ManagingAssumption DEF AdminIsTold
<1>4. (Admin(competing)!DialogInv /\ Admin(competing)!ToldInv) => AdminIsTold(competing)
  BY UsersHold, CompetingAssumption DEF AdminIsTold
<1>5. /\ (scene = "account" => KeysAreOwn(owning))
       /\ (scene = "tabs" => KeysAreOwn(sharing))
       /\ (scene = "users" => AdminIsTold(managing))
       /\ (scene = "admins" => AdminIsTold(competing))
       => AccountsHold
  BY DEF AccountsHold
<1> QED
  BY <1>1, <1>2, <1>3, <1>4, <1>5, OwningInv, SharingInv, ManagingInv, CompetingInv, PTL

\* In whatever order requests are answered, a user who waits gets the results of the query,
\* the hosts of a set are of its words and the common ones, and the counts that are shown
\* are those of the queries (filters.js, compare.js).
THEOREM FilterAlways == Spec => []FilterHolds
<1>1. Classic(browsing)!FilterInv => HostsAreOfTheQuery(browsing)
  BY ClassicHolds, BrowsingAssumption DEF HostsAreOfTheQuery
<1>2. Compare(comparing)!CompareInv => SetsCompose(comparing)
  BY CompareHolds, ComparingAssumption DEF SetsCompose
<1>3. Compare(returning)!CompareInv => SetsCompose(returning)
  BY CompareHolds, ReturningAssumption DEF SetsCompose
<1>4. /\ (scene = "hosts" => HostsAreOfTheQuery(browsing))
       /\ (scene = "sets" => SetsCompose(comparing))
       /\ (scene = "again" => SetsCompose(returning))
       => FilterHolds
  BY DEF FilterHolds
<1> QED
  BY <1>1, <1>2, <1>3, <1>4, BrowsingInv, ComparingInv, ReturningInv, PTL

\* No step tells the user of a missing note that exists, takes rows away to load more, or
\* sets a field of a user that the administrator did not touch (notes.tsx,
\* AuditEventsPanel.tsx, EditUserDialog.tsx).
THEOREM StepsAlways == Spec => DeskSteps
<1> DEFINE P == /\ (scene = "notes" => Tab(searching)!TabInv)
              /\ (scene = "admin" => Trail(auditing)!PagesInv)
              /\ (scene = "mine" => Trail(reviewing)!PagesInv)
              /\ (scene = "users" => (Admin(managing)!DialogInv /\ Admin(managing)!ToldInv))
              /\ (scene = "admins" => (Admin(competing)!DialogInv /\ Admin(competing)!ToldInv))
           A == /\ (scene = "notes" /\ ~searching.OthersCreate => Tab(searching)!ToldOfMissingOnly)
                /\ (scene = "admin" => Trail(auditing)!MoreKeepsRows)
                /\ (scene = "mine" => Trail(reviewing)!MoreKeepsRows)
                /\ (scene = "users" => Admin(managing)!OnlyTouchedFieldsAreSet)
                /\ (scene = "admins" => Admin(competing)!OnlyTouchedFieldsAreSet)
<1>1. ASSUME scene = "notes", Tab(searching)!TabInv, [Next]_vars PROVE ~searching.OthersCreate => Tab(searching)!ToldOfMissingOnly
  <2>1. [Tab(searching)!Next]_(Tab(searching)!vars)
    BY <1>1, SearchingRun
  <2> QED BY <1>1, <2>1, TabStep, SearchingAssumption
<1>2. ASSUME scene = "admin", Trail(auditing)!PagesInv, [Next]_vars PROVE Trail(auditing)!MoreKeepsRows
  <2>1. [Trail(auditing)!Next]_(Trail(auditing)!vars)
    BY <1>2, AuditingRun
  <2> QED BY <1>2, <2>1, TrailStep, AuditingAssumption
<1>3. ASSUME scene = "mine", Trail(reviewing)!PagesInv, [Next]_vars PROVE Trail(reviewing)!MoreKeepsRows
  <2>1. [Trail(reviewing)!Next]_(Trail(reviewing)!vars)
    BY <1>3, ReviewingRun
  <2> QED BY <1>3, <2>1, TrailStep, ReviewingAssumption
<1>4. ASSUME scene = "users", (Admin(managing)!DialogInv /\ Admin(managing)!ToldInv), [Next]_vars PROVE Admin(managing)!OnlyTouchedFieldsAreSet
  <2>1. [Admin(managing)!Next]_(Admin(managing)!vars)
    BY <1>4, ManagingRun
  <2> QED BY <1>4, <2>1, OnlyTouchedSent, ManagingAssumption
<1>5. ASSUME scene = "admins", (Admin(competing)!DialogInv /\ Admin(competing)!ToldInv), [Next]_vars PROVE Admin(competing)!OnlyTouchedFieldsAreSet
  <2>1. [Admin(competing)!Next]_(Admin(competing)!vars)
    BY <1>5, CompetingRun
  <2> QED BY <1>5, <2>1, OnlyTouchedSent, CompetingAssumption
<1>6. P /\ [Next]_vars => A
  BY <1>1, <1>2, <1>3, <1>4, <1>5
<1>7. Spec => []P
  BY SearchingInv, AuditingInv, ReviewingInv, ManagingInv, CompetingInv, PTL
<1> HIDE DEF P
<1>8. Spec => [][A]_vars
  BY <1>6, <1>7, PTL DEF Spec
<1> QED
  BY <1>8, PTL DEF DeskSteps
=============================================================================
