------------------------------ MODULE UserAdmin ------------------------------
(***************************************************************************)
(* The administration of the users: the panel of the web interface          *)
(* (AdminUsersPanel.tsx, EditUserDialog.tsx, lib/admin.ts) in the hands of  *)
(* one administrator, and the older page (IvreAdminCtrl in controllers.js)  *)
(* in the hands of another.                                                 *)
(*                                                                          *)
(* A request names a user and some fields, and the server sets these fields *)
(* or creates the user.  The panel shows the list it got last; a change     *)
(* that succeeds asks for it again.                                         *)
(***************************************************************************)
EXTENDS Naturals, Sequences, Functions

CONSTANTS Emails, Me,
          Names,         \* what can be typed as a display name
          GroupNames,
          InitUsers,     \* the users at the start
          NoUser, NoData, None, Sent, Refused,
          OtherAdmin,    \* whether the other administrator does anything
          MaxMoves, MaxOther, MaxFailures  \* bounds

\* No group is named twice.  The older page creates users with these, of two at most.
Groups == {s \in Seq(GroupNames) : IsInjective(s)}
FewGroups == {s \in UNION {[1..n -> GroupNames] : n \in 0..2} : IsInjective(s)}
DefaultName == "email"
DisplayNames == Names \cup {DefaultName}
AdminUser == [display_name : DisplayNames, is_admin : BOOLEAN, is_active : BOOLEAN, groups : Groups]
AdminUsers == [Emails -> AdminUser \cup {NoUser}]

\* The fields of a user, and what is under way: an update of some of them.
Fields == {"display_name", "is_admin", "is_active", "groups"}
Updates == UNION {[F -> DisplayNames \cup (Groups \cup BOOLEAN)] : F \in SUBSET Fields}
Changes == [email : Emails, update : Updates, state : {"sent", "served", "refused"},
            heard : BOOLEAN, touched : SUBSET {"display_name", "groups"}]

AdminAssumption ==
  /\ Me \in Emails /\ InitUsers \in AdminUsers
  /\ NoUser \notin AdminUser /\ None \notin Changes /\ InitUsers[Me] # NoUser /\ OtherAdmin \in BOOLEAN
  /\ {MaxMoves, MaxOther, MaxFailures} \subseteq Nat

VARIABLES
  users,     \* on the server
  data, failed, request,  \* the list in the cache, whether the last request failed, and the request
  put,       \* the change under way from a row, from the form of a new user and from the dialog
  last,      \* the one that the panel listens to, of its rows and its form
  editing,   \* the user of the dialog, as it was in the list
  form,      \* the display name and the groups in the dialog
  older,     \* the list that the older page has
  moves, others, failures,
  touched,   \* the fields the user changed since the dialog was opened
  told       \* what the panel last said of `is_admin'

list == <<data, failed, request>>
dialog == <<editing, form, touched>>
budgets == <<moves, others, failures>>
vars == <<users, list, put, last, dialog, older, budgets, told>>

From == {"row", "new", "dialog"}

-----------------------------------------------------------------------------
(* The server.                                                              *)

Defaults == [display_name |-> DefaultName, is_admin |-> FALSE, is_active |-> TRUE, groups |-> <<>>]
\* The user is created when there is none.
admin_update_user(us, e, update) ==
  LET user == IF us[e] = NoUser THEN Defaults ELSE us[e]
      is(f) == IF f \in DOMAIN update THEN update[f] ELSE user[f]
  IN  [us EXCEPT ![e] = [display_name |-> is("display_name"), is_admin |-> is("is_admin"),
                         is_active |-> is("is_active"), groups |-> is("groups")]]

refused == ~(users[Me].is_admin /\ users[Me].is_active)

-----------------------------------------------------------------------------
(* What is on the screen.                                                   *)

Rows == IF data = NoData \/ failed THEN {} ELSE {e \in Emails : data[e] # NoUser}
AdminUsersPanel == data # NoData /\ ~failed
EditUserDialog == editing # None /\ AdminUsersPanel
busy == last # None
UserRow(e) == e \in Rows /\ ~busy /\ ~EditUserDialog

initial == [display_name |-> editing.user.display_name, groups |-> editing.user.groups]
changed == {f \in {"display_name", "groups"} : form[f] # initial[f]}

\* An update of one field, and the groups without one of them.
setting(field, v) == [f \in {field} |-> v]
without(gs, g) ==
  LET at == CHOOSE i \in 1..Len(gs) : gs[i] = g
  IN  [i \in 1..(Len(gs) - 1) |-> gs[IF i < at THEN i ELSE i + 1]]

-----------------------------------------------------------------------------
NoForm == [display_name |-> "", groups |-> <<>>]
Init ==
  /\ users = InitUsers
  /\ data = NoData /\ failed = FALSE /\ request = Sent
  /\ put = [f \in From |-> None] /\ last = None
  /\ editing = None /\ form = NoForm /\ touched = {}
  /\ older = NoData /\ moves = 0 /\ others = 0 /\ failures = 0
  /\ told = [e \in Emails |-> NoData]

Moves == moves < MaxMoves /\ moves' = moves + 1 /\ UNCHANGED <<others, failures>>
Others == OtherAdmin /\ others < MaxOther /\ others' = others + 1 /\ UNCHANGED <<moves, failures>>
Fails == failures < MaxFailures /\ failures' = failures + 1 /\ UNCHANGED <<moves, others>>

\* The effect on `user'.
ResetForm(u) == form' = [display_name |-> u.display_name, groups |-> u.groups] /\ touched' = {}

-----------------------------------------------------------------------------
(* The list.                                                                *)

invalidateQueries == request' = Sent /\ UNCHANGED <<data, failed>>

Serve ==
  /\ request = Sent /\ request' = IF refused THEN Refused ELSE users
  /\ UNCHANGED <<users, data, failed, put, last, dialog, older, budgets, told>>

\* A panel that showed an error has its dialog anew.
fetchAdminUsers ==
  /\ request \notin {None, Sent, Refused}
  /\ data' = request /\ failed' = FALSE /\ request' = None
  /\ IF failed /\ editing # None THEN ResetForm(editing.user) /\ UNCHANGED editing ELSE UNCHANGED dialog
  /\ UNCHANGED <<users, put, last, older, budgets, told>>

\* The dialog goes with the rows: what it waits for is not listened to.
ListFails ==
  /\ \/ request = Refused /\ UNCHANGED budgets
     \/ request \notin {None, Refused} /\ Fails
  /\ request' = None /\ failed' = TRUE
  /\ put' = IF put["dialog"] = None THEN put ELSE [put EXCEPT !["dialog"].heard = FALSE]
  /\ UNCHANGED <<users, data, last, dialog, older, told>>

-----------------------------------------------------------------------------
(* The panel.                                                               *)

\* At most one change of each kind is under way.
updateAdminUser(from, e, update) ==
  /\ put[from] = None
  /\ put' = [put EXCEPT ![from] = [email |-> e, update |-> update, state |-> "sent", heard |-> TRUE,
                                          touched |-> touched]]
  /\ UNCHANGED <<users, list, older, told>>

toggle(e, field) ==
  /\ Moves /\ UserRow(e)
  /\ updateAdminUser("row", e, setting(field, ~data[e][field]))
  /\ last' = "row" /\ UNCHANGED dialog

\* The button waits for the change under way, the Enter key does not.
createUser(e) ==
  /\ Moves /\ AdminUsersPanel /\ ~EditUserDialog
  /\ updateAdminUser("new", e, setting("is_active", TRUE))
  /\ last' = "new" /\ UNCHANGED dialog

onEdit(e) ==
  /\ Moves /\ UserRow(e)
  /\ editing' = [email |-> e, user |-> data[e]] /\ ResetForm(data[e])
  /\ UNCHANGED <<users, list, put, last, older, told>>

-----------------------------------------------------------------------------
(* The dialog.                                                              *)

Edit(field, v) ==
  /\ Moves /\ EditUserDialog /\ v # form[field]
  /\ form' = [form EXCEPT ![field] = v] /\ touched' = touched \cup {field}
  /\ UNCHANGED <<users, list, put, last, editing, older, told>>

setDisplayName(n) == Edit("display_name", n)
addGroup(g) == g \notin Range(form.groups) /\ Edit("groups", Append(form.groups, g))
removeGroup(g) == g \in Range(form.groups) /\ Edit("groups", without(form.groups, g))

\* Slip: all the fields of the form are sent.
sendsAll == Moves /\ EditUserDialog /\ changed # {}
            /\ updateAdminUser("dialog", editing.email, form) /\ UNCHANGED <<last, dialog>>
submit ==
  /\ Moves /\ EditUserDialog /\ changed # {}
  /\ updateAdminUser("dialog", editing.email, [f \in changed |-> form[f]])
  /\ UNCHANGED <<last, dialog>>

\* The button waits for the answer, the cross and the Escape key do not.
onOpenChange ==
  /\ EditUserDialog /\ editing' = None
  /\ UNCHANGED <<users, list, put, last, form, touched, older, budgets, told>>

-----------------------------------------------------------------------------
(* The answers to the changes.                                              *)

ServePut(from) ==
  LET p == put[from] IN
  /\ p # None /\ p.state = "sent"
  /\ put' = [put EXCEPT ![from].state = IF refused THEN "refused" ELSE "served"]
  /\ IF refused
       THEN UNCHANGED users
       ELSE users' = admin_update_user(users, p.email, p.update)
  /\ UNCHANGED <<list, last, dialog, older, budgets, told>>

forget(from) == put' = [put EXCEPT ![from] = None] /\ last' = IF last = from THEN None ELSE last

useUpdateAdminUser(from) ==
  LET p == put[from]
      closes == from = "dialog" /\ p.heard /\ editing # None
  IN
  /\ p # None /\ p.state = "served" /\ forget(from)
  /\ invalidateQueries
  /\ editing' = IF closes THEN None ELSE editing
  /\ told' = IF from = "row" /\ "is_admin" \in DOMAIN p.update
               THEN [told EXCEPT ![p.email] = IF last = from THEN p.update["is_admin"] ELSE NoData]
               ELSE told
  /\ UNCHANGED <<users, form, touched, older, budgets>>

PutFails(from) ==
  LET p == put[from] IN
  /\ p # None /\ forget(from)
  /\ \/ p.state = "refused" /\ UNCHANGED <<budgets, told>>
     \/ p.state # "refused" /\ Fails /\ told' = [told EXCEPT ![p.email] = NoData]
  /\ UNCHANGED <<users, list, dialog, older>>

-----------------------------------------------------------------------------
(* The older page: each change is followed by the list, at some time.       *)

load_users ==
  /\ OtherAdmin /\ older # users /\ older' = users
  /\ UNCHANGED <<users, list, put, last, dialog, budgets, told>>

OlderPut(e, update) ==
  /\ Others /\ users' = admin_update_user(users, e, update)
  /\ told' = [told EXCEPT ![e] = NoData]
  /\ UNCHANGED <<list, put, last, dialog, older>>

OlderRow(e) == older # NoData /\ older[e] # NoUser

set_active(e, b) == OlderRow(e) /\ OlderPut(e, setting("is_active", b))
set_admin(e, b) == OlderRow(e) /\ OlderPut(e, setting("is_admin", b))
prompt_add_group(e, g) ==
  /\ OlderRow(e)
  /\ LET gs == older[e].groups
     IN  OlderPut(e, setting("groups", IF g \in Range(gs) THEN gs ELSE Append(gs, g)))
remove_group(e, g) ==
  /\ OlderRow(e) /\ g \in Range(older[e].groups)
  /\ OlderPut(e, setting("groups", without(older[e].groups, g)))
add_user(e, admin, gs) ==
  /\ older # NoData
  /\ LET user == [display_name |-> DefaultName, is_admin |-> admin, is_active |-> TRUE, groups |-> gs]
     IN  OlderPut(e, [f \in {x \in Fields : x = "groups" => gs # <<>>} |-> user[f]])

-----------------------------------------------------------------------------
Answers ==
  \/ Serve \/ fetchAdminUsers \/ ListFails
  \/ \E from \in From : ServePut(from) \/ useUpdateAdminUser(from) \/ PutFails(from)

Next ==
  \/ Answers \/ submit \/ onOpenChange \/ load_users
  \/ \E e \in Emails : createUser(e) \/ onEdit(e)
  \/ \E e \in Emails, f \in {"is_admin", "is_active"} : toggle(e, f)
  \/ \E n \in Names : setDisplayName(n)
  \/ \E g \in GroupNames : addGroup(g) \/ removeGroup(g)
  \/ \E e \in Emails, b \in BOOLEAN : set_active(e, b) \/ set_admin(e, b)
  \/ \E e \in Emails, g \in GroupNames : prompt_add_group(e, g) \/ remove_group(e, g)
  \/ \E e \in Emails, b \in BOOLEAN, gs \in FewGroups : add_user(e, b, gs)

\* Every request is read and ends.
Spec == Init /\ [][Next]_vars /\ WF_vars(Answers)

-----------------------------------------------------------------------------
IsUpdate(u) ==
  /\ DOMAIN u \subseteq Fields /\ u = [f \in DOMAIN u |-> u[f]]
  /\ "display_name" \in DOMAIN u => u["display_name"] \in DisplayNames
  /\ "is_admin" \in DOMAIN u => u["is_admin"] \in BOOLEAN
  /\ "is_active" \in DOMAIN u => u["is_active"] \in BOOLEAN
  /\ "groups" \in DOMAIN u => u["groups"] \in Groups
IsChange(p) ==
  /\ p \in [email : Emails, update : {p.update}, state : {"sent", "served", "refused"},
            heard : BOOLEAN, touched : SUBSET {"display_name", "groups"}]
  /\ IsUpdate(p.update)

TypeOK ==
  /\ users \in AdminUsers /\ data \in AdminUsers \cup {NoData} /\ older \in AdminUsers \cup {NoData}
  /\ request \in AdminUsers \cup {None, Sent, Refused}
  /\ failed \in BOOLEAN /\ last \in {None, "row", "new"}
  /\ put = [f \in From |-> put[f]] /\ \A f \in From : put[f] # None => IsChange(put[f])
  /\ editing \in [email : Emails, user : AdminUser] \cup {None}
  /\ form \in [display_name : DisplayNames \cup {""}, groups : Groups]
  /\ editing # None => form.display_name \in DisplayNames
  /\ touched \subseteq {"display_name", "groups"}
  /\ moves \in 0..MaxMoves /\ others \in 0..MaxOther /\ failures \in 0..MaxFailures
  /\ told \in [Emails -> BOOLEAN \cup {NoData}]

\* What the user did not touch in the form is what the list had (EditUserDialog.tsx:
\* "so the form does not show the previous user's pending edits").
FormIsOfItsUser ==
  EditUserDialog => \A f \in {"display_name", "groups"} \ touched : form[f] = editing.user[f]

\* Whatever the other administrator did since the list was read, the save of the
\* dialog changes no field but those the user touched (EditUserDialog.tsx: "we send
\* only the fields the operator actually changed").
OnlyTouchedFieldsAreSet ==
  \A e \in Emails, f \in Fields :
    (put["dialog"] # None /\ put'["dialog"] # None /\ put["dialog"].state # put'["dialog"].state
       /\ users[e] # NoUser /\ users'[e][f] # users[e][f])
      => e = put["dialog"].email /\ f \in put["dialog"].touched

\* What the panel said of `is_admin' is so, unless something is under way for the
\* user (AdminUsersPanel.tsx, toggle).
WhatWasSaidIsSo ==
  \A e \in Emails : (told[e] # NoData /\ (put["row"] # None => put["row"].email # e))
                      => users[e].is_admin = told[e]

\* Why the properties hold, which the steps keep.  The dialog sends what was touched.
FormKept ==
  editing # None => \A f \in {"display_name", "groups"} \ touched : form[f] = editing.user[f]
SendsTouched == put["dialog"] # None => DOMAIN put["dialog"].update \subseteq put["dialog"].touched
DialogInv == TypeOK /\ FormKept /\ SendsTouched

\* Where nobody else changes the users: no user goes away, only a row sets `is_admin',
\* and from when the server set it until the answer the panel has the former value.
settingAdmin == put["row"] # None /\ put["row"].state = "served"
                  /\ "is_admin" \in DOMAIN put["row"].update
UsersStay ==
  /\ \A e \in Emails : users[e] = NoUser =>
       /\ told[e] = NoData
       /\ data # NoData => data[e] = NoUser
       /\ request \notin {None, Sent, Refused} => request[e] = NoUser
  /\ put["row"] # None => users[put["row"].email] # NoUser
OnlyRowsSetAdmin ==
  \A f \in {"new", "dialog"} : put[f] # None => "is_admin" \notin DOMAIN put[f].update
ToldOrUnderWay ==
  /\ settingAdmin => users[put["row"].email].is_admin = put["row"].update["is_admin"]
  /\ \A e \in Emails :
       (told[e] # NoData /\ ~(settingAdmin /\ put["row"].email = e)) => users[e].is_admin = told[e]
ToldInv == ~OtherAdmin => UsersStay /\ OnlyRowsSetAdmin /\ ToldOrUnderWay

\* The panel has the users of the server: it ends so, while it is the only one used.
ListSettled == AdminUsersPanel => data = users
=============================================================================
