---------- MODULE MCDesk -----------------------------------------------------
(* The pages on small instances: one record for each scene. *)
EXTENDS Desk, TLC

CONSTANTS h1, h2, n1, n2, u1, u2, root, gone, none, g1

\* NotesExplorer: two notes, one of which has the word, and the links that are
\* followed.
Link(words, kind, note_) == [q |-> words, type |-> kind, addr |-> note_]
AllLinks == {Link("", "all", n1), Link("word", "other", n1)}

\* AuditExplorer: two events of two users, one on a page.
Actors == 1 :> u1 @@ 2 :> u2
Kinds == 1 :> "auth" @@ 2 :> "upload"
Address(user, event) ==
  [filters |-> [type |-> "all", user |-> user, since |-> NoTime, until |-> NoTime],
   event |-> event]
Plain == Address(AnyUser, NoEvent)
Deep == {Address(AnyUser, 1), Address(u2, 1)}

\* AccountPages: an administrator and another user, with a key each, and two more.
OldOwners == 11 :> u1 @@ 12 :> u2

\* UserAdmin: an administrator, one who left, and one who is not there yet.
User(admin, active, groups) ==
  [display_name |-> "email", is_admin |-> admin, is_active |-> active, groups |-> groups]
InitialUsers ==
  root :> User(TRUE, TRUE, <<g1>>) @@ gone :> User(TRUE, FALSE, <<>>) @@ none :> NoUser

\* LegacyFilter: five hosts in all, three satisfy the criterion.
FiveHosts == [W \in SUBSET {"a"} |-> IF W = {} THEN 5 ELSE 3]

\* LegacyCompare: five hosts, four satisfy the word.
FewerHosts == [W \in SUBSET {"a"} |-> IF W = {} THEN 5 ELSE 4]
LookingC ==
  [Hosts |-> {h1, h2}, MaxWrites |-> 2, MaxFailures |-> 1, MaxLooks |-> 0,
   OthersDelete |-> TRUE]
StayingC ==
  [Hosts |-> {h1}, MaxWrites |-> 3, MaxFailures |-> 0, MaxLooks |-> 2,
   OthersDelete |-> TRUE]
SearchingC ==
  [Notes |-> {n1, n2}, Matching |-> {n1}, Limit |-> 1, Links |-> AllLinks,
   MaxMoves |-> 2, MaxFailures |-> 1, MaxWrites |-> 1, OthersCreate |-> FALSE]
CreatingC ==
  [Notes |-> {n1}, Matching |-> {n1}, Limit |-> 1, Links |-> {Link("", "all", n1)},
   MaxMoves |-> 3, MaxFailures |-> 1, MaxWrites |-> 1, OthersCreate |-> TRUE]
ReadingC ==
  [Events |-> {1, 2}, actor |-> Actors, kind |-> Kinds, Users |-> {u1, u2},
   Times |-> {2}, Me |-> u1, IsAdmin |-> TRUE, PageSize |-> 1, Starts |-> {Plain},
   MaxMoves |-> 3, MaxFailures |-> 0]
FollowingC ==
  [Events |-> {1, 2}, actor |-> Actors, kind |-> Kinds, Users |-> {u1, u2},
   Times |-> {2}, Me |-> u1, IsAdmin |-> FALSE, PageSize |-> 1, Starts |-> Deep,
   MaxMoves |-> 3, MaxFailures |-> 1]
AuditingC ==
  [Users |-> {u1, u2}, Me |-> u1, IsAdmin |-> TRUE, AuthEnabled |-> TRUE, PageSize |-> 2,
   MaxResults |-> 10, MaxEvents |-> 2, MaxFailures |-> 0, MaxFetches |-> 3]
ReviewingC ==
  [Users |-> {u1, u2}, Me |-> u1, IsAdmin |-> FALSE, AuthEnabled |-> TRUE,
   PageSize |-> 1, MaxResults |-> 10, MaxEvents |-> 4, MaxFailures |-> 1,
   MaxFetches |-> 3]
OwningC ==
  [Users |-> {u1, u2}, Admins |-> {u1}, Requests |-> {1, 2}, OldKeys |-> {11, 12},
   oldOwner |-> OldOwners, OtherTab |-> FALSE, MaxMoves |-> 4, MaxFailures |-> 1]
SharingC ==
  [Users |-> {u1, u2}, Admins |-> {u1}, Requests |-> {1, 2}, OldKeys |-> {11, 12},
   oldOwner |-> OldOwners, OtherTab |-> TRUE, MaxMoves |-> 3, MaxFailures |-> 1]
ManagingC ==
  [Emails |-> {root, gone, none}, Me |-> root, Names |-> {"nick", ""},
   GroupNames |-> {g1}, InitUsers |-> InitialUsers, OtherAdmin |-> FALSE,
   MaxMoves |-> 3, MaxOther |-> 0, MaxFailures |-> 1]
CompetingC ==
  [Emails |-> {root, gone, none}, Me |-> root, Names |-> {"nick"}, GroupNames |-> {g1},
   InitUsers |-> InitialUsers, OtherAdmin |-> TRUE, MaxMoves |-> 3, MaxOther |-> 1,
   MaxFailures |-> 0]
BrowsingC ==
  [Words |-> {"a"}, Matches |-> FiveHosts, Limit |-> 2, MaxMoves |-> 2]
ComparingC ==
  [Words |-> {"a"}, Matches |-> FewerHosts, MaxMoves |-> 1, MaxFlight |-> 1,
   MaxErrors |-> 1]
ReturningC ==
  [Words |-> {"a"}, Matches |-> FewerHosts, MaxMoves |-> 2, MaxFlight |-> 0,
   MaxErrors |-> 1]
=============================================================================
