---------- MODULE MCSettles --------------------------------------------------
(***************************************************************************)
(* What the pages of the web interface come to when the user stops: the     *)
(* pages of MCLists, MCDesk and MCLegacy that wait for something, on small  *)
(* data, with the fairness of what runs by itself.                          *)
(***************************************************************************)
EXTENDS Naturals, Sequences, TLC

CONSTANTS Absent, h1, n1, n2, u1, u2, root, gone, none, g1, None, NoData, NoParam, Failed, Typo,
          Sent, Refused, Closed, NoEditor, Idle, Asked, NoNote, AnyUser, NoTime,
          NoEvent, NoUser, NoFetch, Nobody, All

VARIABLES scene,
          query, present, status, flight, expanded, loadedCount, seen, cycle, observed, moves, db,
          url, cache, writes, picked, walked, flows, history, at, shown, draft, canvas,
          edited, hasty, text, applied, tapped, note, dirty, failed, fetch, editing,
          editor, deleting, calls, opened, log, logDirty, look, failures, looks, clock,
          own, heard, past, searchInput, alive, list, listFailed, listAsked, lookFailed,
          lookAsked, told, wanted, raced, userInput, more, trail, purged, me, pages,
          count, countAsked, fetches, session, keys, owner, meAsked, page, data, stale,
          request, create, listening, createdKey, delete, signingOut, revoked, users,
          put, last, form, older, others, touched, ready, requests, sent, found, dated,
          visible, hovered, playing, chains, plays, clicked, details, format

vars ==
  <<scene, query, present, status, flight, expanded, loadedCount, seen, cycle, observed,
    moves, db, url, cache, writes, picked, walked, flows, history, at, shown, draft,
    canvas, edited, hasty, text, applied, tapped, note, dirty, failed, fetch, editing,
    editor, deleting, calls, opened, log, logDirty, look, failures, looks, clock, own,
    heard, past, searchInput, alive, list, listFailed, listAsked, lookFailed, lookAsked,
    told, wanted, raced, userInput, more, trail, purged, me, pages, count, countAsked,
    fetches, session, keys, owner, meAsked, page, data, stale, request, create,
    listening, createdKey, delete, signingOut, revoked, users, put, last, form, older,
    others, touched, ready, requests, sent, found, dated, visible, hovered, playing,
    chains, plays, clicked, details, format>>


\* RecordPages: three records of one query, in pages of two.
Doc(i, a) == [id |-> i, addr |-> a, name |-> "n"]
ThreeHosts == {Doc(1, "a"), Doc(2, "b"), Doc(3, "c")}
AllHosts == [all |-> ThreeHosts]
AnySheet == {[q |-> "all", limit |-> NoParam, skip |-> NoParam, addr |-> a] : a \in {None, "a", "c"}}

\* FlowExplorer: two hosts and their flows.
ThreeFlows ==
  (<<"f1">> :> [src |-> <<"h">>, dst |-> <<"k">>]) @@ (<<"f2">> :> [src |-> <<"h">>, dst |-> <<"k">>])
  @@ (<<"f3">> :> [src |-> <<"k">>, dst |-> <<"h">>])
TwoFlows == {<<"f1">>, <<"f2">>}
TwoClauses == (<<"x">> :> {<<"f1">>, <<"f3">>}) @@ (<<"y">> :> {<<"f2">>, <<"f1">>})
NoOffer == [k \in {} |-> {}]
Broken == [q |-> Typo, detail |-> <<"edge", ":", "f1">>]

\* NotesExplorer: two notes, one of which has the word, and the links that are
\* followed.
Link(words, kind, note_) == [q |-> words, type |-> kind, addr |-> note_]
AllLinks == {Link("", "all", n1), Link("word", "other", n1)}

\* AuditExplorer: two events of two users, one on a page.
Actors == 1 :> u1 @@ 2 :> u2
Kinds == 1 :> "auth" @@ 2 :> "upload"
Address(user, event) ==
  [filters |-> [type |-> "all", user |-> user, since |-> NoTime, until |-> NoTime],
   event |-> event]
Deep == {Address(AnyUser, 1), Address(u2, 1)}

\* AccountPages: an administrator and another user, with a key each, and two more.
OldOwners == 11 :> u1 @@ 12 :> u2

\* UserAdmin: an administrator, one who left, and one who is not there yet.
User(admin, active, groups) ==
  [display_name |-> "email", is_admin |-> admin, is_active |-> active, groups |-> groups]
InitialUsers ==
  root :> User(TRUE, TRUE, <<g1>>) @@ gone :> User(TRUE, FALSE, <<>>) @@ none :> NoUser

\* LegacyFilter: five hosts in all, three satisfy the criterion.
FiveHosts == [W \in SUBSET {"a"} |-> IF W = {} THEN 5 ELSE 3]

\* LegacyCompare: five hosts, four satisfy the word.
FewerHosts == [W \in SUBSET {"a"} |-> IF W = {} THEN 5 ELSE 4]

\* LegacyFlow: two graphs that have a timeline and one that has none, and a display filter.
Time(s, n) == [start |-> s, len |-> n]
PlayedDatas ==
  {<<[id |-> "a", times |-> {Time(0, 1)}], [id |-> "b", times |-> {Time(1, 1)}]>>,
   <<[id |-> "c", times |-> {Time(0, 2)}], [id |-> "b", times |-> {Time(3, 1)}],
     [id |-> "a", times |-> {Time(1, 1)}]>>,
   <<[id |-> "c", times |-> {}], [id |-> "a", times |-> {}]>>}
Plain == [nodes |-> <<[label |-> None, of |-> "$in"]>>, edges |-> <<[label |-> None, of |-> "scbytes"]>>]

-----------------------------------------------------------------------------
(* The scenes.                                                              *)

FacetsAtOnce == INSTANCE FacetLoading WITH
       Queries <- {"q1", "q2"}, Facets <- 2, HasMap <- FALSE, Sequential <- FALSE,
       MayFail <- TRUE, MaxMoves <- 1
ASSUME FacetsAtOnceAssumption == FacetsAtOnce!FacetAssumption
FacetsInTurn == INSTANCE FacetLoading WITH
       Queries <- {"q1"}, Facets <- 2, HasMap <- TRUE, Sequential <- TRUE, MayFail <- TRUE,
       MaxMoves <- 0
ASSUME FacetsInTurnAssumption == FacetsInTurn!FacetAssumption
Sheets == INSTANCE RecordPages WITH
       Section <- "view", Docs <- ThreeHosts, Matches <- AllHosts, Links <- AnySheet,
       DefaultLimit <- 2, MaxResults <- 0, MayFail <- FALSE, MaxWrites <- 0
ASSUME SheetsAssumption == Sheets!PagesAssumption
FlowSection == INSTANCE FlowExplorer WITH
       Keystrokes <- {}, Pasted <- {<<"x">>, <<>>}, Offered <- NoOffer, MaxText <- 0,
       Clauses <- TwoClauses, Flows <- ThreeFlows, Known <- TwoFlows, Start <- Broken,
       MayFail <- TRUE, MaxMoves <- 2, MaxFlows <- 0
ASSUME FlowSectionAssumption == FlowSection!FlowAssumption
Panel == INSTANCE NotesPanel WITH
       Hosts <- {h1}, MaxWrites <- 2, MaxFailures <- 1, MaxLooks <- 1, OthersDelete <- TRUE
ASSUME PanelAssumption == Panel!PanelAssumption
NotesTab == INSTANCE NotesExplorer WITH
       Notes <- {n1, n2}, Matching <- {n1}, Limit <- 1, Links <- AllLinks, MaxMoves <- 1,
       MaxFailures <- 1, MaxWrites <- 1, OthersCreate <- FALSE
ASSUME NotesTabAssumption == NotesTab!ExplorerAssumption
EventsTab == INSTANCE AuditExplorer WITH
       Events <- {1, 2}, actor <- Actors, kind <- Kinds, Users <- {u1, u2}, Times <- {2},
       Me <- u1, IsAdmin <- FALSE, PageSize <- 1, Starts <- Deep, MaxMoves <- 2,
       MaxFailures <- 1
ASSUME EventsTabAssumption == EventsTab!ExplorerAssumption
Trail == INSTANCE AuditPages WITH
       Users <- {u1, u2}, Me <- u1, IsAdmin <- TRUE, AuthEnabled <- TRUE, PageSize <- 2,
       MaxResults <- 10, MaxEvents <- 1, MaxFailures <- 0, MaxFetches <- 2
ASSUME TrailAssumption == Trail!AuditAssumption
Account == INSTANCE AccountPages WITH
       Users <- {u1, u2}, Admins <- {u1}, Requests <- {1, 2}, OldKeys <- {11, 12},
       oldOwner <- OldOwners, OtherTab <- FALSE, MaxMoves <- 3, MaxFailures <- 0
ASSUME AccountAssumption == Account!AccountAssumption
Admin == INSTANCE UserAdmin WITH
       Emails <- {root, gone, none}, Me <- root, Names <- {"nick", ""}, GroupNames <- {g1},
       InitUsers <- InitialUsers, OtherAdmin <- FALSE, MaxMoves <- 2, MaxOther <- 0,
       MaxFailures <- 0
ASSUME AdminAssumption == Admin!AdminAssumption
Plays == INSTANCE LegacyFlow WITH
       Datas <- PlayedDatas, Formats <- {Plain}, Limit <- 1, MaxFilters <- 0, MaxSkip <- 0,
       MaxPast <- 2, MaxSends <- 2, MaxClicks <- 0, MaxPlays <- 2
ASSUME PlaysAssumption == Plays!FlowPageAssumption

\* The variables a page does not have.
OnlyFacetLoading ==
  /\ db = Absent /\ url = Absent /\ cache = Absent /\ writes = Absent
  /\ picked = Absent /\ walked = Absent /\ flows = Absent /\ history = Absent
  /\ at = Absent /\ shown = Absent /\ draft = Absent /\ canvas = Absent
  /\ edited = Absent /\ hasty = Absent /\ text = Absent /\ applied = Absent
  /\ tapped = Absent /\ note = Absent /\ dirty = Absent /\ failed = Absent
  /\ fetch = Absent /\ editing = Absent /\ editor = Absent /\ deleting = Absent
  /\ calls = Absent /\ opened = Absent /\ log = Absent /\ logDirty = Absent
  /\ look = Absent /\ failures = Absent /\ looks = Absent /\ clock = Absent
  /\ own = Absent /\ heard = Absent /\ past = Absent /\ searchInput = Absent
  /\ alive = Absent /\ list = Absent /\ listFailed = Absent /\ listAsked = Absent
  /\ lookFailed = Absent /\ lookAsked = Absent /\ told = Absent /\ wanted = Absent
  /\ raced = Absent /\ userInput = Absent /\ more = Absent /\ trail = Absent
  /\ purged = Absent /\ me = Absent /\ pages = Absent /\ count = Absent
  /\ countAsked = Absent /\ fetches = Absent /\ session = Absent /\ keys = Absent
  /\ owner = Absent /\ meAsked = Absent /\ page = Absent /\ data = Absent
  /\ stale = Absent /\ request = Absent /\ create = Absent /\ listening = Absent
  /\ createdKey = Absent /\ delete = Absent /\ signingOut = Absent
  /\ revoked = Absent /\ users = Absent /\ put = Absent /\ last = Absent
  /\ form = Absent /\ older = Absent /\ others = Absent /\ touched = Absent
  /\ ready = Absent /\ requests = Absent /\ sent = Absent /\ found = Absent
  /\ dated = Absent /\ visible = Absent /\ hovered = Absent /\ playing = Absent
  /\ chains = Absent /\ plays = Absent /\ clicked = Absent /\ details = Absent
  /\ format = Absent
notFacetLoading ==
  <<db, url, cache, writes, picked, walked, flows, history, at, shown, draft, canvas,
    edited, hasty, text, applied, tapped, note, dirty, failed, fetch, editing, editor,
    deleting, calls, opened, log, logDirty, look, failures, looks, clock, own, heard,
    past, searchInput, alive, list, listFailed, listAsked, lookFailed, lookAsked, told,
    wanted, raced, userInput, more, trail, purged, me, pages, count, countAsked,
    fetches, session, keys, owner, meAsked, page, data, stale, request, create,
    listening, createdKey, delete, signingOut, revoked, users, put, last, form, older,
    others, touched, ready, requests, sent, found, dated, visible, hovered, playing,
    chains, plays, clicked, details, format>>
OnlyRecordPages ==
  /\ query = Absent /\ present = Absent /\ status = Absent /\ expanded = Absent
  /\ loadedCount = Absent /\ seen = Absent /\ cycle = Absent /\ observed = Absent
  /\ moves = Absent /\ flows = Absent /\ history = Absent /\ at = Absent
  /\ shown = Absent /\ draft = Absent /\ canvas = Absent /\ edited = Absent
  /\ hasty = Absent /\ text = Absent /\ applied = Absent /\ tapped = Absent
  /\ note = Absent /\ dirty = Absent /\ failed = Absent /\ fetch = Absent
  /\ editing = Absent /\ editor = Absent /\ deleting = Absent /\ calls = Absent
  /\ opened = Absent /\ log = Absent /\ logDirty = Absent /\ look = Absent
  /\ failures = Absent /\ looks = Absent /\ clock = Absent /\ own = Absent
  /\ heard = Absent /\ past = Absent /\ searchInput = Absent /\ alive = Absent
  /\ list = Absent /\ listFailed = Absent /\ listAsked = Absent
  /\ lookFailed = Absent /\ lookAsked = Absent /\ told = Absent /\ wanted = Absent
  /\ raced = Absent /\ userInput = Absent /\ more = Absent /\ trail = Absent
  /\ purged = Absent /\ me = Absent /\ pages = Absent /\ count = Absent
  /\ countAsked = Absent /\ fetches = Absent /\ session = Absent /\ keys = Absent
  /\ owner = Absent /\ meAsked = Absent /\ page = Absent /\ data = Absent
  /\ stale = Absent /\ request = Absent /\ create = Absent /\ listening = Absent
  /\ createdKey = Absent /\ delete = Absent /\ signingOut = Absent
  /\ revoked = Absent /\ users = Absent /\ put = Absent /\ last = Absent
  /\ form = Absent /\ older = Absent /\ others = Absent /\ touched = Absent
  /\ ready = Absent /\ requests = Absent /\ sent = Absent /\ found = Absent
  /\ dated = Absent /\ visible = Absent /\ hovered = Absent /\ playing = Absent
  /\ chains = Absent /\ plays = Absent /\ clicked = Absent /\ details = Absent
  /\ format = Absent
notRecordPages ==
  <<query, present, status, expanded, loadedCount, seen, cycle, observed, moves, flows,
    history, at, shown, draft, canvas, edited, hasty, text, applied, tapped, note,
    dirty, failed, fetch, editing, editor, deleting, calls, opened, log, logDirty, look,
    failures, looks, clock, own, heard, past, searchInput, alive, list, listFailed,
    listAsked, lookFailed, lookAsked, told, wanted, raced, userInput, more, trail,
    purged, me, pages, count, countAsked, fetches, session, keys, owner, meAsked, page,
    data, stale, request, create, listening, createdKey, delete, signingOut, revoked,
    users, put, last, form, older, others, touched, ready, requests, sent, found, dated,
    visible, hovered, playing, chains, plays, clicked, details, format>>
OnlyFlowExplorer ==
  /\ query = Absent /\ present = Absent /\ status = Absent /\ flight = Absent
  /\ expanded = Absent /\ loadedCount = Absent /\ seen = Absent /\ cycle = Absent
  /\ observed = Absent /\ db = Absent /\ url = Absent /\ writes = Absent
  /\ picked = Absent /\ walked = Absent /\ note = Absent /\ dirty = Absent
  /\ failed = Absent /\ fetch = Absent /\ editing = Absent /\ editor = Absent
  /\ deleting = Absent /\ calls = Absent /\ opened = Absent /\ log = Absent
  /\ logDirty = Absent /\ look = Absent /\ failures = Absent /\ looks = Absent
  /\ clock = Absent /\ own = Absent /\ heard = Absent /\ past = Absent
  /\ searchInput = Absent /\ alive = Absent /\ list = Absent /\ listFailed = Absent
  /\ listAsked = Absent /\ lookFailed = Absent /\ lookAsked = Absent
  /\ told = Absent /\ wanted = Absent /\ raced = Absent /\ userInput = Absent
  /\ more = Absent /\ trail = Absent /\ purged = Absent /\ me = Absent
  /\ pages = Absent /\ count = Absent /\ countAsked = Absent /\ fetches = Absent
  /\ session = Absent /\ keys = Absent /\ owner = Absent /\ meAsked = Absent
  /\ page = Absent /\ data = Absent /\ stale = Absent /\ request = Absent
  /\ create = Absent /\ listening = Absent /\ createdKey = Absent /\ delete = Absent
  /\ signingOut = Absent /\ revoked = Absent /\ users = Absent /\ put = Absent
  /\ last = Absent /\ form = Absent /\ older = Absent /\ others = Absent
  /\ touched = Absent /\ ready = Absent /\ requests = Absent /\ sent = Absent
  /\ found = Absent /\ dated = Absent /\ visible = Absent /\ hovered = Absent
  /\ playing = Absent /\ chains = Absent /\ plays = Absent /\ clicked = Absent
  /\ details = Absent /\ format = Absent
notFlowExplorer ==
  <<query, present, status, flight, expanded, loadedCount, seen, cycle, observed, db, url,
    writes, picked, walked, note, dirty, failed, fetch, editing, editor, deleting,
    calls, opened, log, logDirty, look, failures, looks, clock, own, heard, past,
    searchInput, alive, list, listFailed, listAsked, lookFailed, lookAsked, told,
    wanted, raced, userInput, more, trail, purged, me, pages, count, countAsked,
    fetches, session, keys, owner, meAsked, page, data, stale, request, create,
    listening, createdKey, delete, signingOut, revoked, users, put, last, form, older,
    others, touched, ready, requests, sent, found, dated, visible, hovered, playing,
    chains, plays, clicked, details, format>>
OnlyNotesPanel ==
  /\ query = Absent /\ present = Absent /\ status = Absent /\ flight = Absent
  /\ expanded = Absent /\ loadedCount = Absent /\ seen = Absent /\ cycle = Absent
  /\ observed = Absent /\ moves = Absent /\ db = Absent /\ url = Absent
  /\ picked = Absent /\ walked = Absent /\ flows = Absent /\ history = Absent
  /\ shown = Absent /\ draft = Absent /\ canvas = Absent /\ edited = Absent
  /\ hasty = Absent /\ text = Absent /\ applied = Absent /\ tapped = Absent
  /\ past = Absent /\ searchInput = Absent /\ alive = Absent /\ list = Absent
  /\ listFailed = Absent /\ listAsked = Absent /\ lookFailed = Absent
  /\ lookAsked = Absent /\ told = Absent /\ wanted = Absent /\ raced = Absent
  /\ userInput = Absent /\ more = Absent /\ trail = Absent /\ purged = Absent
  /\ me = Absent /\ pages = Absent /\ count = Absent /\ countAsked = Absent
  /\ fetches = Absent /\ session = Absent /\ keys = Absent /\ owner = Absent
  /\ meAsked = Absent /\ page = Absent /\ data = Absent /\ stale = Absent
  /\ request = Absent /\ create = Absent /\ listening = Absent
  /\ createdKey = Absent /\ delete = Absent /\ signingOut = Absent
  /\ revoked = Absent /\ users = Absent /\ put = Absent /\ last = Absent
  /\ form = Absent /\ older = Absent /\ others = Absent /\ touched = Absent
  /\ ready = Absent /\ requests = Absent /\ sent = Absent /\ found = Absent
  /\ dated = Absent /\ visible = Absent /\ hovered = Absent /\ playing = Absent
  /\ chains = Absent /\ plays = Absent /\ clicked = Absent /\ details = Absent
  /\ format = Absent
notNotesPanel ==
  <<query, present, status, flight, expanded, loadedCount, seen, cycle, observed, moves, db,
    url, picked, walked, flows, history, shown, draft, canvas, edited, hasty, text,
    applied, tapped, past, searchInput, alive, list, listFailed, listAsked, lookFailed,
    lookAsked, told, wanted, raced, userInput, more, trail, purged, me, pages, count,
    countAsked, fetches, session, keys, owner, meAsked, page, data, stale, request,
    create, listening, createdKey, delete, signingOut, revoked, users, put, last, form,
    older, others, touched, ready, requests, sent, found, dated, visible, hovered,
    playing, chains, plays, clicked, details, format>>
OnlyNotesExplorer ==
  /\ query = Absent /\ present = Absent /\ status = Absent /\ flight = Absent
  /\ expanded = Absent /\ loadedCount = Absent /\ seen = Absent /\ cycle = Absent
  /\ observed = Absent /\ db = Absent /\ cache = Absent /\ picked = Absent
  /\ walked = Absent /\ flows = Absent /\ history = Absent /\ at = Absent
  /\ draft = Absent /\ canvas = Absent /\ edited = Absent /\ hasty = Absent
  /\ text = Absent /\ applied = Absent /\ tapped = Absent /\ note = Absent
  /\ dirty = Absent /\ failed = Absent /\ fetch = Absent /\ editing = Absent
  /\ editor = Absent /\ deleting = Absent /\ calls = Absent /\ opened = Absent
  /\ log = Absent /\ logDirty = Absent /\ looks = Absent /\ clock = Absent
  /\ own = Absent /\ heard = Absent /\ userInput = Absent /\ more = Absent
  /\ trail = Absent /\ purged = Absent /\ me = Absent /\ pages = Absent
  /\ count = Absent /\ countAsked = Absent /\ fetches = Absent /\ session = Absent
  /\ keys = Absent /\ owner = Absent /\ meAsked = Absent /\ page = Absent
  /\ data = Absent /\ stale = Absent /\ request = Absent /\ create = Absent
  /\ listening = Absent /\ createdKey = Absent /\ delete = Absent
  /\ signingOut = Absent /\ revoked = Absent /\ users = Absent /\ put = Absent
  /\ last = Absent /\ form = Absent /\ older = Absent /\ others = Absent
  /\ touched = Absent /\ ready = Absent /\ requests = Absent /\ sent = Absent
  /\ found = Absent /\ dated = Absent /\ visible = Absent /\ hovered = Absent
  /\ playing = Absent /\ chains = Absent /\ plays = Absent /\ clicked = Absent
  /\ details = Absent /\ format = Absent
notNotesExplorer ==
  <<query, present, status, flight, expanded, loadedCount, seen, cycle, observed, db, cache,
    picked, walked, flows, history, at, draft, canvas, edited, hasty, text, applied,
    tapped, note, dirty, failed, fetch, editing, editor, deleting, calls, opened, log,
    logDirty, looks, clock, own, heard, userInput, more, trail, purged, me, pages,
    count, countAsked, fetches, session, keys, owner, meAsked, page, data, stale,
    request, create, listening, createdKey, delete, signingOut, revoked, users, put,
    last, form, older, others, touched, ready, requests, sent, found, dated, visible,
    hovered, playing, chains, plays, clicked, details, format>>
OnlyAuditExplorer ==
  /\ query = Absent /\ present = Absent /\ status = Absent /\ flight = Absent
  /\ expanded = Absent /\ loadedCount = Absent /\ seen = Absent /\ cycle = Absent
  /\ observed = Absent /\ db = Absent /\ cache = Absent /\ writes = Absent
  /\ picked = Absent /\ walked = Absent /\ flows = Absent /\ history = Absent
  /\ at = Absent /\ draft = Absent /\ canvas = Absent /\ edited = Absent
  /\ hasty = Absent /\ text = Absent /\ applied = Absent /\ tapped = Absent
  /\ note = Absent /\ dirty = Absent /\ failed = Absent /\ fetch = Absent
  /\ editing = Absent /\ editor = Absent /\ deleting = Absent /\ calls = Absent
  /\ opened = Absent /\ log = Absent /\ logDirty = Absent /\ looks = Absent
  /\ clock = Absent /\ own = Absent /\ heard = Absent /\ searchInput = Absent
  /\ alive = Absent /\ told = Absent /\ trail = Absent /\ purged = Absent
  /\ me = Absent /\ pages = Absent /\ count = Absent /\ countAsked = Absent
  /\ fetches = Absent /\ session = Absent /\ keys = Absent /\ owner = Absent
  /\ meAsked = Absent /\ page = Absent /\ data = Absent /\ stale = Absent
  /\ request = Absent /\ create = Absent /\ listening = Absent
  /\ createdKey = Absent /\ delete = Absent /\ signingOut = Absent
  /\ revoked = Absent /\ users = Absent /\ put = Absent /\ last = Absent
  /\ form = Absent /\ older = Absent /\ others = Absent /\ touched = Absent
  /\ ready = Absent /\ requests = Absent /\ sent = Absent /\ found = Absent
  /\ dated = Absent /\ visible = Absent /\ hovered = Absent /\ playing = Absent
  /\ chains = Absent /\ plays = Absent /\ clicked = Absent /\ details = Absent
  /\ format = Absent
notAuditExplorer ==
  <<query, present, status, flight, expanded, loadedCount, seen, cycle, observed, db, cache,
    writes, picked, walked, flows, history, at, draft, canvas, edited, hasty, text,
    applied, tapped, note, dirty, failed, fetch, editing, editor, deleting, calls,
    opened, log, logDirty, looks, clock, own, heard, searchInput, alive, told, trail,
    purged, me, pages, count, countAsked, fetches, session, keys, owner, meAsked, page,
    data, stale, request, create, listening, createdKey, delete, signingOut, revoked,
    users, put, last, form, older, others, touched, ready, requests, sent, found, dated,
    visible, hovered, playing, chains, plays, clicked, details, format>>
OnlyAuditPages ==
  /\ query = Absent /\ present = Absent /\ status = Absent /\ flight = Absent
  /\ expanded = Absent /\ loadedCount = Absent /\ seen = Absent /\ cycle = Absent
  /\ observed = Absent /\ moves = Absent /\ db = Absent /\ url = Absent
  /\ cache = Absent /\ writes = Absent /\ picked = Absent /\ walked = Absent
  /\ flows = Absent /\ history = Absent /\ at = Absent /\ shown = Absent
  /\ canvas = Absent /\ edited = Absent /\ hasty = Absent /\ text = Absent
  /\ tapped = Absent /\ note = Absent /\ dirty = Absent /\ editing = Absent
  /\ editor = Absent /\ deleting = Absent /\ calls = Absent /\ opened = Absent
  /\ log = Absent /\ logDirty = Absent /\ look = Absent /\ looks = Absent
  /\ clock = Absent /\ own = Absent /\ heard = Absent /\ past = Absent
  /\ searchInput = Absent /\ alive = Absent /\ list = Absent /\ listFailed = Absent
  /\ listAsked = Absent /\ lookFailed = Absent /\ lookAsked = Absent
  /\ told = Absent /\ wanted = Absent /\ raced = Absent /\ userInput = Absent
  /\ more = Absent /\ session = Absent /\ keys = Absent /\ owner = Absent
  /\ meAsked = Absent /\ page = Absent /\ data = Absent /\ stale = Absent
  /\ request = Absent /\ create = Absent /\ listening = Absent
  /\ createdKey = Absent /\ delete = Absent /\ signingOut = Absent
  /\ revoked = Absent /\ users = Absent /\ put = Absent /\ last = Absent
  /\ form = Absent /\ older = Absent /\ others = Absent /\ touched = Absent
  /\ ready = Absent /\ requests = Absent /\ sent = Absent /\ found = Absent
  /\ dated = Absent /\ visible = Absent /\ hovered = Absent /\ playing = Absent
  /\ chains = Absent /\ plays = Absent /\ clicked = Absent /\ details = Absent
  /\ format = Absent
notAuditPages ==
  <<query, present, status, flight, expanded, loadedCount, seen, cycle, observed, moves, db,
    url, cache, writes, picked, walked, flows, history, at, shown, canvas, edited,
    hasty, text, tapped, note, dirty, editing, editor, deleting, calls, opened, log,
    logDirty, look, looks, clock, own, heard, past, searchInput, alive, list,
    listFailed, listAsked, lookFailed, lookAsked, told, wanted, raced, userInput, more,
    session, keys, owner, meAsked, page, data, stale, request, create, listening,
    createdKey, delete, signingOut, revoked, users, put, last, form, older, others,
    touched, ready, requests, sent, found, dated, visible, hovered, playing, chains,
    plays, clicked, details, format>>
OnlyAccountPages ==
  /\ query = Absent /\ present = Absent /\ status = Absent /\ flight = Absent
  /\ expanded = Absent /\ loadedCount = Absent /\ seen = Absent /\ cycle = Absent
  /\ observed = Absent /\ db = Absent /\ url = Absent /\ cache = Absent
  /\ writes = Absent /\ picked = Absent /\ walked = Absent /\ flows = Absent
  /\ history = Absent /\ at = Absent /\ shown = Absent /\ draft = Absent
  /\ canvas = Absent /\ edited = Absent /\ hasty = Absent /\ text = Absent
  /\ applied = Absent /\ tapped = Absent /\ note = Absent /\ dirty = Absent
  /\ fetch = Absent /\ editing = Absent /\ editor = Absent /\ deleting = Absent
  /\ calls = Absent /\ opened = Absent /\ log = Absent /\ logDirty = Absent
  /\ look = Absent /\ looks = Absent /\ clock = Absent /\ own = Absent
  /\ heard = Absent /\ past = Absent /\ searchInput = Absent /\ alive = Absent
  /\ list = Absent /\ listFailed = Absent /\ listAsked = Absent
  /\ lookFailed = Absent /\ lookAsked = Absent /\ told = Absent /\ wanted = Absent
  /\ raced = Absent /\ userInput = Absent /\ more = Absent /\ trail = Absent
  /\ purged = Absent /\ pages = Absent /\ count = Absent /\ countAsked = Absent
  /\ fetches = Absent /\ users = Absent /\ put = Absent /\ last = Absent
  /\ form = Absent /\ older = Absent /\ others = Absent /\ touched = Absent
  /\ ready = Absent /\ requests = Absent /\ sent = Absent /\ found = Absent
  /\ dated = Absent /\ visible = Absent /\ hovered = Absent /\ playing = Absent
  /\ chains = Absent /\ plays = Absent /\ clicked = Absent /\ details = Absent
  /\ format = Absent
notAccountPages ==
  <<query, present, status, flight, expanded, loadedCount, seen, cycle, observed, db, url,
    cache, writes, picked, walked, flows, history, at, shown, draft, canvas, edited,
    hasty, text, applied, tapped, note, dirty, fetch, editing, editor, deleting, calls,
    opened, log, logDirty, look, looks, clock, own, heard, past, searchInput, alive,
    list, listFailed, listAsked, lookFailed, lookAsked, told, wanted, raced, userInput,
    more, trail, purged, pages, count, countAsked, fetches, users, put, last, form,
    older, others, touched, ready, requests, sent, found, dated, visible, hovered,
    playing, chains, plays, clicked, details, format>>
OnlyUserAdmin ==
  /\ query = Absent /\ present = Absent /\ status = Absent /\ flight = Absent
  /\ expanded = Absent /\ loadedCount = Absent /\ seen = Absent /\ cycle = Absent
  /\ observed = Absent /\ db = Absent /\ url = Absent /\ cache = Absent
  /\ writes = Absent /\ picked = Absent /\ walked = Absent /\ flows = Absent
  /\ history = Absent /\ at = Absent /\ shown = Absent /\ draft = Absent
  /\ canvas = Absent /\ edited = Absent /\ hasty = Absent /\ text = Absent
  /\ applied = Absent /\ tapped = Absent /\ note = Absent /\ dirty = Absent
  /\ fetch = Absent /\ editor = Absent /\ deleting = Absent /\ calls = Absent
  /\ opened = Absent /\ log = Absent /\ logDirty = Absent /\ look = Absent
  /\ looks = Absent /\ clock = Absent /\ own = Absent /\ heard = Absent
  /\ past = Absent /\ searchInput = Absent /\ alive = Absent /\ list = Absent
  /\ listFailed = Absent /\ listAsked = Absent /\ lookFailed = Absent
  /\ lookAsked = Absent /\ wanted = Absent /\ raced = Absent /\ userInput = Absent
  /\ more = Absent /\ trail = Absent /\ purged = Absent /\ me = Absent
  /\ pages = Absent /\ count = Absent /\ countAsked = Absent /\ fetches = Absent
  /\ session = Absent /\ keys = Absent /\ owner = Absent /\ meAsked = Absent
  /\ page = Absent /\ stale = Absent /\ create = Absent /\ listening = Absent
  /\ createdKey = Absent /\ delete = Absent /\ signingOut = Absent
  /\ revoked = Absent /\ ready = Absent /\ requests = Absent /\ sent = Absent
  /\ found = Absent /\ dated = Absent /\ visible = Absent /\ hovered = Absent
  /\ playing = Absent /\ chains = Absent /\ plays = Absent /\ clicked = Absent
  /\ details = Absent /\ format = Absent
notUserAdmin ==
  <<query, present, status, flight, expanded, loadedCount, seen, cycle, observed, db, url,
    cache, writes, picked, walked, flows, history, at, shown, draft, canvas, edited,
    hasty, text, applied, tapped, note, dirty, fetch, editor, deleting, calls, opened,
    log, logDirty, look, looks, clock, own, heard, past, searchInput, alive, list,
    listFailed, listAsked, lookFailed, lookAsked, wanted, raced, userInput, more, trail,
    purged, me, pages, count, countAsked, fetches, session, keys, owner, meAsked, page,
    stale, create, listening, createdKey, delete, signingOut, revoked, ready, requests,
    sent, found, dated, visible, hovered, playing, chains, plays, clicked, details,
    format>>
OnlyLegacyFlow ==
  /\ present = Absent /\ status = Absent /\ flight = Absent /\ expanded = Absent
  /\ loadedCount = Absent /\ seen = Absent /\ cycle = Absent /\ observed = Absent
  /\ moves = Absent /\ db = Absent /\ cache = Absent /\ writes = Absent
  /\ picked = Absent /\ walked = Absent /\ flows = Absent /\ history = Absent
  /\ at = Absent /\ draft = Absent /\ canvas = Absent /\ edited = Absent
  /\ hasty = Absent /\ text = Absent /\ applied = Absent /\ tapped = Absent
  /\ note = Absent /\ dirty = Absent /\ failed = Absent /\ fetch = Absent
  /\ editing = Absent /\ editor = Absent /\ deleting = Absent /\ calls = Absent
  /\ opened = Absent /\ log = Absent /\ logDirty = Absent /\ look = Absent
  /\ failures = Absent /\ looks = Absent /\ clock = Absent /\ own = Absent
  /\ heard = Absent /\ searchInput = Absent /\ alive = Absent /\ list = Absent
  /\ listFailed = Absent /\ listAsked = Absent /\ lookFailed = Absent
  /\ lookAsked = Absent /\ told = Absent /\ wanted = Absent /\ raced = Absent
  /\ userInput = Absent /\ more = Absent /\ trail = Absent /\ purged = Absent
  /\ me = Absent /\ pages = Absent /\ count = Absent /\ countAsked = Absent
  /\ fetches = Absent /\ session = Absent /\ keys = Absent /\ owner = Absent
  /\ meAsked = Absent /\ page = Absent /\ data = Absent /\ stale = Absent
  /\ request = Absent /\ create = Absent /\ listening = Absent
  /\ createdKey = Absent /\ delete = Absent /\ signingOut = Absent
  /\ revoked = Absent /\ users = Absent /\ put = Absent /\ last = Absent
  /\ form = Absent /\ older = Absent /\ others = Absent /\ touched = Absent
notLegacyFlow ==
  <<present, status, flight, expanded, loadedCount, seen, cycle, observed, moves, db, cache,
    writes, picked, walked, flows, history, at, draft, canvas, edited, hasty, text,
    applied, tapped, note, dirty, failed, fetch, editing, editor, deleting, calls,
    opened, log, logDirty, look, failures, looks, clock, own, heard, searchInput, alive,
    list, listFailed, listAsked, lookFailed, lookAsked, told, wanted, raced, userInput,
    more, trail, purged, me, pages, count, countAsked, fetches, session, keys, owner,
    meAsked, page, data, stale, request, create, listening, createdKey, delete,
    signingOut, revoked, users, put, last, form, older, others, touched>>

Init ==
  \/ scene = "facets" /\ FacetsAtOnce!Init /\ OnlyFacetLoading
  \/ scene = "sequence" /\ FacetsInTurn!Init /\ OnlyFacetLoading
  \/ scene = "sheets" /\ Sheets!Init /\ OnlyRecordPages
  \/ scene = "flow" /\ FlowSection!Init /\ OnlyFlowExplorer
  \/ scene = "panel" /\ Panel!Init /\ OnlyNotesPanel
  \/ scene = "notes" /\ NotesTab!Init /\ OnlyNotesExplorer
  \/ scene = "events" /\ EventsTab!Init /\ OnlyAuditExplorer
  \/ scene = "trail" /\ Trail!Init /\ OnlyAuditPages
  \/ scene = "account" /\ Account!Init /\ OnlyAccountPages
  \/ scene = "users" /\ Admin!Init /\ OnlyUserAdmin
  \/ scene = "plays" /\ Plays!Init /\ OnlyLegacyFlow

Next ==
  /\ UNCHANGED scene
  /\ \/ scene = "facets" /\ FacetsAtOnce!Next /\ UNCHANGED notFacetLoading
     \/ scene = "sequence" /\ FacetsInTurn!Next /\ UNCHANGED notFacetLoading
     \/ scene = "sheets" /\ Sheets!Next /\ UNCHANGED notRecordPages
     \/ scene = "flow" /\ FlowSection!Next /\ UNCHANGED notFlowExplorer
     \/ scene = "panel" /\ Panel!Next /\ UNCHANGED notNotesPanel
     \/ scene = "notes" /\ NotesTab!Next /\ UNCHANGED notNotesExplorer
     \/ scene = "events" /\ EventsTab!Next /\ UNCHANGED notAuditExplorer
     \/ scene = "trail" /\ Trail!Next /\ UNCHANGED notAuditPages
     \/ scene = "account" /\ Account!Next /\ UNCHANGED notAccountPages
     \/ scene = "users" /\ Admin!Next /\ UNCHANGED notUserAdmin
     \/ scene = "plays" /\ Plays!Next /\ UNCHANGED notLegacyFlow

-----------------------------------------------------------------------------
\* React renders what changed, timers fire and requests are answered; nobody has to type,
\* click or write.
Fairness ==
  \* React renders what changed.
  /\ WF_(FacetsAtOnce!vars)(scene = "facets" /\ FacetsAtOnce!Commit)
  /\ WF_(FacetsInTurn!vars)(scene = "sequence" /\ FacetsInTurn!Commit)
  /\ WF_(FlowSection!vars)(scene = "flow" /\ FlowSection!Rerender)
  /\ WF_(NotesTab!vars)(scene = "notes" /\ NotesTab!Render)
  /\ WF_(EventsTab!vars)(scene = "events" /\ EventsTab!Render)
  \* Timers fire.
  /\ WF_(NotesTab!vars)(scene = "notes" /\ NotesTab!Debounce)
  /\ WF_(EventsTab!vars)(scene = "events" /\ EventsTab!Debounce)
  /\ WF_(Plays!vars)(scene = "plays" /\ \E c \in chains : Plays!Timer(c))
  \* Requests are answered.
  /\ WF_(FlowSection!vars)(scene = "flow" /\ FlowSection!Serve)
  /\ WF_(FlowSection!vars)(scene = "flow" /\ FlowSection!Receive)
  /\ WF_(Panel!vars)(scene = "panel" /\ Panel!ServeFetch)
  /\ WF_(Panel!vars)(scene = "panel" /\ Panel!fetchHostNote)
  /\ WF_(NotesTab!vars)(scene = "notes" /\ NotesTab!ListAnswer)
  /\ WF_(NotesTab!vars)(scene = "notes" /\ NotesTab!LookAnswer)
  /\ WF_(EventsTab!vars)(scene = "events" /\ EventsTab!fetchAuditEvents)
  /\ WF_(EventsTab!vars)(scene = "events" /\ EventsTab!fetchAuditEvent)
  /\ WF_(Trail!vars)(scene = "trail" /\ Trail!AuthMe)
  /\ WF_(Trail!vars)(scene = "trail" /\ Trail!fetchAuditEvents)
  /\ WF_(Account!vars)(scene = "account" /\ Account!Answers)
  /\ WF_(Admin!vars)(scene = "users" /\ Admin!Answers)
  /\ \A k \in FacetsAtOnce!Keys : WF_(FacetsAtOnce!vars)(scene = "facets" /\ FacetsAtOnce!Answer(k))
  /\ \A k \in FacetsInTurn!Keys : WF_(FacetsInTurn!vars)(scene = "sequence" /\ FacetsInTurn!Answer(k))
  /\ \A k \in {<<"count", "all">>} \cup {<<"direct", a>> : a \in {"a", "b", "c"}} :
       WF_(Sheets!vars)(scene = "sheets" /\ Sheets!Answer(k))
  /\ WF_(Sheets!vars)(scene = "sheets" /\ \E k \in flight : Sheets!Answer(k))

Spec == Init /\ [][Next]_vars /\ Fairness

(* The properties.                                                          *)

\* Every facet of the query gets its values or an error, unless the query changes or
\* the user leaves; the sheet of a host that exists opens, on the page or off it; and
\* the page of the flows ends as that of its address (FacetSidebar.tsx, host-list.tsx,
\* flow.tsx).
ListsSettle ==
  /\ \A q1 \in {"q1", "q2"}, i \in 0..1 :
       (scene = "facets" /\ FacetsAtOnce!FacetWanted(q1)) ~> (scene = "facets" /\ FacetsAtOnce!FacetGiven(i, q1))
  /\ \A i \in 0..1 :
       (scene = "sequence" /\ FacetsInTurn!FacetWanted("q1"))
         ~> (scene = "sequence" /\ FacetsInTurn!FacetGiven(i, "q1"))
  /\ \A host \in ThreeHosts :
       (scene = "sheets" /\ Sheets!SheetAsked(host)) ~> (scene = "sheets" /\ Sheets!SheetGiven(host))
  /\ <>[](scene = "flow" => FlowSection!PageSettled)

\* A link to a note, or to an event, ends with the sheet open, with an error or without
\* the link; the box, the address and the page end with the same text; a panel does not
\* stay loading, and the lists of keys and of users end as those of the server
\* (notes.tsx, audit.tsx, AuditEventsPanel.tsx, api-keys.tsx, AdminUsersPanel.tsx).
DeskSettles ==
  /\ \A n \in {n1, n2} :
       (scene = "notes" /\ NotesTab!NoteLinked(n)) ~> (scene = "notes" /\ NotesTab!NoteLinkSettled(n))
  /\ \A e \in {1, 2} :
       (scene = "events" /\ EventsTab!EventLinked(e))
         ~> (scene = "events" /\ EventsTab!EventLinkSettled(e))
  /\ (scene = "trail" /\ Trail!WaitsForEvents) ~> (scene = "trail" /\ ~Trail!isLoading)
  /\ <>[](/\ scene = "notes" => NotesTab!SearchSettled
          /\ scene = "events" => EventsTab!FilterSettled
          /\ scene = "account" => Account!ListSettled
          /\ scene = "users" => Admin!ListSettled)

\* A save or a deletion that the panel of a note was told of is shown in the end, unless
\* the sheet goes to another host or the fetch fails (HostNotesPanel.tsx).
SavesAreShown ==
  \A w \in 1..2 :
    (scene = "panel" /\ Panel!ToldOfSave(h1, w)) ~> (scene = "panel" /\ Panel!SaveShown(h1, w))

\* A play of the timeline comes to its end, unless a graph that has no times arrives while
\* it is played: its timeline is not drawn and the dates of the former one are kept, so
\* that the frame of a flow that is gone fails, no other is asked for and the page is left
\* playing until it is stopped (flow/controllers.js:539-543, :741-743, :780-800).
PlayEnds ==
  (scene = "plays" /\ playing /\ chains # {})
    ~> (scene = "plays" /\ (~playing \/ (chains = {} /\ ~Plays!HasTimeline(shown.data))))
=============================================================================
