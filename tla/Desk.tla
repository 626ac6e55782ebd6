---------- MODULE Desk -------------------------------------------------------
(***************************************************************************)
(* The pages of the web interface a user works with, together: the panel of *)
(* the note of a host (NotesPanel) and the tab of all the notes             *)
(* (NotesExplorer), the audit trail as a list (AuditPages) and as an        *)
(* explorer (AuditExplorer), the keys of an account (AccountPages), the     *)
(* users (UserAdmin) and, of the classic interface, the filter of hosts     *)
(* (LegacyFilter) and the comparison of two (LegacyCompare).                *)
(*                                                                          *)
(* One page is mounted in a tab and its state goes with it: the scene that  *)
(* is chosen at the start says which.  What a scene is given is a record of *)
(* the constants of its page, so that what is proved of the scenes is       *)
(* proved for all data.                                                     *)
(***************************************************************************)
EXTENDS Naturals, Sequences

CONSTANTS
  Scenes,      \* those that may be chosen
  Absent,      \* the value of the variables a scene does not have
  looking,     \* the note of a host, and of the next one
  staying,     \* the note of one host
  searching,   \* the notes, searched
  creating,    \* the same, while others write
  reading,     \* the events, read by an administrator
  following,   \* links to events, followed by a user
  auditing,    \* the trail of everyone
  reviewing,   \* the trail of the reader
  owning,      \* the keys of an account, in one tab
  sharing,     \* the same, with another tab
  managing,    \* the users, with one administrator
  competing,   \* the same, with two
  browsing,    \* the classic page of a filter
  comparing,   \* two sets of hosts, asked together
  returning,   \* the same, one after the other
  \* What the pages have where there is nothing yet, or no more.
  None, NoData, Sent, Refused, Closed, NoEditor, Idle, Asked, NoNote, AnyUser, NoTime,
  NoEvent, NoUser, NoFetch, Nobody, NoSkip, NaN, Undefined

VARIABLES scene,
          note, at, cache, dirty, failed, fetch, editing, editor, deleting, calls, opened, log,
          logDirty, look, writes, failures, looks, clock, own, heard, url, shown, past,
          searchInput, alive, list, listFailed, listAsked, lookFailed, lookAsked, told,
          moves, wanted, raced, userInput, more, trail, purged, me, draft, applied,
          pages, count, countAsked, fetches, session, keys, owner, meAsked, page, data,
          stale, request, create, listening, createdKey, delete, signingOut, revoked,
          users, put, last, form, older, others, touched, query, prev, hash, pending,
          shots, requests, first, newest, calm, swallows

vars ==
  <<scene, note, at, cache, dirty, failed, fetch, editing, editor, deleting, calls, opened,
    log, logDirty, look, writes, failures, looks, clock, own, heard, url, shown, past,
    searchInput, alive, list, listFailed, listAsked, lookFailed, lookAsked, told, moves,
    wanted, raced, userInput, more, trail, purged, me, draft, applied, pages, count,
    countAsked, fetches, session, keys, owner, meAsked, page, data, stale, request,
    create, listening, createdKey, delete, signingOut, revoked, users, put, last, form,
    older, others, touched, query, prev, hash, pending, shots, requests, first, newest,
    calm, swallows>>

-----------------------------------------------------------------------------
(* The pages, with the constants of a scene.                                *)

Panel(g) == INSTANCE NotesPanel WITH
       Hosts <- g.Hosts, MaxWrites <- g.MaxWrites, MaxFailures <- g.MaxFailures,
       MaxLooks <- g.MaxLooks, OthersDelete <- g.OthersDelete
Tab(g) == INSTANCE NotesExplorer WITH
       Notes <- g.Notes, Matching <- g.Matching, Limit <- g.Limit, Links <- g.Links,
       MaxMoves <- g.MaxMoves, MaxFailures <- g.MaxFailures, MaxWrites <- g.MaxWrites,
       OthersCreate <- g.OthersCreate
Explorer(g) == INSTANCE AuditExplorer WITH
       Events <- g.Events, actor <- g.actor, kind <- g.kind, Users <- g.Users,
       Times <- g.Times, Me <- g.Me, IsAdmin <- g.IsAdmin, PageSize <- g.PageSize,
       Starts <- g.Starts, MaxMoves <- g.MaxMoves, MaxFailures <- g.MaxFailures
Trail(g) == INSTANCE AuditPages WITH
       Users <- g.Users, Me <- g.Me, IsAdmin <- g.IsAdmin, AuthEnabled <- g.AuthEnabled,
       PageSize <- g.PageSize, MaxResults <- g.MaxResults, MaxEvents <- g.MaxEvents,
       MaxFailures <- g.MaxFailures, MaxFetches <- g.MaxFetches
Account(g) == INSTANCE AccountPages WITH
       Users <- g.Users, Admins <- g.Admins, Requests <- g.Requests, OldKeys <- g.OldKeys,
       oldOwner <- g.oldOwner, OtherTab <- g.OtherTab, MaxMoves <- g.MaxMoves,
       MaxFailures <- g.MaxFailures
Admin(g) == INSTANCE UserAdmin WITH
       Emails <- g.Emails, Me <- g.Me, Names <- g.Names, GroupNames <- g.GroupNames,
       InitUsers <- g.InitUsers, OtherAdmin <- g.OtherAdmin, MaxMoves <- g.MaxMoves,
       MaxOther <- g.MaxOther, MaxFailures <- g.MaxFailures
Classic(g) == INSTANCE LegacyFilter WITH
       Words <- g.Words, Matches <- g.Matches, Limit <- g.Limit, MaxMoves <- g.MaxMoves
Compare(g) == INSTANCE LegacyCompare WITH
       Words <- g.Words, Matches <- g.Matches, MaxMoves <- g.MaxMoves,
       MaxFlight <- g.MaxFlight, MaxErrors <- g.MaxErrors

ASSUME LookingAssumption == Panel(looking)!PanelAssumption
ASSUME StayingAssumption == Panel(staying)!PanelAssumption
ASSUME SearchingAssumption == Tab(searching)!ExplorerAssumption
ASSUME CreatingAssumption == Tab(creating)!ExplorerAssumption
ASSUME ReadingAssumption == Explorer(reading)!ExplorerAssumption
ASSUME FollowingAssumption == Explorer(following)!ExplorerAssumption
ASSUME AuditingAssumption == Trail(auditing)!AuditAssumption
ASSUME ReviewingAssumption == Trail(reviewing)!AuditAssumption
ASSUME OwningAssumption == Account(owning)!AccountAssumption
ASSUME SharingAssumption == Account(sharing)!AccountAssumption
ASSUME ManagingAssumption == Admin(managing)!AdminAssumption
ASSUME CompetingAssumption == Admin(competing)!AdminAssumption
ASSUME BrowsingAssumption == Classic(browsing)!LegacyAssumption
ASSUME ComparingAssumption == Compare(comparing)!CompareAssumption
ASSUME ReturningAssumption == Compare(returning)!CompareAssumption

\* The variables a page does not have.
OnlyNotesPanel ==
  /\ url = Absent /\ shown = Absent /\ past = Absent /\ searchInput = Absent
  /\ alive = Absent /\ list = Absent /\ listFailed = Absent /\ listAsked = Absent
  /\ lookFailed = Absent /\ lookAsked = Absent /\ told = Absent /\ moves = Absent
  /\ wanted = Absent /\ raced = Absent /\ userInput = Absent /\ more = Absent
  /\ trail = Absent /\ purged = Absent /\ me = Absent /\ draft = Absent
  /\ applied = Absent /\ pages = Absent /\ count = Absent /\ countAsked = Absent
  /\ fetches = Absent /\ session = Absent /\ keys = Absent /\ owner = Absent
  /\ meAsked = Absent /\ page = Absent /\ data = Absent /\ stale = Absent
  /\ request = Absent /\ create = Absent /\ listening = Absent
  /\ createdKey = Absent /\ delete = Absent /\ signingOut = Absent
  /\ revoked = Absent /\ users = Absent /\ put = Absent /\ last = Absent
  /\ form = Absent /\ older = Absent /\ others = Absent /\ touched = Absent
  /\ query = Absent /\ prev = Absent /\ hash = Absent /\ pending = Absent
  /\ shots = Absent /\ requests = Absent /\ first = Absent /\ newest = Absent
  /\ calm = Absent /\ swallows = Absent
notNotesPanel ==
  <<url, shown, past, searchInput, alive, list, listFailed, listAsked, lookFailed,
    lookAsked, told, moves, wanted, raced, userInput, more, trail, purged, me, draft,
    applied, pages, count, countAsked, fetches, session, keys, owner, meAsked, page,
    data, stale, request, create, listening, createdKey, delete, signingOut, revoked,
    users, put, last, form, older, others, touched, query, prev, hash, pending, shots,
    requests, first, newest, calm, swallows>>
OnlyNotesExplorer ==
  /\ note = Absent /\ at = Absent /\ cache = Absent /\ dirty = Absent
  /\ failed = Absent /\ fetch = Absent /\ editing = Absent /\ editor = Absent
  /\ deleting = Absent /\ calls = Absent /\ opened = Absent /\ log = Absent
  /\ logDirty = Absent /\ looks = Absent /\ clock = Absent /\ own = Absent
  /\ heard = Absent /\ userInput = Absent /\ more = Absent /\ trail = Absent
  /\ purged = Absent /\ me = Absent /\ draft = Absent /\ applied = Absent
  /\ pages = Absent /\ count = Absent /\ countAsked = Absent /\ fetches = Absent
  /\ session = Absent /\ keys = Absent /\ owner = Absent /\ meAsked = Absent
  /\ page = Absent /\ data = Absent /\ stale = Absent /\ request = Absent
  /\ create = Absent /\ listening = Absent /\ createdKey = Absent /\ delete = Absent
  /\ signingOut = Absent /\ revoked = Absent /\ users = Absent /\ put = Absent
  /\ last = Absent /\ form = Absent /\ older = Absent /\ others = Absent
  /\ touched = Absent /\ query = Absent /\ prev = Absent /\ hash = Absent
  /\ pending = Absent /\ shots = Absent /\ requests = Absent /\ first = Absent
  /\ newest = Absent /\ calm = Absent /\ swallows = Absent
notNotesExplorer ==
  <<note, at, cache, dirty, failed, fetch, editing, editor, deleting, calls, opened, log,
    logDirty, looks, clock, own, heard, userInput, more, trail, purged, me, draft,
    applied, pages, count, countAsked, fetches, session, keys, owner, meAsked, page,
    data, stale, request, create, listening, createdKey, delete, signingOut, revoked,
    users, put, last, form, older, others, touched, query, prev, hash, pending, shots,
    requests, first, newest, calm, swallows>>
OnlyAuditExplorer ==
  /\ note = Absent /\ at = Absent /\ cache = Absent /\ dirty = Absent
  /\ failed = Absent /\ fetch = Absent /\ editing = Absent /\ editor = Absent
  /\ deleting = Absent /\ calls = Absent /\ opened = Absent /\ log = Absent
  /\ logDirty = Absent /\ writes = Absent /\ looks = Absent /\ clock = Absent
  /\ own = Absent /\ heard = Absent /\ searchInput = Absent /\ alive = Absent
  /\ told = Absent /\ trail = Absent /\ purged = Absent /\ me = Absent
  /\ draft = Absent /\ applied = Absent /\ pages = Absent /\ count = Absent
  /\ countAsked = Absent /\ fetches = Absent /\ session = Absent /\ keys = Absent
  /\ owner = Absent /\ meAsked = Absent /\ page = Absent /\ data = Absent
  /\ stale = Absent /\ request = Absent /\ create = Absent /\ listening = Absent
  /\ createdKey = Absent /\ delete = Absent /\ signingOut = Absent
  /\ revoked = Absent /\ users = Absent /\ put = Absent /\ last = Absent
  /\ form = Absent /\ older = Absent /\ others = Absent /\ touched = Absent
  /\ query = Absent /\ prev = Absent /\ hash = Absent /\ pending = Absent
  /\ shots = Absent /\ requests = Absent /\ first = Absent /\ newest = Absent
  /\ calm = Absent /\ swallows = Absent
notAuditExplorer ==
  <<note, at, cache, dirty, failed, fetch, editing, editor, deleting, calls, opened, log,
    logDirty, writes, looks, clock, own, heard, searchInput, alive, told, trail, purged,
    me, draft, applied, pages, count, countAsked, fetches, session, keys, owner,
    meAsked, page, data, stale, request, create, listening, createdKey, delete,
    signingOut, revoked, users, put, last, form, older, others, touched, query, prev,
    hash, pending, shots, requests, first, newest, calm, swallows>>
OnlyAuditPages ==
  /\ note = Absent /\ at = Absent /\ cache = Absent /\ dirty = Absent
  /\ editing = Absent /\ editor = Absent /\ deleting = Absent /\ calls = Absent
  /\ opened = Absent /\ log = Absent /\ logDirty = Absent /\ look = Absent
  /\ writes = Absent /\ looks = Absent /\ clock = Absent /\ own = Absent
  /\ heard = Absent /\ url = Absent /\ shown = Absent /\ past = Absent
  /\ searchInput = Absent /\ alive = Absent /\ list = Absent /\ listFailed = Absent
  /\ listAsked = Absent /\ lookFailed = Absent /\ lookAsked = Absent
  /\ told = Absent /\ moves = Absent /\ wanted = Absent /\ raced = Absent
  /\ userInput = Absent /\ more = Absent /\ session = Absent /\ keys = Absent
  /\ owner = Absent /\ meAsked = Absent /\ page = Absent /\ data = Absent
  /\ stale = Absent /\ request = Absent /\ create = Absent /\ listening = Absent
  /\ createdKey = Absent /\ delete = Absent /\ signingOut = Absent
  /\ revoked = Absent /\ users = Absent /\ put = Absent /\ last = Absent
  /\ form = Absent /\ older = Absent /\ others = Absent /\ touched = Absent
  /\ query = Absent /\ prev = Absent /\ hash = Absent /\ pending = Absent
  /\ shots = Absent /\ requests = Absent /\ first = Absent /\ newest = Absent
  /\ calm = Absent /\ swallows = Absent
notAuditPages ==
  <<note, at, cache, dirty, editing, editor, deleting, calls, opened, log, logDirty, look,
    writes, looks, clock, own, heard, url, shown, past, searchInput, alive, list,
    listFailed, listAsked, lookFailed, lookAsked, told, moves, wanted, raced, userInput,
    more, session, keys, owner, meAsked, page, data, stale, request, create, listening,
    createdKey, delete, signingOut, revoked, users, put, last, form, older, others,
    touched, query, prev, hash, pending, shots, requests, first, newest, calm, swallows>>
OnlyAccountPages ==
  /\ note = Absent /\ at = Absent /\ cache = Absent /\ dirty = Absent
  /\ fetch = Absent /\ editing = Absent /\ editor = Absent /\ deleting = Absent
  /\ calls = Absent /\ opened = Absent /\ log = Absent /\ logDirty = Absent
  /\ look = Absent /\ writes = Absent /\ looks = Absent /\ clock = Absent
  /\ own = Absent /\ heard = Absent /\ url = Absent /\ shown = Absent
  /\ past = Absent /\ searchInput = Absent /\ alive = Absent /\ list = Absent
  /\ listFailed = Absent /\ listAsked = Absent /\ lookFailed = Absent
  /\ lookAsked = Absent /\ told = Absent /\ wanted = Absent /\ raced = Absent
  /\ userInput = Absent /\ more = Absent /\ trail = Absent /\ purged = Absent
  /\ draft = Absent /\ applied = Absent /\ pages = Absent /\ count = Absent
  /\ countAsked = Absent /\ fetches = Absent /\ users = Absent /\ put = Absent
  /\ last = Absent /\ form = Absent /\ older = Absent /\ others = Absent
  /\ touched = Absent /\ query = Absent /\ prev = Absent /\ hash = Absent
  /\ pending = Absent /\ shots = Absent /\ requests = Absent /\ first = Absent
  /\ newest = Absent /\ calm = Absent /\ swallows = Absent
notAccountPages ==
  <<note, at, cache, dirty, fetch, editing, editor, deleting, calls, opened, log, logDirty,
    look, writes, looks, clock, own, heard, url, shown, past, searchInput, alive, list,
    listFailed, listAsked, lookFailed, lookAsked, told, wanted, raced, userInput, more,
    trail, purged, draft, applied, pages, count, countAsked, fetches, users, put, last,
    form, older, others, touched, query, prev, hash, pending, shots, requests, first,
    newest, calm, swallows>>
OnlyUserAdmin ==
  /\ note = Absent /\ at = Absent /\ cache = Absent /\ dirty = Absent
  /\ fetch = Absent /\ editor = Absent /\ deleting = Absent /\ calls = Absent
  /\ opened = Absent /\ log = Absent /\ logDirty = Absent /\ look = Absent
  /\ writes = Absent /\ looks = Absent /\ clock = Absent /\ own = Absent
  /\ heard = Absent /\ url = Absent /\ shown = Absent /\ past = Absent
  /\ searchInput = Absent /\ alive = Absent /\ list = Absent /\ listFailed = Absent
  /\ listAsked = Absent /\ lookFailed = Absent /\ lookAsked = Absent
  /\ wanted = Absent /\ raced = Absent /\ userInput = Absent /\ more = Absent
  /\ trail = Absent /\ purged = Absent /\ me = Absent /\ draft = Absent
  /\ applied = Absent /\ pages = Absent /\ count = Absent /\ countAsked = Absent
  /\ fetches = Absent /\ session = Absent /\ keys = Absent /\ owner = Absent
  /\ meAsked = Absent /\ page = Absent /\ stale = Absent /\ create = Absent
  /\ listening = Absent /\ createdKey = Absent /\ delete = Absent
  /\ signingOut = Absent /\ revoked = Absent /\ query = Absent /\ prev = Absent
  /\ hash = Absent /\ pending = Absent /\ shots = Absent /\ requests = Absent
  /\ first = Absent /\ newest = Absent /\ calm = Absent /\ swallows = Absent
notUserAdmin ==
  <<note, at, cache, dirty, fetch, editor, deleting, calls, opened, log, logDirty, look,
    writes, looks, clock, own, heard, url, shown, past, searchInput, alive, list,
    listFailed, listAsked, lookFailed, lookAsked, wanted, raced, userInput, more, trail,
    purged, me, draft, applied, pages, count, countAsked, fetches, session, keys, owner,
    meAsked, page, stale, create, listening, createdKey, delete, signingOut, revoked,
    query, prev, hash, pending, shots, requests, first, newest, calm, swallows>>
OnlyLegacyFilter ==
  /\ note = Absent /\ at = Absent /\ cache = Absent /\ dirty = Absent
  /\ fetch = Absent /\ editing = Absent /\ editor = Absent /\ deleting = Absent
  /\ calls = Absent /\ opened = Absent /\ log = Absent /\ logDirty = Absent
  /\ look = Absent /\ writes = Absent /\ failures = Absent /\ looks = Absent
  /\ clock = Absent /\ own = Absent /\ heard = Absent /\ url = Absent
  /\ past = Absent /\ searchInput = Absent /\ alive = Absent /\ list = Absent
  /\ listFailed = Absent /\ listAsked = Absent /\ lookFailed = Absent
  /\ lookAsked = Absent /\ told = Absent /\ wanted = Absent /\ raced = Absent
  /\ userInput = Absent /\ more = Absent /\ trail = Absent /\ purged = Absent
  /\ me = Absent /\ draft = Absent /\ applied = Absent /\ pages = Absent
  /\ countAsked = Absent /\ fetches = Absent /\ session = Absent /\ keys = Absent
  /\ owner = Absent /\ meAsked = Absent /\ page = Absent /\ data = Absent
  /\ stale = Absent /\ request = Absent /\ create = Absent /\ listening = Absent
  /\ createdKey = Absent /\ delete = Absent /\ signingOut = Absent
  /\ revoked = Absent /\ users = Absent /\ put = Absent /\ form = Absent
  /\ older = Absent /\ others = Absent /\ touched = Absent
notLegacyFilter ==
  <<note, at, cache, dirty, fetch, editing, editor, deleting, calls, opened, log, logDirty,
    look, writes, failures, looks, clock, own, heard, url, past, searchInput, alive,
    list, listFailed, listAsked, lookFailed, lookAsked, told, wanted, raced, userInput,
    more, trail, purged, me, draft, applied, pages, countAsked, fetches, session, keys,
    owner, meAsked, page, data, stale, request, create, listening, createdKey, delete,
    signingOut, revoked, users, put, form, older, others, touched>>
OnlyLegacyCompare ==
  /\ note = Absent /\ at = Absent /\ cache = Absent /\ dirty = Absent
  /\ fetch = Absent /\ editing = Absent /\ editor = Absent /\ deleting = Absent
  /\ calls = Absent /\ opened = Absent /\ log = Absent /\ logDirty = Absent
  /\ look = Absent /\ writes = Absent /\ failures = Absent /\ looks = Absent
  /\ clock = Absent /\ own = Absent /\ heard = Absent /\ url = Absent
  /\ shown = Absent /\ past = Absent /\ searchInput = Absent /\ alive = Absent
  /\ list = Absent /\ listFailed = Absent /\ listAsked = Absent
  /\ lookFailed = Absent /\ lookAsked = Absent /\ told = Absent /\ wanted = Absent
  /\ raced = Absent /\ userInput = Absent /\ more = Absent /\ trail = Absent
  /\ purged = Absent /\ me = Absent /\ draft = Absent /\ applied = Absent
  /\ pages = Absent /\ count = Absent /\ countAsked = Absent /\ fetches = Absent
  /\ session = Absent /\ keys = Absent /\ owner = Absent /\ meAsked = Absent
  /\ data = Absent /\ stale = Absent /\ request = Absent /\ create = Absent
  /\ listening = Absent /\ createdKey = Absent /\ delete = Absent
  /\ signingOut = Absent /\ revoked = Absent /\ users = Absent /\ put = Absent
  /\ last = Absent /\ form = Absent /\ older = Absent /\ others = Absent
  /\ query = Absent /\ prev = Absent /\ hash = Absent /\ pending = Absent
  /\ shots = Absent /\ requests = Absent /\ first = Absent /\ newest = Absent
  /\ calm = Absent /\ swallows = Absent
notLegacyCompare ==
  <<note, at, cache, dirty, fetch, editing, editor, deleting, calls, opened, log, logDirty,
    look, writes, failures, looks, clock, own, heard, url, shown, past, searchInput,
    alive, list, listFailed, listAsked, lookFailed, lookAsked, told, wanted, raced,
    userInput, more, trail, purged, me, draft, applied, pages, count, countAsked,
    fetches, session, keys, owner, meAsked, data, stale, request, create, listening,
    createdKey, delete, signingOut, revoked, users, put, last, form, older, others,
    query, prev, hash, pending, shots, requests, first, newest, calm, swallows>>

Init ==
  /\ scene \in Scenes
  /\ \/ scene = "panel" /\ Panel(looking)!Init /\ OnlyNotesPanel
     \/ scene = "onehost" /\ Panel(staying)!Init /\ OnlyNotesPanel
     \/ scene = "notes" /\ Tab(searching)!Init /\ OnlyNotesExplorer
     \/ scene = "created" /\ Tab(creating)!Init /\ OnlyNotesExplorer
     \/ scene = "events" /\ Explorer(reading)!Init /\ OnlyAuditExplorer
     \/ scene = "links" /\ Explorer(following)!Init /\ OnlyAuditExplorer
     \/ scene = "admin" /\ Trail(auditing)!Init /\ OnlyAuditPages
     \/ scene = "mine" /\ Trail(reviewing)!Init /\ OnlyAuditPages
     \/ scene = "account" /\ Account(owning)!Init /\ OnlyAccountPages
     \/ scene = "tabs" /\ Account(sharing)!Init /\ OnlyAccountPages
     \/ scene = "users" /\ Admin(managing)!Init /\ OnlyUserAdmin
     \/ scene = "admins" /\ Admin(competing)!Init /\ OnlyUserAdmin
     \/ scene = "hosts" /\ Classic(browsing)!Init /\ OnlyLegacyFilter
     \/ scene = "sets" /\ Compare(comparing)!Init /\ OnlyLegacyCompare
     \/ scene = "again" /\ Compare(returning)!Init /\ OnlyLegacyCompare

Next ==
  /\ UNCHANGED scene
  /\ \/ scene = "panel" /\ Panel(looking)!Next /\ UNCHANGED notNotesPanel
     \/ scene = "onehost" /\ Panel(staying)!Next /\ UNCHANGED notNotesPanel
     \/ scene = "notes" /\ Tab(searching)!Next /\ UNCHANGED notNotesExplorer
     \/ scene = "created" /\ Tab(creating)!Next /\ UNCHANGED notNotesExplorer
     \/ scene = "events" /\ Explorer(reading)!Next /\ UNCHANGED notAuditExplorer
     \/ scene = "links" /\ Explorer(following)!Next /\ UNCHANGED notAuditExplorer
     \/ scene = "admin" /\ Trail(auditing)!Next /\ UNCHANGED notAuditPages
     \/ scene = "mine" /\ Trail(reviewing)!Next /\ UNCHANGED notAuditPages
     \/ scene = "account" /\ Account(owning)!Next /\ UNCHANGED notAccountPages
     \/ scene = "tabs" /\ Account(sharing)!Next /\ UNCHANGED notAccountPages
     \/ scene = "users" /\ Admin(managing)!Next /\ UNCHANGED notUserAdmin
     \/ scene = "admins" /\ Admin(competing)!Next /\ UNCHANGED notUserAdmin
     \/ scene = "hosts" /\ Classic(browsing)!Next /\ UNCHANGED notLegacyFilter
     \/ scene = "sets" /\ Compare(comparing)!Next /\ UNCHANGED notLegacyCompare
     \/ scene = "again" /\ Compare(returning)!Next /\ UNCHANGED notLegacyCompare

Spec == Init /\ [][Next]_vars

-----------------------------------------------------------------------------
(* The properties of the pages.                                             *)

\* The panel of one host: the sheet never goes on to another one.
OneHost(g) == \E h \in g.Hosts : g.Hosts = {h}

\* A save replaces the text the user started from, or the server refuses it; what the
\* panel of the only host shows as up to date, the note or its history, has the user's
\* own saves (HostNotesPanel.tsx).
PanelIsHonest(g) ==
  /\ Panel(g)!TypeOK /\ Panel(g)!UpdateReplacesWhatWasSeen
  /\ OneHost(g) => Panel(g)!ReadYourWrites /\ Panel(g)!HistoryHasOwnWrites

\* Once rendered, both tabs have the text, the filters and the sheet that the user asked
\* for last, but for the races with the timer of the box that AsTheUserWants names; the
\* sheet of an event is never blank, and the cache has no event the reader may not see
\* (notes.tsx, AuditExplorer.tsx, AuditEventDetailSheet.tsx).
TabIsCalm(g) == Tab(g)!TypeOK /\ Tab(g)!AsTheUserWants
EventsAreInScope(g) ==
  /\ Explorer(g)!TypeOK /\ Explorer(g)!NeverBlank /\ Explorer(g)!InScope
  /\ Explorer(g)!AsTheUserWants

\* The pages of the audit trail are those of their filter and, for who is no
\* administrator, of the reader; unless the server cuts them, they leave nothing out
\* between two rows, whatever is logged or purged meanwhile, and do not say that they
\* are complete when they are not (audit.ts, AuditEventsPanel.tsx, app.py).
TrailIsWhole(g) ==
  /\ Trail(g)!TypeOK /\ Trail(g)!RowsFitTheFilter /\ Trail(g)!OwnTrailOnly
  /\ g.PageSize <= g.MaxResults =>
       Trail(g)!NoGap /\ Trail(g)!ShortPageIsLast /\ Trail(g)!BareCountMeansAll

\* A key that was revoked leaves the list; unless another tab signs in, a tab has no key
\* of another user and forgets them all when its user signs out (api-keys.tsx,
\* UserMenu.tsx).
KeysAreOwn(g) ==
  /\ Account(g)!TypeOK /\ Account(g)!RevocationShows
  /\ ~g.OtherTab => Account(g)!OwnKeysListed /\ Account(g)!SignedOutIsForgotten

\* The form of a user has what the list had and, with one administrator, what the panel
\* says of a user is so (AdminUsersPanel.tsx, EditUserDialog.tsx).
AdminIsTold(g) ==
  /\ Admin(g)!TypeOK /\ Admin(g)!FormIsOfItsUser
  /\ ~g.OtherAdmin => Admin(g)!WhatWasSaidIsSo

\* However late answers and events are, the answer of the newest query is not pushed out
\* and, but for an event that went to another handler, the address is that of the query;
\* a user who waits gets the results of the query and is told which they are
\* (controllers.js, filters.js, ivre.js).
HostsAreOfTheQuery(g) ==
  /\ Classic(g)!TypeOK /\ Classic(g)!NewestIsNeverLost /\ Classic(g)!CalmShowsTheQuery
  /\ Classic(g)!CalmBoundsAreThePages /\ Classic(g)!EventsKeepTheHash

\* The hosts of a set are of its words and the common ones, and the counts that are shown
\* are those of the queries (filters.js, compare.js).
SetsCompose(g) ==
  /\ Compare(g)!TypeOK /\ Compare(g)!QueriesCompose /\ Compare(g)!NewestIsTheQuery
  /\ Compare(g)!CountsAreOfTheQueries

-----------------------------------------------------------------------------
(* The properties of the scenes.                                            *)

\* The panel of a note, of any host and of the only one (HostNotesPanel.tsx).
PanelHolds ==
  /\ scene = "panel" => PanelIsHonest(looking)
  /\ scene = "onehost" => PanelIsHonest(staying)

\* The tab of the notes and the explorer of the events (notes.tsx, audit.tsx).
ExplorersHold ==
  /\ scene = "notes" => TabIsCalm(searching)
  /\ scene = "created" => TabIsCalm(creating)
  /\ scene = "events" => EventsAreInScope(reading)
  /\ scene = "links" => EventsAreInScope(following)

\* The pages of the trail, for an administrator and for another user (audit.ts).
AuditHolds ==
  /\ scene = "admin" => TrailIsWhole(auditing)
  /\ scene = "mine" => TrailIsWhole(reviewing)

\* The keys of an account and the users (api-keys.tsx, AdminUsersPanel.tsx).
AccountsHold ==
  /\ scene = "account" => KeysAreOwn(owning)
  /\ scene = "tabs" => KeysAreOwn(sharing)
  /\ scene = "users" => AdminIsTold(managing)
  /\ scene = "admins" => AdminIsTold(competing)

\* The filter of the classic interface and the comparison of two of them, whose answers
\* come in any order (filters.js, compare.js).
FilterHolds ==
  /\ scene = "hosts" => HostsAreOfTheQuery(browsing)
  /\ scene = "sets" => SetsCompose(comparing)
  /\ scene = "again" => SetsCompose(returning)

\* No step tells the user of a missing note that exists, when nobody else writes one,
\* takes rows away to load more, or sets a field of a user that the administrator did not
\* touch (notes.tsx, AuditEventsPanel.tsx, EditUserDialog.tsx).
DeskSteps ==
  [][/\ scene = "notes" /\ ~searching.OthersCreate => Tab(searching)!ToldOfMissingOnly
     /\ scene = "admin" => Trail(auditing)!MoreKeepsRows
     /\ scene = "mine" => Trail(reviewing)!MoreKeepsRows
     /\ scene = "users" => Admin(managing)!OnlyTouchedFieldsAreSet
     /\ scene = "admins" => Admin(competing)!OnlyTouchedFieldsAreSet]_vars

-----------------------------------------------------------------------------
(* What is written of them and does not hold.                               *)

\* `the markdown note attached to a host' (HostNotesPanel.tsx): the text in the editor
\* is that of a note of the host of the sheet, for which it will be saved.
DraftStaysWithItsHost == scene = "panel" => Panel(looking)!DraftStaysWithItsHost
=============================================================================
