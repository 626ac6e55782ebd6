# IVRE in TLA+

IVRE stores what network scans, sensors and flow collectors report, under several *purposes*
(scans, passive records, views, flows, RIR records, notes, users, audit), each with its own
database backends, and shows them in two web interfaces. No operation spans a database
transaction: a save of a note, the merge of a host, the fold of a sighting, a login are
sequences of single-document operations that interleave with those of other processes. The web
interfaces are loops of events: what a page shows depends on answers, timers, renders and clicks
that come in any order. That is where the code is hard to test, and what these modules are about.

- [The system](#the-system): parts, state, operations, interactions, what makes each correct
- [The modules](#the-modules): what models what, and how it maps to the code
- [How the modules are put together](#how-the-modules-are-put-together): scenes
- [The runs](#the-runs): questions, results, bounds
- [Fairness](#fairness)
- [The proofs](#the-proofs)
- [What the models found](#what-the-models-found)
- [What is not modelled](#what-is-not-modelled) and [the plan](#the-plan)

To check a module: `tlc -config NotesStore_full.cfg NotesStore`; to check proofs:
`tlapm LoginsProofs.tla`. `PROJECT.json` lists the components, the runs, the lines of the source
each definition stands for, the hazards with the properties that are for them, and for each
property a plausible mistake of the code that breaks it. A helper whose lines are those of the definitions
that use it is not listed on its own.

## The system

### The stores

| Component | State | Operations | Hard because |
|---|---|---|---|
| Notes (`MongoDBNotes`) | `notes`, one document per entity (unique index); `note_revisions`, a log | `set_note` in three modes, `delete_note`; reads | two collections, no transaction; optimistic concurrency; best-effort log |
| Passive records (`DBPassive`, `MongoDBPassive`) | one record per fact: count, first and last instant | `insert_or_update`, bulk and local bulk variants, `update_dns_blacklist` | concurrent importers, no unique index, batches, deaths, re-runs |
| View store (`MongoDBView`, `DBView.merge_host`) | one document per address, more or less | `store_host`, `merge_host`, `store_or_merge_host`, `remove` | find, insert, remove without a transaction, by many processes |
| View building (`view.py`, `tools/db2view.py`) | cursors on sorted sources, the address being gathered, a pool | `nmap_to_view`, `passive_to_view`, `to_view_parallel`, workers | cursors that time out, sources that run dry, a pool and its exceptions |
| Merge of documents (`active/data.py`) | none | `merge_host_docs` | order of merges against order of time |
| Bulk inserts on PostgreSQL (`db/sql/postgres.py`) | queued rows of each worker | `BulkInsert.append/commit/close`, `start/stop_store_hosts` | flushing a pool, failed transactions |
| Flows (`MongoDBFlow`) | one document per flow, with counts, metadata and time slots | bulk upserts of `flow2db` and `zeek2db`, `cleanup_flows`, `reduce_precision` | upserts without a unique index; maintenance that reads first and writes later |
| Users and logins (`web/auth.py`, `MongoDBAuth`, `audit_hook.py`) | users, sessions, magic links, rate limits; the audit trail in another store | callback of a provider, magic link, the funnel of both, logout; administrator, `authcli` | no login without its event; compensation that may fail; two first logins of one address |

### The web interface (`web-ui`, React)

| Component | State | Hard because |
|---|---|---|
| Notes panel of a host | cache, editor with a base revision, calls in flight | drafts, conflicts, late answers, keys of components |
| Notes tab, audit explorer | address, rendered address, text box with a timer, lists, sheet | the router renders later than it sets; stale answers of the cache |
| Audit panels | pages of a log that grows | offsets in a list read newest first |
| Account, API keys, users | session, lists, mutations, dialogs | several tabs and administrators; callbacks of components that left |
| Pages of results, sheet | address, list, total, host of the sheet | paging, writes between requests, aborted requests |
| Side bar of facets | requests in an order, committed effects | one event releases the next request |
| Filter bar and words | words of the query | two parsers, in the page and in the server |
| Flow section | form, address, graph, counts, sheet | a draft, the address and what is rendered differ |
| Cards of hosts, passive, RIR, DNS; timeline | chips, highlights, expansion, places | four pieces of code must agree on each field |

### The classic interface (`web/static/ivre`, AngularJS and d3)

The filter with its requests, hash and progress bar, its text and its boxes; the cards of hosts, with
what they highlight and where their links go; the filters of two sets that are compared; the charts, on
the page of results, on the page that compares two sets and on the report; the help, menus and top values and the words they
write; the page of the flows with its timeline. Its requests carry nothing that ties an answer to
the query it is for.

### How they interact

`db2view` reads the scan and passive purposes and writes views through the view store, from a
pool of processes; `scan2db --update-view` and the upload route call `store_or_merge_host` at the
same time. The web routes, the MCP tools and the command line call `set_note` and `delete_note`.
Importers run side by side, and with migrations and maintenance. They share nothing but the
database. The pages call the routes of the server, whose stores other users write too; a page
talks to the other parts of its page by the address and by the cache of queries.

What makes each part correct:

- *Notes*: a save is accepted exactly when what it expects holds at one instant of the call; no
  accepted save is overwritten unseen; the log accounts for every revision.
- *Passive records, flows*: every sighting read is counted once, whatever the route, the batches,
  the races, the restarts and the maintenance; windows and slots are those of the sightings.
- *View*: nothing stored is forgotten; each address is yielded once by a build, with all its
  records; the build ends, and is complete when it ends well; merges keep what all scans say.
- *Logins*: nobody is in without an event; no attempt has two; a link works once; only those who
  may enter do; links are not mailed without limit.
- *Pages*: what is shown is what the address names; what is typed is neither lost nor saved
  elsewhere; a click selects what it says; what was asked for comes, or an error does.

## The modules

`NoteRegister` and `HostView` are abstract specifications. Every other module models a part of
the code: one action per database operation, handler, timer, render or answer. An action named
`...Fails`, `...Refused`, `Die` or `Raise` is an operation that does not succeed. Operators
marked *Slip*, or of which no specification is made, are plausible mistakes in the definition
they are next to. Variables marked *history* guard nothing and serve the properties.

### Stores

**`NotesStore`** (refines `NoteRegister`). `notes` and `revisions` are the two collections; `pc` is
the next operation of each caller. `set_note` is `BeginSave`, then `RefuseOversize`, or `WriteLww`
(`expected_revision=None`), `WriteUpdate` / `WriteMisses` + `Classify` (`expected_revision >= 1`, and
the second query that tells 404 from 409), `WriteCreate` / `WriteCollides` (the unique index); then
`AppendRow` or `AppendFails`. `delete_note` is `BeginDelete`, `DeleteParent`, `Sweep`. A *life* of a
note runs from its creation to its deletion.

**`PassiveStore`**. A process takes one of three routes: `bulk` (unordered upserts by batch),
`direct` (`insert_or_update`, a query and then an update by `_id` or an upsert), `local` (`_RecInfo`
merges in memory first). An upsert looks, and inserts in a second step. `Scan`, `insert_or_update`
and `Remove` make `update_dns_blacklist`, run again from the beginning after a death.

**`FlowStore`**. Imports send operations in one unordered bulk; `cleanup_flows` is its aggregate and
then the writes of each pair; `reduce_precision` is its reading and then its writes. A flow keeps the
records folded into it next to the count of the code, so that properties can compare them.

**`ViewStore`** (refines `HostView`). `merge_host` is `Find`, `StoreMerged` or `MergedRefused`,
`Remove`; `store_host` is `Store` or `StoreRefused`; `Call` is `store_or_merge_host`.
**`ViewBuild`** extends it: `Deliver`, `PassOver`, `Exhaust` and `CursorLost` are the generators with
their `skip` counter; `Take` and `Yield` are `to_view_parallel`; `TakeTask`, `Raise`, `Abort`,
`Terminate` and `Finish` are the pool; `Rerun` is `db2view` on the view it left. **`ViewBulk`** is the
pool on PostgreSQL, whose tasks are numbered in the order in which their results are looked at.
**`HostMerge`** has `merge_host_docs` as an operator, and merges any two documents in either order
until one is left.

**`Logins`**. Each request is a process whose stage is `at`: `callback_provider` or
`verify_magic_link`, then `FindUser`, `create_user`, `RereadUser`, `create_session`, `StampLogin`,
`record_auth`, `_set_session_cookie`; refusals (`RefusePending`, `audit_auth`), failures of any call,
the compensation `delete_session` and deaths. `Ask` is `send_magic_link` with its two limits, in
the six calls it makes. The administrator makes accounts active or not, and `authcli` deletes an
account in three steps, in between.

### Web interface

| Module | Code | What its state and actions are |
|---|---|---|
| `NotesPanel` | `HostNotesPanel.tsx`, hooks of `api.ts` | the register of the server and its other writers; `cache`, `editor`, `calls` in flight; `Rendered` says what React keeps of the editor; the history of the revisions, opened, fetched (`look`) and kept (`log`) under the note |
| `NotesExplorer` | `routes/notes.tsx` | `url` is set at once and `shown` a moment later; the timer of the box; list and look-up answers |
| `AuditExplorer`, `AuditPages` | `AuditExplorer.tsx`, `audit.ts`, the two panels, the routes | filters in the address, sheet of an event; pages by offset in a log that grows and is purged |
| `AccountPages`, `UserAdmin` | `auth.ts`, `api-keys.ts`, `admin.ts`, their panels and dialog | one session shared by the tabs, keys, mutations; a list of users, toggles and a dialog next to another administrator |
| `FacetLoading` | `FacetSidebar.tsx`, `FacetGroup.tsx` | requests by name and query; `Commit` runs the effects of a render in their order |
| `RecordPages` | `host-list.tsx` and the other sections, `paging.ts` | the address is the state; answers, writes of the server in between |
| `FilterWords` | `filter.ts`, `FilterBar.tsx`, `field-mapper.ts`, `web/utils.py` | texts are sequences of pieces; the two parsers, the bar and the rows |
| `FlowExplorer` | `routes/flow.tsx`, `FlowFilterPanel.tsx`, `FlowGraph.tsx` | draft, address, rendered page, graph, counts and sheet |
| `HostCards`, `RecordCards` | `HostCard.tsx`, `HostDetailSheet.tsx`, `DomainTree.tsx`; the cards of Passive and RIR | chips, the filters they add, their highlight, what is collapsed |
| `TimelineCards` | `Timeline.tsx`, `lib/timeline.ts` | rows and cards reconciled by their keys, the record under the pointer |
| `DnsRecords` | `get_dns`, `iter_dns`, `dns.tsx` | the same query to two databases and the merge of the rows |

### Classic interface

| Module | Code | What its state and actions are |
|---|---|---|
| `LegacyFilter` | `filters.js`, `ivre.js`, `controllers.js` | query, hash and its replaced handlers, requests answered in any order, progress bar |
| `LegacyWords` | `params.js`, `utils.js`, `filters.js` | the text of a filter, the words it is cut into, the boxes that are edited and the text that a click writes |
| `LegacyResults` | `params.js`, `controllers.js`, `ivre.js`, `content.js`, `web/utils.py` | the words of the filter; what of a host they highlight and show; the words behind each link of a card, against what the server selects |
| `LegacyCompare` | `filters.js`, `compare.js` | the common filter and those of the sets: words, queries, counts that are asked for and answered in any order |
| `LegacyGraphs` | `graph.js` | builds, requests and drawings of each chart; dots, axes, brushes and dates as operators |
| `FilterHelp` | `content.js`, `graph.js`, `params.js`, `web/utils.py`, `db/mongo.py` | the words the help describes, the menus hold and the bars write; how the server reads and answers them |
| `LegacyFlow` | `flow/controllers.js` | times to slots to lights; the query in the address and the addresses before it, the builder of filters and its typed fields, requests, plays as chains of timers, clicks |

## How the modules are put together

Modules that share no state are run together by a composing module with one variable `scene`,
chosen at the start: one module, with constants of its own, takes the steps of its scene, and
the variables it does not have stay `Absent`. So a run explores each of its scenes in full, and a
property of the run is the conjunction of what each scene is about. Constants that are sets of
model values are in the `.cfg`, data (documents, records, words) are definitions of the composing
module, next to the scene they are for.

- `Backends`: *import*, *migration* and *windows* (`PassiveStore`), *bulk* (`ViewBulk`), *merge*
  (`HostMerge`), *flows* and *crossed* (`FlowStore`), *logins*, *approval* and *asking* (`Logins`).
  What a scene is given is one CONSTANT, a record of the constants of its module, and its instance is
  one of the module's proofs, so that `BackendsProofs` can cite their theorems scene by scene.
  The bulk inserts, which have no module of proofs, are proved there. `MCBackends` extends it with the
  small records that TLC runs.
- `MCLists`: *facets*, *pages*, *writes*, *names*, *typed*, *rows*, *form*, *graph*, *counts*, *hosts*,
  *tags*, *passive*, *rir*, *timeline*, *dns*.
- `Desk`: *panel*, *onehost*, *notes*, *created*, *events*, *links*, *admin*, *mine*, *account*, *tabs*,
  *users*, *admins* and, of the classic interface, *hosts* (`LegacyFilter`), *sets* and *again*
  (`LegacyCompare`). Its constants are records as well, and a page is one instance with the record as its
  parameter (`Panel(g)`, `Tab(g)`, `Explorer(g)`, `Trail(g)`, `Account(g)`, `Admin(g)`, `Classic(g)`,
  `Compare(g)`), so that a lemma of
  `DeskProofs` about `Panel(g)` is about every scene of the panel. `MCDesk` has the small records.
- `MCLegacy`: *results*, *compare*, *report*, *words*, *typed*, *bars*, *scripts*, *documented*, *boxes*, *cards*,
  *flow*, *plays*, *timeline*, *clicks*.
- `MCSettles`: the pages of the three above that wait for something, under fairness.

Modules that do share state are composed for good: `ViewBuild` over `ViewStore`, `NotesPanel` over
the register of the server.

## The runs

| Run | Question | Result |
|---|---|---|
| `notes_full` | Are saves linearizable, and is every missing row of the log explained, with failures, deaths and deletes? | holds |
| `notes_orphans` | Does a delete leave rows without a note? | it may |
| `view_shared` | Three uncoordinated processes on an address, with and without merge | nothing is forgotten; `HostView` is implemented |
| `build_pool` | `db2view` twice: order, completeness, exclusivity, one document per address, termination | holds |
| `backends_hold` | Importers and a migration, merges, bulk inserts, flows next to their maintenance, logins | holds |
| `passive_windows` | Are windows exact through the merge in memory? | no |
| `bulk_flush` | Is everything committed when no statement fails? | not always |
| `web_lists` | Pages, words, flows, cards and rows of the web interface | holds |
| `web_desk` | Notes, audit, keys and users in the web interface, while others write; filters of the classic interface, answered in any order | holds |
| `panel_nexthost` | Does a draft stay with the host it was written for? | no |
| `web_legacy` | Words, cards, charts, help and flows of the classic interface | holds |
| `web_settles` | What do the pages come to once React renders, timers fire and requests are answered? | holds |

### Bounds

Every bound is a constant of the module it bounds, and a guard of the actions it counts.

- *Notes*: two callers, one key, three saves. A race needs a save in progress, another save or a
  delete, and a note to start from; keys share nothing. The proofs lift the bound.
- *Passive*: three sightings of two facts, two instants (three where windows merge in memory),
  batches of two, so that a batch fills up, a last one does not, and two sightings merge; two
  importers, or one importer and a migration of two old records, with a death. The proofs lift the bounds.
- *Flows*: four records and two jobs: two connections of a server that share a source port, which
  is the least the cleanup turns around, one the other way, and metadata, next to two importers; or
  two hosts both of which have turned flows, with a record in two time slots and a failed operation.
  The proofs lift the bounds.
- *Merge*: three scans, the least for which the order of merges matters, of one port with two names
  of services and one script. Ports are merged independently. The proofs lift the bound.
- *Bulk*: three workers, four hosts, batches of two, two failures: some worker has rows queued while
  another commits or takes two destroyers. The proofs lift the bound.
- *Logins*: two attempts for one address with two faults and a change of the accounts, since a
  compensation that fails is a second fault; two changes when nobody is welcome (made active, then
  deleted); two askers, two addresses, limits of one and two. The proofs lift the bounds.
- *View store*: three processes, one address (addresses share nothing), two results, four calls, one
  refused insert, one death: a process may remove what another has found, while a third replaces it.
- *View building*: two sources of at most two records over two addresses, usable or not, a cursor
  lost once anywhere, one refused insert, two deaths, two builds. All pairs of sources are initial
  states. The proofs lift the bounds on all but the end of the build (`BuildEnds`).
- *Pages*: `MaxMoves` bounds what the user does (two to five steps), `MaxFailures` the requests that
  fail and `MaxWrites` what others write; answers, renders and timers are not bounded. Two or three
  moves make every race of a request with a change of what was asked, since a page has one answer of
  a kind on its way, and a third actor none. The facets are of two queries with two moves, so
  that the user leaves a query and returns to it while its results are in the cache; the tab of the notes has
  two moves, and three in *created*, which has one note and one link: a text is typed, the link is followed and
  the history goes back. The
  form of the flows is typed in with a letter, a blank and a newline, up to six characters. The history of a note is opened where one host is on
  the screen, which is what its property is about; the proofs lift the bounds of the pages of `web_desk`.
  Lists have one element more than a page. Cards, rows
  and words are data: each scene has an instance of every kind of chip (ports have products), field and word the code
  tells apart, and every set of up to two or three filters. Addresses have four bits where the code
  has 32, with the same number of parts.
- *Classic interface*: two moves, two builds or two sends, with the answers in any order; two plays of the
  timeline, over graphs with times and one without, so that a timer of a play that was stopped
  fires in the next; the words of the menus and of the help, one or two at a time, without a notepad
  and with one; every chart that the help describes, but those listed under
  [What the models found](#what-the-models-found), over hosts with two keys and with a vulnerability
  in two states, so that a label and the words of its bar are told apart. Texts are of up to four pieces
  in the address and two that are typed: a word, its sign, a colon, a quote and a space, so that
  a word may begin, be quoted and end. A comparison has one word that a set or all of them may have,
  and either one move with a request that may be late or two moves at rest, with one failure: two
  requests of a set are out at once when its word and the common one change together. The cards are
  of a host for each script, one whose scripts have no answer, one with every link and the eight
  shapes of an IPv6 address, under filters of three words: a
  word of a menu, its display and another.

Symmetry is declared for `p1` and `p2` in `Backends_hold.cfg`, whose properties are invariants.
`CHECK_DEADLOCK FALSE` is set where the system stops: importers reach the end of their input, a build
ends, callers may stop calling, a page is at rest once its bounds are reached.

## Fairness

`ViewBuild` assumes weak fairness of `Feed` (the main process of `db2view`) and of `Work(w)` for each
worker: loops that wait for nothing but the database, in a pool that gives a free worker a queued
task. Nothing is assumed of the environment: a lost cursor, a refused insert, an exception or a
second run may or may not happen. That a server gives up finitely many cursors is a bound
(`MaxTimeouts`) and a genuine assumption: the code retries without limit.

The pages (`MCSettles`) assume weak fairness of what runs by itself: React commits a render that is
due and runs its effects; the router renders the address it was given; a timer that is set fires; a
request is answered or fails, each on its own. Nothing is assumed of the user and of the other users,
who may stop at any time. A request that fails is an answer: an answer that never comes would
leave a page loading, as it does in a browser without a timeout.

## The proofs

They hold for any sets of processes, keys, addresses, scans, sightings, records, requests and users, and
any values of the bounds, and rest on the assumption of the module, which says the kind of each
constant and, of some, what the code relies on:

- `PassiveAssumption`: finitely many importers, and records of old have ids of their own, that no insert
  makes. What is said of windows also assumes `NoLocalWindows`: windows of time are not merged in memory
  first, which is what `passive_windows` shows to go wrong. So does `Backends`, of its scenes.
- `FlowAssumption`: records are numbered from 1 and finitely many; each has a time slot (`FLOW_TIME` on, as
  the configuration has it by default), and rounding a time twice is rounding it once.
- `BuildAssumption`: addresses are numbers, compared as such. One document per address is what a store or
  a build *that merges* keeps: those theorems assume `~NoMerge`.
- `LoginAssumption`: finitely many requests, and the key of the limit per client is no address of a user.
- `BulkAssumption`: a pool is finite, since the code counts its workers.
- `StoreAssumption`, `ViewAssumption`, `MergeAssumption`: the kinds of the constants.

`NotesStoreProofs` proves `TypeOK`, `OneSavePerRevision`, `HistoryAccounted`, `NewestRowIsTheNote` and
the refinement of `NoteRegister`. A save moves the note first and appends its row later, so the
invariants on the log are not inductive by themselves: `IInv` adds the same bounds for the rows
that callers still owe. `LogBelow` and `OwedBelow` say that no row, stored or owed, is of a life to
come or of a revision the note has not reached, so the next revision is fresh; `OwedIsTheNote` says
that who owes the row of the current revision wrote the current body. Steps are grouped by what they
do to the debts to the log. The refinement maps the write, the refusal and the deletion of the note
to the `Effect` of the register and every later operation of the call to a stutter; the answer a
caller gets rests on a second query made later, so the map takes the four refusals for one.

`PassiveStoreProofs` proves the type of the store, `NothingLost`, `FoldedOnce`, `CountIsSightings`,
`FewDuplicates` and `WindowIsHull`. A sighting is on its way or in records, and what is on its way is what
makes the properties inductive: each sighting that a process holds (in its buffer, or in the item it is
storing) is in one of its items (`SensorHolds`), and in no record and no other process (`Apart`), so that folding
it folds nothing twice. An
update by `_id` comes after the query that found it, when the record may have grown but is still there and
of the same fact (`Targeted`), which holds as only the migration removes, and it removes records of old that
nobody else looks for (`Numbered`). A migration that dies between its insert and its removal copies again: the
sighting it carries is the one of the record that is still there (`Migrating`). `FewDuplicates`
counts those who are about to insert as records already (`Few`). The windows are a second invariant
(`Hulls`) on top: those of the records and those of the items on their way.

`ViewBuildProofs` is about `ViewStore` first: it proves `TypeOK`, `RemovalsAreCovered`, `NothingForgotten` and the
refinement of `HostView`. The removal of a document is decided long before it happens, when others may
have removed the document that replaced it. The invariant orders documents by `_id`: what is about to be
removed is covered by a *newer* document of its address, and when that one is removed first it was itself
covered by a newer one. `DistinctIds` and `FoundIsADoc` make the argument inductive. No process
is kept apart from another here: what an overlap costs is several documents of an address, never a result.
When calls on one address do not overlap (`SerialSpec`: a call begins when its address is `Free`) and hosts are merged,
there is `OneDocPerAddress`: nobody else works on the address of a call (`Alone`), so that the document
it has found stays until it removes it (`FoundIsThere`), and a call that stores its host alone has found
none, or was refused (`RoomToStore`); each refused insert, each death and each call about to remove
accounts for one document more.

It then proves that `db2view` is such a process (`BuildsDoNotOverlap`), that what it ends with is all there is
(`BuildsHold`), and so that it keeps one document per address (`BuildsKeepOne`), for any sources, pools and numbers of
builds. The invariant sweeps the sources along the address being gathered (`Swept`): the usable records a source
has handed out are at or below that address, and those to come at or above it, wherever its
cursor is and however often it was opened again (`CursorsStand`). So when an address is yielded
what is gathered is all the sources have of it (`GatheredIs`), and no later task has the same
address (`TasksAre`): two calls at work are of two tasks, so of two addresses (`CallsAre`), across the builds
too, as a build begins when the workers of the former are gone.

`FlowStoreProofs` proves the type of the store, `NothingLost`, `FoldedOnce`, `CountsAreSightings` and
`SlotsCoverSightings`. It follows a connection. It waits until it is folded, into a flow of its own key. A
cleanup dooms that flow (its removal is to come), and the sums it carries have the connection too (`Kept`,
`Queued`), so that it is never nowhere. From then on it may be in two flows, but of these one is doomed
and the other, of the key turned around, has several source ports (`Once`, `Turned`), so that no cleanup
takes it again. `Summing` and `Covering` say of the sums on their way what is said of flows. What races and failures
put at risk is set apart, as the code has no protection against it (see [below](#what-the-models-found)).

`HostMergeProofs` proves the five properties of merges, and `MergesHold`, their conjunction. The
invariant is that every document is `Good`, and a merge of two good documents is: what the newest scan
says stands because a document ends with its newest scan, so that the document that wins a merge has
it; a script of the older document gives way only to one the newer has; a version comes with the
name it is a version of, so that a service is never that of two scans.

`LoginsProofs` proves the type of `Logins`, `LoginsAreRecorded` and `LoginsAreEarned`. Where a request is says
what the trail has of it and whether it may have a session (`TrailFits`); that is inductive with the
types, since a request without an event is the only one that gets one. That a link opens one session
needs that a link which was consumed is never there again (`Spent`), which holds because links are
numbered as they are made. That only those who may enter do needs that whoever is *about* to be given a
session may have it (`Earned`), and that every active account is of somebody known, welcome or
approved, however accounts are deleted and made again while requests wait. `MailsAreBounded` counts
requests by where they are: the count of a mailbox is read, then that of the client, then one is added to each, then
a mail is sent, so that what was sent or is about to be is bounded by the limit and by the requests
that read the count before the others added to it.

`BackendsProofs` proves the eight invariants of `backends_hold` for `Backends`, that is for any values of
the records of constants. The steps of a scene are those of its module and leave the scene as it is, and the steps of
the others are not taken: so the run satisfies the specification of the module of its scene, whose theorems
apply. For the bulk inserts it proves `DoneMeansFlushed` and `LossIsReported` itself (`BulkIsHonest`).
Nothing makes each worker run one destroyer. The invariant counts instead: as long as no task has
raised, every destroyer handed out is being run or has closed a bulk that was open (`DestroyersCounted`),
since the second on a worker raises. When the last has answered, as many bulks are closed as there are
workers, so all of them are, and a closed bulk has nothing queued. Up to then, every host handed
out is being stored, queued or committed (`HostsFollowed`).

`DeskProofs` proves the five invariants and the action property of `web_desk` for `Desk`, whatever the hosts,
notes, events, users, keys, words, pages, administrators and bounds. Of each page it proves an invariant, stated
in the page's own module after its properties:

- *Panel of a note* (`SavesInv`, `OwnWritesInv`). The revision a save sends starts again at 1 with each life of
  the note. What makes `UpdateReplacesWhatWasSeen` inductive is that everything that was ever read of a note, in
  the cache, in an answer, in an editor or in a call, `Agrees` with it: within one life the revisions
  only grow, and one revision is one text. That the panel shows its own writes (`ReadYourWrites`,
  `HistoryHasOwnWrites`) is proved of *one host* (`OneHost`), as it is checked: with a second one a call that
  is answered after the sheet went on invalidates the wrong entry. What the panel was told of is in the note
  (`ToldIsWritten`), and an entry without a mark, or an answer on its way, is later than what it was told
  (`ReadsAfterTold`, `LooksAfterHeard`).
- *Tab of the notes* (`TabInv`). `AsTheUserWants` is about an address that is rendered. What the steps keep is
  `WantedIsOnItsWay`: type and note of the address are those the user wants, and the text is in the box, or on its
  way there with the render that is due, but in the races the property leaves out (`raced`). A toast is from an answer
  that said that the note is absent, which stays so where nobody creates one (`AbsentIsGone`);
  `ToldOfMissingOnly` assumes `~OthersCreate`, as a note created after the answer exists.
- *Explorer of the events* (`ExplorerInv`). The same is said of its filters and of its event. The sheet is never blank because the look-up is asked for as soon as
  the page needs it; the cache has no event out of scope, whatever the filters and links.
- *Pages of the trail* (`PagesInv`). Events are read newest first, by an offset, from a log that grows and
  is purged between two pages. What a list leaves out is either `Reached` (so many events are newer that no
  page so far could have it) or newer than all rows; of the events that are not newer than the first
  page, only the first can be. Events only get newer ones, so both survive the log; a page in
  order reads the next ones. `NoGap` is about the events that were there when the first page was read,
  which is all that can be said: when more than a page of events is logged between two pages, the second
  page may be newer than the first, and the events between them are of neither. All three assume
  `PageSize <= MaxResults`: a server whose `WEB_MAXRESULTS` is below the 50 events of a page makes every
  page short, and the list ends at the first. What a reader sees (`OwnTrailOnly`, `RowsFitTheFilter`) assumes
  nothing.
- *Keys* (`RevocationInv`, `SessionInv`). A key that was revoked is in no answer on its way (`RevokedForGood`),
  and a list that has it is stale, so that it is asked for anew before it is shown (`StaleIsAsked`); keys that
  do not exist yet are nowhere (`MadeOnce`). That a tab has the keys of one user, and nothing once the user signed
  out, assumes that no other tab changes the session (`~OtherTab`): the tab knows one user at most (`OneUser`)
  and has nothing left (`NothingLeft`).
- *Users* (`DialogInv`, `ToldInv`). The change of the dialog is of the fields the user touched (`SendsTouched`),
  so that `OnlyTouchedFieldsAreSet` holds whatever another administrator does. What the panel was told of
  `is_admin` assumes one administrator (`~OtherAdmin`): from when the server has set it to the answer the panel has
  the former value, and this is what `ToldOrUnderWay` says.
- *Filter of the classic interface* (`FilterInv`). An answer carries no sign of its query. That the newest is not
  pushed out holds whatever the order, because the list is emptied by a request and only added to by an
  answer. That a user who waits sees the results of the query, and their bounds, needs to know what is on
  the way: all requests are the last ones, of the query, the list is empty until its results come, and the
  query on record is the current one as soon as they did (`CalmIsCurrent`), so that no move is taken for one that
  changes nothing. The handlers of one use that the program stacks over that of the hash are as many as
  the events due, at most (`EventsAreDue`), as long as the hash was never set to what it was.
- *Comparison of two filters* (`CompareInv`). The steps are operators on a state of the page, some of which call one
  another, and a lemma says of each what it asks and keeps: the last request of a filter is of its query, a filter
  which never had two on their way has no other (`Numbered`), and so its count is that of its query
  (`Counted`). The query of a set is composed of what the set and the common filter last asked with (`Composes`),
  which breaks and is restored within one step.

Only model-checked: the invariants and `ListSteps` of `web_lists`, and the invariants of `web_legacy`, most of
which are about bounded data and the recursive definitions that compute them (words, slots, trees), which no
theorem can be about here: induction needs a rule that the provers cannot instantiate. Liveness (`BuildEnds`,
`ListsSettle`, `DeskSettles`, `SavesAreShown`, `PlayEnds`) is out of the reach of the proof system, which has no
rule for ENABLED here.

## What the models found

Four properties that the code or its documentation states do not hold; `PROJECT.json` has the quotes.

1. *Rows without a note* (`notes_orphans`): a delete between the write of a note and the append of its
   row sweeps too early, and the row stays.
2. *Windows cut short* (`passive_windows`): `_RecInfo.update_from_spec` keeps the earliest of the ends
   (`airodump2db --local-bulk`).
3. *Rows not flushed* (`bulk_flush`): the destroyers of the pool go to whichever workers are free; the
   second on one worker raises, and another is terminated with its queue.
4. *A draft that changes hosts* (`panel_nexthost`): the next button of the sheet keeps the editor when
   the note of the next host has the same revision, and Save writes the text of one host as the note of
   the other.

Met while modelling; the properties are stated around them, and no run is about them.

- *Notes*: the sweep of a delete takes the rows of the note created since, so that a note at revision N may have
  fewer rows. The revision starts at 1 again after a delete, so a draft of an older life may overwrite a
  note unseen. With two hosts, a save that succeeds after the sheet went on invalidates the query of the host
  on the screen (`api.ts:1000`).
- *History of a note*: an invalidation does not restart the first fetch of an entry, nor one of an entry that is
  hidden. When a note is deleted while its history, opened for the first time, is on its way, the answer that
  was read before the deletion clears the mark and passes for up to date (`api.ts:1064`).
  `HistoryHasOwnWrites` leaves out the writes that such a fetch outlives.
- *Merges*: a merged document is as recent as its latest scan, for ports it has from an older one too; a
  later merge may then prefer an older port.
- *Flows*: `cleanup_flows` sums the counts of a flow once per time slot (`mongo.py:7427`), deletes the metadata
  of the flows it turns around, loses what is added between its aggregate and its deletes, and counts twice
  when two cleanups overlap; two groups each of which is the other turned around lose connections; an upsert
  that fails in the unordered bulk does not keep the delete from succeeding. `reduce_precision` writes
  the list of slots it has read.
- *Logins*: "each login attempt yields exactly one event" fails for exceptions nothing catches: the second of
  two first logins meets the unique index, the account is deleted between its creation and its reading, the
  call for the address of the user raises. A `create_session` that fails after its insert leaves a
  session without an event, whose token nobody has. `delete_user` deletes the sessions before the account, so a
  login in between outlives it.
- *Building*: a worker process killed by the system never answers, and `imap` waits for it for ever
  (`db2view.py:164`). An import of RIR records cut short is taken for complete by the next (`db/__init__.py:5334`).
- *Audit trail*: pages are read by an offset (`audit.ts:289`). When more than a page of events is logged
  between two pages, the second begins with events newer than those of the first, and the ones in between are
  on no page. A server with `WEB_MAXRESULTS` below 50 gives pages that are all short, which the page takes
  for the end of the list (`audit.ts:285`); it has no such limit by default.
- *Side bar*: in sequential mode, a query whose results and map are in the cache is rendered once with the
  counter of the query before it (`FacetSidebar.tsx:74`, `:91`). At that commit as many facets as
  the counter lets through are asked for at once, where the comments at 12 and 60 say one at a time and from the
  top. `FacetsAskedInTurn` leaves that commit out. If the first facet is in the cache too, it is reported before
  the counter is reset by the effect of its parent, and the next facets are never asked for;
  hence the scene *sequence* of `web_settles`, where they must come in the end, has no change of query.
- *Facets of products and versions*: a row whose product or version is unknown adds a filter with an empty value
  (`field-mapper.ts:127`), which no row highlights (`FacetGroup.tsx:212`, against `:19`); `ActiveRowsShow` leaves it out.
- *Products of a host*: the chip of a product adds `product:NAME` (`HostDetailSheet.tsx:454`), which the server leaves
  unused (`utils.py:755`): the list is not narrowed, against what `HostDetailSheet.tsx:48` says, though the chip is highlighted.
  `ResultsHaveTheChip` is about the other chips.
- *Form of the flows*: its text areas show the clauses of the draft, trimmed and the empty ones dropped, at each key
  (`FlowFilterPanel.tsx:83`, `:284`): a space or a newline at the end of the text is gone before the next key, so that
  neither a space within a clause nor a second line can be typed, but only pasted, against the comments at 53 and 280.
  `TypedIsKept` is about the rest of the text. What is put in the form between a click on Apply and
  the render of the new address is replaced by what was applied (`flow.tsx:68`); a sheet opened or closed in that
  moment puts the former filter back (`flow.tsx:117`). The properties of the form leave out such acts (`hasty`).
- *Boxes with a timer* (notes, events): the timer, and the removal of a link that leads nowhere, write an address made of the
  rendered one (`notes.tsx:81`, `:155`, `AuditExplorer.tsx:154`). If the user typed and then went back or followed a
  link, and the timer fires before the new address is rendered, the move is undone. A key pressed between
  the timer and its render is undone by the text that comes back from the address (`notes.tsx:93`, `AuditExplorer.tsx:166`), and a sheet opened or closed
  before the render of another address undoes that address. Clear, when no user is in the filter, keeps
  the text of the box, which then filters (`AuditExplorer.tsx:176`). `AsTheUserWants` leaves these out (`raced`) and holds for all other orders.
- *Comparing two sets*: `same_slash_16` and the scales of the plane are global (`graph.js:805`), so a brush on the
  chart of one set may write the range of the other; the brushes are checked on the page of the results.
- *Pages of the classic interface*: a query of no host leaves the bounds of the query before it, from which the
  button to the last page computes a negative skip. The call that would replace it by 0 raises
  (`ivre.js:291` leaves out its first argument, the filter), so that the query is not put on record (`filters.js:90`); going back to
  the query on record sends no request, and the list keeps what it had. `CalmShowsTheQuery` and
  `CalmBoundsAreThePages` are about users who did not get there.
- *Help of the classic interface*: `cert.keytype`, `cacert.keytype` and `x11` are not read by the server; the
  sign of `-useragent` is lost; the help of `-ssl-jarm` is not shown once typed; the bars of `port:SERVICE` and
  `hop:TTL` write words that select other hosts; service counts are of open ports only while the words select
  any; a null version or product writes a word that matches nothing; the bars of `sshkey.bits` write a type and a size that two
  keys of a host may have apart (`graph.js:201`), and those of `vulns.state` write the vulnerability and not its state (`:257`), so
  that hosts without the label are selected, which `SelectedAreCounted` allows for these two; `notes` is understood only where the server
  has a notepad (`utils.py:1247`), which it has not by default; the menu of Git repositories has
  quotes. A map of a single place is scaled by an infinite quotient.
- *Timeline of the classic interface*: a time that was merged into the last slot keeps a date of its own, which no light
  has (`controllers.js:593`), so that a flow with no other time is lit by no slot; `SlotsShowTheirFlows` says what the last slot lights.
  A graph without times that arrives while the timeline is played leaves the dates of the former one (`:539`): when a
  flow of the next frame is gone, the callback of the timer raises (`:292`, `:743`), and the page says that it
  is playing until the user stops it. `PlayEnds` excepts this case.
- *Words of the classic interface*: tabs and newlines separate words for the server only.
- *Cards of the classic interface*: the links to the parts of an IPv6 address that follow its gap write networks of
  other groups (`fe80::1/112`); those of IPv6 hops write a word which the server reads as a hop and its TTL; the
  links of ports that are not open write a word which selects open ports. `closed:` and `filtered:` are highlighted
  as open ports, `port` 445 of `xp445`, the titles of `owa`, bare `file` and `sshkey`, and `hop` with a TTL are not.
- *Comparing two filters*: the first count of all sets is asked for with an empty query even when the address has
  words; a change of the common filter asks for it once per set, so that answers out of order leave a wrong
  "Results in all sets"; `skip:0` in a set counts without the common words.

## What is not modelled

`PROJECT.json` has each component that is not modelled with its reason. In short: parsers, analyzers, tags,
filters of the server beyond the words above, reports and lookups convert data and keep no state that steps
share; schema migrations are run alone by an operator, but for the one that moves records; the OAuth server
of the MCP service runs in one event loop with no `await` between the calls of its store, so that none of its
steps interleave; the import of RIR records is sequential, and what a crash leaves is never repaired by
anything; vendored libraries and generated documentation are code of others.

In the modelled parts: the other backends; the content of notes, records and documents beyond what
the properties tell apart; in `merge_host_docs`, the unions (tags, sources, names, traces), scripts with a merge
function and the thinning of large hosts; the single-process path of `db2view`; sources that change during a
build; the order of addresses in the database against that of `ip2int`; `replacecount` and
`insert_or_update_mix`; API keys, groups and the checks of a session at each request on the side of the server;
layout, colours, wording and formats of the pages; back and forward buttons, except where an address is
all the state there is.

## The plan

1. Done: the stores of notes, passive records, views and flows, merges and bulk inserts, logins; the pages of both web
   interfaces; proofs of all the invariants of the stores, on their own and composed, and of the pages of
   `web_desk`, two of the classic interface among them.
2. Proofs about the pages of `web_lists` whose state is not computed by recursion: `FlowExplorer`, `RecordPages`,
   `FacetLoading`.
3. `ViewBulk` over `ViewStore`: one build on PostgreSQL with its own form of merge.
4. The unions and the thinning of `merge_host_docs`.
5. Checks of sessions and API keys at each request, next to their revocation.
