---------- MODULE Backends ---------------------------------------------------
(***************************************************************************)
(* What runs behind the pages: the importers of the passive records         *)
(* (PassiveStore) and of the flows (FlowStore), the two steps of db2view    *)
(* between the records of an address and its row in PostgreSQL (HostMerge   *)
(* and ViewBulk), and the logins (Logins).                                  *)
(*                                                                          *)
(* They share no state: the scene that is chosen at the start says which    *)
(* one runs.  What a scene is given is a record of the constants of its     *)
(* module, so that what is proved of the scenes is proved for all data.     *)
(***************************************************************************)
EXTENDS Naturals

CONSTANTS
  Scenes,      \* those that may be chosen
  Absent,      \* the value of the variables a scene does not have
  importing,   \* two sensors, by any route
  migrating,   \* an importer and a migration
  windowing,   \* windows, merged in memory
  inserting,   \* tasks that store hosts
  merging,     \* documents of an address
  flowing,     \* imports and cleanups of flows
  crossing,    \* the same, with flows both ways
  logging,     \* logins, and what fails
  approving,   \* logins and an administrator
  asking       \* those that ask for links

VARIABLES scene,
          records, route, ended, buffer, pc, item, target, old, read, dropped, ids, deaths, again,
          phase, next, job, at, bulk, queue, hosts, committed, raised, failures,
          reports, docs, flows, unread, sent, insert, todo, risked, jobs, faults,
          accounts, sessions, links, mailed, ledger, trail, cookies, who, via, asks,
          eraser, approved, changes

vars ==
  <<scene, records, route, ended, buffer, pc, item, target, old, read, dropped, ids, deaths,
    again, phase, next, job, at, bulk, queue, hosts, committed, raised, failures,
    reports, docs, flows, unread, sent, insert, todo, risked, jobs, faults, accounts,
    sessions, links, mailed, ledger, trail, cookies, who, via, asks, eraser, approved,
    changes>>

-----------------------------------------------------------------------------
(* The scenes.                                                              *)

Imports == INSTANCE PassiveStoreProofs WITH
       Migrator <- importing.Migrator, Blacklist <- importing.Blacklist,
       Legacy <- importing.Legacy, Intervals <- importing.Intervals,
       BulkBatch <- importing.BulkBatch, LocalBatch <- importing.LocalBatch,
       MaxSightings <- importing.MaxSightings, MaxTime <- importing.MaxTime,
       MaxDeaths <- importing.MaxDeaths, Sensors <- importing.Sensors,
       Facts <- importing.Facts, Routes <- importing.Routes
ASSUME ImportsAssumption == Imports!PassiveAssumption /\ Imports!NoLocalWindows
Migration == INSTANCE PassiveStoreProofs WITH
       Migrator <- migrating.Migrator, Blacklist <- migrating.Blacklist,
       Legacy <- migrating.Legacy, Intervals <- migrating.Intervals,
       BulkBatch <- migrating.BulkBatch, LocalBatch <- migrating.LocalBatch,
       MaxSightings <- migrating.MaxSightings, MaxTime <- migrating.MaxTime,
       MaxDeaths <- migrating.MaxDeaths, Sensors <- migrating.Sensors,
       Facts <- migrating.Facts, Routes <- migrating.Routes
ASSUME MigrationAssumption == Migration!PassiveAssumption /\ Migration!NoLocalWindows
Windows == INSTANCE PassiveStore WITH
       Migrator <- windowing.Migrator, Blacklist <- windowing.Blacklist,
       Legacy <- windowing.Legacy, Intervals <- windowing.Intervals,
       BulkBatch <- windowing.BulkBatch, LocalBatch <- windowing.LocalBatch,
       MaxSightings <- windowing.MaxSightings, MaxTime <- windowing.MaxTime,
       MaxDeaths <- windowing.MaxDeaths, Sensors <- windowing.Sensors,
       Facts <- windowing.Facts, Routes <- windowing.Routes
ASSUME WindowsAssumption == Windows!PassiveAssumption
Inserts == INSTANCE ViewBulk WITH
       Workers <- inserting.Workers, MaxHosts <- inserting.MaxHosts,
       BatchSize <- inserting.BatchSize, MaxFailures <- inserting.MaxFailures
ASSUME InsertsAssumption == Inserts!BulkAssumption
Merges == INSTANCE HostMergeProofs WITH
       Scans <- merging.Scans, Ports <- merging.Ports, Names <- merging.Names,
       Scripts <- merging.Scripts, MaxTime <- merging.MaxTime
ASSUME MergesAssumption == Merges!MergeAssumption
Flows == INSTANCE FlowStoreProofs WITH
       Records <- flowing.Records, Services <- flowing.Services,
       FewDports <- flowing.FewDports, Rounded <- flowing.Rounded,
       MaxJobs <- flowing.MaxJobs, MaxFaults <- flowing.MaxFaults,
       Importers <- flowing.Importers, src <- flowing.src, dst <- flowing.dst,
       sport <- flowing.sport, dport <- flowing.dport, slots <- flowing.slots,
       Metas <- flowing.Metas
ASSUME FlowsAssumption == Flows!FlowAssumption
CrossedFlows == INSTANCE FlowStoreProofs WITH
       Records <- crossing.Records, Services <- crossing.Services,
       FewDports <- crossing.FewDports, Rounded <- crossing.Rounded,
       MaxJobs <- crossing.MaxJobs, MaxFaults <- crossing.MaxFaults,
       Importers <- crossing.Importers, src <- crossing.src, dst <- crossing.dst,
       sport <- crossing.sport, dport <- crossing.dport, slots <- crossing.slots,
       Metas <- crossing.Metas
ASSUME CrossedFlowsAssumption == CrossedFlows!FlowAssumption
Logged == INSTANCE LoginsProofs WITH
       Attempts <- logging.Attempts, Askers <- logging.Askers, Emails <- logging.Emails,
       Known <- logging.Known, RatePerEmail <- logging.RatePerEmail,
       RatePerIP <- logging.RatePerIP, MaxFaults <- logging.MaxFaults,
       MaxChanges <- logging.MaxChanges, Welcome <- logging.Welcome
ASSUME LoggedAssumption == Logged!LoginAssumption
Approved == INSTANCE LoginsProofs WITH
       Attempts <- approving.Attempts, Askers <- approving.Askers,
       Emails <- approving.Emails, Known <- approving.Known,
       RatePerEmail <- approving.RatePerEmail, RatePerIP <- approving.RatePerIP,
       MaxFaults <- approving.MaxFaults, MaxChanges <- approving.MaxChanges,
       Welcome <- approving.Welcome
ASSUME ApprovedAssumption == Approved!LoginAssumption
Asked == INSTANCE LoginsProofs WITH
       Attempts <- asking.Attempts, Askers <- asking.Askers, Emails <- asking.Emails,
       Known <- asking.Known, RatePerEmail <- asking.RatePerEmail,
       RatePerIP <- asking.RatePerIP, MaxFaults <- asking.MaxFaults,
       MaxChanges <- asking.MaxChanges, Welcome <- asking.Welcome
ASSUME AskedAssumption == Asked!LoginAssumption

\* The variables a page does not have.
OnlyPassiveStore ==
  /\ phase = Absent /\ next = Absent /\ job = Absent /\ at = Absent /\ bulk = Absent
  /\ queue = Absent /\ hosts = Absent /\ committed = Absent /\ raised = Absent
  /\ failures = Absent /\ reports = Absent /\ docs = Absent /\ flows = Absent
  /\ unread = Absent /\ sent = Absent /\ insert = Absent /\ todo = Absent
  /\ risked = Absent /\ jobs = Absent /\ faults = Absent /\ accounts = Absent
  /\ sessions = Absent /\ links = Absent /\ mailed = Absent /\ ledger = Absent
  /\ trail = Absent /\ cookies = Absent /\ who = Absent /\ via = Absent
  /\ asks = Absent /\ eraser = Absent /\ approved = Absent /\ changes = Absent
notPassiveStore ==
  <<phase, next, job, at, bulk, queue, hosts, committed, raised, failures, reports, docs,
    flows, unread, sent, insert, todo, risked, jobs, faults, accounts, sessions, links,
    mailed, ledger, trail, cookies, who, via, asks, eraser, approved, changes>>
OnlyViewBulk ==
  /\ records = Absent /\ route = Absent /\ ended = Absent /\ buffer = Absent
  /\ pc = Absent /\ item = Absent /\ target = Absent /\ old = Absent
  /\ read = Absent /\ dropped = Absent /\ ids = Absent /\ deaths = Absent
  /\ again = Absent /\ reports = Absent /\ docs = Absent /\ flows = Absent
  /\ unread = Absent /\ sent = Absent /\ insert = Absent /\ todo = Absent
  /\ risked = Absent /\ jobs = Absent /\ faults = Absent /\ accounts = Absent
  /\ sessions = Absent /\ links = Absent /\ mailed = Absent /\ ledger = Absent
  /\ trail = Absent /\ cookies = Absent /\ who = Absent /\ via = Absent
  /\ asks = Absent /\ eraser = Absent /\ approved = Absent /\ changes = Absent
notViewBulk ==
  <<records, route, ended, buffer, pc, item, target, old, read, dropped, ids, deaths, again,
    reports, docs, flows, unread, sent, insert, todo, risked, jobs, faults, accounts,
    sessions, links, mailed, ledger, trail, cookies, who, via, asks, eraser, approved,
    changes>>
OnlyHostMerge ==
  /\ records = Absent /\ route = Absent /\ ended = Absent /\ buffer = Absent
  /\ pc = Absent /\ item = Absent /\ target = Absent /\ old = Absent
  /\ read = Absent /\ dropped = Absent /\ ids = Absent /\ deaths = Absent
  /\ again = Absent /\ phase = Absent /\ next = Absent /\ job = Absent
  /\ at = Absent /\ bulk = Absent /\ queue = Absent /\ hosts = Absent
  /\ committed = Absent /\ raised = Absent /\ failures = Absent /\ flows = Absent
  /\ unread = Absent /\ sent = Absent /\ insert = Absent /\ todo = Absent
  /\ risked = Absent /\ jobs = Absent /\ faults = Absent /\ accounts = Absent
  /\ sessions = Absent /\ links = Absent /\ mailed = Absent /\ ledger = Absent
  /\ trail = Absent /\ cookies = Absent /\ who = Absent /\ via = Absent
  /\ asks = Absent /\ eraser = Absent /\ approved = Absent /\ changes = Absent
notHostMerge ==
  <<records, route, ended, buffer, pc, item, target, old, read, dropped, ids, deaths, again,
    phase, next, job, at, bulk, queue, hosts, committed, raised, failures, flows,
    unread, sent, insert, todo, risked, jobs, faults, accounts, sessions, links, mailed,
    ledger, trail, cookies, who, via, asks, eraser, approved, changes>>
OnlyFlowStore ==
  /\ records = Absent /\ route = Absent /\ ended = Absent /\ buffer = Absent
  /\ pc = Absent /\ item = Absent /\ target = Absent /\ old = Absent
  /\ read = Absent /\ dropped = Absent /\ deaths = Absent /\ again = Absent
  /\ phase = Absent /\ next = Absent /\ job = Absent /\ at = Absent
  /\ queue = Absent /\ hosts = Absent /\ committed = Absent /\ raised = Absent
  /\ failures = Absent /\ reports = Absent /\ docs = Absent /\ accounts = Absent
  /\ sessions = Absent /\ links = Absent /\ mailed = Absent /\ ledger = Absent
  /\ trail = Absent /\ cookies = Absent /\ who = Absent /\ via = Absent
  /\ asks = Absent /\ eraser = Absent /\ approved = Absent /\ changes = Absent
notFlowStore ==
  <<records, route, ended, buffer, pc, item, target, old, read, dropped, deaths, again,
    phase, next, job, at, queue, hosts, committed, raised, failures, reports, docs,
    accounts, sessions, links, mailed, ledger, trail, cookies, who, via, asks, eraser,
    approved, changes>>
OnlyLogins ==
  /\ records = Absent /\ route = Absent /\ ended = Absent /\ buffer = Absent
  /\ pc = Absent /\ item = Absent /\ target = Absent /\ old = Absent
  /\ read = Absent /\ dropped = Absent /\ ids = Absent /\ deaths = Absent
  /\ again = Absent /\ phase = Absent /\ next = Absent /\ job = Absent
  /\ bulk = Absent /\ queue = Absent /\ hosts = Absent /\ committed = Absent
  /\ raised = Absent /\ failures = Absent /\ reports = Absent /\ docs = Absent
  /\ flows = Absent /\ unread = Absent /\ sent = Absent /\ insert = Absent
  /\ todo = Absent /\ risked = Absent /\ jobs = Absent
notLogins ==
  <<records, route, ended, buffer, pc, item, target, old, read, dropped, ids, deaths, again,
    phase, next, job, bulk, queue, hosts, committed, raised, failures, reports, docs,
    flows, unread, sent, insert, todo, risked, jobs>>

Init ==
  /\ scene \in Scenes
  /\ \/ scene = "import" /\ Imports!Init /\ OnlyPassiveStore
     \/ scene = "migration" /\ Migration!Init /\ OnlyPassiveStore
     \/ scene = "windows" /\ Windows!Init /\ OnlyPassiveStore
     \/ scene = "bulk" /\ Inserts!Init /\ OnlyViewBulk
     \/ scene = "merge" /\ Merges!Init /\ OnlyHostMerge
     \/ scene = "flows" /\ Flows!Init /\ OnlyFlowStore
     \/ scene = "crossed" /\ CrossedFlows!Init /\ OnlyFlowStore
     \/ scene = "logins" /\ Logged!Init /\ OnlyLogins
     \/ scene = "approval" /\ Approved!Init /\ OnlyLogins
     \/ scene = "asking" /\ Asked!Init /\ OnlyLogins

Next ==
  /\ UNCHANGED scene
  /\ \/ scene = "import" /\ Imports!Next /\ UNCHANGED notPassiveStore
     \/ scene = "migration" /\ Migration!Next /\ UNCHANGED notPassiveStore
     \/ scene = "windows" /\ Windows!Next /\ UNCHANGED notPassiveStore
     \/ scene = "bulk" /\ Inserts!Next /\ UNCHANGED notViewBulk
     \/ scene = "merge" /\ Merges!Next /\ UNCHANGED notHostMerge
     \/ scene = "flows" /\ Flows!Next /\ UNCHANGED notFlowStore
     \/ scene = "crossed" /\ CrossedFlows!Next /\ UNCHANGED notFlowStore
     \/ scene = "logins" /\ Logged!Next /\ UNCHANGED notLogins
     \/ scene = "approval" /\ Approved!Next /\ UNCHANGED notLogins
     \/ scene = "asking" /\ Asked!Next /\ UNCHANGED notLogins

Spec == Init /\ [][Next]_vars

-----------------------------------------------------------------------------
(* The properties.                                                          *)

\* Whatever the route of the sensors, the batches, the deaths and the migration, a
\* sighting that was read is recorded, or on its way, or went down with a process
\* (passiverecon2db.py, mongo.py, update_dns_blacklist).
SightingsAreKept ==
  /\ scene = "import" => Imports!TypeOK /\ Imports!NothingLost
  /\ scene = "migration" => Migration!TypeOK /\ Migration!NothingLost

\* And it is in one record only, but for what a migration copied before it died; racing
\* upserts give a fact no more records than there are processes.
SightingsAreKeptOnce ==
  /\ scene = "import" => Imports!FoldedOnce /\ Imports!FewDuplicates
  /\ scene = "migration" => Migration!FoldedOnce /\ Migration!FewDuplicates

\* The count of a record is that of its sightings and its window their hull, in
\* whatever order they were folded.
RecordsAreSums ==
  /\ scene = "import" => Imports!CountIsSightings /\ Imports!WindowIsHull
  /\ scene = "migration" => Migration!CountIsSightings /\ Migration!WindowIsHull

\* Rows are lost only in a build that an exception ends, and one that ends well has
\* committed those of every host (postgres.py, db2view.py).
BulkIsHonest == scene = "bulk" => Inserts!DoneMeansFlushed /\ Inserts!LossIsReported

\* However the documents of an address are merged, nothing of a scan is lost or made
\* up: the window, the ports and the scripts are those of all of them, no service has
\* the version of another one, and what the most recent scan says stands; merges in the
\* order of time give each port the most recent scan that saw it (merge_host_docs).
MergesHold == scene = "merge" => Merges!MergesHold

\* Cleanups and roundings that overlap imports and one another lose or count twice only
\* what came in between their two halves: the other connections are in one flow, which
\* counts them and has their time slots (mongo.py, flow2db.py).
FlowsAreKept ==
  /\ scene = "flows" =>
       /\ Flows!TypeOK /\ Flows!NothingLost /\ Flows!FoldedOnce
       /\ Flows!CountsAreSightings /\ Flows!SlotsCoverSightings
  /\ scene = "crossed" =>
       /\ CrossedFlows!TypeOK /\ CrossedFlows!NothingLost /\ CrossedFlows!FoldedOnce
       /\ CrossedFlows!CountsAreSightings /\ CrossedFlows!SlotsCoverSightings

\* No one is logged in without an event of the trail, and no attempt has two, whatever
\* fails and whoever dies (auth.py, audit_hook.py).
LoginsAreRecorded ==
  /\ scene = "logins" => Logged!TypeOK /\ Logged!LoginsAreRecorded
  /\ scene = "approval" => Approved!TypeOK /\ Approved!LoginsAreRecorded

\* A link lets one request in, only those who may are let in, and no more links are sent
\* than the limits and those that ask at once allow (auth.py, mongo.py).
LoginsAreEarned ==
  /\ scene = "logins" => Logged!LoginsAreEarned
  /\ scene = "approval" => Approved!LoginsAreEarned
  /\ scene = "asking" =>
       Asked!MailsAreBounded /\ Asked!LoginsAreEarned

-----------------------------------------------------------------------------
(* What is written of them and does not hold.                               *)

\* `Like .insert_or_update()' (insert_or_update_local_bulk): windows of time that are
\* merged in memory first give a record their hull.
LocalWindowIsHull == scene = "windows" => Windows!WindowIsHull

\* `may use this method to commit bulk insert structures' (stop_store_hosts): when
\* every host was stored without an error, no queued row is left behind.
CleanBuildIsFlushed == scene = "bulk" => Inserts!CleanBuildIsFlushed
=============================================================================
