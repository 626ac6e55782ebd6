SPECIFICATION Spec
CONSTANTS
  Absent = Absent
  p1 = p1
  p2 = p2
  p3 = p3
  importer = importer
  migrator = migrator
  answer = answer
  banner = banner
  oldAnswer1 = oldAnswer1
  oldAnswer2 = oldAnswer2
  alice = alice
  bob = bob
  A = A
  B = B
  importing <- ImportingC
  migrating <- MigratingC
  windowing <- WindowingC
  inserting <- InsertingC
  merging <- MergingC
  flowing <- FlowingC
  crossing <- CrossingC
  logging <- LoggingC
  approving <- ApprovingC
  asking <- AskingC
  Scenes = {"import", "migration", "bulk", "merge", "flows", "crossed", "logins", "approval",
            "asking"}
INVARIANTS SightingsAreKept SightingsAreKeptOnce RecordsAreSums BulkIsHonest MergesHold
           FlowsAreKept LoginsAreRecorded LoginsAreEarned
SYMMETRY Symmetric
\* Imports, migrations, builds, merges, cleanups and logins come to an end.
CHECK_DEADLOCK FALSE
