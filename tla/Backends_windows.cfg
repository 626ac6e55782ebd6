\* Windows of time, merged in memory first.
SPECIFICATION Spec
CONSTANTS
  Absent = Absent
  p1 = p1
  p2 = p2
  p3 = p3
  importer = importer
  migrator = migrator
  answer = answer
  banner = banner
  oldAnswer1 = oldAnswer1
  oldAnswer2 = oldAnswer2
  alice = alice
  bob = bob
  A = A
  B = B
  importing <- ImportingC
  migrating <- MigratingC
  windowing <- WindowingC
  inserting <- InsertingC
  merging <- MergingC
  flowing <- FlowingC
  crossing <- CrossingC
  logging <- LoggingC
  approving <- ApprovingC
  asking <- AskingC
  Scenes = {"windows"}
INVARIANT LocalWindowIsHull
\* An import comes to an end.
CHECK_DEADLOCK FALSE
