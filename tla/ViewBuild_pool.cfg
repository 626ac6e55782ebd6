\* Two sources of at most two records, a pool of two workers, two builds.
SPECIFICATION BuildSpec
CONSTANTS
  Workers = {w1, w2}
  Addrs = {1, 2}
  Sources = {nmap, passive}
  Results <- RecordsOfSources
  NoMerge = FALSE
  MaxCalls = 4
  MaxRefusals = 1
  MaxDeaths = 2
  MaxRows = 2
  MaxTimeouts = 1
  MaxBuilds = 2
INVARIANT BuildHolds
INVARIANT OneDocPerAddress
PROPERTY CallsNeverOverlap
PROPERTY BuildEnds
\* A build comes to an end.
CHECK_DEADLOCK FALSE
