\* Three callers on one address, nothing keeps their calls apart.
SPECIFICATION Spec
CONSTANTS
  Workers = {w1, w2, w3}
  Addrs = {a1}
  Results = {r1, r2}
  NoMerge = TRUE
  MaxCalls = 4
  MaxRefusals = 1
  MaxDeaths = 1
INVARIANT TypeOK
INVARIANT NothingForgotten
INVARIANT RemovalsAreCovered
PROPERTY ImplementsHostView
\* Callers may stop storing hosts.
CHECK_DEADLOCK FALSE
