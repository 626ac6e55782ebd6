\* A delete races the appends of other callers; nothing fails.
SPECIFICATION Spec
CONSTANTS
  Clients = {c1, c2}
  Keys = {k1}
  MaxSaves = 3
  WithDeletes = TRUE
  WithFailures = FALSE
INVARIANTS
  NoOrphanRows
