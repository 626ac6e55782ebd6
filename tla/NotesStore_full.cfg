\* Deletes and failures allowed: two callers, one key.
SPECIFICATION Spec
CONSTANTS
  Clients = {c1, c2}
  Keys = {k1}
  MaxSaves = 3
  WithDeletes = TRUE
  WithFailures = TRUE
INVARIANTS
  TypeOK
  OneSavePerRevision
  HistoryAccounted
  NewestRowIsTheNote
PROPERTIES
  ImplementsRegister
