SPECIFICATION Spec
CONSTANTS
  Absent = Absent
  None = None
  Null = Null
  All = All
INVARIANTS ChartsHold HelpHolds FlowPageHolds
\* A page is at rest when its bounds are reached.
CHECK_DEADLOCK FALSE
