SPECIFICATION Spec
CONSTANTS
  Absent = Absent
  None = None
  Null = Null
  NoParam = NoParam
  NoData = NoData
  Failed = Failed
  Typo = Typo
  Sent = Sent
  Refused = Refused
  Loading = Loading
INVARIANTS PagesHold WordsHold FlowHolds CardsHold RowsHold
PROPERTY ListSteps
\* A page is at rest when its bounds are reached.
CHECK_DEADLOCK FALSE
