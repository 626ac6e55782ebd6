SPECIFICATION Spec
CONSTANTS
  Absent = Absent
  h1 = h1
  n1 = n1
  n2 = n2
  u1 = u1
  u2 = u2
  root = root
  gone = gone
  none = none
  g1 = g1
  None = None
  NoData = NoData
  NoParam = NoParam
  Failed = Failed
  Typo = Typo
  Sent = Sent
  Refused = Refused
  Closed = Closed
  NoEditor = NoEditor
  Idle = Idle
  Asked = Asked
  NoNote = NoNote
  AnyUser = AnyUser
  NoTime = NoTime
  NoEvent = NoEvent
  NoUser = NoUser
  NoFetch = NoFetch
  Nobody = Nobody
  All = All
PROPERTIES ListsSettle DeskSettles SavesAreShown PlayEnds
\* A page is at rest when its bounds are reached.
CHECK_DEADLOCK FALSE
