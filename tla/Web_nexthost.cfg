\* The next button of the sheet, while a note is edited.
SPECIFICATION Spec
CONSTANTS
  Absent = Absent
  h1 = h1
  h2 = h2
  n1 = n1
  n2 = n2
  u1 = u1
  u2 = u2
  root = root
  gone = gone
  none = none
  g1 = g1
  None = None
  NoData = NoData
  Sent = Sent
  Refused = Refused
  Closed = Closed
  NoEditor = NoEditor
  Idle = Idle
  Asked = Asked
  NoNote = NoNote
  AnyUser = AnyUser
  NoTime = NoTime
  NoEvent = NoEvent
  NoUser = NoUser
  NoFetch = NoFetch
  Nobody = Nobody
  NoSkip = NoSkip
  NaN = NaN
  Undefined = Undefined
  looking <- LookingC
  staying <- StayingC
  searching <- SearchingC
  creating <- CreatingC
  reading <- ReadingC
  following <- FollowingC
  auditing <- AuditingC
  reviewing <- ReviewingC
  owning <- OwningC
  sharing <- SharingC
  managing <- ManagingC
  competing <- CompetingC
  browsing <- BrowsingC
  comparing <- ComparingC
  returning <- ReturningC
  Scenes = {"panel"}
INVARIANT DraftStaysWithItsHost
\* A page is at rest when its bounds are reached.
CHECK_DEADLOCK FALSE
