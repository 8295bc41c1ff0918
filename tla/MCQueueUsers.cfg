\* Publishing returns; cancelled subscriptions, streams of gone browsers and closed
\* listeners end.
CONSTANTS
  p1 = p1
  p2 = p2
  Publishers = {p1, p2}
  Subs = {s1, s2}
  ViewerSubs = {s1}
  Topics = {t1}
  Buffers = {0}
  DefaultBuffer = 1
  SnapSize = 2
  MaxPublish <- OneEach
  NoMsg = NoMsg
  NoSub = NoSub
  MaxSessions = 2
  ChannelSize = 1
  MaxArrivals = 3
  NoData = NoData
  Clients = {c1, c2}
  MaxWrites = 1
  NoClient = NoClient
SPECIFICATION UsersSpec
CHECK_DEADLOCK FALSE
INVARIANTS
  SessionsReadInOrder
  ClosedLeavesOneOpen
PROPERTIES
  PublishReturns
  UnsubscribedConsumerEnds
  BrokenViewerEnds
  ClosedListenerEnds
  StoppedTcpEnds
