\* Unsubscribing while a Publish is delivering.
CONSTANTS
  p1 = p1
  p2 = p2
  Publishers = {p1, p2}
  Subs = {s1}
  Topics = {t1}
  Buffers = {0}
  DefaultBuffer = 1
  SnapSize = 2
  MaxPublish <- OneEach
  NoMsg = NoMsg
  NoSub = NoSub
SPECIFICATION Spec
CHECK_DEADLOCK FALSE
INVARIANTS
  NoSendOnClosed
