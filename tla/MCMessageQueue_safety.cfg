\* Two publishers race while subscribers of overlapping topics come and go.
CONSTANTS
  p1 = p1
  p2 = p2
  Publishers = {p1, p2}
  Subs = {s1, s2}
  Topics = {t1, t2}
  Buffers = {0}
  DefaultBuffer = 2
  SnapSize = 2
  MaxPublish <- TwoAndOne
  NoMsg = NoMsg
  NoSub = NoSub
SPECIFICATION Spec
CHECK_DEADLOCK FALSE
SYMMETRY Symmetry
INVARIANTS
  TopicIndexConsistent
  CountersAgree
  PublisherOrderKept
