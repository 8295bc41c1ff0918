\* Two requests at a time about a dispatcher; three about a mocker, two at a time.
CONSTANTS
  Ids = {d1}
  Configs = {a, z}
  Topicless = {z}
  Requests = {r1, r2}
  Instances = {i1, i2}
  Buffer = 1
  None = None
  Mockers = {m1}
  Timers = {g1, g2, g3}
  Intervals = {0, 1}
  MockerRequests = {r1, r2}
  MaxMockerRequests = 3
  NoMocker = NoMocker
  NoTimer = NoTimer
SPECIFICATION RowsSpec
CHECK_DEADLOCK FALSE
INVARIANTS
  SubscribedAsRunning
  RunningMatchesRow
  OneTimerPerMocker
  TimersMatchRows
PROPERTIES
  ClosedPusherEnds
  StoppedTimerEnds
