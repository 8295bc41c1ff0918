\* Two chains redirect the same message object.
CONSTANTS
  Topics = {"t1", "t2", "t3"}
  Chains = {"c1", "c2"}
  Tables <- OnlyShared
  MaxWorkers = 2
  MaxObjects = 1
  Cap = 1
  Requests = {q1, q2}
  Boot = Boot
  MaxRequests = 2
  None = None
SPECIFICATION RequestsSpec
CHECK_DEADLOCK FALSE
INVARIANTS
  UndirectedGoesToOutTopic
