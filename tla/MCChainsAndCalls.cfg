\* Chains in series, side by side, and scripts that choose topics, and a chain that is
\* started again; three calls of one plugin and one script.
CONSTANTS
  Topics = {"t1", "t2", "t3"}
  Chains = {"c1", "c2"}
  Tables <- Harmless
  MaxWorkers = 3
  MaxObjects = 10
  Cap = 2
  Requests = {q1, q2}
  Boot = Boot
  MaxRequests = 2
  None = None
  Invocations = {v1, v2, v3}
  NoCall = NoCall
SPECIFICATION PartsSpec
CHECK_DEADLOCK FALSE
INVARIANTS
  TopicsAsChosen
  TakenOnce
  PluginRunsOneCall
PROPERTIES
  RelayComesToRest
  CallsReturn
