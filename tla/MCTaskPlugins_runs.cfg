\* One plugin, two sources, four runs: requests and late clean-ups overlap.
CONSTANTS
  Names = {n1}
  Sources = {s1, s2}
  Runs = {r1, r2, r3, r4}
  Requests = {q1, q2}
  Boot = Boot
  MaxRequests = 3
  None = None
SPECIFICATION FairRequestsSpec
CHECK_DEADLOCK FALSE
INVARIANTS
  StoredRunIsWanted
  ErrorsAreCurrent
  LostOnlyByLateCleanUp
  RunsWhatIsRegistered
PROPERTIES
  DismissedRunEnds
