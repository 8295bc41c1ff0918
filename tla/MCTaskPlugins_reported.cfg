\* A restart overtakes the clean-up of the stopped run.
CONSTANTS
  Names = {n1}
  Sources = {s1}
  Runs = {r1, r2}
  Requests = {q1}
  Boot = Boot
  MaxRequests = 1
  None = None
SPECIFICATION RequestsSpec
CHECK_DEADLOCK FALSE
INVARIANTS
  RunningIsReported
