\* A program that comes up with any tables, and two requests that may overlap.
CONSTANTS
  http = http
  mqtt = mqtt
  Conns = {c1}
  Parents = {http, mqtt}
  ParentType <- KindOf
  Configs <- OwnOrChild
  Requests = {r1, r2}
  Sessions = {s1, s2}
  Capacity = 1
  MaxRequests = 2
  Blank = Blank
  None = None
SPECIFICATION FairSpec
CHECK_DEADLOCK FALSE
INVARIANTS
  NoOrphanReader
  RunningHasItsBuffer
  ChildrenStopWithParent
  RoutesAreOfRunning
PROPERTIES
  ClosedSessionEnds
