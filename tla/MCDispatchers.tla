--------------------------- MODULE MCDispatchers ---------------------------
(* Small instances, for TLC, of components that share nothing but the pattern of  *)
(* rows and of what runs for them: `part` says which one a behaviour is about.     *)
EXTENDS Dispatchers, Mockers

VARIABLE part

RowsInit ==
  /\ Init /\ MockersInit
  /\ \/ part = "mockers"
     \/ part = "dispatchers" /\ \A id \in Mockers : mockerRows[id] = NoRow

RowsNext ==
  /\ \/ part = "dispatchers" /\ Next /\ UNCHANGED mockerVars
     \/ part = "mockers" /\ MockersNext /\ UNCHANGED vars
  /\ UNCHANGED part

RowsSpec ==
  /\ RowsInit /\ [][RowsNext]_<<vars, mockerVars, part>>
  /\ PusherFairness /\ TimerFairness
=============================================================================
