-------------------------- MODULE MCChainsAndCalls --------------------------
(* The chains and, apart from them, the calls of user code that their processors *)
(* make: `part` says which one a behaviour is about.                              *)
EXTENDS MCProcessorChains, PluginCalls

VARIABLE part

PartsInit ==
  /\ RequestsInit /\ CallsInit
  /\ \/ part = "chains" /\ kind = [c \in Invocations |-> "timed"]
     \/ part = "calls" /\ table = Series /\ rows = Chains /\ enabled = rows

PartsNext ==
  /\ \/ part = "chains" /\ RequestsNext /\ UNCHANGED callVars
     \/ part = "calls" /\ CallsNext /\ UNCHANGED allVars
  /\ UNCHANGED part

PartsSpec ==
  /\ PartsInit /\ [][PartsNext]_<<allVars, callVars, part>>
  /\ WorkerFairness /\ CallsFairness
=============================================================================
