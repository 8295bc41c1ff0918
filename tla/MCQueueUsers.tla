---------------------------- MODULE MCQueueUsers ----------------------------
(* The queue with its viewers, and apart from it the listeners whose messages *)
(* are published to it: `part` says which one a behaviour is about.           *)
EXTENDS Viewers, Listeners, TcpListener, TLC

CONSTANTS p1, p2

OneEach == p1 :> 1 @@ p2 :> 1

VARIABLE part

UsersInit ==
  /\ ViewersInit /\ ListenersInit /\ TcpInit
  /\ part \in {"viewers", "listeners", "tcp"}
  /\ part # "listeners" => origin = "udp"

UsersNext ==
  /\ \/ part = "viewers" /\ ViewersNext /\ UNCHANGED <<listenerVars, tcpVars>>
     \/ part = "listeners" /\ ListenersNext /\ UNCHANGED <<viewersVars, tcpVars>>
     \/ part = "tcp" /\ TcpNext /\ UNCHANGED <<viewersVars, listenerVars>>
  /\ UNCHANGED part

UsersSpec ==
  /\ UsersInit /\ [][UsersNext]_<<viewersVars, listenerVars, tcpVars, part>>
  /\ PublisherFairness /\ ListenersFairness /\ TcpFairness
=============================================================================
