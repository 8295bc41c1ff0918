--------------------------- MODULE MCMessageQueue ---------------------------
(* Small instances of MessageQueue for TLC; the configurations give the sets. *)
EXTENDS MessageQueue, TLC

\* Subscribers and topics are interchangeable in Init and Next.
Symmetry == Permutations(Subs) \cup Permutations(Topics)

CONSTANTS p1, p2

TwoAndOne == p1 :> 2 @@ p2 :> 1
OneEach == p1 :> 1 @@ p2 :> 1
=============================================================================
