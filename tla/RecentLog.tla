----------------------------- MODULE RecentLog ------------------------------
(***************************************************************************)
(* What a topic snapshot promises: the most recent messages of the topic,  *)
(* oldest first, at most Size of them.                                     *)
(***************************************************************************)
EXTENDS Integers, Sequences

CONSTANTS Size, Values

VARIABLE log

\* The last n entries of a log; all of it for n <= 0 or n too large.
LastOf(n, s) ==
  IF n <= 0 \/ n > Len(s) THEN s ELSE SubSeq(s, Len(s) - n + 1, Len(s))

Init == log = <<>>

Push(v) == log' = LastOf(Size, Append(log, v))

Next == \E v \in Values : Push(v)

Spec == Init /\ [][Next]_log
=============================================================================
