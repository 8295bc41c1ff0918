----------------------------- MODULE RingBuffer -----------------------------
(***************************************************************************)
(* ringBuffer of internal/queue/queue.go: a topic's snapshot as a fixed    *)
(* array of slots with the next write position and the number of slots in  *)
(* use.  Push and Recent each run under the buffer's own lock.             *)
(***************************************************************************)
EXTENDS Integers, Sequences

CONSTANTS
  Size,     \* ringBuffer.size
  Values,   \* messages
  Empty     \* nil: a slot not written yet

ASSUME SizeAssumption == Size \in Nat \ {0}
ASSUME EmptyAssumption == Empty \notin Values

VARIABLES
  buf,     \* ringBuffer.buf
  head,    \* ringBuffer.head, the next slot to write
  count    \* ringBuffer.count

vars == <<buf, head, count>>

TypeOK ==
  /\ buf \in [0 .. Size - 1 -> Values \cup {Empty}]
  /\ head \in 0 .. Size - 1
  /\ count \in 0 .. Size

\* newRingBuffer
Init ==
  /\ buf = [i \in 0 .. Size - 1 |-> Empty]
  /\ head = 0
  /\ count = 0

\* Mutant: the write position moves while there is room only.
Push_HeadStays(v) ==
  /\ buf' = [buf EXCEPT ![head] = v]
  /\ head' = IF count < Size THEN (head + 1) % Size ELSE head
  /\ count' = IF count < Size THEN count + 1 ELSE count

Push(v) ==
  /\ buf' = [buf EXCEPT ![head] = v]
  /\ head' = (head + 1) % Size
  /\ count' = IF count < Size THEN count + 1 ELSE count

\* The number of messages Recent(n) reads.
Window(n) == IF n <= 0 \/ n > count THEN count ELSE n

\* Oldest first, starting n slots before the write position.  The code skips
\* nil slots; RecentIsSuffix says that it meets none.
Recent(n) ==
  LET start == (head - Window(n) + Size) % Size
  IN  [i \in 1 .. Window(n) |-> buf[(start + i - 1) % Size]]

Next == \E v \in Values : Push(v)

Spec == Init /\ [][Next]_vars
-----------------------------------------------------------------------------
\* Asking for n messages gives the n newest of those kept, in the same order, also
\* when the window wraps around the end of the array or n is out of range; the nil
\* test of Recent never fires.
RecentIsSuffix ==
  \A n \in -1 .. Size + 1 :
    /\ Recent(n) = SubSeq(Recent(0), count - Window(n) + 1, count)
    /\ \A i \in 1 .. Window(n) : Recent(n)[i] # Empty

\* The ring implements the promise of a snapshot: Recent(0) is the abstract log, and
\* a request for fewer messages gives the end of it.
Snapshot == INSTANCE RecentLog WITH log <- Recent(0)
ImplementsRecentLog == Snapshot!Spec /\ []RecentIsSuffix
=============================================================================
