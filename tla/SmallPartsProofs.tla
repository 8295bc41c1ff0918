-------------------------- MODULE SmallPartsProofs --------------------------
(***************************************************************************)
(* The small parts that share nothing with each other, each for all values *)
(* of its constants: the ring buffer implements the log of the most recent *)
(* messages; the rates of a subscriber are those of its window; what a     *)
(* snapshot of the configuration saves, and what runs once one is          *)
(* restored; the migration of a table keeps what users wrote; the form     *)
(* that edits a listener changes nothing else.                             *)
(***************************************************************************)
EXTENDS RingBuffer, SlidingWindow, ConfigSnapshots, SchemaMigration, ListenerRows,
        SequenceTheorems, FiniteSetTheorems, TLAPS
-----------------------------------------------------------------------------
\* The ring buffer implements the log of the most recent messages.

\* While the ring is not full, the write position is the number of messages;
\* the slots in use, counted back from the write position, hold messages.
RingInv ==
  /\ TypeOK
  /\ count < Size => head = count
  /\ \A i \in 0 .. Size - 1 : count = Size \/ i < head => buf[i] \in Values

LEMMA ModBelow == ASSUME NEW N \in Nat \ {0}, NEW x \in 0 .. N - 1 PROVE x % N = x
OBVIOUS

LEMMA ModAbove == ASSUME NEW N \in Nat \ {0}, NEW x \in N .. (N + N) - 1 PROVE x % N = x - N
OBVIOUS

LEMMA NextHead ==
  ASSUME TypeOK
  PROVE  (head + 1) % Size = IF head + 1 = Size THEN 0 ELSE head + 1
<1>1. CASE head + 1 = Size
  <2>1. Size \in Size .. (Size + Size) - 1 /\ Size - Size = 0
    BY SizeAssumption
  <2>2. Size % Size = Size - Size
    BY <2>1, SizeAssumption, ModAbove
  <2> QED
    BY <1>1, <2>1, <2>2
<1>2. CASE head + 1 # Size
  <2>1. head + 1 \in 0 .. Size - 1
    BY <1>2, SizeAssumption DEF TypeOK
  <2> QED
    BY <1>2, <2>1, SizeAssumption, ModBelow
<1> QED
  BY <1>1, <1>2

LEMMA InitRing == Init => RingInv
BY SizeAssumption DEF Init, RingInv, TypeOK

LEMMA NextRing ==
  ASSUME RingInv, [Next]_vars
  PROVE  RingInv'
<1>1. CASE UNCHANGED vars
  BY <1>1 DEF vars, RingInv, TypeOK
<1>2. ASSUME NEW v \in Values, Push(v)
      PROVE  RingInv'
  <2>1. head' = IF head + 1 = Size THEN 0 ELSE head + 1
    BY <1>2, NextHead DEF Push, RingInv
  <2>2. /\ \A i \in 0 .. Size - 1 : buf'[i] = IF i = head THEN v ELSE buf[i]
        /\ buf' \in [0 .. Size - 1 -> Values \cup {Empty}]
    BY <1>2 DEF Push, RingInv, TypeOK
  <2>3. count' = IF count < Size THEN count + 1 ELSE count
    BY <1>2 DEF Push
  <2> QED
    BY <2>1, <2>2, <2>3, SizeAssumption DEF RingInv, TypeOK
<1> QED
  BY <1>1, <1>2 DEF Next

\* Every state of the ring satisfies its invariant.
THEOREM RingCorrect == Spec => []RingInv
BY InitRing, NextRing, PTL DEF Spec
-----------------------------------------------------------------------------
\* The slot of the i-th message of Recent(0): the ring starts at 0 until it is full.
Slot(i) ==
  IF count < Size THEN i - 1
  ELSE IF head + i - 1 < Size THEN head + i - 1 ELSE head + i - 1 - Size

\* What Recent(0) reads, without the arithmetic of the code.
ReadsSlots ==
  /\ Recent(0) = [i \in 1 .. count |-> buf[Slot(i)]]
  /\ \A i \in 1 .. count : Slot(i) \in 0 .. Size - 1 /\ buf[Slot(i)] \in Values

LEMMA RecentSlots == RingInv => ReadsSlots
<1> SUFFICES ASSUME RingInv PROVE ReadsSlots
  OBVIOUS
<1> DEFINE start == (head - count + Size) % Size
<1>0. /\ count \in 0 .. Size /\ head \in 0 .. Size - 1 /\ Size \in Nat \ {0}
      /\ count < Size => head = count
      /\ count < Size \/ count = Size
  BY SizeAssumption DEF RingInv, TypeOK
<1>1. start = IF count < Size THEN 0 ELSE head
  <2>1. CASE count < Size
    <3>1. head - count + Size = Size /\ Size \in Size .. (Size + Size) - 1 /\ Size - Size = 0
      BY <2>1, <1>0
    <3>2. Size % Size = Size - Size
      BY <3>1, <1>0, ModAbove
    <3> QED
      BY <2>1, <3>1, <3>2
  <2>2. CASE count = Size
    <3>1. head - count + Size = head /\ head \in 0 .. Size - 1
      BY <2>2, <1>0
    <3> QED
      BY <2>2, <3>1, <1>0, ModBelow
  <2> QED
    BY <2>1, <2>2, <1>0
<1>2. Recent(0) = [i \in 1 .. count |-> buf[(start + i - 1) % Size]]
  BY DEF Recent, Window
<1> HIDE DEF start
<1>3. ASSUME NEW i \in 1 .. count
      PROVE  (start + i - 1) % Size = Slot(i) /\ Slot(i) \in 0 .. Size - 1
  <2>1. CASE count < Size
    <3>1. start + i - 1 = i - 1 /\ i - 1 \in 0 .. Size - 1
      BY <1>0, <1>1, <2>1
    <3> QED
      BY <2>1, <3>1, <1>0, ModBelow DEF Slot
  <2>2. CASE count = Size
    <3>1. start = head /\ i \in 1 .. Size /\ ~(count < Size)
      BY <1>0, <1>1, <2>2
    <3>2. CASE head + i - 1 < Size
      <4>1. head + i - 1 \in 0 .. Size - 1
        BY <1>0, <3>1, <3>2
      <4>2. (head + i - 1) % Size = head + i - 1
        BY <4>1, <1>0, ModBelow
      <4> QED
        BY <3>1, <3>2, <4>1, <4>2 DEF Slot
    <3>3. CASE ~(head + i - 1 < Size)
      <4>1. head + i - 1 \in Size .. (Size + Size) - 1 /\ head + i - 1 - Size \in 0 .. Size - 1
        BY <1>0, <3>1, <3>3
      <4>2. (head + i - 1) % Size = head + i - 1 - Size
        BY <4>1, <1>0, ModAbove
      <4> QED
        BY <3>1, <3>3, <4>1, <4>2 DEF Slot
    <3> QED
      BY <3>2, <3>3
  <2> QED
    BY <2>1, <2>2, <1>0
<1>4. ASSUME NEW i \in 1 .. count
      PROVE  buf[Slot(i)] \in Values
  <2>1. Slot(i) \in 0 .. Size - 1 /\ (count < Size => Slot(i) < head)
    BY <1>0, <1>3 DEF Slot
  <2> QED
    BY <2>1, <1>0 DEF RingInv
<1> QED
  BY <1>2, <1>3, <1>4 DEF ReadsSlots

\* Recent(0) is a log of at most Size messages, and none of the slots it reads
\* is one that was never written: the nil test of Recent never fires.
LEMMA RecentType == RingInv => Recent(0) \in Seq(Values) /\ Len(Recent(0)) = count /\ count <= Size
<1> SUFFICES ASSUME RingInv
             PROVE  Recent(0) \in Seq(Values) /\ Len(Recent(0)) = count /\ count <= Size
  OBVIOUS
<1>1. count \in Nat /\ count <= Size
  BY SizeAssumption DEF RingInv, TypeOK
<1> DEFINE r == [i \in 1 .. count |-> buf[Slot(i)]]
<1>2. Recent(0) = r
  BY RecentSlots DEF ReadsSlots
<1>3. r \in [1 .. count -> Values]
  BY RecentSlots DEF ReadsSlots
<1> HIDE DEF r
<1> QED
  BY <1>1, <1>2, <1>3

\* Appending to a log of at most Size messages and keeping the last Size.
LEMMA LastOfAppend ==
  ASSUME NEW s \in Seq(Values), Len(s) <= Size, NEW v \in Values
  PROVE  Snapshot!LastOf(Size, Append(s, v))
           = IF Len(s) < Size
             THEN [i \in 1 .. Len(s) + 1 |-> IF i = Len(s) + 1 THEN v ELSE s[i]]
             ELSE [i \in 1 .. Size |-> IF i = Size THEN v ELSE s[i + 1]]
<1> DEFINE a == Append(s, v)
<1> SUFFICES Snapshot!LastOf(Size, a)
           = IF Len(s) < Size
             THEN [i \in 1 .. Len(s) + 1 |-> IF i = Len(s) + 1 THEN v ELSE s[i]]
             ELSE [i \in 1 .. Size |-> IF i = Size THEN v ELSE s[i + 1]]
  OBVIOUS
<1>1. /\ a \in Seq(Values) /\ Len(a) = Len(s) + 1 /\ Len(s) \in Nat
      /\ a = [i \in 1 .. Len(s) + 1 |-> IF i = Len(s) + 1 THEN v ELSE s[i]]
  <2>1. /\ a \in Seq(Values) /\ Len(a) = Len(s) + 1 /\ Len(s) \in Nat
        /\ \A i \in 1 .. Len(s) + 1 : a[i] = IF i = Len(s) + 1 THEN v ELSE s[i]
    BY AppendProperties
  <2>2. a \in [1 .. Len(a) -> Values]
    BY <2>1, LenProperties
  <2> HIDE DEF a
  <2>3. a = [i \in 1 .. Len(s) + 1 |-> a[i]]
    BY <2>1, <2>2
  <2> QED
    BY <2>1, <2>3
<1> HIDE DEF a
<1>2. CASE Len(s) + 1 < Size
  BY <1>1, <1>2, SizeAssumption DEF Snapshot!LastOf
<1>3. CASE Len(s) + 1 = Size
  <2>1. SubSeq(a, 1, Len(a)) = a
    BY <1>1
  <2>2. ~(Size <= 0) /\ ~(Size > Len(a)) /\ Len(a) - Size + 1 = 1
    BY <1>1, <1>3, SizeAssumption
  <2>3. Snapshot!LastOf(Size, a) = SubSeq(a, Len(a) - Size + 1, Len(a))
    BY <2>2 DEF Snapshot!LastOf
  <2> QED
    <3>1. Len(s) < Size
      BY <1>1, <1>3, SizeAssumption
    <3>2. Snapshot!LastOf(Size, a) = a
      BY <2>1, <2>2, <2>3
    <3> QED
      BY <1>1, <3>1, <3>2
<1>4. CASE Len(s) = Size
  <2>1. ~(Size <= 0) /\ ~(Size > Len(a)) /\ Len(a) - Size + 1 = 2 /\ Len(a) = Size + 1
    BY <1>1, <1>4, SizeAssumption
  <2>2. Snapshot!LastOf(Size, a) = SubSeq(a, 2, Size + 1)
    BY <2>1 DEF Snapshot!LastOf
  <2>3. SubSeq(a, 2, Size + 1) = [i \in 1 .. Size |-> a[i + 1]]
    BY <1>1, <1>4, SizeAssumption
  <2>4. \A i \in 1 .. Size : a[i + 1] = IF i = Size THEN v ELSE s[i + 1]
    BY <1>1, <1>4, SizeAssumption
  <2>5. [i \in 1 .. Size |-> a[i + 1]] = [i \in 1 .. Size |-> IF i = Size THEN v ELSE s[i + 1]]
    BY <2>4
  <2> QED
    <3>1. ~(Len(s) < Size)
      BY <1>4, SizeAssumption
    <3>2. Snapshot!LastOf(Size, a) = [i \in 1 .. Size |-> IF i = Size THEN v ELSE s[i + 1]]
      BY <2>2, <2>3, <2>5
    <3> QED
      BY <3>1, <3>2
<1> QED
  BY <1>1, <1>2, <1>3, <1>4, SizeAssumption

LEMMA PushRecent ==
  ASSUME RingInv, RingInv', NEW v \in Values, Push(v), ReadsSlots, ReadsSlots'
  PROVE  Recent(0)' = Snapshot!LastOf(Size, Append(Recent(0), v))
<1> DEFINE s == Recent(0)
<1>1. s \in Seq(Values) /\ Len(s) = count /\ count <= Size
  BY RecentType
<1>2. /\ s = [i \in 1 .. count |-> buf[Slot(i)]]
      /\ Recent(0)' = [i \in 1 .. count' |-> buf'[Slot(i)']]
      /\ \A i \in 1 .. count : Slot(i) \in 0 .. Size - 1
      /\ \A i \in 1 .. count' : Slot(i)' \in 0 .. Size - 1
  BY DEF ReadsSlots
<1> HIDE DEF s
<1>3. /\ head' = IF head + 1 = Size THEN 0 ELSE head + 1
      /\ count' = IF count < Size THEN count + 1 ELSE count
      /\ \A k \in 0 .. Size - 1 : buf'[k] = IF k = head THEN v ELSE buf[k]
  BY NextHead DEF Push, RingInv, TypeOK
<1>4. /\ count \in 0 .. Size /\ head \in 0 .. Size - 1 /\ Size \in Nat \ {0}
      /\ count < Size => head = count
  BY SizeAssumption DEF RingInv, TypeOK
<1>5. CASE count < Size
  <2>1. ASSUME NEW i \in 1 .. count + 1
        PROVE  buf'[Slot(i)'] = IF i = count + 1 THEN v ELSE s[i]
    <3>1. Slot(i)' = i - 1
      BY <1>3, <1>4, <1>5 DEF Slot
    <3>2. i <= count => s[i] = buf[i - 1]
      BY <1>2, <1>5 DEF Slot
    <3> QED
      BY <1>3, <1>4, <1>5, <3>1, <3>2
  <2>2. count' = count + 1
    BY <1>3, <1>5
  <2>3. Recent(0)' = [i \in 1 .. count + 1 |-> IF i = count + 1 THEN v ELSE s[i]]
    BY <1>2, <2>1, <2>2
  <2> QED
    BY <1>1, <1>5, <2>3, LastOfAppend DEF s
<1>6. CASE count = Size
  <2>1. ASSUME NEW i \in 1 .. Size
        PROVE  buf'[Slot(i)'] = IF i = Size THEN v ELSE s[i + 1]
    <3>1. Slot(i)' = IF head' + i - 1 < Size THEN head' + i - 1 ELSE head' + i - 1 - Size
      BY <1>3, <1>6, <1>4 DEF Slot
    <3>2. i < Size => s[i + 1] = buf[IF head + i < Size THEN head + i ELSE head + i - Size]
      BY <1>2, <1>4, <1>6 DEF Slot
    <3>3. CASE i = Size
      <4>1. Slot(i)' = head
        BY <1>3, <1>4, <3>1, <3>3
      <4> QED
        BY <1>3, <1>4, <3>3, <4>1
    <3>4. CASE i # Size
      <4>1. Slot(i)' = IF head + i < Size THEN head + i ELSE head + i - Size
        BY <1>3, <1>4, <3>1, <3>4
      <4>2. Slot(i)' # head /\ Slot(i)' \in 0 .. Size - 1
        BY <1>4, <3>4, <4>1
      <4>3. buf'[Slot(i)'] = buf[Slot(i)']
        BY <1>3, <4>2
      <4> QED
        BY <1>4, <3>2, <3>4, <4>1, <4>3
    <3> QED
      BY <3>3, <3>4
  <2>2. count' = Size
    BY <1>3, <1>4, <1>6
  <2>3. Recent(0)' = [i \in 1 .. Size |-> IF i = Size THEN v ELSE s[i + 1]]
    BY <1>2, <2>1, <2>2
  <2>4. Snapshot!LastOf(Size, Append(s, v)) = [i \in 1 .. Size |-> IF i = Size THEN v ELSE s[i + 1]]
    <3>1. ~(Len(s) < Size)
      BY <1>1, <1>4, <1>6
    <3> QED
      BY <1>1, <3>1, LastOfAppend
  <2> QED
    BY <2>3, <2>4 DEF s
<1> QED
  BY <1>4, <1>5, <1>6

\* A window of the w newest messages starts at the slot of the oldest of them.
LEMMA WindowSlots ==
  ASSUME RingInv, NEW w \in 0 .. count, NEW i \in 1 .. w
  PROVE  (((head - w + Size) % Size) + i - 1) % Size = Slot(count - w + i)
<1> DEFINE start == (head - w + Size) % Size
<1>0. /\ count \in 0 .. Size /\ head \in 0 .. Size - 1 /\ Size \in Nat \ {0}
      /\ count < Size => head = count
      /\ w \in 1 .. Size /\ w <= count /\ i \in 1 .. Size /\ i <= w
  BY SizeAssumption DEF RingInv, TypeOK
<1>1. start = IF head < w THEN head - w + Size ELSE head - w
  <2>1. CASE head < w
    <3>1. head - w + Size \in 0 .. Size - 1
      BY <1>0, <2>1
    <3> QED
      BY <2>1, <3>1, <1>0, ModBelow
  <2>2. CASE ~(head < w)
    <3>1. head - w + Size \in Size .. (Size + Size) - 1 /\ head - w + Size - Size = head - w
      BY <1>0, <2>2
    <3> QED
      BY <2>2, <3>1, <1>0, ModAbove
  <2> QED
    BY <2>1, <2>2
<1> HIDE DEF start
<1>2. CASE head < w
  <2>1. count = Size /\ start = head - w + Size
    BY <1>0, <1>1, <1>2
  <2>2. CASE start + i - 1 < Size
    <3>1. start + i - 1 \in 0 .. Size - 1
      BY <1>0, <1>2, <2>1, <2>2
    <3>2. Slot(count - w + i) = start + i - 1
      BY <1>0, <2>1, <2>2 DEF Slot
    <3> QED
      BY <3>1, <3>2, <1>0, ModBelow DEF start
  <2>3. CASE ~(start + i - 1 < Size)
    <3>1. start + i - 1 \in Size .. (Size + Size) - 1
      BY <1>0, <1>2, <2>1, <2>3
    <3>2. Slot(count - w + i) = start + i - 1 - Size
      BY <1>0, <2>1, <2>3 DEF Slot
    <3> QED
      BY <3>1, <3>2, <1>0, ModAbove DEF start
  <2> QED
    BY <2>2, <2>3
<1>3. CASE ~(head < w)
  <2>1. start = head - w /\ start + i - 1 \in 0 .. Size - 1
    BY <1>0, <1>1, <1>3
  <2>2. Slot(count - w + i) = start + i - 1
    <3>1. CASE count < Size
      BY <1>0, <2>1, <3>1 DEF Slot
    <3>2. CASE count = Size
      BY <1>0, <2>1, <3>2 DEF Slot
    <3> QED
      BY <1>0, <3>1, <3>2
  <2> QED
    BY <2>1, <2>2, <1>0, ModBelow DEF start
<1> QED
  BY <1>2, <1>3

\* Any request for messages is answered with the end of the log.
LEMMA RingSuffix == RingInv => RecentIsSuffix
<1> SUFFICES ASSUME RingInv, NEW n \in -1 .. Size + 1
             PROVE  /\ Recent(n) = SubSeq(Recent(0), count - Window(n) + 1, count)
                    /\ \A i \in 1 .. Window(n) : Recent(n)[i] # Empty
  BY DEF RecentIsSuffix
<1> DEFINE w == Window(n)
           s == Recent(0)
<1>1. count \in Nat /\ w \in 0 .. count
  BY SizeAssumption DEF RingInv, TypeOK, Window
<1>2. /\ s \in Seq(Values) /\ Len(s) = count
      /\ \A i \in 1 .. count : s[i] = buf[Slot(i)] /\ s[i] \in Values
  BY RecentType, RecentSlots DEF ReadsSlots
<1>3. Recent(n) = [i \in 1 .. w |-> buf[(((head - w + Size) % Size) + i - 1) % Size]]
  BY DEF Recent
<1> HIDE DEF w, s
<1>4. \A i \in 1 .. w : count - w + i \in 1 .. count
  BY <1>1
<1>5. Recent(n) = [i \in 1 .. w |-> s[count - w + i]]
  <2>1. \A i \in 1 .. w : buf[(((head - w + Size) % Size) + i - 1) % Size] = s[count - w + i]
    BY <1>1, <1>2, <1>4, WindowSlots
  <2> QED
    BY <1>3, <2>1
<1>6. SubSeq(s, count - w + 1, count) = [i \in 1 .. w |-> s[count - w + i]]
  <2>1. SubSeq(s, count - w + 1, count)
          = [i \in 1 .. (1 + count - (count - w + 1)) |-> s[i + (count - w + 1) - 1]]
    BY <1>1, <1>2, SMTT(40)
  <2>2. 1 + count - (count - w + 1) = w
        /\ \A i \in 1 .. w : i + (count - w + 1) - 1 = count - w + i
    BY <1>1
  <2> QED
    BY <2>1, <2>2
<1>7. \A i \in 1 .. w : Recent(n)[i] # Empty
  BY <1>2, <1>4, <1>5, EmptyAssumption
<1> QED
  BY <1>5, <1>6, <1>7 DEF w, s

\* The ring buffer keeps exactly the last Size messages pushed, oldest first:
\* the array with a write position and a count implements the abstract log, and
\* a request for n of them is answered with its end.
THEOREM RingImplementsLog == Spec => ImplementsRecentLog
<1>1. Init => Snapshot!Init
  <2> SUFFICES ASSUME Init PROVE Snapshot!Init
    OBVIOUS
  <2>1. count = 0 /\ RingInv
    BY InitRing DEF Init
  <2> QED
    BY <2>1, RecentType DEF Snapshot!Init
<1>2. RingInv /\ RingInv' /\ ReadsSlots /\ ReadsSlots' /\ [Next]_vars
        => [Snapshot!Next]_(Recent(0))
  <2> SUFFICES ASSUME RingInv, RingInv', ReadsSlots, ReadsSlots', [Next]_vars
               PROVE  [Snapshot!Next]_(Recent(0))
    OBVIOUS
  <2>1. CASE UNCHANGED vars
    BY <2>1 DEF vars, Recent, Window
  <2>2. ASSUME NEW v \in Values, Push(v)
        PROVE  Snapshot!Next
    BY <2>2, PushRecent DEF Snapshot!Next, Snapshot!Push
  <2> QED
    BY <2>1, <2>2 DEF Next
<1> QED
  BY <1>1, <1>2, RingCorrect, RecentSlots, RingSuffix, PTL DEF Spec, ImplementsRecentLog, Snapshot!Spec
-----------------------------------------------------------------------------
\* The rates of a subscriber are those of its window.

WindowTypeOK ==
  /\ tick \in Nat /\ advancing \in {"no", "zero", "store"} /\ listed \in BOOLEAN
  /\ bucketIdx \in Nat /\ buckets \in [0 .. WindowBuckets - 1 -> Nat]
  /\ loaded \in [Recorders -> Nat \cup {NoBucket}]
  /\ counted \in Seq([began : Nat, ended : Nat])
  /\ reader \in [cur : Nat, i : 0 .. WindowBuckets, sum : Nat, known : Nat]

\* Indexes are those of seconds that have begun, and nobody counts for a subscriber
\* that does not exist.
IndexesInOrder ==
  /\ bucketIdx <= tick /\ (advancing # "no" => bucketIdx < tick)
  /\ \A r \in Recorders : loaded[r] # NoBucket => listed /\ loaded[r] <= bucketIdx
  /\ \A k \in DOMAIN counted : counted[k].began <= bucketIdx
  /\ listed \/ (advancing = "no" /\ \A b \in 0 .. WindowBuckets - 1 : buckets[b] = 0)
  /\ reader.cur <= bucketIdx /\ reader.known <= Len(counted)
  /\ \A k \in 1 .. reader.known : counted[k].began <= reader.cur

\* The events added to the bucket of second b since that second began, and those that
\* went by the index b.
AddedSince(b) ==
  {k \in DOMAIN counted :
     counted[k].began % WindowBuckets = b % WindowBuckets /\ counted[k].ended >= b}
BegunAt(b) == {k \in DOMAIN counted : counted[k].began = b}

\* What a bucket holds, while its second is within the window.
BucketsHold ==
  /\ \A b \in 0 .. tick : (advancing = "zero" => b < tick) =>
       buckets[b % WindowBuckets] <= Cardinality(AddedSince(b))
  /\ \A b \in 1 .. tick : b > tick - WindowBuckets =>
       Cardinality(BegunAt(b)) <= buckets[b % WindowBuckets]

\* The events the reader may have found, and those it must have found, so far.
MayFind ==
  {k \in DOMAIN counted :
     /\ counted[k].ended > reader.cur - WindowBuckets
     /\ \E x \in 0 .. reader.i - 1 :
          x <= reader.cur /\ counted[k].began % WindowBuckets = (reader.cur - x) % WindowBuckets}
MustFind ==
  {k \in 1 .. reader.known :
     /\ counted[k].began # 0 /\ counted[k].began > tick - WindowBuckets
     /\ counted[k].began > reader.cur - reader.i}
ReadSoFar == Cardinality(MustFind) <= reader.sum /\ reader.sum <= Cardinality(MayFind)

WindowInv == WindowTypeOK /\ IndexesInOrder /\ BucketsHold /\ ReadSoFar
-----------------------------------------------------------------------------
\* Every second has a bucket, and N seconds in a row have different ones.
LEMMA Division ==
  ASSUME NEW N \in Nat, N > 0, NEW x \in Nat
  PROVE  /\ x = N * (x \div N) + (x % N) /\ x \div N \in Nat /\ x % N \in 0 .. N - 1
         /\ \A q \in Nat, r \in 0 .. N - 1 : (N * q + r) % N = r
<1>1. x = N * (x \div N) + (x % N)
  BY SMT
<1>2. x \div N \in Nat /\ x % N \in 0 .. N - 1
  BY SMT
<1>3. ASSUME NEW q \in Nat, NEW r \in 0 .. N - 1 PROVE (N * q + r) % N = r
  BY SMT
<1> QED
  BY <1>1, <1>2, <1>3

LEMMA BucketIs ==
  ASSUME NEW N \in Nat, N > 0, NEW x \in Nat
  PROVE  x % N \in 0 .. N - 1 /\ (x + N) % N = x % N
<1> DEFINE q == x \div N
           r == x % N
<1>1. x = N * q + r /\ q \in Nat /\ r \in 0 .. N - 1
  BY Division
<1>2. \A d \in Nat, e \in 0 .. N - 1 : (N * d + e) % N = e
  BY Division
<1> HIDE DEF q, r
<1>3. x + N = N * (q + 1) + r
  BY <1>1
<1>4. (x + N) % N = r
  <2>1. q + 1 \in Nat
    BY <1>1
  <2>2. (N * (q + 1) + r) % N = r
    BY <1>1, <1>2, <2>1
  <2> QED
    BY <1>3, <2>2
<1> QED
  BY <1>1, <1>4 DEF r

LEMMA BucketsApart ==
  ASSUME NEW N \in Nat, N > 0, NEW x \in Nat, NEW y \in Nat, y < x, x < y + N
  PROVE  x % N # y % N
<1> DEFINE q == x \div N
           p == y \div N
           r == x % N
           s == y % N
<1>1. x = N * q + r /\ y = N * p + s /\ q \in Nat /\ p \in Nat /\ r \in Int /\ s \in Int
  BY Division
<1> HIDE DEF q, p, r, s
<1>2. ASSUME r = s PROVE FALSE
  <2>1. N * (q - p) = x - y
    BY <1>1, <1>2
  <2>2. \A d \in Int : d <= 0 => N * d <= 0
    OBVIOUS
  <2>3. \A d \in Int : d >= 1 => N * d >= N
    OBVIOUS
  <2>4. q - p \in Int /\ (q - p <= 0 \/ q - p >= 1)
    BY <1>1
  <2> QED
    BY <2>1, <2>2, <2>3, <2>4
<1> QED
  BY <1>2 DEF r, s

LEMMA CountUnion ==
  ASSUME NEW S, NEW T, IsFiniteSet(S), IsFiniteSet(T), S \cap T = {}
  PROVE  Cardinality(S \cup T) = Cardinality(S) + Cardinality(T)
<1>1. Cardinality(S \cap T) = 0
  BY FS_EmptySet
<1>2. Cardinality(S) \in Nat /\ Cardinality(T) \in Nat
  BY FS_CardinalityType
<1>3. Cardinality(S \cup T) = Cardinality(S) + Cardinality(T) - Cardinality(S \cap T)
  BY FS_Union
<1> QED
  BY <1>1, <1>2, <1>3

LEMMA EventsAreFinite ==
  ASSUME WindowTypeOK
  PROVE  /\ DOMAIN counted = 1 .. Len(counted) /\ Len(counted) \in Nat
         /\ \A k \in DOMAIN counted : counted[k].began \in Nat /\ counted[k].ended \in Nat
         /\ IsFiniteSet(DOMAIN counted)
<1>1. counted \in Seq([began : Nat, ended : Nat])
  BY DEF WindowTypeOK
<1>2. DOMAIN counted = 1 .. Len(counted) /\ Len(counted) \in Nat
  BY <1>1
<1>3. \A k \in DOMAIN counted : counted[k] \in [began : Nat, ended : Nat]
  <2> DEFINE Event == [began : Nat, ended : Nat]
  <2>1. counted \in Seq(Event)
    BY <1>1
  <2> HIDE DEF Event
  <2>2. \A k \in DOMAIN counted : counted[k] \in Event
    BY <1>2, <2>1, ElementOfSeq
  <2> QED
    BY <2>2 DEF Event
<1>4. IsFiniteSet(1 .. Len(counted))
  BY <1>2, FS_Interval
<1> QED
  BY <1>2, <1>3, <1>4

LEMMA InitWindow == WindowInit => WindowInv
<1> SUFFICES ASSUME WindowInit PROVE WindowInv
  OBVIOUS
<1>1. WindowTypeOK
  <2>1. counted = <<>> /\ <<>> \in Seq([began : Nat, ended : Nat])
    BY DEF WindowInit
  <2>2. 0 \in 0 .. WindowBuckets
    BY WindowAssumption
  <2> QED
    BY <2>1, <2>2 DEF WindowInit, WindowTypeOK
<1>2. IndexesInOrder
  BY WindowAssumption DEF WindowInit, IndexesInOrder
<1>3. BucketsHold
  <2>1. 0 % WindowBuckets \in 0 .. WindowBuckets - 1
    BY WindowAssumption, BucketIs
  <2>2. \A b : AddedSince(b) = {}
    BY DEF WindowInit, AddedSince
  <2>3. Cardinality({}) = 0
    BY FS_EmptySet
  <2> QED
    <3>1. buckets[0 % WindowBuckets] = 0 /\ tick = 0
      BY <2>1 DEF WindowInit
    <3>2. \A b \in 0 .. tick : b = 0
      BY <3>1
    <3>3. \A b \in 1 .. tick : FALSE
      BY <3>1
    <3> QED
      BY <2>2, <2>3, <3>1, <3>2, <3>3 DEF BucketsHold
<1>4. ReadSoFar
  <2>1. MustFind = {} /\ MayFind = {} /\ reader.sum = 0
    BY DEF WindowInit, MustFind, MayFind
  <2> QED
    BY <2>1, FS_EmptySet DEF ReadSoFar
<1> QED
  BY <1>1, <1>2, <1>3, <1>4 DEF WindowInv

LEMMA FiniteParts ==
  ASSUME NEW S, IsFiniteSet(S), NEW T \in SUBSET S
  PROVE  IsFiniteSet(T) /\ Cardinality(T) \in Nat /\ Cardinality(T) <= Cardinality(S)
<1>1. IsFiniteSet(T) /\ Cardinality(T) <= Cardinality(S)
  BY FS_Subset
<1> QED
  BY <1>1, FS_CardinalityType

LEMMA KnownEvents ==
  ASSUME WindowTypeOK, IndexesInOrder
  PROVE  1 .. reader.known \subseteq DOMAIN counted
<1>1. reader.known \in Nat /\ reader.known <= Len(counted)
  BY DEF WindowTypeOK, IndexesInOrder
<1>2. DOMAIN counted = 1 .. Len(counted) /\ Len(counted) \in Nat
  BY EventsAreFinite
<1> QED
  BY <1>1, <1>2

\* The same facts in the form the proof of the step uses.
LEMMA WindowFacts ==
  ASSUME WindowInv
  PROVE  /\ WindowTypeOK /\ IndexesInOrder /\ BucketsHold /\ ReadSoFar
         /\ WindowBuckets \in Nat /\ WindowBuckets > 0 /\ NoBucket \notin Nat
         /\ tick \in Nat /\ bucketIdx \in Nat /\ tick + 1 \in Nat
         /\ \A b \in Nat : b % WindowBuckets \in 0 .. WindowBuckets - 1
         /\ \A x \in Nat, y \in Nat :
              y < x /\ x < y + WindowBuckets => x % WindowBuckets # y % WindowBuckets
         /\ \A b : /\ IsFiniteSet(AddedSince(b)) /\ Cardinality(AddedSince(b)) \in Nat
                   /\ IsFiniteSet(BegunAt(b)) /\ Cardinality(BegunAt(b)) \in Nat
         /\ IsFiniteSet(MayFind) /\ Cardinality(MayFind) \in Nat
         /\ IsFiniteSet(MustFind) /\ Cardinality(MustFind) \in Nat
<1>1. WindowTypeOK /\ IndexesInOrder /\ BucketsHold /\ ReadSoFar
  BY DEF WindowInv
<1>2. /\ WindowBuckets \in Nat /\ WindowBuckets > 0 /\ NoBucket \notin Nat
      /\ tick \in Nat /\ bucketIdx \in Nat /\ tick + 1 \in Nat
  BY <1>1, WindowAssumption DEF WindowTypeOK
<1>3. \A b \in Nat : b % WindowBuckets \in 0 .. WindowBuckets - 1
  BY <1>2, BucketIs
<1>4. \A x \in Nat, y \in Nat :
        y < x /\ x < y + WindowBuckets => x % WindowBuckets # y % WindowBuckets
  BY <1>2, BucketsApart
<1>5. \A S \in SUBSET DOMAIN counted : IsFiniteSet(S) /\ Cardinality(S) \in Nat
  BY <1>1, EventsAreFinite, FiniteParts
<1>6. /\ \A b : AddedSince(b) \in SUBSET DOMAIN counted /\ BegunAt(b) \in SUBSET DOMAIN counted
      /\ MayFind \in SUBSET DOMAIN counted
  BY DEF AddedSince, BegunAt, MayFind
<1>7. MustFind \in SUBSET DOMAIN counted
  <2>1. 1 .. reader.known \subseteq DOMAIN counted
    BY <1>1, KnownEvents
  <2> QED
    BY <2>1 DEF MustFind
<1> QED
  BY <1>1, <1>2, <1>3, <1>4, <1>5, <1>6, <1>7

\* As long as no event is added and nobody reads, what was read stays right.
LEMMA ReadStays ==
  ASSUME WindowInv, counted' = counted, reader' = reader, tick' \in Nat, tick <= tick'
  PROVE  ReadSoFar'
<1>1. /\ WindowTypeOK /\ ReadSoFar /\ WindowBuckets \in Nat /\ tick \in Nat
      /\ IsFiniteSet(MustFind) /\ Cardinality(MustFind) \in Nat /\ reader.sum \in Nat
  BY WindowFacts DEF WindowTypeOK
<1>2. MayFind' = MayFind
  BY DEF MayFind
<1>3. MustFind' \in SUBSET MustFind
  <2>1. /\ \A k \in 1 .. reader.known : counted[k].began \in Nat
    <3>1. 1 .. reader.known \subseteq DOMAIN counted
      BY <1>1, WindowFacts, KnownEvents
    <3> QED
      BY <1>1, <3>1, EventsAreFinite
  <2> QED
    BY <1>1, <2>1 DEF MustFind
<1>4. Cardinality(MustFind') <= Cardinality(MustFind) /\ Cardinality(MustFind') \in Nat
  BY <1>1, <1>3, FiniteParts
<1> QED
  BY <1>1, <1>2, <1>4 DEF ReadSoFar

\* A subscriber starts to be listed.
LEMMA ListedStep ==
  ASSUME WindowInv, Listed
  PROVE  WindowInv'
<1>1. /\ WindowTypeOK /\ IndexesInOrder /\ BucketsHold /\ listed' = TRUE /\ tick \in Nat
      /\ UNCHANGED <<tick, advancing, bucketIdx, buckets, loaded, counted, reader>>
  BY WindowFacts DEF Listed
<1>2. WindowTypeOK' /\ IndexesInOrder'
  BY <1>1 DEF WindowTypeOK, IndexesInOrder
<1>3. BucketsHold'
  BY <1>1 DEF BucketsHold, AddedSince, BegunAt
<1>4. ReadSoFar'
  BY <1>1, ReadStays
<1> QED
  BY <1>2, <1>3, <1>4 DEF WindowInv

LEMMA TickStep ==
  ASSUME WindowInv, Tick
  PROVE  WindowInv'
<1>1. /\ WindowTypeOK /\ IndexesInOrder /\ BucketsHold /\ WindowBuckets \in Nat
      /\ tick \in Nat /\ tick + 1 \in Nat /\ bucketIdx \in Nat
      /\ advancing = "no" /\ tick' = tick + 1 /\ advancing' = IF listed THEN "zero" ELSE "no"
      /\ UNCHANGED <<listed, bucketIdx, buckets, loaded, counted, reader>>
  BY WindowFacts DEF Tick
<1>2. WindowTypeOK' /\ IndexesInOrder'
  BY <1>1 DEF WindowTypeOK, IndexesInOrder
<1>3. \A b : /\ AddedSince(b)' = AddedSince(b) /\ BegunAt(b)' = BegunAt(b)
             /\ Cardinality(AddedSince(b)) \in Nat
  BY <1>1, WindowFacts DEF AddedSince, BegunAt
<1>4. ASSUME NEW b \in 0 .. tick', advancing' = "zero" => b < tick'
      PROVE  buckets[b % WindowBuckets] <= Cardinality(AddedSince(b))
  <2>1. CASE listed
    BY <1>1, <1>4, <2>1 DEF BucketsHold
  <2>2. CASE ~listed
    <3>1. b % WindowBuckets \in 0 .. WindowBuckets - 1
      BY <1>1, <1>4, WindowFacts
    <3> QED
      BY <1>1, <1>3, <2>2, <3>1 DEF IndexesInOrder
  <2> QED
    BY <2>1, <2>2
<1>5. ASSUME NEW b \in 1 .. tick', b > tick' - WindowBuckets
      PROVE  Cardinality(BegunAt(b)) <= buckets[b % WindowBuckets]
  <2>1. CASE b <= tick
    BY <1>1, <1>5, <2>1 DEF BucketsHold
  <2>2. CASE b = tick + 1
    <3>1. \A k \in DOMAIN counted : counted[k].began \in Nat /\ counted[k].began <= bucketIdx
      BY <1>1, EventsAreFinite DEF IndexesInOrder
    <3>2. BegunAt(b) = {}
      BY <1>1, <2>2, <3>1 DEF BegunAt, IndexesInOrder
    <3>3. b % WindowBuckets \in 0 .. WindowBuckets - 1
      BY <1>1, <1>5, WindowFacts
    <3> QED
      BY <1>1, <3>2, <3>3, FS_EmptySet DEF WindowTypeOK
  <2> QED
    BY <1>1, <1>5, <2>1, <2>2
<1>6. BucketsHold'
  BY <1>1, <1>3, <1>4, <1>5 DEF BucketsHold
<1>7. ReadSoFar'
  BY <1>1, ReadStays
<1> QED
  BY <1>2, <1>6, <1>7 DEF WindowInv

\* The bucket is emptied while its second has begun for the ticker alone.
LEMMA ZeroStep ==
  ASSUME WindowInv, advancing = "zero", advancing' = "store",
         buckets' = [buckets EXCEPT ![tick % WindowBuckets] = 0],
         UNCHANGED <<tick, listed, bucketIdx, loaded, counted, reader>>
  PROVE  WindowInv'
<1> DEFINE z == tick % WindowBuckets
<1>1. /\ WindowTypeOK /\ IndexesInOrder /\ BucketsHold /\ WindowBuckets \in Nat
      /\ tick \in Nat /\ z \in 0 .. WindowBuckets - 1 /\ bucketIdx \in Nat
      /\ advancing = "zero" /\ advancing' = "store" /\ buckets' = [buckets EXCEPT ![z] = 0]
      /\ UNCHANGED <<tick, listed, bucketIdx, loaded, counted, reader>>
  BY WindowFacts
<1>2. \A b \in 0 .. tick : (b % WindowBuckets) \in 0 .. WindowBuckets - 1
  BY <1>1, WindowFacts
<1>3. \A b \in 0 .. tick : b < tick /\ tick < b + WindowBuckets => b % WindowBuckets # z
  BY <1>1, WindowFacts
<1>4. \A b : /\ AddedSince(b)' = AddedSince(b) /\ BegunAt(b)' = BegunAt(b)
             /\ Cardinality(AddedSince(b)) \in Nat /\ Cardinality(BegunAt(b)) \in Nat
  BY <1>1, WindowFacts DEF AddedSince, BegunAt
<1> HIDE DEF z
<1>5. buckets'[z] = 0 /\ \A x \in 0 .. WindowBuckets - 1 : x # z => buckets'[x] = buckets[x]
  BY <1>1 DEF WindowTypeOK
<1>6. buckets' \in [0 .. WindowBuckets - 1 -> Nat]
  BY <1>1 DEF WindowTypeOK
<1>7. WindowTypeOK' /\ IndexesInOrder'
  BY <1>1, <1>6, SMTT(40) DEF WindowTypeOK, IndexesInOrder
<1>8. ASSUME NEW b \in 0 .. tick
      PROVE  buckets'[b % WindowBuckets] <= Cardinality(AddedSince(b))
  <2>1. CASE b % WindowBuckets = z
    BY <1>4, <1>5, <2>1
  <2>2. CASE b % WindowBuckets # z
    <3>1. b < tick
      BY <1>1, <2>2 DEF z
    <3>2. buckets[b % WindowBuckets] <= Cardinality(AddedSince(b))
      BY <1>1, <3>1 DEF BucketsHold
    <3> QED
      BY <1>2, <1>5, <2>2, <3>2
  <2> QED
    BY <2>1, <2>2
<1>9. ASSUME NEW b \in 1 .. tick, b > tick - WindowBuckets
      PROVE  Cardinality(BegunAt(b)) <= buckets'[b % WindowBuckets]
  <2>1. CASE b = tick
    <3>1. \A k \in DOMAIN counted : counted[k].began \in Nat /\ counted[k].began <= bucketIdx
      BY <1>1, EventsAreFinite DEF IndexesInOrder
    <3>2. BegunAt(b) = {}
      BY <1>1, <2>1, <3>1 DEF BegunAt, IndexesInOrder
    <3> QED
      BY <1>5, <2>1, <3>2, FS_EmptySet DEF z
  <2>2. CASE b # tick
    <3>1. b \in 0 .. tick /\ b < tick /\ tick < b + WindowBuckets
      BY <1>1, <1>9, <2>2
    <3>2. buckets'[b % WindowBuckets] = buckets[b % WindowBuckets]
      BY <1>2, <1>3, <1>5, <3>1
    <3>3. Cardinality(BegunAt(b)) <= buckets[b % WindowBuckets]
      BY <1>1, <1>9 DEF BucketsHold
    <3> QED
      BY <3>2, <3>3
  <2> QED
    BY <2>1, <2>2
<1>10. BucketsHold'
  BY <1>1, <1>4, <1>8, <1>9 DEF BucketsHold
<1>11. ReadSoFar'
  BY <1>1, ReadStays
<1> QED
  BY <1>7, <1>10, <1>11 DEF WindowInv

LEMMA StoreStep ==
  ASSUME WindowInv, advancing = "store", advancing' = "no", bucketIdx' = tick,
         UNCHANGED <<tick, listed, buckets, loaded, counted, reader>>
  PROVE  WindowInv'
<1>1. /\ WindowTypeOK /\ IndexesInOrder /\ BucketsHold /\ tick \in Nat /\ bucketIdx \in Nat
      /\ bucketIdx < tick /\ NoBucket \notin Nat
      /\ \A k \in DOMAIN counted : counted[k].began \in Nat
  BY WindowFacts, EventsAreFinite DEF IndexesInOrder
<1>2. WindowTypeOK'
  BY <1>1 DEF WindowTypeOK
<1>3. IndexesInOrder'
  <2>1. reader.cur \in Nat /\ \A r \in Recorders : loaded[r] # NoBucket => loaded[r] \in Nat
    BY <1>1 DEF WindowTypeOK
  <2> QED
    BY <1>1, <2>1 DEF IndexesInOrder
<1>4. BucketsHold'
  BY <1>1 DEF BucketsHold, AddedSince, BegunAt
<1>5. ReadSoFar'
  BY <1>1, ReadStays
<1> QED
  BY <1>2, <1>3, <1>4, <1>5 DEF WindowInv

LEMMA LoadStep ==
  ASSUME WindowInv, NEW r \in Recorders, LoadIndex(r)
  PROVE  WindowInv'
<1>1. /\ WindowTypeOK /\ IndexesInOrder /\ BucketsHold /\ tick \in Nat /\ bucketIdx \in Nat
      /\ NoBucket \notin Nat /\ listed /\ loaded' = [loaded EXCEPT ![r] = bucketIdx]
      /\ UNCHANGED <<tick, advancing, listed, bucketIdx, buckets, counted, reader>>
  BY WindowFacts DEF LoadIndex
<1>2. WindowTypeOK' /\ IndexesInOrder'
  BY <1>1 DEF WindowTypeOK, IndexesInOrder
<1>3. BucketsHold'
  BY <1>1 DEF BucketsHold, AddedSince, BegunAt
<1>4. ReadSoFar'
  BY <1>1, ReadStays
<1> QED
  BY <1>2, <1>3, <1>4 DEF WindowInv

LEMMA BeginStep ==
  ASSUME WindowInv, BeginRates
  PROVE  WindowInv'
<1>1. /\ WindowTypeOK /\ IndexesInOrder /\ BucketsHold /\ tick \in Nat /\ bucketIdx \in Nat
      /\ WindowBuckets \in Nat
      /\ reader' = [cur |-> bucketIdx, i |-> 0, sum |-> 0, known |-> Len(counted)]
      /\ UNCHANGED <<tick, advancing, listed, bucketIdx, buckets, loaded, counted>>
      /\ DOMAIN counted = 1 .. Len(counted) /\ Len(counted) \in Nat
      /\ \A k \in DOMAIN counted : counted[k].began \in Nat
  BY WindowFacts, EventsAreFinite DEF BeginRates
<1>2. WindowTypeOK'
  BY <1>1 DEF WindowTypeOK
<1>3. IndexesInOrder'
  BY <1>1 DEF IndexesInOrder
<1>4. BucketsHold'
  BY <1>1 DEF BucketsHold, AddedSince, BegunAt
<1>5. ReadSoFar'
  <2>1. /\ reader'.cur = bucketIdx /\ reader'.i = 0 /\ reader'.sum = 0
        /\ reader'.known = Len(counted)
    BY <1>1
  <2>2. \A k \in 1 .. Len(counted) : ~(counted[k].began > bucketIdx - 0)
    BY <1>1 DEF IndexesInOrder
  <2>3. MustFind' = {}
    BY <1>1, <2>1, <2>2 DEF MustFind
  <2>4. MayFind' = {}
    BY <2>1 DEF MayFind
  <2> QED
    BY <2>1, <2>3, <2>4, FS_EmptySet DEF ReadSoFar
<1> QED
  BY <1>2, <1>3, <1>4, <1>5 DEF WindowInv

LEMMA AddStep ==
  ASSUME WindowInv, NEW r \in Recorders, AddToBucket(r)
  PROVE  WindowInv'
<1> DEFINE n == Len(counted)
           l == loaded[r]
           z == l % WindowBuckets
           Event == [began : Nat, ended : Nat]
           e == [began |-> l, ended |-> tick]
<1>1. /\ WindowTypeOK /\ IndexesInOrder /\ BucketsHold /\ ReadSoFar /\ WindowBuckets \in Nat
      /\ tick \in Nat /\ bucketIdx \in Nat /\ bucketIdx <= tick /\ NoBucket \notin Nat
      /\ l \in Nat /\ l <= bucketIdx /\ l <= tick /\ listed
  <2>1. /\ WindowTypeOK /\ IndexesInOrder /\ BucketsHold /\ ReadSoFar /\ WindowBuckets \in Nat
        /\ tick \in Nat /\ bucketIdx \in Nat /\ NoBucket \notin Nat
    BY WindowFacts
  <2>2. l # NoBucket /\ l \in Nat
    BY <2>1 DEF AddToBucket, WindowTypeOK
  <2>3. l <= bucketIdx /\ bucketIdx <= tick /\ listed
    BY <2>1, <2>2 DEF IndexesInOrder
  <2> QED
    BY <2>1, <2>2, <2>3
<1>2. /\ buckets' = [buckets EXCEPT ![z] = buckets[z] + 1] /\ counted' = Append(counted, e)
      /\ loaded' = [loaded EXCEPT ![r] = NoBucket]
      /\ UNCHANGED <<tick, advancing, listed, bucketIdx, reader>>
  BY DEF AddToBucket
<1>3. /\ z \in 0 .. WindowBuckets - 1
      /\ \A b \in 0 .. tick : (b % WindowBuckets) \in 0 .. WindowBuckets - 1
  BY <1>1, WindowFacts
<1>4. n \in Nat /\ DOMAIN counted = 1 .. n
  BY <1>1, EventsAreFinite
<1>5. counted \in Seq(Event) /\ e \in Event /\ e.began = l /\ e.ended = tick
  BY <1>1 DEF WindowTypeOK
<1> HIDE DEF Event, e, z, l
<1>6. counted' \in Seq(Event) /\ Len(counted') = n + 1
  BY <1>2, <1>5
<1>7. DOMAIN counted' = 1 .. n + 1 /\ counted'[n + 1] = e /\ \A k \in 1 .. n : counted'[k] = counted[k]
  BY <1>2, <1>4, <1>5
<1>8. /\ buckets' \in [0 .. WindowBuckets - 1 -> Nat] /\ buckets'[z] = buckets[z] + 1
      /\ \A x \in 0 .. WindowBuckets - 1 : x # z => buckets'[x] = buckets[x]
      /\ \A x \in 0 .. WindowBuckets - 1 : buckets[x] \in Nat
  BY <1>1, <1>2, <1>3, SMTT(40) DEF WindowTypeOK
<1>9. WindowTypeOK'
  <2>1. loaded' \in [Recorders -> Nat \cup {NoBucket}]
    BY <1>1, <1>2 DEF WindowTypeOK
  <2> QED
    BY <1>1, <1>2, <1>6, <1>8, <2>1 DEF WindowTypeOK, Event
<1>10. IndexesInOrder'
  <2>1. \A o \in Recorders : loaded'[o] # NoBucket => listed' /\ loaded'[o] <= bucketIdx'
    BY <1>1, <1>2 DEF IndexesInOrder, WindowTypeOK
  <2>2. \A k \in DOMAIN counted' : counted'[k].began <= bucketIdx'
    BY <1>1, <1>2, <1>4, <1>5, <1>7 DEF IndexesInOrder
  <2>3. reader.known \in Nat /\ reader.known <= n
    BY <1>1 DEF IndexesInOrder, WindowTypeOK
  <2>4. \A k \in 1 .. reader.known : counted'[k].began <= reader.cur
    BY <1>1, <1>4, <1>7, <2>3 DEF IndexesInOrder
  <2>5. reader'.known <= Len(counted')
    BY <1>2, <1>4, <1>6, <2>3
  <2> QED
    BY <1>1, <1>2, <2>1, <2>2, <2>4, <2>5 DEF IndexesInOrder
<1>11. /\ n + 1 \notin 1 .. n /\ 1 .. n + 1 = (1 .. n) \cup {n + 1}
  BY <1>4
<1>12. \A b : /\ AddedSince(b) \subseteq 1 .. n /\ IsFiniteSet(AddedSince(b))
              /\ Cardinality(AddedSince(b)) \in Nat
              /\ BegunAt(b) \subseteq 1 .. n /\ IsFiniteSet(BegunAt(b))
              /\ Cardinality(BegunAt(b)) \in Nat
  BY <1>4, WindowFacts DEF AddedSince, BegunAt
<1>13. ASSUME NEW b \in 0 .. tick, advancing = "zero" => b < tick
       PROVE  buckets'[b % WindowBuckets] <= Cardinality(AddedSince(b)')
  <2>0. buckets[b % WindowBuckets] <= Cardinality(AddedSince(b))
    BY <1>1, <1>13 DEF BucketsHold
  <2>1. CASE b % WindowBuckets = z
    <3>1. AddedSince(b)' = AddedSince(b) \cup {n + 1}
      BY <1>1, <1>4, <1>5, <1>7, <1>11, <2>1 DEF AddedSince, z
    <3>2. Cardinality(AddedSince(b) \cup {n + 1}) = Cardinality(AddedSince(b)) + 1
      BY <1>11, <1>12, FS_AddElement
    <3> QED
      BY <1>8, <1>12, <1>3, <2>0, <2>1, <3>1, <3>2
  <2>2. CASE b % WindowBuckets # z
    <3>1. AddedSince(b)' = AddedSince(b)
      BY <1>1, <1>4, <1>5, <1>7, <1>11, <2>2 DEF AddedSince, z
    <3> QED
      BY <1>3, <1>8, <2>0, <2>2, <3>1
  <2> QED
    BY <2>1, <2>2
<1>14. ASSUME NEW b \in 1 .. tick, b > tick - WindowBuckets
       PROVE  Cardinality(BegunAt(b)') <= buckets'[b % WindowBuckets]
  <2>0. /\ Cardinality(BegunAt(b)) <= buckets[b % WindowBuckets]
        /\ (b % WindowBuckets) \in 0 .. WindowBuckets - 1
    BY <1>1, <1>3, <1>14 DEF BucketsHold
  <2>1. CASE b = l
    <3>1. BegunAt(b)' = BegunAt(b) \cup {n + 1}
      BY <1>4, <1>5, <1>7, <1>11, <2>1 DEF BegunAt
    <3>2. Cardinality(BegunAt(b) \cup {n + 1}) = Cardinality(BegunAt(b)) + 1
      BY <1>11, <1>12, FS_AddElement
    <3>3. b % WindowBuckets = z
      BY <2>1 DEF z
    <3> QED
      BY <1>8, <1>12, <2>0, <3>1, <3>2, <3>3
  <2>2. CASE b # l
    <3>1. BegunAt(b)' = BegunAt(b)
      BY <1>4, <1>5, <1>7, <1>11, <2>2 DEF BegunAt
    <3>2. buckets[b % WindowBuckets] <= buckets'[b % WindowBuckets]
      BY <1>8, <2>0
    <3> QED
      BY <1>8, <1>12, <2>0, <3>1, <3>2
  <2> QED
    BY <2>1, <2>2
<1>15. BucketsHold'
  BY <1>2, <1>13, <1>14 DEF BucketsHold
<1>16. ReadSoFar'
  <2>1. reader.known \in Nat /\ reader.known <= n /\ reader.sum \in Nat
    BY <1>1 DEF IndexesInOrder, WindowTypeOK
  <2>2. MustFind' = MustFind
    BY <1>2, <1>4, <1>7, <2>1 DEF MustFind
  <2>3. MayFind \subseteq MayFind' /\ MayFind' \subseteq 1 .. n + 1
    BY <1>2, <1>4, <1>7, <1>11 DEF MayFind
  <2>4. IsFiniteSet(1 .. n + 1)
    BY <1>4, FS_Interval
  <2>5. IsFiniteSet(MayFind') /\ Cardinality(MayFind') \in Nat
    BY <2>3, <2>4, FiniteParts
  <2>6. Cardinality(MayFind) <= Cardinality(MayFind') /\ Cardinality(MayFind) \in Nat
    BY <2>3, <2>5, FiniteParts
  <2> QED
    BY <1>1, <1>2, <2>1, <2>2, <2>5, <2>6 DEF ReadSoFar
<1> QED
  BY <1>9, <1>10, <1>15, <1>16 DEF WindowInv

\* The reader adds the bucket of the second before.
LEMMA ReadStep ==
  ASSUME WindowInv, ReadBucket
  PROVE  WindowInv'
<1> DEFINE c == reader.cur
           j == reader.i
           b == c - j
<1>1. /\ WindowTypeOK /\ IndexesInOrder /\ BucketsHold /\ ReadSoFar /\ WindowBuckets \in Nat
      /\ WindowBuckets > 0 /\ tick \in Nat /\ bucketIdx \in Nat /\ bucketIdx <= tick
      /\ c \in Nat /\ j \in Nat /\ j < WindowBuckets /\ c <= bucketIdx /\ reader.sum \in Nat
      /\ advancing # "no" => bucketIdx < tick
  BY WindowFacts DEF ReadBucket, WindowTypeOK, IndexesInOrder
<1>2. UNCHANGED <<tick, advancing, listed, bucketIdx, buckets, loaded, counted>>
  BY DEF ReadBucket
<1>3. /\ reader'.cur = c /\ reader'.i = j + 1 /\ reader'.known = reader.known
      /\ c < j => reader'.sum = reader.sum
      /\ c >= j => reader'.sum = reader.sum + buckets[(c - j + WindowBuckets) % WindowBuckets]
      /\ reader' = [cur |-> c, i |-> j + 1, sum |-> reader'.sum, known |-> reader.known]
  <2> DEFINE u == reader.sum
             v == reader.known
  <2>1. reader = [cur |-> c, i |-> j, sum |-> u, known |-> v]
    BY <1>1 DEF WindowTypeOK
  <2> DEFINE s == IF c < j THEN reader.sum
                  ELSE reader.sum + buckets[(c - j + WindowBuckets) % WindowBuckets]
  <2>2. reader' = [reader EXCEPT !.i = j + 1, !.sum = s]
    BY DEF ReadBucket
  <2> HIDE DEF s, c, j, u, v
  <2>3. reader' = [cur |-> c, i |-> j + 1, sum |-> s, known |-> v]
    BY <2>1, <2>2
  <2>4. /\ c < j => s = reader.sum
        /\ c >= j => s = reader.sum + buckets[(c - j + WindowBuckets) % WindowBuckets]
    BY <1>1 DEF s, c, j
  <2> QED
    BY <2>3, <2>4 DEF v
<1> HIDE DEF c, j
<1>4. c >= j => /\ b \in 0 .. tick /\ (b % WindowBuckets) \in 0 .. WindowBuckets - 1
                /\ (c - j + WindowBuckets) % WindowBuckets = b % WindowBuckets
                /\ buckets[b % WindowBuckets] \in Nat
  <2>1. c >= j => b \in Nat /\ b \in 0 .. tick
    BY <1>1
  <2> HIDE DEF b
  <2>2. c >= j => /\ (b % WindowBuckets) \in 0 .. WindowBuckets - 1
                  /\ (b + WindowBuckets) % WindowBuckets = b % WindowBuckets
    BY <1>1, <2>1, BucketIs
  <2>3. c >= j => buckets[b % WindowBuckets] \in Nat
    BY <1>1, <2>2 DEF WindowTypeOK
  <2> QED
    BY <2>1, <2>2, <2>3 DEF b
<1>5. /\ DOMAIN counted = 1 .. Len(counted) /\ Len(counted) \in Nat
      /\ \A k \in DOMAIN counted : counted[k].began \in Nat /\ counted[k].ended \in Nat
      /\ IsFiniteSet(DOMAIN counted) /\ 1 .. reader.known \subseteq DOMAIN counted
  BY <1>1, EventsAreFinite, KnownEvents
<1>6. WindowTypeOK' /\ IndexesInOrder'
  <2>1. reader'.sum \in Nat
    BY <1>1, <1>3, <1>4
  <2>2. reader.known \in Nat /\ j + 1 \in 0 .. WindowBuckets
    BY <1>1 DEF WindowTypeOK
  <2>3. reader' \in [cur : Nat, i : 0 .. WindowBuckets, sum : Nat, known : Nat]
    BY <1>1, <1>3, <2>1, <2>2
  <2>4. WindowTypeOK'
    BY <1>1, <1>2, <2>3 DEF WindowTypeOK
  <2>5. IndexesInOrder'
    BY <1>1, <1>2, <1>3 DEF IndexesInOrder, c
  <2> QED
    BY <2>4, <2>5
<1>7. BucketsHold'
  BY <1>1, <1>2 DEF BucketsHold, AddedSince, BegunAt
<1>8. /\ IsFiniteSet(MayFind) /\ Cardinality(MayFind) \in Nat
      /\ IsFiniteSet(MustFind) /\ Cardinality(MustFind) \in Nat
      /\ Cardinality(MustFind) <= reader.sum /\ reader.sum <= Cardinality(MayFind)
  BY <1>1, WindowFacts DEF ReadSoFar
<1>9. /\ MayFind' \in SUBSET DOMAIN counted /\ MustFind' \in SUBSET DOMAIN counted
  BY <1>2, <1>3, <1>5 DEF MayFind, MustFind
<1>10. /\ IsFiniteSet(MayFind') /\ Cardinality(MayFind') \in Nat
       /\ IsFiniteSet(MustFind') /\ Cardinality(MustFind') \in Nat
  BY <1>5, <1>9, FiniteParts
<1>11. MayFind \subseteq MayFind'
  BY <1>1, <1>2, <1>3 DEF MayFind, c, j
<1>12. reader'.sum <= Cardinality(MayFind')
  <2>1. CASE c < j
    <3>1. Cardinality(MayFind) <= Cardinality(MayFind')
      BY <1>10, <1>11, FiniteParts
    <3> QED
      BY <1>1, <1>3, <1>8, <1>10, <2>1, <3>1
  <2>2. CASE c >= j
    <3>1. buckets[b % WindowBuckets] <= Cardinality(AddedSince(b))
      <4>1. advancing = "zero" => b < tick
        BY <1>1
      <4> QED
        BY <1>1, <1>4, <2>2, <4>1 DEF BucketsHold
    <3>2. AddedSince(b) \subseteq MayFind'
      <4>1. ASSUME NEW k \in AddedSince(b) PROVE k \in MayFind'
        <5>1. /\ k \in DOMAIN counted /\ counted[k].began % WindowBuckets = (c - j) % WindowBuckets
              /\ counted[k].ended >= c - j /\ counted[k].ended \in Nat
          BY <1>5, <4>1 DEF AddedSince
        <5>2. counted[k].ended > c - WindowBuckets /\ j \in 0 .. (j + 1) - 1
          BY <1>1, <5>1
        <5> QED
          BY <1>2, <1>3, <2>2, <5>1, <5>2 DEF MayFind
      <4> QED
        BY <4>1
    <3>3. MayFind \cap AddedSince(b) = {}
      <4>1. ASSUME NEW k \in MayFind, k \in AddedSince(b) PROVE FALSE
        <5>1. PICK x \in 0 .. j - 1 :
                x <= c /\ counted[k].began % WindowBuckets = (c - x) % WindowBuckets
          BY <4>1 DEF MayFind, c, j
        <5>2. /\ c - x \in Nat /\ c - j \in Nat /\ c - j < c - x
              /\ c - x < (c - j) + WindowBuckets
          BY <1>1, <2>2, <5>1
        <5>3. (c - x) % WindowBuckets # (c - j) % WindowBuckets
          BY <5>2, WindowFacts
        <5> QED
          BY <4>1, <5>1, <5>3 DEF AddedSince
      <4> QED
        BY <4>1
    <3>4. IsFiniteSet(AddedSince(b)) /\ Cardinality(AddedSince(b)) \in Nat
      BY WindowFacts
    <3>5. Cardinality(MayFind \cup AddedSince(b)) = Cardinality(MayFind) + Cardinality(AddedSince(b))
      BY <1>8, <3>3, <3>4, CountUnion
    <3>6. MayFind \cup AddedSince(b) \in SUBSET MayFind'
      BY <1>11, <3>2
    <3>7. Cardinality(MayFind \cup AddedSince(b)) <= Cardinality(MayFind')
      BY <1>10, <3>6, FiniteParts
    <3>8. reader'.sum = reader.sum + buckets[b % WindowBuckets]
      BY <1>3, <1>4, <2>2
    <3> HIDE DEF b
    <3> QED
      BY <1>1, <1>4, <1>8, <1>10, <2>2, <3>1, <3>4, <3>5, <3>7, <3>8
  <2> QED
    BY <1>1, <2>1, <2>2
<1>13. Cardinality(MustFind') <= reader'.sum
  <2>1. \A k \in MustFind' : /\ k \in 1 .. reader.known /\ counted[k].began \in Nat
                             /\ counted[k].began # 0 /\ counted[k].began > tick - WindowBuckets
                             /\ counted[k].began > c - (j + 1)
    BY <1>2, <1>3, <1>5 DEF MustFind
  <2>2. \A k \in MustFind' : counted[k].began > c - j => k \in MustFind
    BY <2>1 DEF MustFind, c, j
  <2>3. \A k \in MustFind' : counted[k].began > c - j \/ counted[k].began = c - j
    BY <1>1, <2>1
  <2>4. CASE MustFind' \subseteq MustFind
    <3>1. Cardinality(MustFind') <= Cardinality(MustFind)
      BY <1>8, <2>4, FiniteParts
    <3>2. reader.sum <= reader'.sum /\ reader'.sum \in Nat
      BY <1>1, <1>3, <1>4
    <3> QED
      BY <1>1, <1>8, <1>10, <3>1, <3>2
  <2>5. CASE ~(MustFind' \subseteq MustFind)
    <3>1. PICK k \in MustFind' : k \notin MustFind
      BY <2>5
    <3>2. counted[k].began = c - j
      BY <2>2, <2>3, <3>1
    <3>3. b \in 1 .. tick /\ b > tick - WindowBuckets /\ c >= j
      BY <1>1, <1>4, <2>1, <3>2
    <3>4. Cardinality(BegunAt(b)) <= buckets[b % WindowBuckets]
      BY <1>1, <3>3 DEF BucketsHold
    <3>5. MustFind' \subseteq MustFind \cup BegunAt(b)
      BY <1>5, <2>1, <2>2, <2>3 DEF BegunAt
    <3>6. MustFind \cap BegunAt(b) = {}
      <4>1. \A i \in MustFind : counted[i].began > c - j
        BY DEF MustFind, c, j
      <4>2. \A i \in BegunAt(b) : counted[i].began = c - j
        BY DEF BegunAt
      <4> QED
        BY <1>1, <4>1, <4>2
    <3>7. IsFiniteSet(BegunAt(b)) /\ Cardinality(BegunAt(b)) \in Nat
      BY WindowFacts
    <3>8. Cardinality(MustFind \cup BegunAt(b)) = Cardinality(MustFind) + Cardinality(BegunAt(b))
      BY <1>8, <3>6, <3>7, CountUnion
    <3>9. IsFiniteSet(MustFind \cup BegunAt(b))
      BY <1>8, <3>7, FS_Union
    <3>10. Cardinality(MustFind') <= Cardinality(MustFind \cup BegunAt(b))
      BY <3>5, <3>9, FiniteParts
    <3>11. reader'.sum = reader.sum + buckets[b % WindowBuckets]
      BY <1>3, <1>4, <3>3
    <3> HIDE DEF b
    <3> QED
      BY <1>1, <1>4, <1>8, <1>10, <3>3, <3>4, <3>7, <3>8, <3>10, <3>11
  <2> QED
    BY <2>4, <2>5
<1>14. ReadSoFar'
  BY <1>12, <1>13 DEF ReadSoFar
<1> QED
  BY <1>6, <1>7, <1>14 DEF WindowInv

LEMMA WindowCorrect == WindowSpec => []WindowInv
<1>1. ASSUME WindowInv, [WindowNext]_windowVars PROVE WindowInv'
  <2>1. CASE UNCHANGED windowVars
    BY <1>1, <2>1
    DEF windowVars, WindowInv, WindowTypeOK, IndexesInOrder, BucketsHold, ReadSoFar, AddedSince,
        BegunAt, MayFind, MustFind
  <2>2. CASE advanceBucket
    BY <1>1, <2>2, ZeroStep, StoreStep DEF advanceBucket
  <2>3. CASE Listed \/ Tick
    BY <1>1, <2>3, ListedStep, TickStep
  <2>4. CASE BeginRates \/ ReadBucket
    BY <1>1, <2>4, BeginStep, ReadStep
  <2>5. ASSUME NEW r \in Recorders, LoadIndex(r) \/ AddToBucket(r) PROVE WindowInv'
    BY <1>1, <2>5, LoadStep, AddStep
  <2> QED
    BY <1>1, <2>1, <2>2, <2>3, <2>4, <2>5 DEF WindowNext
<1> QED
  BY <1>1, InitWindow, PTL DEF WindowSpec

\* windowRates counts no event from before its window and none twice, and misses none
\* that is still within it, although it locks one bucket at a time while the ticker
\* and those that count go on.
THEOREM RatesCorrect == WindowSpec => []RatesAreOfTheWindow
<1>1. ASSUME WindowInv PROVE RatesAreOfTheWindow
  <2> SUFFICES ASSUME reader.i = WindowBuckets PROVE RatesAreOfTheWindow
    BY DEF RatesAreOfTheWindow
  <2> DEFINE Found == {k \in DOMAIN counted : counted[k].ended > reader.cur - WindowBuckets}
             Known == {k \in 1 .. reader.known :
                         counted[k].began # 0 /\ counted[k].began > tick - WindowBuckets}
  <2>1. /\ ReadSoFar /\ IsFiniteSet(DOMAIN counted) /\ reader.sum \in Nat /\ tick \in Nat
        /\ reader.cur \in Nat /\ reader.cur <= tick /\ WindowBuckets \in Nat
        /\ 1 .. reader.known \subseteq DOMAIN counted
        /\ Cardinality(MayFind) \in Nat /\ Cardinality(MustFind) \in Nat
    <3>1. WindowTypeOK /\ IndexesInOrder /\ ReadSoFar /\ tick \in Nat /\ WindowBuckets \in Nat
      BY <1>1, WindowFacts
    <3>2. IsFiniteSet(DOMAIN counted) /\ 1 .. reader.known \subseteq DOMAIN counted
      BY <3>1, EventsAreFinite, KnownEvents
    <3>3. reader.sum \in Nat /\ reader.cur \in Nat /\ bucketIdx \in Nat
      BY <3>1 DEF WindowTypeOK
    <3>4. reader.cur <= tick
      BY <3>1, <3>3 DEF IndexesInOrder
    <3>5. Cardinality(MayFind) \in Nat /\ Cardinality(MustFind) \in Nat
      BY <1>1, WindowFacts
    <3> QED
      BY <3>1, <3>2, <3>3, <3>4, <3>5
  <2>n. \A k \in 1 .. reader.known : counted[k].began \in Nat
    BY <1>1, <2>1, WindowFacts, EventsAreFinite
  <2>2. MayFind \in SUBSET Found /\ Found \in SUBSET DOMAIN counted
    BY DEF MayFind
  <2>3. Cardinality(MayFind) <= Cardinality(Found) /\ Cardinality(Found) \in Nat
    BY <2>1, <2>2, FiniteParts
  <2>4. Known = MustFind
    BY <2>1, <2>n DEF MustFind
  <2> HIDE DEF Found, Known
  <2>5. /\ reader.sum <= Cardinality(Found) /\ reader.sum >= Cardinality(Known)
    BY <2>1, <2>3, <2>4 DEF ReadSoFar
  <2> QED
    BY <2>5 DEF RatesAreOfTheWindow, Found, Known
<1> QED
  BY <1>1, WindowCorrect, PTL
-----------------------------------------------------------------------------
\* Snapshots of the configuration.

\* Keys are handed out in order.
KeysInOrder ==
  /\ DOMAIN parentTable \subseteq 1 .. lastParent
  /\ DOMAIN connTable \cup DOMAIN connRuns \subseteq 1 .. lastConn

\* The parents that rows name have rows, unless a Restore has parted them;
ParentsKnown ==
  \A c \in DOMAIN connTable :
    connTable[c].parent \in {NoParent} \cup DOMAIN parentTable \cup lostParents

\* those that have rows were read by the Create under way, or came after that.
ReadOrNew == reading # Unsaved => DOMAIN parentTable \subseteq DOMAIN reading \cup newParents

SnapshotsInv ==
  /\ SnapshotsTypeOK /\ KeysInOrder /\ ParentsKnown /\ ReadOrNew
  /\ RunsWhatItsRowSays /\ TornByNewParentsOnly
-----------------------------------------------------------------------------
LEMMA PartialIs ==
  ASSUME NEW S, NEW T, NEW f
  PROVE  f \in Partial(S, T) <=> DOMAIN f \subseteq S /\ f \in [DOMAIN f -> T]
BY DEF Partial

LEMMA WithAt ==
  \A f, k, v : With(f, k, v)[k] = v /\ \A x \in DOMAIN f \ {k} : With(f, k, v)[x] = f[x]
BY DEF With

LEMMA WithIs ==
  ASSUME NEW S, NEW T, NEW f \in Partial(S, T), NEW k \in S, NEW v \in T
  PROVE  /\ With(f, k, v) \in Partial(S, T)
         /\ DOMAIN With(f, k, v) = DOMAIN f \cup {k}
<1>1. DOMAIN f \subseteq S /\ f \in [DOMAIN f -> T]
  BY PartialIs
<1> DEFINE g == With(f, k, v)
<1>2. /\ DOMAIN g = DOMAIN f \cup {k} /\ g \in [DOMAIN f \cup {k} -> T]
      /\ g[k] = v /\ \A x \in DOMAIN f \ {k} : g[x] = f[x]
  BY <1>1 DEF With
<1> HIDE DEF g
<1>3. DOMAIN g \subseteq S /\ g \in [DOMAIN g -> T]
  BY <1>1, <1>2
<1>4. g \in Partial(S, T)
  BY <1>3, PartialIs
<1> QED
  BY <1>2, <1>4 DEF g

LEMMA RestrictIs ==
  ASSUME NEW S, NEW T, NEW f \in Partial(S, T), NEW K \in SUBSET DOMAIN f
  PROVE  /\ Restrict(f, K) \in Partial(S, T)
         /\ DOMAIN Restrict(f, K) = K
         /\ \A x \in K : Restrict(f, K)[x] = f[x]
<1>1. DOMAIN f \subseteq S /\ f \in [DOMAIN f -> T]
  BY PartialIs
<1> DEFINE g == Restrict(f, K)
<1>2. DOMAIN g = K /\ g \in [K -> T] /\ \A x \in K : g[x] = f[x]
  BY <1>1 DEF Restrict
<1> HIDE DEF g
<1>3. DOMAIN g \subseteq S /\ g \in [DOMAIN g -> T]
  BY <1>1, <1>2
<1>4. g \in Partial(S, T)
  BY <1>3, PartialIs
<1> QED
  BY <1>2, <1>4 DEF g

LEMMA WithoutIs ==
  ASSUME NEW S, NEW T, NEW f \in Partial(S, T), NEW K
  PROVE  /\ Without(f, K) \in Partial(S, T)
         /\ DOMAIN Without(f, K) = DOMAIN f \ K
         /\ \A x \in DOMAIN f \ K : Without(f, K)[x] = f[x]
<1>1. DOMAIN f \ K \in SUBSET DOMAIN f
  OBVIOUS
<1> QED
  BY <1>1, RestrictIs DEF Without

\* The k-th of a set of n keys is put at the k-th place of n.
LEMMA PlaceIs ==
  ASSUME NEW N \in Nat, NEW S \in SUBSET (1 .. N)
  PROVE  Cardinality(S) \in Nat /\ \A x \in S : Place(S, x) \in 1 .. Cardinality(S)
<1>1. IsFiniteSet(1 .. N)
  BY FS_Interval
<1>2. IsFiniteSet(S) /\ Cardinality(S) \in Nat
  BY <1>1, FS_Subset, FS_CardinalityType
<1>3. ASSUME NEW x \in S PROVE Place(S, x) \in 1 .. Cardinality(S)
  <2> DEFINE B == {y \in S : y <= x}
  <2>1. B \in SUBSET S /\ x \in B
    OBVIOUS
  <2> HIDE DEF B
  <2>2. IsFiniteSet(B) /\ Cardinality(B) <= Cardinality(S) /\ Cardinality(B) \in Nat
    BY <1>2, <2>1, FS_Subset, FS_CardinalityType
  <2>3. Cardinality(B) # 0
    BY <2>1, <2>2, FS_EmptySet
  <2>4. Place(S, x) = Cardinality(B)
    BY DEF Place, B
  <2> QED
    BY <1>2, <2>2, <2>3, <2>4
<1> QED
  BY <1>2, <1>3

\* Rows keep their keys, and those that are put back get new ones.
LEMMA InsertedIs ==
  ASSUME NEW M \in Nat, NEW T, NEW last \in Nat, last <= M,
         NEW old \in Partial(1 .. M, T), NEW put \in Partial(1 .. M, T),
         DOMAIN old \subseteq 1 .. last, last + Cardinality(DOMAIN put) <= M
  PROVE  /\ Cardinality(DOMAIN put) \in Nat
         /\ Inserted(old, put, last) \in Partial(1 .. M, T)
         /\ DOMAIN old \subseteq DOMAIN Inserted(old, put, last)
         /\ \A k \in DOMAIN old : Inserted(old, put, last)[k] = old[k]
         /\ \A k \in DOMAIN Inserted(old, put, last) \ DOMAIN old :
              /\ k \in last + 1 .. last + Cardinality(DOMAIN put)
              /\ \E x \in DOMAIN put : Inserted(old, put, last)[k] = put[x]
<1> DEFINE P == DOMAIN put
           g == Inserted(old, put, last)
           new == {last + Place(P, x) : x \in P}
           of(k) == CHOOSE x \in P : last + Place(P, x) = k
<1>1. /\ P \in SUBSET (1 .. M) /\ put \in [P -> T]
      /\ DOMAIN old \subseteq 1 .. M /\ old \in [DOMAIN old -> T]
  BY PartialIs
<1>2. /\ Cardinality(P) \in Nat /\ last + Cardinality(P) <= M
      /\ \A x \in P : Place(P, x) \in 1 .. Cardinality(P)
  BY <1>1, PlaceIs
<1>3. g = [k \in DOMAIN old \cup new |-> IF k \in DOMAIN old THEN old[k] ELSE put[of(k)]]
  BY DEF Inserted
<1>4. \A k \in new : of(k) \in P
  OBVIOUS
<1>5. \A k \in new : k \in last + 1 .. last + Cardinality(P)
  <2> HIDE DEF P
  <2> QED
    BY <1>2
<1> HIDE DEF P, g, new, of
<1>6. /\ DOMAIN g = DOMAIN old \cup new
      /\ \A k \in DOMAIN old : g[k] = old[k]
      /\ \A k \in new \ DOMAIN old : g[k] = put[of(k)]
      /\ g \in [DOMAIN old \cup new -> T]
  BY <1>1, <1>3, <1>4
<1>7. DOMAIN g \subseteq 1 .. M /\ g \in [DOMAIN g -> T]
  <2>1. \A k \in new : k \in 1 .. M
    BY <1>2, <1>5
  <2> QED
    BY <1>1, <1>6, <2>1
<1>8. g \in Partial(1 .. M, T)
  BY <1>7, PartialIs
<1> QED
  BY <1>2, <1>4, <1>5, <1>6, <1>8 DEF g, P

LEMMA InitSnapshots == SnapshotsInit => SnapshotsInv
<1> SUFFICES ASSUME SnapshotsInit PROVE SnapshotsInv
  OBVIOUS
<1>1. DOMAIN Nothing = {} /\ \A S, T : Nothing \in [{} -> T]
  BY DEF Nothing
<1>2. Nothing \in ParentRows /\ Nothing \in ConnRows
  BY <1>1, PartialIs DEF ParentRows, ConnRows
<1>3. 0 \in 0 .. MaxParents /\ 0 \in 0 .. MaxConns
  BY SnapshotsAssumption
<1>4. SnapshotsTypeOK
  BY <1>2, <1>3 DEF SnapshotsInit, SnapshotsTypeOK
<1> QED
  BY <1>1, <1>4
  DEF SnapshotsInit, SnapshotsInv, KeysInOrder, ParentsKnown, ReadOrNew, RunsWhatItsRowSays,
      TornByNewParentsOnly

\* What the rest of the proof needs of the types.
LEMMA RowTypes ==
  ASSUME SnapshotsTypeOK
  PROVE  /\ lastParent \in Nat /\ lastConn \in Nat /\ lastParent <= MaxParents /\ lastConn <= MaxConns
         /\ DOMAIN parentTable \subseteq 1 .. MaxParents
         /\ \A c \in DOMAIN connTable : connTable[c] \in ConnContent
         /\ \A c \in DOMAIN connRuns : connRuns[c] \in ConnContent
         /\ snapshot # Unsaved =>
              /\ snapshot.parents \in ParentRows /\ snapshot.conns \in ConnRows
              /\ \A c \in DOMAIN snapshot.conns : snapshot.conns[c] \in ConnContent
<1>1. \A f \in ConnRows : \A c \in DOMAIN f : f[c] \in ConnContent
  BY PartialIs DEF ConnRows
<1>2. \A f \in ParentRows : DOMAIN f \subseteq 1 .. MaxParents
  BY PartialIs DEF ParentRows
<1>3. snapshot # Unsaved => snapshot.parents \in ParentRows /\ snapshot.conns \in ConnRows
  BY DEF SnapshotsTypeOK, Saved
<1> QED
  BY <1>1, <1>2, <1>3, SnapshotsAssumption DEF SnapshotsTypeOK

LEMMA ParentRowsWith ==
  ASSUME NEW f \in ParentRows
  PROVE  /\ \A k \in 1 .. MaxParents : \A v \in ParentNames :
              /\ With(f, k, v) \in ParentRows /\ DOMAIN With(f, k, v) = DOMAIN f \cup {k}
         /\ \A K :
              /\ Without(f, K) \in ParentRows /\ DOMAIN Without(f, K) = DOMAIN f \ K
<1> DEFINE S == 1 .. MaxParents
           T == ParentNames
<1>1. f \in Partial(S, T) /\ ParentRows = Partial(S, T)
  BY DEF ParentRows
<1> HIDE DEF S, T
<1>2. ASSUME NEW k \in S, NEW v \in T
      PROVE  /\ With(f, k, v) \in Partial(S, T) /\ DOMAIN With(f, k, v) = DOMAIN f \cup {k}
  BY <1>1, <1>2, WithIs, SMTT(40)
<1>3. ASSUME NEW K
      PROVE  Without(f, K) \in Partial(S, T) /\ DOMAIN Without(f, K) = DOMAIN f \ K
  BY <1>1, WithoutIs
<1> QED
  BY <1>1, <1>2, <1>3 DEF S, T

LEMMA ConnRowsWith ==
  ASSUME NEW f \in ConnRows
  PROVE  /\ \A k \in 1 .. MaxConns : \A v \in ConnContent :
              /\ With(f, k, v) \in ConnRows /\ DOMAIN With(f, k, v) = DOMAIN f \cup {k}
         /\ \A K :
              /\ Without(f, K) \in ConnRows /\ DOMAIN Without(f, K) = DOMAIN f \ K
<1> DEFINE S == 1 .. MaxConns
           T == ConnContent
<1>1. f \in Partial(S, T) /\ ConnRows = Partial(S, T)
  BY DEF ConnRows
<1> HIDE DEF S, T
<1>2. ASSUME NEW k \in S, NEW v \in T
      PROVE  /\ With(f, k, v) \in Partial(S, T) /\ DOMAIN With(f, k, v) = DOMAIN f \cup {k}
  BY <1>1, <1>2, WithIs, SMTT(40)
<1>3. ASSUME NEW K
      PROVE  Without(f, K) \in Partial(S, T) /\ DOMAIN Without(f, K) = DOMAIN f \ K
  BY <1>1, WithoutIs
<1> QED
  BY <1>1, <1>2, <1>3 DEF S, T

\* StartConn sets or removes one entry.
LEMMA StartedIs ==
  ASSUME SnapshotsTypeOK, NEW c \in 1 .. MaxConns, NEW r \in ConnContent
  PROVE  /\ Started(c, r) \in ConnRows
         /\ DOMAIN Started(c, r) \subseteq DOMAIN connRuns \cup {c}
         /\ c \in DOMAIN Started(c, r) => Started(c, r)[c] = r
         /\ \A x \in DOMAIN Started(c, r) \ {c} : Started(c, r)[x] = connRuns[x]
<1>1. connRuns \in ConnRows
  BY DEF SnapshotsTypeOK
<1>2. CASE Started(c, r) = With(connRuns, c, r)
  <2>1. /\ With(connRuns, c, r) \in ConnRows
        /\ DOMAIN With(connRuns, c, r) = DOMAIN connRuns \cup {c}
    BY <1>1, ConnRowsWith
  <2>2. /\ With(connRuns, c, r)[c] = r
        /\ \A x \in DOMAIN connRuns \ {c} : With(connRuns, c, r)[x] = connRuns[x]
    BY DEF With
  <2> QED
    BY <1>2, <2>1, <2>2
<1>3. CASE Started(c, r) = Without(connRuns, {c})
  <2>1. /\ Without(connRuns, {c}) \in ConnRows
        /\ DOMAIN Without(connRuns, {c}) = DOMAIN connRuns \ {c}
    BY <1>1, ConnRowsWith
  <2>2. \A x \in DOMAIN connRuns \ {c} : Without(connRuns, {c})[x] = connRuns[x]
    BY DEF Without, Restrict
  <2> QED
    BY <1>3, <2>1, <2>2
<1> QED
  BY <1>2, <1>3 DEF Started

LEMMA NextSnapshots ==
  ASSUME SnapshotsInv, [SnapshotsNext]_snapshotVars
  PROVE  SnapshotsInv'
<1>0. /\ SnapshotsTypeOK /\ KeysInOrder /\ ParentsKnown /\ ReadOrNew
      /\ RunsWhatItsRowSays /\ TornByNewParentsOnly
      /\ MaxParents \in Nat /\ MaxConns \in Nat
  BY SnapshotsAssumption DEF SnapshotsInv
<1>t. /\ parentTable \in Partial(1 .. MaxParents, ParentNames)
      /\ connTable \in Partial(1 .. MaxConns, ConnContent)
      /\ connRuns \in Partial(1 .. MaxConns, ConnContent)
  BY <1>0 DEF SnapshotsTypeOK, ParentRows, ConnRows
<1>r. /\ lastParent \in Nat /\ lastConn \in Nat /\ lastParent <= MaxParents /\ lastConn <= MaxConns
      /\ \A c \in DOMAIN connTable : connTable[c] \in ConnContent
      /\ \A c \in DOMAIN connRuns : connRuns[c] \in ConnContent
  BY <1>0, RowTypes
\* Requests and restarts leave the snapshot alone.
<1>s. ASSUME snapshot' = snapshot, newParents \subseteq newParents', lostParents \subseteq lostParents'
      PROVE  TornByNewParentsOnly'
  BY <1>0, <1>s DEF TornByNewParentsOnly
<1>1. ASSUME NEW name \in ParentNames, CreateListenerParent(name) PROVE SnapshotsInv'
  <2> DEFINE k == lastParent + 1
  <2>1. /\ k \in 1 .. MaxParents /\ lastParent' = k /\ parentTable' = With(parentTable, k, name)
        /\ parentRuns' = parentRuns \cup {k} /\ restored' = FALSE
        /\ newParents' = IF reading = Unsaved THEN newParents ELSE newParents \cup {k}
        /\ UNCHANGED <<connTable, lastConn, connRuns, snapshot, reading, lostParents>>
    BY <1>0, <1>r, <1>1 DEF CreateListenerParent
  <2>2. parentTable' \in ParentRows /\ DOMAIN parentTable' = DOMAIN parentTable \cup {k}
    BY <1>0, <2>1, ParentRowsWith DEF SnapshotsTypeOK
  <2>l. lastParent' \in 0 .. MaxParents /\ {k} \subseteq 1 .. MaxParents
    BY <1>r, <2>1
  <2> HIDE DEF k
  <2>p. parentRuns' \subseteq 1 .. MaxParents /\ newParents' \subseteq 1 .. MaxParents
    BY <1>0, <2>l, <2>1 DEF SnapshotsTypeOK
  <2>3. SnapshotsTypeOK'
    BY <1>0, <2>l, <2>p, <2>1, <2>2 DEF SnapshotsTypeOK
  <2>4. KeysInOrder'
    BY <1>0, <1>r, <2>1, <2>2 DEF KeysInOrder, k
  <2>5. ParentsKnown' /\ ReadOrNew' /\ RunsWhatItsRowSays'
    BY <1>0, <2>1, <2>2 DEF ParentsKnown, ReadOrNew, RunsWhatItsRowSays
  <2> QED
    BY <1>s, <2>1, <2>3, <2>4, <2>5 DEF SnapshotsInv
<1>2. ASSUME NEW p \in DOMAIN parentTable, DeleteListenerParent(p) PROVE SnapshotsInv'
  <2>1. /\ parentTable' \in ParentRows /\ DOMAIN parentTable' = DOMAIN parentTable \ {p}
    BY <1>0, <1>2, ParentRowsWith DEF DeleteListenerParent, SnapshotsTypeOK
  <2>c. /\ connTable' \in ConnRows /\ DOMAIN connTable' = DOMAIN connTable \ Children(p)
        /\ connRuns' \in ConnRows /\ DOMAIN connRuns' = DOMAIN connRuns \ Children(p)
    BY <1>0, <1>2, ConnRowsWith DEF DeleteListenerParent, SnapshotsTypeOK
  <2>v. /\ \A c \in DOMAIN connTable' : connTable'[c] = connTable[c]
        /\ \A c \in DOMAIN connRuns' : connRuns'[c] = connRuns[c]
    BY <1>2 DEF DeleteListenerParent, Without, Restrict
  <2>2. /\ parentRuns' = parentRuns \ {p} /\ restored' = FALSE
        /\ UNCHANGED <<lastParent, lastConn, snapshot, reading, newParents, lostParents>>
    BY <1>2 DEF DeleteListenerParent
  <2>3. SnapshotsTypeOK'
    BY <1>0, <2>1, <2>c, <2>v, <2>2 DEF SnapshotsTypeOK
  <2>4. KeysInOrder' /\ ReadOrNew' /\ RunsWhatItsRowSays'
    BY <1>0, <2>1, <2>c, <2>v, <2>2 DEF KeysInOrder, ReadOrNew, RunsWhatItsRowSays
  <2>5. ParentsKnown'
    BY <1>0, <2>1, <2>c, <2>v, <2>2 DEF ParentsKnown, Children
  <2> QED
    BY <1>s, <2>2, <2>3, <2>4, <2>5 DEF SnapshotsInv
<1>3. ASSUME NEW name \in ConnNames, NEW p \in 0 .. MaxParents, CreateListenerConn(name, p)
      PROVE  SnapshotsInv'
  <2> DEFINE k == lastConn + 1
             r == [name |-> name, parent |-> p]
  <2>1. /\ k \in 1 .. MaxConns /\ lastConn' = k /\ p \in DOMAIN parentTable \cup {NoParent}
        /\ connTable' = With(connTable, k, r) /\ connRuns' = Started(k, r) /\ restored' = FALSE
        /\ UNCHANGED <<parentTable, lastParent, parentRuns, snapshot, reading, newParents, lostParents>>
    BY <1>0, <1>r, <1>3 DEF CreateListenerConn
  <2>2. r \in ConnContent /\ r.parent = p
    BY DEF ConnContent
  <2> HIDE DEF r
  <2>3. /\ connTable' \in ConnRows /\ DOMAIN connTable' = DOMAIN connTable \cup {k}
    BY <1>0, <2>1, <2>2, ConnRowsWith DEF SnapshotsTypeOK
  <2>v. /\ k \in DOMAIN connTable' => connTable'[k] = r
        /\ \A x \in DOMAIN connTable' \ {k} : connTable'[x] = connTable[x]
    BY <2>1 DEF With
  <2>4. /\ connRuns' \in ConnRows /\ DOMAIN connRuns' \subseteq DOMAIN connRuns \cup {k}
        /\ k \in DOMAIN connRuns' => connRuns'[k] = r
        /\ \A x \in DOMAIN connRuns' \ {k} : connRuns'[x] = connRuns[x]
    BY <1>0, <2>1, <2>2, StartedIs
  <2>l. lastConn' \in 0 .. MaxConns
    BY <1>r, <2>1
  <2>5. SnapshotsTypeOK'
    BY <1>0, <2>l, <2>1, <2>3, <2>4 DEF SnapshotsTypeOK
  <2>6. KeysInOrder'
    BY <1>0, <1>r, <2>1, <2>3, <2>4 DEF KeysInOrder
  <2>7. ParentsKnown' /\ ReadOrNew'
    BY <1>0, <2>1, <2>2, <2>3, <2>v DEF ParentsKnown, ReadOrNew
  <2>8. RunsWhatItsRowSays'
    BY <1>0, <2>3, <2>v, <2>4 DEF RunsWhatItsRowSays
  <2> QED
    BY <1>s, <2>1, <2>5, <2>6, <2>7, <2>8 DEF SnapshotsInv
<1>4. ASSUME NEW c \in 1 .. MaxConns, NEW name \in ConnNames, UpdateListenerConn(c, name)
      PROVE  SnapshotsInv'
  <2> DEFINE old == IF c \in DOMAIN connTable THEN connTable[c] ELSE connRuns[c]
             r == [old EXCEPT !.name = name]
  <2>1. /\ c \in DOMAIN connTable \cup DOMAIN connRuns
        /\ connTable' = IF c \in DOMAIN connTable THEN With(connTable, c, r) ELSE connTable
        /\ connRuns' = Started(c, r) /\ restored' = FALSE
        /\ UNCHANGED <<parentTable, lastParent, lastConn, parentRuns, snapshot, reading, newParents,
                       lostParents>>
    BY <1>4 DEF UpdateListenerConn
  <2>2. old \in ConnContent
    BY <1>r, <2>1
  <2>3. r \in ConnContent /\ r.parent = old.parent
    BY <2>2 DEF ConnContent
  <2>4. c \in DOMAIN connTable => r.parent = connTable[c].parent
    BY <2>3
  <2> HIDE DEF r, old
  <2>5. /\ connTable' \in ConnRows /\ DOMAIN connTable' = DOMAIN connTable
        /\ c \in DOMAIN connTable' => connTable'[c] = r
        /\ \A x \in DOMAIN connTable' \ {c} : connTable'[x] = connTable[x]
    <3>1. CASE c \in DOMAIN connTable
      <4>1. DOMAIN connTable \cup {c} = DOMAIN connTable /\ connTable' = With(connTable, c, r)
        BY <2>1, <3>1
      <4>2. connTable' \in ConnRows /\ DOMAIN connTable' = DOMAIN connTable
        BY <1>0, <2>3, <4>1, ConnRowsWith DEF SnapshotsTypeOK
      <4>3. connTable'[c] = r /\ \A x \in DOMAIN connTable \ {c} : connTable'[x] = connTable[x]
        BY <4>1 DEF With
      <4> QED
        BY <4>2, <4>3
    <3>2. CASE c \notin DOMAIN connTable
      BY <1>0, <2>1, <3>2 DEF SnapshotsTypeOK
    <3> QED
      BY <3>1, <3>2
  <2>6. /\ connRuns' \in ConnRows /\ DOMAIN connRuns' \subseteq DOMAIN connRuns \cup {c}
        /\ c \in DOMAIN connRuns' => connRuns'[c] = r
        /\ \A x \in DOMAIN connRuns' \ {c} : connRuns'[x] = connRuns[x]
    BY <1>0, <2>1, <2>3, StartedIs
  <2>7. SnapshotsTypeOK'
    BY <1>0, <2>1, <2>5, <2>6 DEF SnapshotsTypeOK
  <2>8. KeysInOrder'
    BY <1>0, <2>1, <2>5, <2>6 DEF KeysInOrder
  <2>9. ParentsKnown' /\ ReadOrNew'
    BY <1>0, <2>1, <2>4, <2>5 DEF ParentsKnown, ReadOrNew
  <2>10. RunsWhatItsRowSays'
    BY <1>0, <2>5, <2>6 DEF RunsWhatItsRowSays
  <2> QED
    BY <1>s, <2>1, <2>7, <2>8, <2>9, <2>10 DEF SnapshotsInv
<1>5. ASSUME NEW c \in 1 .. MaxConns, DeleteListenerConn(c) PROVE SnapshotsInv'
  <2>1. /\ connTable' \in ConnRows /\ DOMAIN connTable' = DOMAIN connTable \ {c}
        /\ connRuns' \in ConnRows /\ DOMAIN connRuns' = DOMAIN connRuns \ {c}
    BY <1>0, <1>5, ConnRowsWith DEF DeleteListenerConn, SnapshotsTypeOK
  <2>v. /\ \A x \in DOMAIN connTable' : connTable'[x] = connTable[x]
        /\ \A x \in DOMAIN connRuns' : connRuns'[x] = connRuns[x]
    BY <1>5 DEF DeleteListenerConn, Without, Restrict
  <2>2. /\ restored' = FALSE
        /\ UNCHANGED <<parentTable, lastParent, lastConn, parentRuns, snapshot, reading, newParents,
                       lostParents>>
    BY <1>5 DEF DeleteListenerConn
  <2>3. SnapshotsTypeOK'
    BY <1>0, <2>1, <2>v, <2>2 DEF SnapshotsTypeOK
  <2>4. KeysInOrder' /\ ReadOrNew' /\ RunsWhatItsRowSays' /\ ParentsKnown'
    BY <1>0, <2>1, <2>v, <2>2 DEF KeysInOrder, ReadOrNew, RunsWhatItsRowSays, ParentsKnown
  <2> QED
    BY <1>s, <2>2, <2>3, <2>4 DEF SnapshotsInv
<1>6. CASE Restart
  <2> DEFINE K == {c \in DOMAIN connTable : connTable[c].parent \in {NoParent} \cup DOMAIN parentTable}
  <2>1. /\ parentRuns' = DOMAIN parentTable /\ connRuns' = Restrict(connTable, K)
        /\ reading' = Unsaved /\ restored' = FALSE
        /\ UNCHANGED <<parentTable, connTable, lastParent, lastConn, snapshot, newParents, lostParents>>
    BY <1>6 DEF Restart, tables
  <2>2. K \in SUBSET DOMAIN connTable
    OBVIOUS
  <2> HIDE DEF K
  <2>3. connRuns' \in ConnRows /\ DOMAIN connRuns' = K /\ \A x \in K : connRuns'[x] = connTable[x]
    BY <1>t, <2>1, <2>2, RestrictIs DEF ConnRows
  <2>4. SnapshotsTypeOK'
    BY <1>0, <2>1, <2>3, RowTypes DEF SnapshotsTypeOK
  <2>5. KeysInOrder' /\ ReadOrNew' /\ RunsWhatItsRowSays' /\ ParentsKnown'
    BY <1>0, <2>1, <2>2, <2>3 DEF KeysInOrder, ReadOrNew, RunsWhatItsRowSays, ParentsKnown
  <2> QED
    BY <1>s, <2>1, <2>4, <2>5 DEF SnapshotsInv
<1>7. CASE CreateSnapshot
  <2>1. UNCHANGED <<parentTable, connTable, lastParent, lastConn, parentRuns, connRuns, newParents,
                    lostParents, restored>>
    BY <1>7 DEF CreateSnapshot, tables, runtime
  <2>2. KeysInOrder' /\ ParentsKnown' /\ RunsWhatItsRowSays'
    BY <1>0, <2>1 DEF KeysInOrder, ParentsKnown, RunsWhatItsRowSays
  <2>3. CASE reading = Unsaved /\ reading' = parentTable /\ UNCHANGED snapshot
    <3>1. SnapshotsTypeOK'
      BY <1>0, <2>1, <2>3 DEF SnapshotsTypeOK
    <3>2. ReadOrNew'
      BY <2>1, <2>3 DEF ReadOrNew
    <3> QED
      BY <1>s, <2>1, <2>2, <2>3, <3>1, <3>2 DEF SnapshotsInv
  <2>4. CASE /\ reading # Unsaved /\ snapshot' = [parents |-> reading, conns |-> connTable]
             /\ reading' = Unsaved
    <3>1. snapshot' \in Saved /\ snapshot'.parents = reading /\ snapshot'.conns = connTable
      BY <1>0, <2>4 DEF SnapshotsTypeOK, Saved
    <3>2. SnapshotsTypeOK'
      BY <1>0, <2>1, <2>4, <3>1 DEF SnapshotsTypeOK
    <3>3. ReadOrNew'
      BY <2>4 DEF ReadOrNew
    <3>4. TornByNewParentsOnly'
      BY <1>0, <2>1, <2>4, <3>1 DEF ParentsKnown, ReadOrNew, TornByNewParentsOnly
    <3> QED
      BY <2>2, <3>2, <3>3, <3>4 DEF SnapshotsInv
  <2> QED
    BY <1>7, <2>3, <2>4 DEF CreateSnapshot, Create
<1>8. CASE Restore
  <2>1. snapshot # Unsaved
    BY <1>8 DEF Restore
  <2>2. PICK parents \in SUBSET DOMAIN snapshot.parents, conns \in SUBSET DOMAIN snapshot.conns,
             keptParents \in {{}, DOMAIN parentTable}, keptConns \in {{}, DOMAIN connTable} :
          /\ lastParent + Cardinality(parents) <= MaxParents
          /\ lastConn + Cardinality(conns) <= MaxConns
          /\ parentTable' = Inserted(Restrict(parentTable, keptParents),
                                     Restrict(snapshot.parents, parents), lastParent)
          /\ connTable' = Inserted(Restrict(connTable, keptConns),
                                   Restrict(snapshot.conns, conns), lastConn)
          /\ lastParent' = lastParent + Cardinality(parents)
          /\ lastConn' = lastConn + Cardinality(conns)
          /\ lostParents' = lostParents \cup (DOMAIN parentTable \ keptParents)
                            \cup ({snapshot.conns[c].parent : c \in conns} \ {NoParent})
          /\ restored' \in BOOLEAN
    BY <1>8, ZenonT(40) DEF Restore
  <2>3. /\ newParents' = IF reading = Unsaved THEN newParents
                         ELSE newParents \cup (lastParent + 1 .. lastParent')
        /\ UNCHANGED <<parentRuns, connRuns, snapshot, reading>>
    BY <1>8 DEF Restore, runtime
  <2>4. /\ snapshot.parents \in Partial(1 .. MaxParents, ParentNames)
        /\ snapshot.conns \in Partial(1 .. MaxConns, ConnContent)
        /\ \A c \in DOMAIN snapshot.conns : snapshot.conns[c] \in ConnContent
    BY <1>0, <2>1, RowTypes DEF ParentRows, ConnRows
  <2> DEFINE oldParents == Restrict(parentTable, keptParents)
             putParents == Restrict(snapshot.parents, parents)
             oldConns == Restrict(connTable, keptConns)
             putConns == Restrict(snapshot.conns, conns)
  <2>5. /\ keptParents \in SUBSET DOMAIN parentTable /\ keptConns \in SUBSET DOMAIN connTable
        /\ keptParents \subseteq 1 .. lastParent /\ keptConns \subseteq 1 .. lastConn
    BY <1>0 DEF KeysInOrder
  <2>6. /\ oldParents \in Partial(1 .. MaxParents, ParentNames) /\ DOMAIN oldParents = keptParents
        /\ putParents \in Partial(1 .. MaxParents, ParentNames) /\ DOMAIN putParents = parents
    BY <1>t, <2>4, <2>5, RestrictIs
  <2>7. /\ oldConns \in Partial(1 .. MaxConns, ConnContent) /\ DOMAIN oldConns = keptConns
        /\ \A x \in keptConns : oldConns[x] = connTable[x]
        /\ putConns \in Partial(1 .. MaxConns, ConnContent) /\ DOMAIN putConns = conns
        /\ \A x \in conns : putConns[x] = snapshot.conns[x]
    BY <1>t, <2>4, <2>5, RestrictIs
  <2>8. /\ parentTable' = Inserted(oldParents, putParents, lastParent)
        /\ connTable' = Inserted(oldConns, putConns, lastConn)
    BY <2>2
  <2> HIDE DEF oldParents, putParents, oldConns, putConns
  <2>9. /\ Cardinality(parents) \in Nat /\ parentTable' \in ParentRows
        /\ keptParents \subseteq DOMAIN parentTable'
        /\ \A k \in DOMAIN parentTable' \ keptParents : k \in lastParent + 1 .. lastParent'
    <3>1. /\ DOMAIN oldParents \subseteq 1 .. lastParent
          /\ lastParent + Cardinality(DOMAIN putParents) <= MaxParents
      BY <2>2, <2>5, <2>6
    <3>2. LET g == Inserted(oldParents, putParents, lastParent)
          IN  /\ Cardinality(DOMAIN putParents) \in Nat
              /\ g \in Partial(1 .. MaxParents, ParentNames) /\ DOMAIN oldParents \subseteq DOMAIN g
              /\ \A k \in DOMAIN g \ DOMAIN oldParents :
                   k \in lastParent + 1 .. lastParent + Cardinality(DOMAIN putParents)
      BY <1>0, <1>r, <2>6, <3>1, InsertedIs
    <3> QED
      BY <2>2, <2>6, <2>8, <3>2 DEF ParentRows
  <2>10. /\ Cardinality(conns) \in Nat /\ connTable' \in ConnRows
         /\ \A k \in keptConns : connTable'[k] = connTable[k]
         /\ \A k \in DOMAIN connTable' \ keptConns :
              k \in lastConn + 1 .. lastConn' /\ \E x \in conns : connTable'[k] = snapshot.conns[x]
    <3>1. /\ DOMAIN oldConns \subseteq 1 .. lastConn
          /\ lastConn + Cardinality(DOMAIN putConns) <= MaxConns
      BY <2>2, <2>5, <2>7
    <3>2. LET g == Inserted(oldConns, putConns, lastConn)
          IN  /\ Cardinality(DOMAIN putConns) \in Nat
              /\ g \in Partial(1 .. MaxConns, ConnContent)
              /\ \A k \in DOMAIN oldConns : g[k] = oldConns[k]
              /\ \A k \in DOMAIN g \ DOMAIN oldConns :
                   /\ k \in lastConn + 1 .. lastConn + Cardinality(DOMAIN putConns)
                   /\ \E x \in DOMAIN putConns : g[k] = putConns[x]
      BY <1>0, <1>r, <2>7, <3>1, InsertedIs
    <3> QED
      BY <2>2, <2>7, <2>8, <3>2 DEF ConnRows
  <2>11. /\ lastParent' \in 0 .. MaxParents /\ lastConn' \in 0 .. MaxConns
         /\ lastParent <= lastParent' /\ lastConn <= lastConn'
    BY <1>0, <1>r, <2>2, <2>9, <2>10
  <2>12. lostParents' \subseteq 1 .. MaxParents /\ lostParents \subseteq lostParents'
    <3>1. \A c \in conns : snapshot.conns[c].parent \in 0 .. MaxParents
      BY <2>2, <2>4 DEF ConnContent
    <3>2. \A c \in conns : snapshot.conns[c].parent # NoParent =>
            snapshot.conns[c].parent \in 1 .. MaxParents
      BY <1>0, <3>1 DEF NoParent
    <3>3. DOMAIN parentTable \subseteq 1 .. MaxParents /\ lostParents \subseteq 1 .. MaxParents
      BY <1>0, RowTypes DEF SnapshotsTypeOK
    <3> QED
      BY <2>2, <3>2, <3>3
  <2>13. newParents' \subseteq 1 .. MaxParents /\ newParents \subseteq newParents'
    <3>1. lastParent + 1 .. lastParent' \subseteq 1 .. MaxParents
      BY <1>0, <1>r, <2>11
    <3> QED
      BY <1>0, <2>3, <3>1 DEF SnapshotsTypeOK
  <2>14. SnapshotsTypeOK'
    BY <1>0, <2>2, <2>3, <2>9, <2>10, <2>11, <2>12, <2>13 DEF SnapshotsTypeOK
  <2>15. KeysInOrder'
    <3>1. \A k \in DOMAIN parentTable' : k \in 1 .. lastParent'
      BY <1>r, <2>5, <2>9, <2>11
    <3>2. \A k \in DOMAIN connTable' : k \in 1 .. lastConn'
      BY <1>r, <2>5, <2>10, <2>11
    <3>3. \A k \in DOMAIN connRuns' : k \in 1 .. lastConn'
      BY <1>0, <1>r, <2>3, <2>11 DEF KeysInOrder
    <3> QED
      BY <3>1, <3>2, <3>3 DEF KeysInOrder
  <2>16. ParentsKnown'
    <3> SUFFICES ASSUME NEW c \in DOMAIN connTable'
                 PROVE  connTable'[c].parent \in {NoParent} \cup DOMAIN parentTable' \cup lostParents'
      BY DEF ParentsKnown
    <3>1. CASE c \in keptConns
      <4>1. connTable'[c] = connTable[c] /\ c \in DOMAIN connTable
        BY <2>5, <2>10, <3>1
      <4>2. DOMAIN parentTable \subseteq DOMAIN parentTable' \cup lostParents'
        BY <2>2, <2>9
      <4> QED
        BY <1>0, <2>12, <4>1, <4>2 DEF ParentsKnown
    <3>2. CASE c \notin keptConns
      BY <2>2, <2>10, <3>2
    <3> QED
      BY <3>1, <3>2
  <2>17. ReadOrNew'
    BY <1>0, <2>3, <2>5, <2>9 DEF ReadOrNew
  <2>18. RunsWhatItsRowSays'
    <3> SUFFICES ASSUME NEW c \in DOMAIN connRuns, c \in DOMAIN connTable'
                 PROVE  connRuns[c] = connTable'[c]
      BY <2>3 DEF RunsWhatItsRowSays
    <3>1. c \in keptConns
      BY <1>0, <1>r, <2>10 DEF KeysInOrder
    <3> QED
      BY <1>0, <2>5, <2>10, <3>1 DEF RunsWhatItsRowSays
  <2> QED
    BY <1>s, <2>3, <2>12, <2>13, <2>14, <2>15, <2>16, <2>17, <2>18 DEF SnapshotsInv
<1>9. CASE UNCHANGED snapshotVars
  BY <1>0, <1>s, <1>9
  DEF snapshotVars, tables, runtime, SnapshotsInv, SnapshotsTypeOK, KeysInOrder, ParentsKnown,
      ReadOrNew, RunsWhatItsRowSays
<1> QED
  BY <1>1, <1>2, <1>3, <1>4, <1>5, <1>6, <1>7, <1>8, <1>9 DEF SnapshotsNext

LEMMA SnapshotsCorrect == SnapshotsSpec => []SnapshotsInv
BY InitSnapshots, NextSnapshots, PTL DEF SnapshotsSpec

\* Whatever is restored, what runs under the key of a row runs what the row says.
THEOREM RunsRows == SnapshotsSpec => []RunsWhatItsRowSays
<1>1. SnapshotsInv => RunsWhatItsRowSays
  BY DEF SnapshotsInv
<1> QED
  BY <1>1, SnapshotsCorrect, PTL

\* A snapshot misses the parent of a child only if that was created while it was taken,
\* or a Restore had parted the two.
THEOREM SnapshotsTorn == SnapshotsSpec => []TornByNewParentsOnly
<1>1. SnapshotsInv => TornByNewParentsOnly
  BY DEF SnapshotsInv
<1> QED
  BY <1>1, SnapshotsCorrect, PTL
-----------------------------------------------------------------------------
\* The migration of a table.

\* A column has a name at least; the migration keeps what it is meant to hold.
NoColumnLost ==
  \A a \in Ages : table[a] # NoTable => \A c \in Columns :
    /\ \E name \in Ages : table[a][c][name] # Absent
    /\ c \notin unsure /\ (a = "new" => table["old"] = NoTable)
         => Meant(table[a][c]) = expected[c]

\* There is one table, unless Sync has made a second; it has its new name, unless a
\* statement has failed.
OneTable ==
  /\ table["old"] # NoTable \/ table["new"] # NoTable
  /\ table["old"] # NoTable /\ table["new"] # NoTable => apart
  /\ boot \notin {"down", "rename"} /\ table["new"] = NoTable => failed

\* The loop over the columns goes by what it has seen, until it is done with a column;
LoopSees ==
  IF boot = "each column"
  THEN /\ table["new"] # NoTable
       /\ \A c \in Columns : "old" \in seen[c] => seen[c] = NamesOf(c)
       /\ \A c \in dropping : seen[c] = Ages
  ELSE seen = NothingSeen /\ dropping = {}

\* it drops no column that has not been copied;
DroppedIsCopied ==
  \A c \in dropping \ unsure : table["new"][c]["new"] = Meant(table["new"][c])

\* and columns it is done with have lost their old names, if nothing has failed.
NoOldNames ==
  /\ boot = "each column" /\ ~failed =>
       \A c \in Columns : "old" \notin seen[c] => table["new"][c]["old"] = Absent
  /\ boot = "sync" /\ ~failed /\ table["new"] # NoTable =>
       \A c \in Columns : table["new"][c]["old"] = Absent
  /\ boot = "up" /\ ~failed =>
       table["new"] # NoTable /\ \A c \in Columns : table["new"][c]["old"] = Absent

MigrationInv ==
  /\ MigrationTypeOK /\ NoColumnLost /\ OneTable /\ LoopSees /\ DroppedIsCopied /\ NoOldNames
-----------------------------------------------------------------------------
LEMMA TableTypes ==
  ASSUME MigrationTypeOK
  PROVE  /\ \A a \in Ages : table[a] # NoTable => table[a] \in Cells
         /\ \A a \in Ages : table[a] # NoTable => \A c \in Columns : \A name \in Ages :
              table[a][c] \in [Ages -> CellValues \cup {Absent}]
              /\ table[a][c][name] \in CellValues \cup {Absent}
<1>1. \A a \in Ages : table[a] # NoTable => table[a] \in Cells
  BY DEF MigrationTypeOK
<1> QED
  BY <1>1 DEF Cells

LEMMA CellMeans ==
  ASSUME NEW cell \in [Ages -> CellValues \cup {Absent}], \E name \in Ages : cell[name] # Absent
  PROVE  /\ Meant(cell) \in CellValues
         /\ Meant(cell) # Absent
<1>1. cell["old"] \in CellValues \cup {Absent} /\ cell["new"] \in CellValues \cup {Absent}
      /\ (cell["old"] # Absent \/ cell["new"] # Absent)
  BY DEF Ages
<1> QED
  BY <1>1, MigrationAssumption DEF Meant

\* A statement about one column.
LEMMA ColumnSet ==
  ASSUME MigrationTypeOK, NoColumnLost, NEW c \in Columns,
         NEW cell \in [Ages -> CellValues \cup {Absent}],
         table["new"] # NoTable, SetCell(c, cell), unsure \subseteq unsure',
         \A d \in Columns \ {c} : expected'[d] = expected[d],
         table["old"] # NoTable => expected' = expected,
         \E name \in Ages : cell[name] # Absent,
         c \notin unsure' /\ table["old"] = NoTable => Meant(cell) = expected'[c]
  PROVE  /\ table' \in [Ages -> Cells \cup {NoTable}] /\ table'["old"] = table["old"]
         /\ table'["new"] # NoTable /\ table'["new"][c] = cell
         /\ \A d \in Columns \ {c} : table'["new"][d] = table["new"][d]
         /\ NoColumnLost'
<1>1. "new" \in Ages /\ "old" \in Ages /\ table["new"] \in Cells
  BY TableTypes DEF Ages
<1> DEFINE changed == [table["new"] EXCEPT ![c] = cell]
<1>2. /\ changed \in Cells /\ changed[c] = cell
      /\ \A d \in Columns \ {c} : changed[d] = table["new"][d]
  BY <1>1 DEF Cells
<1>3. table' = [table EXCEPT !["new"] = changed]
  BY DEF SetCell
<1> HIDE DEF changed
<1>4. /\ table' \in [Ages -> Cells \cup {NoTable}] /\ table'["new"] = changed
      /\ table'["old"] = table["old"]
  BY <1>1, <1>2, <1>3 DEF MigrationTypeOK
<1>5. changed # NoTable
  BY <1>2, MigrationAssumption
<1>6. NoColumnLost'
  <2> SUFFICES ASSUME NEW a \in Ages, table'[a] # NoTable, NEW d \in Columns
               PROVE  /\ \E name \in Ages : table'[a][d][name] # Absent
                      /\ d \notin unsure' /\ (a = "new" => table'["old"] = NoTable)
                           => Meant(table'[a][d]) = expected'[d]
    BY DEF NoColumnLost, Meant
  <2>1. CASE a = "old"
    BY <1>1, <1>4, <1>5, <2>1 DEF NoColumnLost
  <2>2. CASE a = "new" /\ d = c
    BY <1>2, <1>4, <2>2
  <2>3. CASE a = "new" /\ d # c
    <3>1. table'["new"][d] = table["new"][d] /\ expected'[d] = expected[d]
      BY <1>2, <1>4, <2>3
    <3>2. /\ \E name \in Ages : table["new"][d][name] # Absent
          /\ d \notin unsure /\ table["old"] = NoTable => Meant(table["new"][d]) = expected[d]
      BY <1>1 DEF NoColumnLost
    <3> QED
      BY <1>4, <2>3, <3>1, <3>2
  <2> QED
    BY <2>1, <2>2, <2>3 DEF Ages
<1> QED
  BY <1>2, <1>4, <1>5, <1>6

LEMMA InitMigration == MigrationInit => MigrationInv
<1> SUFFICES ASSUME MigrationInit PROVE MigrationInv
  OBVIOUS
<1>1. PICK age \in Ages, cells \in Cells :
        /\ \A c \in Columns : \E a \in Ages : cells[c][a] # Absent
        /\ table = [a \in Ages |-> IF a = age THEN cells ELSE NoTable]
        /\ boot = "down" /\ boots = 0
        /\ seen = NothingSeen /\ dropping = {}
        /\ failed = FALSE /\ apart = FALSE /\ unsure = {}
        /\ expected = [c \in Columns |-> Meant(cells[c])]
  BY DEF MigrationInit
<1>2. \A c \in Columns : cells[c] \in [Ages -> CellValues \cup {Absent}]
  BY DEF Cells
<1>3. MigrationTypeOK
  <2>1. \A c \in Columns : Meant(cells[c]) \in CellValues
    BY <1>1, <1>2, CellMeans
  <2>2. expected \in [Columns -> CellValues]
    BY <1>1, <2>1
  <2>3. table \in [Ages -> Cells \cup {NoTable}]
    BY <1>1
  <2>4. 0 \in 0 .. MaxBoots
    BY MigrationAssumption
  <2> QED
    BY <1>1, <2>2, <2>3, <2>4 DEF MigrationTypeOK, NothingSeen
<1>4. cells # NoTable
  BY MigrationAssumption
<1>5. NoColumnLost
  BY <1>1, <1>4 DEF NoColumnLost
<1>6. OneTable
  BY <1>1, <1>4 DEF OneTable, Ages
<1> QED
  BY <1>1, <1>3, <1>5, <1>6 DEF MigrationInv, LoopSees, DroppedIsCopied, NoOldNames

\* What Sync2 adds.
LEMMA SyncAdds ==
  ASSUME MigrationTypeOK, NoColumnLost, NEW adds \in SUBSET Columns, NEW c \in Columns,
         NEW synced, synced = Synced(table["new"], adds)
  PROVE  /\ synced[c] \in [Ages -> CellValues \cup {Absent}]
         /\ \E name \in Ages : synced[c][name] # Absent
         /\ table["new"] = NoTable => synced[c]["old"] = Absent
         /\ table["new"] # NoTable =>
              synced[c]["old"] = table["new"][c]["old"] /\ Meant(synced[c]) = Meant(table["new"][c])
<1>0. Unset \in CellValues /\ Unset # Absent /\ Unset \in Blanks
  BY MigrationAssumption
<1>1. CASE table["new"] = NoTable
  <2>1. synced[c] = [old |-> Absent, new |-> Unset]
    BY <1>1 DEF Synced, EmptyTable
  <2>2. [old |-> Absent, new |-> Unset] \in [Ages -> CellValues \cup {Absent}]
    BY <1>0 DEF Ages
  <2>3. "new" \in Ages /\ synced[c]["new"] # Absent
    BY <1>0, <2>1 DEF Ages
  <2> QED
    BY <1>0, <1>1, <2>1, <2>2, <2>3
<1>2. CASE table["new"] # NoTable
  <2> DEFINE was == table["new"][c]
  <2>1. was \in [Ages -> CellValues \cup {Absent}] /\ \E name \in Ages : was[name] # Absent
    BY <1>2, TableTypes DEF NoColumnLost, Ages
  <2>2. /\ was["old"] \in CellValues \cup {Absent} /\ was["new"] \in CellValues \cup {Absent}
        /\ was["old"] # Absent \/ was["new"] # Absent
    BY <2>1 DEF Ages
  <2>3. synced[c] = [was EXCEPT !["new"] = IF c \in adds /\ was["new"] = Absent THEN Unset ELSE was["new"]]
    BY <1>2 DEF Synced
  <2> HIDE DEF was
  <2>4. /\ synced[c] \in [Ages -> CellValues \cup {Absent}] /\ synced[c]["old"] = was["old"]
        /\ synced[c]["new"] = IF c \in adds /\ was["new"] = Absent THEN Unset ELSE was["new"]
    BY <1>0, <2>1, <2>2, <2>3 DEF Ages
  <2>5. Meant(synced[c]) = Meant(was)
    BY <1>0, <2>2, <2>4 DEF Meant
  <2>6. \E name \in Ages : synced[c][name] # Absent
    BY <1>0, <2>2, <2>4 DEF Ages
  <2> QED
    BY <1>2, <2>4, <2>5, <2>6 DEF was
<1> QED
  BY <1>1, <1>2

\* Sync2 has made the table, or added columns.
LEMMA SyncStep ==
  ASSUME MigrationInv, NEW adds \in SUBSET Columns,
         boot = "sync", boot' = "up", seen = NothingSeen, dropping = {},
         UNCHANGED <<boots, seen, dropping, expected, unsure>>,
         apart' = (apart \/ (table["old"] # NoTable /\ table'["new"] # NoTable)),
         table' = [table EXCEPT !["new"] = Synced(table["new"], adds)],
         failed' = TRUE \/ (adds = Columns /\ UNCHANGED failed)
  PROVE  MigrationInv'
<1>0. /\ MigrationTypeOK /\ NoColumnLost /\ OneTable /\ LoopSees /\ DroppedIsCopied /\ NoOldNames
      /\ "old" \in Ages /\ "new" \in Ages
  BY DEF MigrationInv, Ages
<1> DEFINE was == table["new"]
           synced == Synced(was, adds)
<1>1. \A c \in Columns :
        /\ synced[c] \in [Ages -> CellValues \cup {Absent}]
        /\ \E name \in Ages : synced[c][name] # Absent
        /\ was = NoTable => synced[c]["old"] = Absent
        /\ was # NoTable => synced[c]["old"] = was[c]["old"] /\ Meant(synced[c]) = Meant(was[c])
  BY <1>0, SyncAdds
<1>2. synced \in Cells
  BY <1>1 DEF Synced, Cells, EmptyTable
<1>3. synced # NoTable
  BY <1>2, MigrationAssumption
<1> HIDE DEF synced
<1>4. /\ table' \in [Ages -> Cells \cup {NoTable}] /\ table'["new"] = synced
      /\ table'["old"] = table["old"]
  BY <1>0, <1>2 DEF MigrationTypeOK, synced
<1>5. MigrationTypeOK'
  BY <1>0, <1>4 DEF MigrationTypeOK
<1>6. NoColumnLost'
  <2> SUFFICES ASSUME NEW a \in Ages, table'[a] # NoTable, NEW c \in Columns
               PROVE  /\ \E name \in Ages : table'[a][c][name] # Absent
                      /\ c \notin unsure' /\ (a = "new" => table'["old"] = NoTable)
                           => Meant(table'[a][c]) = expected'[c]
    BY DEF NoColumnLost, Meant
  <2>1. CASE a = "old"
    BY <1>0, <1>4, <2>1 DEF NoColumnLost
  <2>2. CASE a = "new"
    <3>1. table'["old"] = NoTable => was # NoTable
      BY <1>0, <1>4 DEF OneTable
    <3> QED
      BY <1>0, <1>1, <1>4, <2>2, <3>1 DEF NoColumnLost
  <2> QED
    BY <2>1, <2>2 DEF Ages
<1>7. OneTable'
  BY <1>0, <1>3, <1>4 DEF OneTable
<1>8. NoOldNames'
  BY <1>0, <1>1, <1>3, <1>4 DEF NoOldNames
<1>9. LoopSees' /\ DroppedIsCopied'
  BY DEF LoopSees, DroppedIsCopied, NothingSeen
<1> QED
  BY <1>5, <1>6, <1>7, <1>8, <1>9 DEF MigrationInv

LEMMA NextMigration ==
  ASSUME MigrationInv, [MigrationNext]_migrationVars
  PROVE  MigrationInv'
<1>0. /\ MigrationTypeOK /\ NoColumnLost /\ OneTable /\ LoopSees /\ DroppedIsCopied /\ NoOldNames
      /\ "old" \in Ages /\ "new" \in Ages
  BY DEF MigrationInv, Ages
\* Steps that leave the table alone.
<1>1. ASSUME UNCHANGED <<table, expected, unsure>> PROVE NoColumnLost'
  BY <1>0, <1>1 DEF NoColumnLost, Meant
<1>2. CASE Boot
  <2>1. MigrationTypeOK'
    <3>1. boots' \in 0 .. MaxBoots
      BY <1>0, <1>2, MigrationAssumption DEF Boot, MigrationTypeOK
    <3> QED
      BY <1>0, <1>2, <3>1 DEF Boot, MigrationTypeOK
  <2> QED
    BY <1>0, <1>1, <1>2, <2>1
    DEF Boot, MigrationInv, OneTable, LoopSees, DroppedIsCopied, NoOldNames, NothingSeen
<1>3. CASE Crash
  <2>1. MigrationTypeOK'
    BY <1>0, <1>3 DEF Crash, MigrationTypeOK, NothingSeen
  <2> QED
    BY <1>0, <1>1, <1>3, <2>1
    DEF Crash, MigrationInv, OneTable, LoopSees, DroppedIsCopied, NoOldNames, NothingSeen
<1>4. CASE RenameTable
  <2>1. CASE UNCHANGED table
    <3>1. MigrationTypeOK'
      BY <1>0, <1>4, <2>1 DEF RenameTable, MigrationTypeOK
    <3>2. OneTable'
      BY <1>0, <1>4, <2>1 DEF RenameTable, OneTable
    <3>3. NoColumnLost'
      BY <1>1, <1>4, <2>1 DEF RenameTable
    <3> QED
      BY <1>0, <1>4, <3>1, <3>2, <3>3
      DEF RenameTable, MigrationInv, LoopSees, DroppedIsCopied, NoOldNames, NothingSeen
  <2>2. CASE /\ table["old"] # NoTable /\ table["new"] = NoTable
             /\ table' = [old |-> NoTable, new |-> table["old"]]
             /\ UNCHANGED failed
    <3>1. /\ table'["old"] = NoTable /\ table'["new"] = table["old"] /\ table["old"] \in Cells
          /\ table' \in [Ages -> Cells \cup {NoTable}]
      BY <1>0, <2>2, TableTypes DEF Ages
    <3>2. MigrationTypeOK'
      BY <1>0, <1>4, <2>2, <3>1 DEF RenameTable, MigrationTypeOK
    <3>3. NoColumnLost'
      <4> SUFFICES ASSUME NEW a \in Ages, table'[a] # NoTable, NEW c \in Columns
                   PROVE  /\ \E name \in Ages : table'[a][c][name] # Absent
                          /\ c \notin unsure' => Meant(table'[a][c]) = expected'[c]
        BY DEF NoColumnLost, Meant
      <4>1. a = "new" /\ unsure' = unsure /\ expected' = expected
        BY <1>4, <3>1 DEF Ages, RenameTable
      <4> QED
        BY <1>0, <2>2, <3>1, <4>1 DEF NoColumnLost
    <3> QED
      BY <1>0, <1>4, <2>2, <3>1, <3>2, <3>3
      DEF RenameTable, MigrationInv, OneTable, LoopSees, DroppedIsCopied, NoOldNames, NothingSeen
  <2> QED
    BY <1>4, <2>1, <2>2 DEF RenameTable
<1>5. CASE ShowColumns
  <2>0. UNCHANGED <<table, boots, dropping, expected, unsure, apart>> /\ dropping = {}
    BY <1>0, <1>5 DEF ShowColumns, LoopSees
  <2>1. CASE table["new"] # NoTable /\ seen' = [c \in Columns |-> NamesOf(c)]
             /\ boot' = "each column" /\ UNCHANGED failed
    <3>1. MigrationTypeOK'
      BY <1>0, <2>0, <2>1 DEF MigrationTypeOK, NamesOf
    <3>2. \A c \in Columns : seen'[c] = NamesOf(c)'
      BY <2>0, <2>1 DEF NamesOf
    <3>3. \A c \in Columns : "old" \notin seen'[c] => table'["new"][c]["old"] = Absent
      BY <1>0, <3>2 DEF NamesOf
    <3>4. OneTable'
      BY <1>0, <2>0, <2>1 DEF OneTable
    <3> QED
      BY <1>1, <2>0, <2>1, <3>1, <3>2, <3>3, <3>4 DEF MigrationInv, LoopSees, DroppedIsCopied, NoOldNames
  <2>2. CASE boot' = "sync" /\ failed' = (failed \/ table["new"] # NoTable) /\ UNCHANGED seen
    <3>1. MigrationTypeOK'
      BY <1>0, <2>0, <2>2 DEF MigrationTypeOK
    <3>2. OneTable'
      <4>1. boot = "columns"
        BY <1>5 DEF ShowColumns
      <4> QED
        BY <1>0, <2>0, <2>2, <4>1 DEF OneTable
    <3>3. seen = NothingSeen
      BY <1>0, <1>5 DEF LoopSees, ShowColumns
    <3> QED
      BY <1>1, <2>0, <2>2, <3>1, <3>2, <3>3
      DEF MigrationInv, LoopSees, DroppedIsCopied, NoOldNames, NothingSeen
  <2> QED
    BY <1>5, <2>1, <2>2 DEF ShowColumns
<1>6. ASSUME NEW c \in Columns, RenameColumn(c) PROVE MigrationInv'
  <2>0. /\ boot = "each column" /\ dropping = {} /\ seen[c] = {"old"} /\ LookedAt(c)
        /\ UNCHANGED <<boot, boots, dropping, expected, unsure, apart>>
        /\ table["new"] # NoTable /\ NamesOf(c) = {"old"}
    BY <1>0, <1>6 DEF RenameColumn, LoopSees
  <2>1. /\ seen' \in [Columns -> SUBSET Ages] /\ seen'[c] = {}
        /\ \A d \in Columns \ {c} : seen'[d] = seen[d]
    BY <1>0, <2>0 DEF LookedAt, MigrationTypeOK
  <2> DEFINE cell == [old |-> Absent, new |-> table["new"][c]["old"]]
  <2>2. CASE SetCell(c, cell) /\ UNCHANGED failed
    <3>1. /\ table["new"][c]["new"] = Absent /\ table["new"][c]["old"] # Absent
          /\ table["new"][c]["old"] \in CellValues \cup {Absent}
      BY <1>0, <2>0, TableTypes DEF NamesOf, Ages
    <3>2. /\ cell \in [Ages -> CellValues \cup {Absent}] /\ cell["new"] # Absent /\ cell["old"] = Absent
          /\ Meant(cell) = cell["new"] /\ Meant(table["new"][c]) = cell["new"]
      BY <3>1 DEF Ages, Meant
    <3>3. c \notin unsure' /\ table["old"] = NoTable => Meant(cell) = expected'[c]
      BY <1>0, <2>0, <3>2 DEF NoColumnLost
    <3> HIDE DEF cell
    <3>4. /\ table' \in [Ages -> Cells \cup {NoTable}] /\ table'["old"] = table["old"]
          /\ table'["new"] # NoTable /\ table'["new"][c] = cell
          /\ \A d \in Columns \ {c} : table'["new"][d] = table["new"][d]
          /\ NoColumnLost'
      BY <1>0, <2>0, <2>2, <3>2, <3>3, ColumnSet
    <3>5. \A d \in Columns \ {c} : NamesOf(d)' = NamesOf(d)
      BY <3>4 DEF NamesOf
    <3>6. MigrationTypeOK'
      BY <1>0, <2>0, <2>1, <2>2, <3>4 DEF MigrationTypeOK
    <3>7. OneTable'
      BY <1>0, <2>0, <3>4 DEF OneTable
    <3>8. LoopSees'
      BY <1>0, <2>0, <2>1, <3>4, <3>5 DEF LoopSees
    <3>9. NoOldNames'
      BY <1>0, <2>0, <2>1, <2>2, <3>2, <3>4 DEF NoOldNames
    <3> QED
      BY <2>0, <3>4, <3>6, <3>7, <3>8, <3>9 DEF MigrationInv, DroppedIsCopied
  <2>3. CASE failed' = TRUE /\ UNCHANGED table
    <3>1. MigrationTypeOK'
      BY <1>0, <2>0, <2>1, <2>3 DEF MigrationTypeOK
    <3>2. \A d \in Columns : NamesOf(d)' = NamesOf(d)
      BY <2>3 DEF NamesOf
    <3>3. LoopSees'
      BY <1>0, <2>0, <2>1, <2>3, <3>2 DEF LoopSees
    <3> QED
      BY <1>0, <1>1, <2>0, <2>3, <3>1, <3>3 DEF MigrationInv, OneTable, DroppedIsCopied, NoOldNames
  <2> QED
    BY <1>6, <2>2, <2>3 DEF RenameColumn
<1>7. ASSUME NEW c \in Columns, CopyColumn(c) PROVE MigrationInv'
  <2>0. /\ boot = "each column" /\ dropping = {} /\ seen[c] = Ages /\ dropping' = {c}
        /\ UNCHANGED <<boot, boots, seen, expected, apart>>
        /\ table["new"] # NoTable /\ NamesOf(c) = Ages
    BY <1>0, <1>7 DEF CopyColumn, LoopSees
  <2> DEFINE now == table["new"][c]
             cell == [now EXCEPT !["new"] = Meant(now)]
  <2>1. CASE SetCell(c, cell) /\ UNCHANGED <<failed, unsure>>
    <3>1. /\ now \in [Ages -> CellValues \cup {Absent}]
          /\ now["old"] # Absent /\ now["new"] # Absent
      BY <1>0, <2>0, TableTypes DEF NamesOf
    <3>2. Meant(now) \in CellValues /\ Meant(now) # Absent
      BY <1>0, <3>1, CellMeans
    <3>3. /\ cell \in [Ages -> CellValues \cup {Absent}] /\ cell["new"] = Meant(now)
          /\ cell["old"] = now["old"]
      BY <1>0, <3>1, <3>2 DEF Ages
    <3>4. Meant(cell) = Meant(now)
      BY <3>1, <3>2, <3>3 DEF Meant
    <3>5. c \notin unsure' /\ table["old"] = NoTable => Meant(cell) = expected'[c]
      BY <1>0, <2>0, <2>1, <3>4 DEF NoColumnLost
    <3> HIDE DEF cell
    <3>6. /\ table' \in [Ages -> Cells \cup {NoTable}] /\ table'["old"] = table["old"]
          /\ table'["new"] # NoTable /\ table'["new"][c] = cell
          /\ \A d \in Columns \ {c} : table'["new"][d] = table["new"][d]
          /\ NoColumnLost'
      <4>1. \E name \in Ages : cell[name] # Absent
        BY <1>0, <3>2, <3>3
      <4> QED
        BY <1>0, <2>0, <2>1, <3>3, <3>5, <4>1, ColumnSet
    <3>7. \A d \in Columns : NamesOf(d)' = NamesOf(d)
      <4>1. \A d \in Columns \ {c} : NamesOf(d)' = NamesOf(d)
        BY <3>6 DEF NamesOf
      <4>2. NamesOf(c)' = Ages
        BY <3>1, <3>2, <3>3, <3>6 DEF NamesOf, Ages
      <4> QED
        BY <2>0, <4>1, <4>2
    <3>8. MigrationTypeOK'
      BY <1>0, <2>0, <2>1, <3>6 DEF MigrationTypeOK
    <3>9. OneTable'
      BY <1>0, <2>0, <3>6 DEF OneTable
    <3>10. LoopSees'
      BY <1>0, <2>0, <3>6, <3>7 DEF LoopSees
    <3>11. DroppedIsCopied'
      <4>1. Meant(cell) = Meant(table["new"][c])' /\ cell = (table["new"][c])'
        BY <3>6 DEF Meant
      <4> QED
        BY <2>0, <3>3, <3>4, <4>1 DEF DroppedIsCopied
    <3>12. NoOldNames'
      BY <1>0, <2>0, <2>1, <3>6 DEF NoOldNames
    <3> QED
      BY <3>6, <3>8, <3>9, <3>10, <3>11, <3>12 DEF MigrationInv
  <2>2. CASE failed' = TRUE /\ unsure' = unsure \cup {c} /\ UNCHANGED table
    <3>1. MigrationTypeOK'
      BY <1>0, <2>0, <2>2 DEF MigrationTypeOK
    <3>2. NoColumnLost'
      BY <1>0, <2>0, <2>2, ZenonT(40) DEF NoColumnLost, Meant
    <3>3. LoopSees'
      BY <1>0, <2>0, <2>2 DEF LoopSees, NamesOf
    <3> QED
      BY <1>0, <2>0, <2>2, <3>1, <3>2, <3>3 DEF MigrationInv, OneTable, DroppedIsCopied, NoOldNames
  <2> QED
    BY <1>7, <2>1, <2>2 DEF CopyColumn
<1>8. ASSUME NEW c \in Columns, DropColumn(c) PROVE MigrationInv'
  <2>0. /\ boot = "each column" /\ dropping = {c} /\ dropping' = {} /\ seen[c] = Ages /\ LookedAt(c)
        /\ UNCHANGED <<boot, boots, expected, unsure, apart>>
        /\ table["new"] # NoTable /\ NamesOf(c) = Ages
    BY <1>0, <1>8 DEF DropColumn, LoopSees, NothingSeen
  <2>1. /\ seen' \in [Columns -> SUBSET Ages] /\ seen'[c] = {}
        /\ \A d \in Columns \ {c} : seen'[d] = seen[d]
    BY <1>0, <2>0 DEF LookedAt, MigrationTypeOK
  <2> DEFINE now == table["new"][c]
             cell == [now EXCEPT !["old"] = Absent]
  <2>2. CASE SetCell(c, cell) /\ UNCHANGED failed
    <3>1. /\ now \in [Ages -> CellValues \cup {Absent}] /\ now["new"] # Absent
          /\ c \notin unsure => now["new"] = Meant(now)
      BY <1>0, <2>0, TableTypes DEF NamesOf, DroppedIsCopied
    <3>2. /\ cell \in [Ages -> CellValues \cup {Absent}] /\ cell["old"] = Absent
          /\ cell["new"] = now["new"]
      BY <1>0, <3>1 DEF Ages
    <3>3. Meant(cell) = now["new"]
      BY <3>1, <3>2 DEF Meant
    <3>4. c \notin unsure' /\ table["old"] = NoTable => Meant(cell) = expected'[c]
      BY <1>0, <2>0, <3>1, <3>3 DEF NoColumnLost
    <3> HIDE DEF cell
    <3>5. /\ table' \in [Ages -> Cells \cup {NoTable}] /\ table'["old"] = table["old"]
          /\ table'["new"] # NoTable /\ table'["new"][c] = cell
          /\ \A d \in Columns \ {c} : table'["new"][d] = table["new"][d]
          /\ NoColumnLost'
      <4>1. \E name \in Ages : cell[name] # Absent
        BY <1>0, <3>1, <3>2
      <4> QED
        BY <1>0, <2>0, <2>2, <3>2, <3>4, <4>1, ColumnSet
    <3>6. \A d \in Columns \ {c} : NamesOf(d)' = NamesOf(d)
      BY <3>5 DEF NamesOf
    <3>7. MigrationTypeOK'
      BY <1>0, <2>0, <2>1, <2>2, <3>5 DEF MigrationTypeOK
    <3>8. OneTable'
      BY <1>0, <2>0, <3>5 DEF OneTable
    <3>9. LoopSees'
      BY <1>0, <2>0, <2>1, <3>5, <3>6 DEF LoopSees
    <3>10. NoOldNames'
      BY <1>0, <2>0, <2>1, <2>2, <3>2, <3>5 DEF NoOldNames
    <3> QED
      BY <2>0, <3>5, <3>7, <3>8, <3>9, <3>10 DEF MigrationInv, DroppedIsCopied
  <2>3. CASE failed' = TRUE /\ UNCHANGED table
    <3>1. MigrationTypeOK'
      BY <1>0, <2>0, <2>1, <2>3 DEF MigrationTypeOK
    <3>2. \A d \in Columns : NamesOf(d)' = NamesOf(d)
      BY <2>3 DEF NamesOf
    <3>3. LoopSees'
      BY <1>0, <2>0, <2>1, <2>3, <3>2 DEF LoopSees
    <3> QED
      BY <1>0, <1>1, <2>0, <2>3, <3>1, <3>3 DEF MigrationInv, OneTable, DroppedIsCopied, NoOldNames
  <2> QED
    BY <1>8, <2>2, <2>3 DEF DropColumn
<1>9. CASE ColumnsDone
  <2>1. /\ boot = "each column" /\ \A c \in Columns : "old" \notin seen[c]
        /\ dropping = {} /\ boot' = "sync" /\ seen' = NothingSeen
        /\ UNCHANGED <<table, boots, dropping, failed, expected, unsure, apart>>
    BY <1>9 DEF ColumnsDone
  <2>2. MigrationTypeOK'
    BY <1>0, <2>1 DEF MigrationTypeOK, NothingSeen
  <2>3. OneTable'
    BY <1>0, <2>1 DEF OneTable
  <2> QED
    BY <1>0, <1>1, <2>1, <2>2, <2>3
    DEF MigrationInv, LoopSees, DroppedIsCopied, NoOldNames, NothingSeen
<1>10. CASE Sync
  <2>1. /\ boot = "sync" /\ boot' = "up" /\ seen = NothingSeen /\ dropping = {}
        /\ UNCHANGED <<boots, seen, dropping, expected, unsure>>
        /\ apart' = (apart \/ (table["old"] # NoTable /\ table'["new"] # NoTable))
    BY <1>0, <1>10 DEF Sync, LoopSees
  <2>2. ASSUME NEW adds \in SUBSET Columns,
               table' = [table EXCEPT !["new"] = Synced(table["new"], adds)],
               failed' = TRUE \/ (adds = Columns /\ UNCHANGED failed)
        PROVE  MigrationInv'
    BY <1>0, <2>1, <2>2, SyncStep
  <2>3. CASE table["new"] = NoTable /\ failed' = TRUE /\ UNCHANGED table
    <3>1. MigrationTypeOK'
      BY <1>0, <2>1, <2>3 DEF MigrationTypeOK
    <3>2. OneTable'
      BY <1>0, <2>1, <2>3 DEF OneTable
    <3> QED
      BY <1>1, <2>1, <2>3, <3>1, <3>2
      DEF MigrationInv, LoopSees, DroppedIsCopied, NoOldNames, NothingSeen
  <2> QED
    BY <1>10, <2>2, <2>3 DEF Sync
<1>11. ASSUME NEW c \in Columns, NEW v \in CellValues, WriteCell(c, v) PROVE MigrationInv'
  <2> DEFINE now == table["new"][c]
             cell == [now EXCEPT !["new"] = v]
  <2>1. /\ boot = "up" /\ table["new"] # NoTable /\ SetCell(c, cell)
        /\ expected' = IF table["old"] = NoTable THEN [expected EXCEPT ![c] = v] ELSE expected
        /\ unsure' = IF v \in Blanks /\ now["old"] # Absent THEN unsure \cup {c} ELSE unsure
        /\ seen = NothingSeen /\ dropping = {}
        /\ UNCHANGED <<boot, boots, seen, dropping, failed, apart>>
    BY <1>0, <1>11 DEF WriteCell, LoopSees
  <2>2. now \in [Ages -> CellValues \cup {Absent}] /\ v # Absent
    BY <1>0, <2>1, TableTypes, MigrationAssumption
  <2>3. /\ cell \in [Ages -> CellValues \cup {Absent}] /\ cell["new"] = v /\ cell["old"] = now["old"]
    BY <1>0, <2>2 DEF Ages
  <2>4. c \notin unsure' => Meant(cell) = v
    BY <2>1, <2>2, <2>3 DEF Meant
  <2>5. /\ expected' \in [Columns -> CellValues] /\ (table["old"] = NoTable => expected'[c] = v)
        /\ \A d \in Columns \ {c} : expected'[d] = expected[d]
        /\ unsure \subseteq unsure' /\ unsure' \subseteq Columns
    BY <1>0, <2>1 DEF MigrationTypeOK
  <2> HIDE DEF cell
  <2>6. /\ table' \in [Ages -> Cells \cup {NoTable}] /\ table'["old"] = table["old"]
        /\ table'["new"] # NoTable /\ table'["new"][c] = cell
        /\ \A d \in Columns \ {c} : table'["new"][d] = table["new"][d]
        /\ NoColumnLost'
    <3>1. \E name \in Ages : cell[name] # Absent
      BY <1>0, <2>2, <2>3
    <3>2. c \notin unsure' /\ table["old"] = NoTable => Meant(cell) = expected'[c]
      BY <2>4, <2>5
    <3> QED
      BY <1>0, <2>1, <2>3, <2>5, <3>1, <3>2, ColumnSet
  <2>7. MigrationTypeOK'
    BY <1>0, <2>1, <2>5, <2>6 DEF MigrationTypeOK
  <2>8. OneTable'
    BY <1>0, <2>1, <2>6 DEF OneTable
  <2>9. NoOldNames'
    BY <1>0, <2>1, <2>3, <2>6 DEF NoOldNames
  <2>10. LoopSees' /\ DroppedIsCopied'
    BY <2>1 DEF LoopSees, DroppedIsCopied, NothingSeen
  <2> QED
    BY <2>6, <2>7, <2>8, <2>9, <2>10 DEF MigrationInv
<1>12. CASE UNCHANGED migrationVars
  <2>1. UNCHANGED <<table, boot, boots, seen, dropping, failed, apart, expected, unsure>>
    BY <1>12 DEF migrationVars
  <2>2. MigrationTypeOK' /\ OneTable'
    BY <1>0, <2>1 DEF MigrationTypeOK, OneTable
  <2>3. LoopSees'
    BY <1>0, <2>1 DEF LoopSees, NamesOf, NothingSeen
  <2>4. DroppedIsCopied' /\ NoOldNames'
    BY <1>0, <2>1 DEF DroppedIsCopied, NoOldNames, Meant
  <2> QED
    BY <1>1, <2>1, <2>2, <2>3, <2>4 DEF MigrationInv
<1> QED
  BY <1>2, <1>3, <1>4, <1>5, <1>6, <1>7, <1>8, <1>9, <1>10, <1>11, <1>12 DEF MigrationNext

\* The properties of the migration, in every state.
LEMMA MigrationCorrect == MigrationSpec => []MigrationInv
BY InitMigration, NextMigration, PTL DEF MigrationSpec

\* Starts that are interrupted, or whose statements fail, lose no value of a column
\* whose UPDATE has not failed and that the program has not blanked: it is in the table
\* of the old name while there is one, and then in that of the new name.
THEOREM MigrationKeeps == MigrationSpec => []NoValueLost
<1>1. MigrationInv => NoValueLost
  BY DEF MigrationInv, NoColumnLost, OneTable, NoValueLost, Ages
<1> QED
  BY <1>1, MigrationCorrect, PTL

\* However the starts before it have ended, one without failures leaves no old names.
THEOREM MigrationEnds == MigrationSpec => []OneStartIsEnough
<1>1. MigrationInv => OneStartIsEnough
  BY DEF MigrationInv, NoOldNames, OneTable, OneStartIsEnough
<1> QED
  BY <1>1, MigrationCorrect, PTL
-----------------------------------------------------------------------------
\* The rows of listeners.

\* A row is as it was checked.
RowsInv == RowsTypeOK /\ (row # NoRow => Valid(row))
-----------------------------------------------------------------------------
LEMMA NumberFields == DOMAIN Numbers = {"http_port", "baud_rate", "qos"}
BY DEF Numbers

LEMMA ZeroIsOne == \A f : Zero(f) \in ValuesOf(f)
<1> SUFFICES ASSUME NEW f PROVE Zero(f) \in ValuesOf(f)
  OBVIOUS
<1>1. CASE f \notin DOMAIN Numbers
  BY <1>1 DEF Zero, ValuesOf
<1>2. CASE f \in DOMAIN Numbers
  <2>1. Zero(f) = 0 /\ ValuesOf(f) = Numbers[f]
    BY <1>2 DEF Zero, ValuesOf
  <2>2. 0 \in Numbers["http_port"] /\ 0 \in Numbers["baud_rate"] /\ 0 \in Numbers["qos"]
    BY DEF Numbers
  <2> QED
    BY <1>2, <2>1, <2>2, NumberFields
<1> QED
  BY <1>1, <1>2

\* What a text says of the fields, and what a form of a page says.
LEMMA SettingsAre ==
  ASSUME NEW t \in Types, NEW config \in Configs(t)
  PROVE  /\ DOMAIN Parsed(t, config) = FieldsOf[t]
         /\ Parsed(t, config) = [f \in FieldsOf[t] |-> Parsed(t, config)[f]]
         /\ \A f \in FieldsOf[t] : Parsed(t, config)[f] \in ValuesOf(f)
<1>1. \A f \in FieldsOf[t] : Zero(f) \in ValuesOf(f)
  BY ZeroIsOne
<1>2. \A f \in FieldsOf[t] :
        config \notin {NoConfig, Malformed} /\ f \in DOMAIN config =>
          config[f] \in ValuesOf(f) \cup {Bad}
  BY DEF Configs, Given
<1> QED
  BY <1>1, <1>2 DEF Parsed

\* A form of a page: every field has a value of its own.
LEMMA FormsAre ==
  ASSUME NEW t \in Types, NEW flat, flat = [f \in FieldsOf[t] |-> flat[f]],
         \A f \in FieldsOf[t] : flat[f] \in ValuesOf(f)
  PROVE  /\ flat \in Given(FieldsOf[t]) /\ flat \notin {NoConfig, Malformed}
         /\ Parsed(t, flat) = flat /\ ParsesWell(flat)
<1>1. flat \in Given(FieldsOf[t])
  BY DEF Given
<1>2. flat \notin {NoConfig, Malformed}
  BY <1>1, RowsAssumption
<1>3. \A f \in FieldsOf[t] : flat[f] # Bad
  BY RowsAssumption
<1>4. DOMAIN flat = FieldsOf[t]
  OBVIOUS
<1>5. ParsesWell(flat)
  BY <1>2, <1>3, <1>4 DEF ParsesWell
<1>6. Parsed(t, flat) = [f \in FieldsOf[t] |-> flat[f]]
  BY <1>2, <1>3, <1>4 DEF Parsed
<1> QED
  BY <1>1, <1>2, <1>5, <1>6

\* What is made of the form a page sends.
LEMMA NormalForm ==
  ASSUME NEW t \in Types, NEW flat, Parsed(t, flat) = flat
  PROVE  Normalized(Form(t, flat)) = [type |-> t, config |-> BuiltConfig(t, flat)]
<1>1. /\ Form(t, flat).type = t /\ Form(t, flat).config = NoConfig /\ Form(t, flat).flat = flat
  BY DEF Form
<1> QED
  BY <1>1 DEF Normalized

\* A row that is accepted has a setting that is not empty, unless it is of a plugin.
LEMMA ValidIsNotEmpty ==
  ASSUME NEW r, r.type \in Types, Valid(r), r.type # "plugin"
  PROVE  \E f \in FieldsOf[r.type] : Parsed(r.type, r.config)[f] # Zero(f)
<1> DEFINE t == r.type
           c == Parsed(t, r.config)
<1>1. t \in Types /\ t # "unknown" /\ t # "plugin" /\ CheckedFields(t, c)
  BY DEF Valid
<1> HIDE DEF t, c
<1>2. CASE t = "http_server"
  <2>1. "http_port" \in FieldsOf[t]
    BY <1>1, <1>2 DEF FieldsOf
  <2>2. Zero("http_port") = 0
    BY NumberFields DEF Zero
  <2>3. c["http_port"] \in 1 .. MaxPort
    BY <1>1, <1>2 DEF CheckedFields
  <2>4. MaxPort \in Nat
    BY DEF MaxPort
  <2>5. c["http_port"] # 0
    BY <2>3, <2>4
  <2> QED
    BY <2>1, <2>2, <2>5 DEF t, c
<1>3. CASE t = "mqtt_client"
  <2>1. "broker" \in FieldsOf[t] /\ c["broker"] # Zero("broker")
    BY <1>1, <1>3 DEF CheckedFields, FieldsOf, Zero, Numbers, Types, ParentTypes
  <2> QED
    BY <2>1 DEF t, c
<1>4. CASE t \in {"tcp_conn", "udp_conn"}
  <2>1. "address" \in FieldsOf[t]
    BY <1>1, <1>4 DEF FieldsOf
  <2>2. Zero("address") = Blank
    BY NumberFields DEF Zero
  <2>3. c["address"] # Blank
    <3>1. CASE t = "tcp_conn"
      BY <1>1, <3>1, SMT DEF CheckedFields
    <3>2. CASE t = "udp_conn"
      BY <1>1, <3>2, SMT DEF CheckedFields
    <3> QED
      BY <1>4, <3>1, <3>2
  <2> QED
    BY <2>1, <2>2, <2>3 DEF t, c
<1>5. CASE t = "serial_conn"
  <2>1. "port" \in FieldsOf[t] /\ c["port"] # Zero("port")
    BY <1>1, <1>5 DEF CheckedFields, FieldsOf, Zero, Numbers, Types, ConnTypes
  <2> QED
    BY <2>1 DEF t, c
<1>6. CASE t = "script_conn"
  <2>1. "content" \in FieldsOf[t] /\ c["content"] # Zero("content")
    BY <1>1, <1>6 DEF CheckedFields, FieldsOf, Zero, Numbers, Types, ConnTypes
  <2> QED
    BY <2>1 DEF t, c
<1>7. CASE t = "http_route"
  <2>1. "path" \in FieldsOf[t] /\ c["path"] # Zero("path")
    BY <1>1, <1>7 DEF CheckedFields, FieldsOf, Zero, Numbers, Types, ConnTypes
  <2> QED
    BY <2>1 DEF t, c
<1>8. CASE t = "mqtt_subscription"
  <2>1. "sub_topic" \in FieldsOf[t] /\ c["sub_topic"] # Zero("sub_topic")
    BY <1>1, <1>8 DEF CheckedFields, FieldsOf, Zero, Numbers, Types, ConnTypes
  <2> QED
    BY <2>1 DEF t, c
<1> QED
  BY <1>1, <1>2, <1>3, <1>4, <1>5, <1>6, <1>7, <1>8 DEF Types, ParentTypes, ConnTypes

LEMMA RowsCorrectInv == RowSpec => []RowsInv
<1>1. RowInit => RowsInv
  BY DEF RowInit, RowsInv, RowsTypeOK
<1>2. ASSUME NEW t \in Types, NEW config \in Configs(t), NEW flat \in FlatOf(t),
             Save([type |-> t, config |-> config, flat |-> flat])
      PROVE  RowsInv'
  <2> DEFINE body == [type |-> t, config |-> config, flat |-> flat]
             built == BuiltConfig(t, Parsed(t, flat))
  <2>1. /\ row' = [type |-> t, config |-> IF config # NoConfig THEN config ELSE built]
        /\ Valid(row')
    BY <1>2 DEF Save, Normalized
  <2>2. flat \in Configs(t)
    BY DEF FlatOf, Configs
  <2>3. Parsed(t, flat) \in Given(FieldsOf[t])
    BY <2>2, SettingsAre, FormsAre
  <2>4. built \in Configs(t)
    BY <2>3 DEF BuiltConfig, Configs
  <2>5. row'.type = t /\ row'.config \in Configs(t)
    BY <2>1, <2>4
  <2> QED
    BY <2>1, <2>5 DEF RowsInv, RowsTypeOK
<1>3. ASSUME RowsInv, [RowNext]_row PROVE RowsInv'
  <2>1. CASE RemoveRow
    BY <2>1 DEF RemoveRow, RowsInv, RowsTypeOK
  <2>2. CASE UNCHANGED row
    BY <1>3, <2>2 DEF RowsInv, RowsTypeOK, Valid
  <2> QED
    BY <1>2, <1>3, <2>1, <2>2 DEF RowNext
<1> QED
  BY <1>1, <1>3, PTL DEF RowSpec

\* The form that edits a row is accepted as it stands, and with one field changed it
\* changes that setting and no other, whoever wrote the row and in whichever form.
THEOREM FormsKeepTheRest == RowSpec => []FormKeepsTheRest
<1>1. ASSUME RowsInv PROVE FormKeepsTheRest
  <2> SUFFICES ASSUME row # NoRow PROVE FormKeepsTheRest
    BY DEF FormKeepsTheRest
  <2> DEFINE t == row.type
             c == Parsed(t, row.config)
             edit(f, v) == [c EXCEPT ![f] = v]
  <2>1. t \in Types /\ row.config \in Configs(t) /\ Valid(row)
    BY <1>1 DEF RowsInv, RowsTypeOK
  <2>2. /\ DOMAIN c = FieldsOf[t] /\ c = [f \in FieldsOf[t] |-> c[f]]
        /\ \A f \in FieldsOf[t] : c[f] \in ValuesOf(f)
    BY <2>1, SettingsAre
  <2>3. Parsed(t, c) = c /\ ParsesWell(c)
    BY <2>1, <2>2, FormsAre
  <2>4. Normalized(Form(t, c)) = [type |-> t, config |-> BuiltConfig(t, c)]
    BY <2>1, <2>3, NormalForm
  <2>5. \/ Valid(Normalized(Form(t, c)))
        \/ t = "plugin" /\ \A f \in FieldsOf["plugin"] : c[f] = Blank
    <3>1. CASE \A f \in FieldsOf[t] : c[f] = Zero(f)
      <4>1. t = "plugin"
        BY <2>1, <3>1, ValidIsNotEmpty
      <4>2. \A f \in FieldsOf["plugin"] : Zero(f) = Blank
        <5>1. FieldsOf["plugin"] = {"plugin_name", "params"}
          BY DEF FieldsOf, Types, ConnTypes
        <5> QED
          BY <5>1, NumberFields DEF Zero
      <4> QED
        BY <3>1, <4>1, <4>2
    <3>2. CASE \E f \in FieldsOf[t] : c[f] # Zero(f)
      <4>1. Normalized(Form(t, c)) = [type |-> t, config |-> c]
        BY <2>4, <3>2 DEF BuiltConfig
      <4>2. c # NoConfig
        BY <2>1, <2>2, FormsAre
      <4>3. t # "unknown" /\ (t # "plugin" => CheckedFields(t, c))
        BY <2>1 DEF Valid
      <4> HIDE DEF c, t
      <4>4. Valid([type |-> t, config |-> c])
        BY <2>3, <4>2, <4>3 DEF Valid
      <4> QED
        BY <4>1, <4>4
    <3> QED
      BY <3>1, <3>2
  <2>6. ASSUME NEW f \in FieldsOf[t], NEW v \in ValuesOf(f),
               Valid(Normalized(Form(t, edit(f, v))))
        PROVE  /\ Normalized(Form(t, edit(f, v))).type = t
               /\ Normalized(Form(t, edit(f, v))).config = edit(f, v)
               /\ Parsed(t, edit(f, v)) = edit(f, v)
    <3> DEFINE d == edit(f, v)
    <3>1. /\ d = [g \in FieldsOf[t] |-> d[g]]
          /\ \A g \in FieldsOf[t] : d[g] \in ValuesOf(g)
      BY <2>2
    <3> HIDE DEF d
    <3>2. Parsed(t, d) = d
      BY <2>1, <3>1, FormsAre
    <3>3. Normalized(Form(t, d)) = [type |-> t, config |-> BuiltConfig(t, d)]
      BY <2>1, <3>2, NormalForm
    <3>4. BuiltConfig(t, d) # NoConfig
      BY <2>6, <3>3 DEF Valid, d
    <3>5. BuiltConfig(t, d) = d
      BY <3>4 DEF BuiltConfig
    <3> QED
      BY <3>2, <3>3, <3>5 DEF d
  <2> HIDE DEF c, t, edit
  <2>7. FlatView(row) = c
    BY DEF FlatView, c, t
  <2>8. \A f \in FieldsOf[t] : \A v \in ValuesOf(f) :
          Valid(Normalized(Form(t, edit(f, v)))) =>
            Parsed(Normalized(Form(t, edit(f, v))).type,
                   Normalized(Form(t, edit(f, v))).config) = edit(f, v)
    BY <2>6
  <2> QED
    BY <2>5, <2>7, <2>8 DEF FormKeepsTheRest, edit, c, t
<1> QED
  BY <1>1, RowsCorrectInv, PTL
=============================================================================
