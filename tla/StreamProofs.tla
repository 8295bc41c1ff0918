---------------------------- MODULE StreamProofs ----------------------------
(***************************************************************************)
(* The splitters of a stream give back the messages whose bytes the        *)
(* network cut and joined: under every rule that cuts frames, for every    *)
(* chunking and any number of messages.                                    *)
(***************************************************************************)
EXTENDS StreamFraming, SequenceTheorems, FiniteSetTheorems, WellFoundedInduction, TLAPS
-----------------------------------------------------------------------------
\* First the splitters as functions of their bytes: the bytes of a may be cut first,
\* and what remains of them together with those of b later (SplitLater).

\* A set of numbers has a least one,
LEMMA LeastOf ==
  ASSUME NEW T \in SUBSET Nat, T # {}
  PROVE  \E m \in T : \A k \in T : m <= k
<1> DEFINE R == OpToRel(<, Nat)
<1>1. IsWellFoundedOn(R, Nat)
  BY NatLessThanWellFounded
<1>2. R = {p \in Nat \X Nat : p[1] < p[2]}
  BY DEF OpToRel
<1>3. \A x, y \in Nat : x < y => <<x, y>> \in R
  BY <1>2
<1> HIDE DEF R
<1>4. \E x \in T : \A y \in T : ~(<<y, x>> \in R)
  BY <1>1, WFMin
<1>5. PICK x \in T : \A y \in T : ~(<<y, x>> \in R)
  BY <1>4
<1>6. ASSUME NEW y \in T PROVE x <= y
  <2>1. x \in Nat /\ y \in Nat /\ ~(y < x)
    BY <1>3, <1>5
  <2> QED
    BY <2>1
<1> QED
  BY <1>6

\* and so one that each number shares which all below it do holds them all.
LEMMA AllNumbers ==
  ASSUME NEW T \in SUBSET Nat, \A n \in Nat : (\A k \in Nat : k < n => k \in T) => n \in T
  PROVE  T = Nat
<1> DEFINE U == Nat \ T
<1>1. ASSUME U # {} PROVE FALSE
  <2>1. PICK m \in U : \A k \in U : m <= k
    BY <1>1, LeastOf
  <2>2. \A k \in Nat : k < m => k \in T
    BY <2>1
  <2> QED
    BY <2>2
<1> QED
  BY <1>1

LEMMA NextNumbers ==
  ASSUME NEW T \in SUBSET Nat, 0 \in T, \A n \in T : n + 1 \in T
  PROVE  T = Nat
<1>1. ASSUME NEW n \in Nat, \A k \in Nat : k < n => k \in T PROVE n \in T
  <2>1. CASE n = 0
    BY <2>1
  <2>2. CASE n # 0
    <3>1. n - 1 \in Nat /\ n - 1 < n /\ n = n - 1 + 1
      BY <2>2
    <3> QED
      BY <1>1, <3>1
  <2> QED
    BY <2>1, <2>2
<1> QED
  BY <1>1, AllNumbers

\* The loop of a splitter is well defined,
IsLoop(g, n, d, f) ==
  g = [k \in 0 .. n |-> IF k = 0 THEN [out |-> <<>>, data |-> d] ELSE Cut(g[k - 1], f)]

LEMMA LoopExists ==
  ASSUME NEW d, NEW f
  PROVE  \A n \in Nat : \E g : IsLoop(g, n, d, f)
<1> DEFINE T == {n \in Nat : \E g : IsLoop(g, n, d, f)}
<1>1. ASSUME NEW n \in Nat, \A k \in Nat : k < n => k \in T PROVE n \in T
  <2>1. CASE n = 0
    <3>1. IsLoop([k \in 0 .. 0 |-> [out |-> <<>>, data |-> d]], 0, d, f)
      BY DEF IsLoop
    <3> QED
      BY <2>1, <3>1
  <2>2. CASE n # 0
    <3>1. n - 1 \in Nat /\ n - 1 < n
      BY <2>2
    <3>2. PICK g : IsLoop(g, n - 1, d, f)
      BY <1>1, <3>1
    <3> DEFINE h == [k \in 0 .. n |-> IF k = n THEN Cut(g[n - 1], f) ELSE g[k]]
    <3>3. ASSUME NEW k \in 0 .. n
          PROVE  h[k] = IF k = 0 THEN [out |-> <<>>, data |-> d] ELSE Cut(h[k - 1], f)
      BY <2>2, <3>2 DEF IsLoop
    <3>4. IsLoop(h, n, d, f)
      BY <3>3 DEF IsLoop
    <3> QED
      BY <3>4
  <2> QED
    BY <2>1, <2>2
<1> HIDE DEF T
<1>2. T \in SUBSET Nat
  BY DEF T
<1>3. T = Nat
  BY <1>1, <1>2, AllNumbers
<1> QED
  BY <1>3 DEF T

\* so that it starts with nothing cut, and each round is a Cut.
LEMMA RoundsAre ==
  ASSUME NEW d \in Seq(Nat), NEW f
  PROVE  /\ Rounds(d, f)[0] = [out |-> <<>>, data |-> d]
         /\ \A k \in 1 .. Len(d) : Rounds(d, f)[k] = Cut(Rounds(d, f)[k - 1], f)
<1> DEFINE g == Rounds(d, f)
           n == Len(d)
<1>1. n \in Nat
  OBVIOUS
<1>2. \E loop : IsLoop(loop, n, d, f)
  BY <1>1, LoopExists
<1>3. IsLoop(g, n, d, f)
  BY <1>2 DEF Rounds, IsLoop
<1> HIDE DEF g, n
<1>4. g[0] = [out |-> <<>>, data |-> d]
  BY <1>1, <1>3 DEF IsLoop
<1>5. ASSUME NEW k \in 1 .. n PROVE g[k] = Cut(g[k - 1], f)
  <2>1. k \in 0 .. n /\ k # 0
    BY <1>1
  <2> QED
    BY <1>3, <2>1 DEF IsLoop
<1> QED
  BY <1>4, <1>5 DEF g, n

\* What is left behind the first n bytes.
LEMMA AfterIs ==
  ASSUME NEW d \in Seq(Nat), NEW n \in 0 .. Len(d)
  PROVE  /\ After(d, n) \in Seq(Nat) /\ Len(After(d, n)) = Len(d) - n
         /\ \A i \in 1 .. Len(d) - n : After(d, n)[i] = d[n + i]
<1>1. Len(d) \in Nat /\ n + 1 \in Int /\ n \in Nat /\ \A i \in n + 1 .. Len(d) : d[i] \in Nat
  OBVIOUS
<1> DEFINE rest == SubSeq(d, n + 1, Len(d))
<1>2. /\ rest \in Seq(Nat)
      /\ Len(rest) = IF n + 1 <= Len(d) THEN Len(d) - (n + 1) + 1 ELSE 0
      /\ \A i \in 1 .. Len(d) - (n + 1) + 1 : rest[i] = d[n + 1 + i - 1]
  BY <1>1, SubSeqProperties
<1> HIDE DEF rest
<1>3. Len(rest) = Len(d) - n /\ \A i \in 1 .. Len(d) - n : rest[i] = d[n + i]
  BY <1>1, <1>2
<1> QED
  BY <1>2, <1>3 DEF rest, After

\* And what is between two places.
LEMMA SliceIs ==
  ASSUME NEW d \in Seq(Nat), NEW n \in 0 .. Len(d), NEW m \in Nat
  PROVE  /\ Slice(d, m, n) \in Seq(Nat)
         /\ Len(Slice(d, m, n)) = IF m <= n THEN n - m ELSE 0
         /\ \A i \in 1 .. n - m : Slice(d, m, n)[i] = d[m + i]
<1>1. Len(d) \in Nat /\ m + 1 \in Int /\ n \in Int /\ \A i \in m + 1 .. n : d[i] \in Nat
  OBVIOUS
<1> DEFINE part == SubSeq(d, m + 1, n)
<1>2. /\ part \in Seq(Nat)
      /\ Len(part) = IF m + 1 <= n THEN n - (m + 1) + 1 ELSE 0
      /\ \A i \in 1 .. n - (m + 1) + 1 : part[i] = d[m + 1 + i - 1]
  BY <1>1, SubSeqProperties
<1> HIDE DEF part
<1>3. Len(part) = IF m <= n THEN n - m ELSE 0
  BY <1>1, <1>2
<1>4. \A i \in 1 .. n - m : part[i] = d[m + i]
  BY <1>1, <1>2
<1> QED
  BY <1>2, <1>3, <1>4 DEF part, Slice

\* Parts of what is buffered are where they were when more bytes come.
LEMMA FrontStays ==
  ASSUME NEW d \in Seq(Nat), NEW b \in Seq(Nat), NEW n \in 0 .. Len(d)
  PROVE  /\ d \o b \in Seq(Nat) /\ Len(d \o b) = Len(d) + Len(b)
         /\ After(d, n) \in Seq(Nat) /\ Len(After(d, n)) = Len(d) - n
         /\ After(d \o b, n) = After(d, n) \o b
         /\ \A m \in Nat : /\ Slice(d, m, n) \in Seq(Nat)
                           /\ Len(Slice(d, m, n)) = IF m <= n THEN n - m ELSE 0
                           /\ \A i \in 1 .. n - m : Slice(d, m, n)[i] = d[m + i]
                           /\ Slice(d \o b, m, n) = Slice(d, m, n)
<1> DEFINE all == d \o b
<1>1. /\ all \in Seq(Nat) /\ Len(all) = Len(d) + Len(b) /\ Len(d) \in Nat /\ Len(b) \in Nat
      /\ \A i \in 1 .. Len(d) + Len(b) : all[i] = IF i <= Len(d) THEN d[i] ELSE b[i - Len(d)]
  BY ConcatProperties
<1> HIDE DEF all
<1>2. /\ After(d, n) \in Seq(Nat) /\ Len(After(d, n)) = Len(d) - n
      /\ \A i \in 1 .. Len(d) - n : After(d, n)[i] = d[n + i]
  BY AfterIs
<1>3. /\ After(all, n) \in Seq(Nat) /\ Len(After(all, n)) = Len(d) + Len(b) - n
      /\ \A i \in 1 .. Len(d) + Len(b) - n : After(all, n)[i] = all[n + i]
  <2>1. n \in 0 .. Len(all)
    BY <1>1
  <2>2. /\ After(all, n) \in Seq(Nat) /\ Len(After(all, n)) = Len(all) - n
        /\ \A i \in 1 .. Len(all) - n : After(all, n)[i] = all[n + i]
    BY <1>1, <2>1, AfterIs
  <2> QED
    BY <1>1, <2>2, SMTT(40)
<1> DEFINE rest == After(d, n)
           joined == rest \o b
<1> HIDE DEF rest
<1>4. /\ joined \in Seq(Nat) /\ Len(joined) = Len(rest) + Len(b)
      /\ \A i \in 1 .. Len(rest) + Len(b) : joined[i] =
           IF i <= Len(rest) THEN rest[i] ELSE b[i - Len(rest)]
  BY <1>2, ConcatProperties DEF rest
<1> HIDE DEF joined
<1>5. After(all, n) = joined
  <2>1. ASSUME NEW i \in 1 .. Len(d) + Len(b) - n
        PROVE  After(all, n)[i] = joined[i]
    <3>1. n + i \in 1 .. Len(d) + Len(b)
      BY <1>1
    <3>2. After(all, n)[i] = IF n + i <= Len(d) THEN d[n + i] ELSE b[n + i - Len(d)]
      <4>1. After(all, n)[i] = all[n + i]
        BY <1>3
      <4>2. all[n + i] = IF n + i <= Len(d) THEN d[n + i] ELSE b[n + i - Len(d)]
        BY <1>1, <3>1, SMTT(40)
      <4> QED
        BY <4>1, <4>2
    <3>3. i \in 1 .. Len(rest) + Len(b) /\ Len(rest) = Len(d) - n
      BY <1>1, <1>2 DEF rest
    <3>4. joined[i] = IF i <= Len(d) - n THEN rest[i] ELSE b[i - (Len(d) - n)]
      BY <1>4, <3>3
    <3>5. CASE n + i <= Len(d)
      BY <1>1, <1>2, <3>2, <3>4, <3>5 DEF rest
    <3>6. CASE ~(n + i <= Len(d))
      <4>1. n + i - Len(d) = i - (Len(d) - n)
        BY <1>1
      <4> QED
        BY <1>1, <3>2, <3>4, <3>6, <4>1
    <3> QED
      BY <3>5, <3>6
  <2>2. Len(joined) = Len(d) + Len(b) - n
    BY <1>1, <1>2, <1>4 DEF rest
  <2> QED
    BY <1>3, <1>4, <2>1, <2>2, SeqEqual
<1>51. After(d \o b, n) = After(d, n) \o b
  BY <1>5 DEF all, joined, rest
<1>6. ASSUME NEW m \in Nat
      PROVE  /\ Slice(d, m, n) \in Seq(Nat)
             /\ Len(Slice(d, m, n)) = IF m <= n THEN n - m ELSE 0
             /\ \A i \in 1 .. n - m : Slice(d, m, n)[i] = d[m + i]
             /\ Slice(all, m, n) = Slice(d, m, n)
  <2>1. /\ Slice(d, m, n) \in Seq(Nat) /\ Len(Slice(d, m, n)) = IF m <= n THEN n - m ELSE 0
        /\ \A i \in 1 .. n - m : Slice(d, m, n)[i] = d[m + i]
    BY <1>1, SliceIs
  <2>2. /\ Slice(all, m, n) \in Seq(Nat) /\ Len(Slice(all, m, n)) = IF m <= n THEN n - m ELSE 0
        /\ \A i \in 1 .. n - m : Slice(all, m, n)[i] = all[m + i]
    <3>1. n \in 0 .. Len(all)
      BY <1>1
    <3> QED
      BY <1>1, <3>1, SliceIs
  <2>3. ASSUME NEW i \in 1 .. n - m PROVE Slice(all, m, n)[i] = Slice(d, m, n)[i]
    <3>1. m + i \in 1 .. Len(d) + Len(b) /\ m + i <= Len(d)
      BY <1>1
    <3>2. all[m + i] = d[m + i]
      BY <1>1, <3>1
    <3> QED
      BY <2>1, <2>2, <3>2
  <2>4. \A i \in 1 .. Len(Slice(all, m, n)) : Slice(all, m, n)[i] = Slice(d, m, n)[i]
    BY <2>2, <2>3
  <2>5. Slice(all, m, n) = Slice(d, m, n)
    BY <2>1, <2>2, <2>4, SeqEqual
  <2> QED
    BY <2>1, <2>5
<1> QED
  BY <1>1, <1>2, <1>51, <1>6 DEF all

LEMMA SliceStays ==
  ASSUME NEW d \in Seq(Nat), NEW b \in Seq(Nat), NEW n \in 0 .. Len(d), NEW m \in Nat
  PROVE  Slice(d \o b, m, n) = Slice(d, m, n)
BY FrontStays

\* bytes.Index, where it finds a separator, finds the first one.
LEMMA IndexIsFirst ==
  ASSUME NEW d \in Seq(Nat), NEW sep \in Seq(Nat) \ {<<>>}
  PROVE  LET found == {i \in 0 .. Len(d) - Len(sep) : Slice(d, i, i + Len(sep)) = sep}
         IN  \/ found = {} /\ Index(d, sep) = -1
             \/ Index(d, sep) \in found /\ \A j \in found : Index(d, sep) <= j
<1> DEFINE found == {i \in 0 .. Len(d) - Len(sep) : Slice(d, i, i + Len(sep)) = sep}
<1>1. found \in SUBSET Nat
  OBVIOUS
<1>2. Index(d, sep) = IF found = {} THEN -1 ELSE CHOOSE i \in found : \A j \in found : i <= j
  BY DEF Index
<1> HIDE DEF found
<1>3. found # {} => \E i \in found : \A j \in found : i <= j
  BY <1>1, LeastOf
<1> QED
  BY <1>2, <1>3 DEF found

\* More bytes do not change where the first separator is.
LEMMA IndexStays ==
  ASSUME NEW d \in Seq(Nat), NEW b \in Seq(Nat), NEW sep \in Seq(Nat) \ {<<>>},
         Index(d, sep) >= 0
  PROVE  /\ Index(d, sep) \in Nat /\ Index(d, sep) + Len(sep) <= Len(d)
         /\ Index(d \o b, sep) = Index(d, sep)
<1> DEFINE found(x) == {i \in 0 .. Len(x) - Len(sep) : Slice(x, i, i + Len(sep)) = sep}
           first == Index(d, sep)
<1>0. Len(sep) \in Nat \ {0} /\ Len(d) \in Nat /\ Len(b) \in Nat
  BY EmptySeq
<1>1. first \in found(d) /\ \A j \in found(d) : first <= j
  BY IndexIsFirst
<1>2. first \in Nat /\ first + Len(sep) <= Len(d)
  BY <1>0, <1>1
<1>3. d \o b \in Seq(Nat) /\ Len(d \o b) = Len(d) + Len(b)
  BY ConcatProperties
<1>4. ASSUME NEW i \in Nat, i + Len(sep) <= Len(d)
      PROVE  i \in found(d \o b) <=> i \in found(d)
  <2>1. i + Len(sep) \in 0 .. Len(d)
    BY <1>0, <1>4
  <2>2. Slice(d \o b, i, i + Len(sep)) = Slice(d, i, i + Len(sep))
    <3> DEFINE n == i + Len(sep)
    <3>1. n \in 0 .. Len(d)
      BY <2>1
    <3> HIDE DEF n
    <3>2. Slice(d \o b, i, n) = Slice(d, i, n)
      BY <3>1, SliceStays
    <3> QED
      BY <3>2 DEF n
  <2>3. i \in 0 .. Len(d) - Len(sep) /\ i \in 0 .. Len(d \o b) - Len(sep)
    BY <1>0, <1>3, <1>4
  <2> QED
    BY <2>2, <2>3
<1>5. first \in found(d \o b)
  BY <1>1, <1>2, <1>4
<1>6. \A j \in found(d \o b) : j \in Nat
  BY <1>0, <1>3
<1> DEFINE now == Index(d \o b, sep)
<1>7. now \in found(d \o b) /\ \A j \in found(d \o b) : now <= j
  BY <1>3, <1>5, IndexIsFirst
<1> HIDE DEF found, first, now
<1>8. now \in Nat /\ now <= first
  BY <1>5, <1>6, <1>7
<1>9. now \in found(d)
  BY <1>0, <1>2, <1>4, <1>7, <1>8
<1>10. now = first
  BY <1>1, <1>2, <1>8, <1>9
<1> QED
  BY <1>2, <1>10 DEF first, now

\* Lists of frames, which may be joined in any order.
Frames == Seq(Seq(Nat))

\* Joining is associative; Join is \o under a name the provers need not look into.
Join(a, b) == a \o b

LEMMA JoinBytes ==
  ASSUME NEW a \in Seq(Nat), NEW b \in Seq(Nat), NEW c \in Seq(Nat)
  PROVE  Join(Join(a, b), c) = Join(a, Join(b, c))
BY ConcatAssociative, SMTT(40) DEF Join

LEMMA JoinFrames ==
  ASSUME NEW e \in Frames, NEW o \in Frames, NEW g \in Frames
  PROVE  Join(Join(e, o), g) = Join(e, Join(o, g))
BY ConcatAssociative, SMTT(40) DEF Join, Frames

LEMMA FramesJoin ==
  ASSUME NEW e \in Frames, NEW o \in Frames
  PROVE  e \o o \in Frames /\ e \o <<>> = e /\ <<>> \o e = e
<1> DEFINE F == Seq(Nat)
<1>1. e \in Seq(F) /\ o \in Seq(F)
  BY DEF Frames
<1> HIDE DEF F
<1>2. e \o o \in Seq(F)
  BY <1>1, ConcatProperties
<1>3. e \o <<>> = e /\ <<>> \o e = e
  BY <1>1, ConcatEmptySeq
<1> QED
  BY <1>2, <1>3 DEF F, Frames

LEMMA NoFrame == <<>> \in Frames
BY DEF Frames

LEMMA OneFrame ==
  ASSUME NEW o \in Frames, NEW frame \in Seq(Nat)
  PROVE  Append(o, frame) = o \o <<frame>> /\ <<frame>> \in Frames /\ <<>> \in Frames /\ o \o <<>> = o
<1>1. Append(o, frame) = o \o <<frame>>
  BY AppendIsConcat DEF Frames
<1>2. <<frame>> \in Frames /\ <<>> \in Frames
  BY DEF Frames
<1> QED
  BY <1>1, <1>2, FramesJoin

\* A round of a splitter finds no frame in d,
Stuck(d, f) == \A o : Cut([out |-> o, data |-> d], f) = [out |-> o, data |-> d]

\* or it takes n bytes and makes the frames e of them, whatever comes behind d.
Takes(d, f, e, n) ==
  \A o \in Frames, b \in Seq(Nat) :
    Cut([out |-> o, data |-> d \o b], f) = [out |-> o \o e, data |-> After(d, n) \o b]

LEMMA DelimiterTakes ==
  ASSUME NEW f, f.mode = "delimiter", f.delimiter \in Seq(Nat) \ {<<>>}, NEW d \in Seq(Nat)
  PROVE  Stuck(d, f) \/ \E e \in Frames, n \in 1 .. Len(d) : Takes(d, f, e, n)
<1> DEFINE sep == f.delimiter
           idx == Index(d, sep)
<1>1. CASE idx < 0
  BY <1>1 DEF Stuck, Cut, CutDelimiter
<1>2. CASE ~(idx < 0)
  <2>1. sep \in Seq(Nat) \ {<<>>} /\ Len(sep) \in Nat \ {0} /\ Len(d) \in Nat
    BY EmptySeq
  <2>2. idx \in Nat \cup {-1}
    BY <2>1, IndexIsFirst
  <2>3. idx \in Nat /\ idx + Len(sep) <= Len(d) /\ \A b \in Seq(Nat) : Index(d \o b, sep) = idx
    BY <1>2, <2>1, <2>2, IndexStays
  <2> DEFINE e == IF idx > 0 THEN <<Slice(d, 0, idx)>> ELSE <<>>
             n == idx + Len(sep)
  <2>4. n \in 1 .. Len(d) /\ idx \in 0 .. Len(d)
    BY <2>1, <2>3
  <2>5. Slice(d, 0, idx) \in Seq(Nat)
    BY <2>4, SliceIs
  <2>6. e \in Frames
    BY <2>5 DEF Frames
  <2>7. ASSUME NEW o \in Frames, NEW b \in Seq(Nat)
        PROVE  Cut([out |-> o, data |-> d \o b], f) = [out |-> o \o e, data |-> After(d, n) \o b]
    <3>1. Index(d \o b, sep) = idx
      BY <2>3
    <3> DEFINE i == idx
    <3>2. i \in 0 .. Len(d) /\ n \in 0 .. Len(d) /\ 0 \in Nat
      BY <2>1, <2>4
    <3> HIDE DEF i, n
    <3>3. Slice(d \o b, 0, i) = Slice(d, 0, i) /\ After(d \o b, n) = After(d, n) \o b
      BY <3>2, SliceStays, FrontStays
    <3>4. IF idx > 0 THEN Append(o, Slice(d \o b, 0, idx)) = o \o e ELSE o = o \o e
      BY <2>5, <3>3, OneFrame DEF i
    <3> USE DEF i, n
    <3> HIDE DEF e
    <3>5. Cut([out |-> o, data |-> d \o b], f)
            = [out  |-> IF idx > 0 THEN Append(o, Slice(d \o b, 0, idx)) ELSE o,
               data |-> After(d \o b, idx + Len(sep))]
      BY <1>2, <3>1 DEF Cut, CutDelimiter
    <3> QED
      BY <3>3, <3>4, <3>5
  <2> HIDE DEF e, n
  <2>8. Takes(d, f, e, n)
    BY <2>7 DEF Takes
  <2> QED
    BY <2>4, <2>6, <2>8
<1> QED
  BY <1>1, <1>2

LEMMA FixedLengthTakes ==
  ASSUME NEW f, f.mode = "fixed_length", f.length \in Nat \ {0}, NEW d \in Seq(Nat)
  PROVE  Stuck(d, f) \/ \E e \in Frames, n \in 1 .. Len(d) : Takes(d, f, e, n)
<1> DEFINE n == f.length
           e == <<Slice(d, 0, n)>>
<1>0. n \in Nat \ {0} /\ Len(d) \in Nat
  OBVIOUS
<1>1. CASE Len(d) < n
  BY <1>1 DEF Stuck, Cut, CutFixedLength
<1>2. CASE ~(Len(d) < n)
  <2>1. n \in 1 .. Len(d) /\ n \in 0 .. Len(d) /\ 0 \in Nat
    BY <1>0, <1>2
  <2> HIDE DEF n
  <2>2. Slice(d, 0, n) \in Seq(Nat)
    BY <2>1, SliceIs
  <2>3. e \in Frames
    BY <2>2 DEF Frames
  <2>4. ASSUME NEW o \in Frames, NEW b \in Seq(Nat)
        PROVE  Cut([out |-> o, data |-> d \o b], f) = [out |-> o \o e, data |-> After(d, n) \o b]
    <3>1. /\ Slice(d \o b, 0, n) = Slice(d, 0, n) /\ After(d \o b, n) = After(d, n) \o b
          /\ Len(d \o b) = Len(d) + Len(b) /\ Len(b) \in Nat
      <4>1. Slice(d \o b, 0, n) = Slice(d, 0, n)
        BY <2>1, SliceStays
      <4>2. After(d \o b, n) = After(d, n) \o b
        BY <2>1, FrontStays
      <4> QED
        BY <4>1, <4>2, ConcatProperties
    <3>2. Append(o, Slice(d, 0, n)) = o \o e
      BY <2>2, OneFrame
    <3>3. ~(Len(d \o b) < n)
      BY <1>0, <2>1, <3>1
    <3>4. Cut([out |-> o, data |-> d \o b], f)
            = [out |-> Append(o, Slice(d \o b, 0, n)), data |-> After(d \o b, n)]
      BY <3>3 DEF Cut, CutFixedLength, n
    <3> QED
      BY <3>1, <3>2, <3>4
  <2> HIDE DEF e
  <2>5. Takes(d, f, e, n)
    BY <2>4 DEF Takes
  <2> QED
    BY <2>1, <2>3, <2>5
<1> QED
  BY <1>1, <1>2

\* A length is none for sizes the code does not know, and a number otherwise.
LEMMA LengthIsNumber ==
  ASSUME NEW f, f.size \in Int, NEW field \in Seq(Nat), Len(field) >= f.size
  PROVE  /\ readLengthValue(field, f) \in Nat \cup {-1}
         /\ readLengthValue(field, f) \in Nat => f.size \in Nat \ {0}
<1> DEFINE digit(k) == IF f.endian = "little" THEN field[k + 1] ELSE field[f.size - k]
<1>1. ASSUME NEW k \in Nat, k < f.size PROVE digit(k) \in Nat
  <2>1. k + 1 \in 1 .. Len(field) /\ f.size - k \in 1 .. Len(field)
    BY <1>1
  <2> QED
    BY <2>1, SMTT(40)
<1>2. CASE f.size = 1
  <2>1. readLengthValue(field, f) = digit(0)
    BY <1>2 DEF readLengthValue
  <2>2. digit(0) \in Nat
    BY <1>1, <1>2
  <2> QED
    BY <1>2, <2>1, <2>2
<1>3. CASE f.size = 2
  <2>1. readLengthValue(field, f) = digit(0) + 256 * digit(1)
    BY <1>3 DEF readLengthValue
  <2>2. digit(0) \in Nat /\ digit(1) \in Nat
    BY <1>1, <1>3
  <2> HIDE DEF digit
  <2> QED
    BY <1>3, <2>1, <2>2
<1>4. CASE f.size = 4
  <2>1. readLengthValue(field, f)
          = digit(0) + 256 * (digit(1) + 256 * (digit(2) + 256 * digit(3)))
    BY <1>4 DEF readLengthValue
  <2>2. digit(0) \in Nat /\ digit(1) \in Nat /\ digit(2) \in Nat /\ digit(3) \in Nat
    BY <1>1, <1>4
  <2> HIDE DEF digit
  <2>3. digit(2) + 256 * digit(3) \in Nat
    BY <2>2
  <2>4. digit(1) + 256 * (digit(2) + 256 * digit(3)) \in Nat
    BY <2>2, <2>3, SMTT(40)
  <2> DEFINE more == digit(1) + 256 * (digit(2) + 256 * digit(3))
  <2> HIDE DEF more
  <2>5. digit(0) + 256 * more \in Nat
    <3>1. digit(0) \in Nat /\ more \in Nat
      BY <2>2, <2>4 DEF more
    <3> QED
      BY <3>1
  <2>6. readLengthValue(field, f) \in Nat
    BY <2>1, <2>5 DEF more
  <2> QED
    BY <1>4, <2>6
<1>5. CASE f.size \notin {1, 2, 4}
  <2>1. readLengthValue(field, f) = -1
    BY <1>5 DEF readLengthValue
  <2> QED
    BY <2>1
<1> QED
  BY <1>2, <1>3, <1>4, <1>5

LEMMA LengthFieldTakes ==
  ASSUME NEW f, f.mode = "length_field", f.offset \in Nat, f.size \in Int,
         f.include_header \in BOOLEAN, NEW d \in Seq(Nat)
  PROVE  Stuck(d, f) \/ \E e \in Frames, n \in 1 .. Len(d) : Takes(d, f, e, n)
<1> DEFINE headerLen == f.offset + f.size
           bodyLen == readLengthValue(Slice(d, f.offset, headerLen), f)
           from == IF f.include_header THEN 0 ELSE headerLen
           total == IF f.include_header THEN bodyLen + headerLen ELSE bodyLen
           e == <<Slice(d, from, headerLen + bodyLen)>>
           n == IF total = 0 THEN headerLen ELSE total
<1>0. Len(d) \in Nat /\ headerLen \in Int
  OBVIOUS
<1>1. CASE Len(d) < headerLen \/ bodyLen < 0 \/ Len(d) < headerLen + bodyLen
  <2>1. ASSUME NEW o PROVE Cut([out |-> o, data |-> d], f) = [out |-> o, data |-> d]
    BY <1>1 DEF Cut, CutLengthField
  <2> QED
    BY <2>1 DEF Stuck
<1>2. CASE ~(Len(d) < headerLen \/ bodyLen < 0 \/ Len(d) < headerLen + bodyLen)
  <2>1. f.size > 0 /\ bodyLen \in Nat
    <3>1. CASE f.size > 0
      <4>1. headerLen \in 0 .. Len(d)
        BY <1>0, <1>2, <3>1
      <4> DEFINE h == headerLen
      <4> HIDE DEF h
      <4>2. Slice(d, f.offset, h) \in Seq(Nat)
            /\ Len(Slice(d, f.offset, h)) = IF f.offset <= h THEN h - f.offset ELSE 0
        BY <4>1, SliceIs DEF h
      <4>3. Len(Slice(d, f.offset, h)) >= f.size
        BY <3>1, <4>2 DEF h
      <4>4. bodyLen \in Nat \cup {-1}
        BY <4>2, <4>3, LengthIsNumber DEF h
      <4> HIDE DEF bodyLen
      <4> QED
        BY <1>2, <3>1, <4>4
    <3>2. CASE ~(f.size > 0)
      <4>1. bodyLen = -1
        BY <3>2 DEF readLengthValue
      <4> QED
        BY <1>2, <4>1
    <3> QED
      BY <3>1, <3>2
  <2>2. headerLen \in 1 .. Len(d) /\ headerLen + bodyLen \in 1 .. Len(d)
    <3> HIDE DEF bodyLen
    <3> QED
      BY <1>0, <1>2, <2>1, SMTT(40)
  <2>3. n \in 1 .. Len(d)
    <3> HIDE DEF bodyLen
    <3> QED
      BY <2>1, <2>2
  <2>4. ASSUME NEW k \in 0 .. Len(d), NEW b \in Seq(Nat), NEW m \in Nat
        PROVE  Slice(d \o b, m, k) = Slice(d, m, k) /\ Slice(d, m, k) \in Seq(Nat)
    BY SliceStays, SliceIs
  <2>5. from \in Nat
    BY <2>2
  <2>6. e \in Frames
    <3> DEFINE k == headerLen + bodyLen
    <3>1. k \in 0 .. Len(d)
      BY <2>2
    <3> HIDE DEF k, from
    <3>2. Slice(d, from, k) \in Seq(Nat)
      BY <2>5, <3>1, SliceIs
    <3> QED
      BY <3>2 DEF k, Frames
  <2>7. ASSUME NEW o \in Frames, NEW b \in Seq(Nat)
        PROVE  Cut([out |-> o, data |-> d \o b], f) = [out |-> o \o e, data |-> After(d, n) \o b]
    <3> DEFINE h == headerLen
               k == headerLen + bodyLen
               body == bodyLen
               all == d \o b
    <3>1. h \in 0 .. Len(d) /\ k \in 0 .. Len(d) /\ n \in 0 .. Len(d) /\ k = h + body /\ body \in Nat
      BY <2>1, <2>2, <2>3, SMTT(40)
    <3>2. Len(all) = Len(d) + Len(b) /\ Len(b) \in Nat
      BY ConcatProperties
    <3> HIDE DEF h, k, from, n
    <3>3. Slice(all, f.offset, h) = Slice(d, f.offset, h) /\ Slice(all, from, k) = Slice(d, from, k)
      BY <2>4, <2>5, <3>1
    <3>4. After(all, n) = After(d, n) \o b
      BY <3>1, FrontStays
    <3>5. readLengthValue(Slice(all, f.offset, h), f) = body
      BY <3>3 DEF h
    <3>6. Slice(d, from, k) \in Seq(Nat)
      BY <2>4, <2>5, <3>1
    <3>7. Append(o, Slice(all, from, k)) = o \o <<Slice(d, from, k)>>
      BY <3>3, <3>6, OneFrame
    <3> HIDE DEF body, all
    <3>8. ~(Len(all) < h \/ body < 0 \/ Len(all) < h + body)
      BY <1>0, <3>1, <3>2
    <3>9. Cut([out |-> o, data |-> all], f) = CutLengthField([out |-> o, data |-> all], f)
      BY DEF Cut
    <3>10. CutLengthField([out |-> o, data |-> all], f)
             = [out |-> Append(o, Slice(all, from, k)), data |-> After(all, n)]
      <4>1. n = IF (IF f.include_header THEN body + h ELSE body) = 0 THEN h
                ELSE IF f.include_header THEN body + h ELSE body
        BY DEF n, body, h
      <4>2. from = IF f.include_header THEN 0 ELSE h
        BY DEF from, h
      <4>3. h = f.offset + f.size
        BY DEF h
      <4> QED
        BY <3>1, <3>5, <3>8, <4>1, <4>2, <4>3 DEF CutLengthField
    <3>11. e = <<Slice(d, from, k)>>
      BY DEF from, k
    <3> HIDE DEF e
    <3> QED
      BY <3>4, <3>7, <3>9, <3>10, <3>11 DEF all
  <2> HIDE DEF e, n
  <2>8. Takes(d, f, e, n)
    BY <2>7 DEF Takes
  <2> QED
    BY <2>3, <2>6, <2>8
<1> QED
  BY <1>1, <1>2

LEMMA CutTakes ==
  ASSUME NEW f, CutsFrames(f), NEW d \in Seq(Nat)
  PROVE  Stuck(d, f) \/ \E e \in Frames, n \in 1 .. Len(d) : Takes(d, f, e, n)
BY DelimiterTakes, FixedLengthTakes, LengthFieldTakes DEF CutsFrames

\* What a splitter has made of its data so far.
Split == [out : Frames, data : Seq(Nat)]

LEMMA TakesIs ==
  ASSUME NEW f, NEW d \in Seq(Nat), NEW e \in Frames, NEW n \in 1 .. Len(d),
         Takes(d, f, e, n)
  PROVE  /\ \A o \in Frames :
              Cut([out |-> o, data |-> d], f) = [out |-> o \o e, data |-> After(d, n)]
         /\ After(d, n) \in Seq(Nat) /\ Len(After(d, n)) = Len(d) - n
<1>1. n \in 0 .. Len(d)
  OBVIOUS
<1>2. After(d, n) \in Seq(Nat) /\ Len(After(d, n)) = Len(d) - n
  BY <1>1, AfterIs
<1>3. d \o <<>> = d /\ After(d, n) \o <<>> = After(d, n) /\ <<>> \in Seq(Nat)
  BY <1>2, ConcatEmptySeq, EmptySeq
<1>4. ASSUME NEW o \in Frames
      PROVE  Cut([out |-> o, data |-> d], f) = [out |-> o \o e, data |-> After(d, n)]
  <2>1. Cut([out |-> o, data |-> d \o <<>>], f) = [out |-> o \o e, data |-> After(d, n) \o <<>>]
    BY <1>3 DEF Takes
  <2> QED
    BY <1>3, <2>1
<1> QED
  BY <1>2, <1>4

\* What was cut before stays in front of what a round cuts.
LEMMA CutAppends ==
  ASSUME NEW f, CutsFrames(f), NEW s \in Split, NEW e \in Frames
  PROVE  /\ Cut(s, f) \in Split
         /\ Cut(s, f) = s \/ Len(Cut(s, f).data) < Len(s.data)
         /\ Cut([out |-> e \o s.out, data |-> s.data], f)
              = [out |-> e \o Cut(s, f).out, data |-> Cut(s, f).data]
<1> DEFINE o == s.out
           d == s.data
<1>1. o \in Frames /\ d \in Seq(Nat) /\ s = [out |-> o, data |-> d] /\ e \o o \in Frames
  BY FramesJoin DEF Split
<1> HIDE DEF o, d
<1>2. CASE Stuck(d, f)
  <2>1. Cut(s, f) = s
    BY <1>1, <1>2 DEF Stuck
  <2>2. Cut([out |-> e \o o, data |-> d], f) = [out |-> e \o o, data |-> d]
    BY <1>2 DEF Stuck
  <2> QED
    BY <1>1, <2>1, <2>2 DEF o, d
<1>3. CASE ~Stuck(d, f)
  <2>1. PICK g \in Frames, n \in 1 .. Len(d) : Takes(d, f, g, n)
    BY <1>1, <1>3, CutTakes
  <2>2. /\ Cut([out |-> o, data |-> d], f) = [out |-> o \o g, data |-> After(d, n)]
        /\ Cut([out |-> e \o o, data |-> d], f) = [out |-> (e \o o) \o g, data |-> After(d, n)]
        /\ After(d, n) \in Seq(Nat) /\ Len(After(d, n)) = Len(d) - n
    <3>1. /\ \A x \in Frames :
               Cut([out |-> x, data |-> d], f) = [out |-> x \o g, data |-> After(d, n)]
          /\ After(d, n) \in Seq(Nat) /\ Len(After(d, n)) = Len(d) - n
      BY <1>1, <2>1, TakesIs
    <3> QED
      BY <1>1, <3>1
  <2>3. (e \o o) \o g = e \o (o \o g) /\ o \o g \in Frames
    <3>1. o \in Frames
      BY <1>1
    <3>2. Join(Join(e, o), g) = Join(e, Join(o, g))
      BY <3>1, JoinFrames
    <3> QED
      BY <3>1, <3>2, FramesJoin DEF Join
  <2>4. Len(After(d, n)) < Len(d)
    BY <1>1, <2>2
  <2>5. Cut(s, f) = [out |-> o \o g, data |-> After(d, n)]
    BY <1>1, <2>2
  <2>6. Cut(s, f) \in Split /\ Len(Cut(s, f).data) < Len(d)
    BY <2>2, <2>3, <2>4, <2>5 DEF Split
  <2>7. Cut([out |-> e \o o, data |-> d], f) = [out |-> e \o Cut(s, f).out, data |-> Cut(s, f).data]
    BY <2>2, <2>3, <2>5
  <2> QED
    BY <2>6, <2>7 DEF o, d
<1> QED
  BY <1>2, <1>3

LEMMA StuckIs ==
  ASSUME NEW f, CutsFrames(f), NEW s \in Split
  PROVE  Stuck(s.data, f) <=> Cut(s, f) = s
<1> DEFINE o == s.out
           d == s.data
<1>1. o \in Frames /\ d \in Seq(Nat) /\ s = [out |-> o, data |-> d]
  BY DEF Split
<1> HIDE DEF o, d
<1>2. ASSUME Stuck(d, f) PROVE Cut(s, f) = s
  BY <1>1, <1>2 DEF Stuck
<1>3. ASSUME ~Stuck(d, f) PROVE Cut(s, f) # s
  <2>1. PICK g \in Frames, n \in 1 .. Len(d) : Takes(d, f, g, n)
    BY <1>1, <1>3, CutTakes
  <2>2. /\ Cut([out |-> o, data |-> d], f) = [out |-> o \o g, data |-> After(d, n)]
        /\ Len(After(d, n)) = Len(d) - n /\ n \in Nat /\ n > 0 /\ Len(d) \in Nat
    <3>1. n \in Nat /\ n > 0 /\ Len(d) \in Nat
      BY <1>1
    <3>2. /\ \A x \in Frames :
               Cut([out |-> x, data |-> d], f) = [out |-> x \o g, data |-> After(d, n)]
          /\ After(d, n) \in Seq(Nat) /\ Len(After(d, n)) = Len(d) - n
      BY <1>1, <2>1, TakesIs
    <3> QED
      BY <1>1, <3>1, <3>2
  <2>3. After(d, n) # d
    BY <1>1, <2>2
  <2> QED
    BY <1>1, <2>2, <2>3
<1> QED
  BY <1>2, <1>3 DEF d

\* Every round takes a byte, until there is no frame any more;
LEMMA RoundsTake ==
  ASSUME NEW f, CutsFrames(f), NEW d \in Seq(Nat), NEW k \in 0 .. Len(d)
  PROVE  /\ Rounds(d, f)[k] \in Split
         /\ Stuck(Rounds(d, f)[k].data, f) \/ Len(Rounds(d, f)[k].data) <= Len(d) - k
<1> DEFINE R == Rounds(d, f)
           Good(i) == R[i] \in Split /\ (Stuck(R[i].data, f) \/ Len(R[i].data) <= Len(d) - i)
           T == {i \in Nat : i <= Len(d) => Good(i)}
<1>0. Len(d) \in Nat
  OBVIOUS
<1>1. R[0] = [out |-> <<>>, data |-> d] /\ \A i \in 1 .. Len(d) : R[i] = Cut(R[i - 1], f)
  BY RoundsAre
<1> HIDE DEF R
<1>2. 0 \in T
  <2>1. R[0] \in Split /\ R[0].data = d
    BY <1>1, NoFrame DEF Split
  <2> QED
    BY <1>0, <2>1
<1>3. ASSUME NEW i \in T PROVE i + 1 \in T
  <2>1. SUFFICES ASSUME i + 1 <= Len(d) PROVE Good(i + 1)
    OBVIOUS
  <2>2. i \in Nat /\ Good(i)
    BY <1>0, <2>1
  <2>3. R[i + 1] = Cut(R[i], f)
    BY <1>0, <1>1, <2>1, <2>2
  <2>4. CASE Stuck(R[i].data, f)
    <3>1. Cut(R[i], f) = R[i]
      BY <2>2, <2>4, StuckIs
    <3> QED
      BY <2>2, <2>3, <2>4, <3>1
  <2>5. CASE ~Stuck(R[i].data, f)
    <3>1. Cut(R[i], f) # R[i]
      BY <2>2, <2>5, StuckIs
    <3>2. Cut(R[i], f) \in Split /\ Len(Cut(R[i], f).data) < Len(R[i].data)
      BY <2>2, <3>1, CutAppends, NoFrame
    <3>3. R[i + 1] \in Split /\ Len(R[i + 1].data) < Len(R[i].data)
      BY <2>3, <3>2
    <3>4. R[i + 1].data \in Seq(Nat) /\ R[i].data \in Seq(Nat)
      BY <2>2, <3>3 DEF Split
    <3>5. Len(R[i + 1].data) \in Nat /\ Len(R[i].data) \in Nat
      BY <3>4
    <3>6. Len(R[i + 1].data) <= Len(d) - (i + 1)
      BY <1>0, <2>2, <2>5, <3>3, <3>5
    <3> QED
      BY <3>3, <3>6
  <2> QED
    BY <2>4, <2>5
<1>4. T \in SUBSET Nat
  OBVIOUS
<1> HIDE DEF T
<1>5. T = Nat
  BY <1>2, <1>3, <1>4, NextNumbers
<1>6. k \in T
  BY <1>0, <1>5
<1> USE DEF T
<1>7. Good(k)
  BY <1>0, <1>6
<1> QED
  BY <1>7 DEF R

\* then the rounds change nothing.
LEMMA RoundsStay ==
  ASSUME NEW f, CutsFrames(f), NEW d \in Seq(Nat), NEW j \in 0 .. Len(d),
         Stuck(Rounds(d, f)[j].data, f)
  PROVE  Rounds(d, f)[Len(d)] = Rounds(d, f)[j]
<1> DEFINE R == Rounds(d, f)
           T == {i \in Nat : j + i <= Len(d) => R[j + i] = R[j]}
<1>0. Len(d) \in Nat /\ j \in Nat
  OBVIOUS
<1>1. \A i \in 1 .. Len(d) : R[i] = Cut(R[i - 1], f)
  BY RoundsAre
<1>2. Cut(R[j], f) = R[j]
  <2>1. R[j] \in Split
    BY RoundsTake
  <2> QED
    BY <2>1, StuckIs
<1> HIDE DEF R
<1>3. 0 \in T
  BY <1>0
<1>4. ASSUME NEW i \in T PROVE i + 1 \in T
  <2>1. SUFFICES ASSUME j + (i + 1) <= Len(d) PROVE R[j + (i + 1)] = R[j]
    OBVIOUS
  <2>2. j + i + 1 \in 1 .. Len(d) /\ j + i + 1 - 1 = j + i /\ R[j + i] = R[j] /\ j + (i + 1) = j + i + 1
    BY <1>0, <2>1
  <2>3. R[j + i + 1] = Cut(R[j + i], f)
    BY <1>1, <2>2
  <2> QED
    BY <1>2, <2>2, <2>3
<1>5. T \in SUBSET Nat
  OBVIOUS
<1> HIDE DEF T
<1>6. T = Nat
  BY <1>3, <1>4, <1>5, NextNumbers
<1>7. Len(d) - j \in T
  BY <1>0, <1>6
<1>8. j + (Len(d) - j) = Len(d)
  BY <1>0
<1> QED
  BY <1>0, <1>7, <1>8 DEF T, R

\* The rounds after one that takes n bytes are those on what is behind them.
LEMMA RoundsBehind ==
  ASSUME NEW f, CutsFrames(f), NEW d \in Seq(Nat), NEW e \in Frames, NEW n \in 1 .. Len(d),
         Takes(d, f, e, n), NEW k \in 0 .. Len(After(d, n))
  PROVE  Rounds(d, f)[k + 1] = [out  |-> e \o Rounds(After(d, n), f)[k].out,
                                data |-> Rounds(After(d, n), f)[k].data]
<1> DEFINE rest == After(d, n)
           R == Rounds(d, f)
           Q == Rounds(rest, f)
           T == {i \in Nat : i <= Len(rest) => R[i + 1] = [out |-> e \o Q[i].out, data |-> Q[i].data]}
<1> DEFINE none == <<>>
<1>00. none \in Frames
  BY NoFrame
<1> HIDE DEF none
<1>01. /\ Cut([out |-> none, data |-> d], f) = [out |-> none \o e, data |-> rest]
       /\ rest \in Seq(Nat) /\ Len(rest) = Len(d) - n
  <2>1. /\ \A x \in Frames : Cut([out |-> x, data |-> d], f) = [out |-> x \o e, data |-> rest]
        /\ rest \in Seq(Nat) /\ Len(rest) = Len(d) - n
    BY TakesIs
  <2> QED
    BY <1>00, <2>1
<1>0. Len(d) \in Nat /\ rest \in Seq(Nat) /\ Len(rest) = Len(d) - n /\ n \in Nat /\ n > 0
  BY <1>01
<1>1. R[0] = [out |-> <<>>, data |-> d] /\ \A i \in 1 .. Len(d) : R[i] = Cut(R[i - 1], f)
  BY RoundsAre
<1>2. Q[0] = [out |-> <<>>, data |-> rest] /\ \A i \in 1 .. Len(rest) : Q[i] = Cut(Q[i - 1], f)
  BY <1>0, RoundsAre
<1>3. \A i \in 0 .. Len(rest) : Q[i] \in Split
  BY <1>0, RoundsTake
<1>4. Cut([out |-> <<>>, data |-> d], f) = [out |-> e, data |-> rest] /\ e \o <<>> = e
  BY <1>01, FramesJoin DEF none
<1> HIDE DEF R, Q, rest
<1>5. 0 \in T
  <2>1. R[1] = Cut(R[0], f)
    <3>1. 1 \in 1 .. Len(d) /\ 1 - 1 = 0
      BY <1>0
    <3> QED
      BY <1>1, <3>1
  <2>2. R[1] = [out |-> e, data |-> rest]
    BY <1>1, <1>4, <2>1
  <2>3. R[1] = [out |-> e \o Q[0].out, data |-> Q[0].data]
    BY <1>2, <1>4, <2>2
  <2> QED
    BY <1>0, <2>3
<1>6. ASSUME NEW i \in T PROVE i + 1 \in T
  <2>1. SUFFICES ASSUME i + 1 <= Len(rest)
                 PROVE  R[i + 1 + 1] = [out |-> e \o Q[i + 1].out, data |-> Q[i + 1].data]
    OBVIOUS
  <2>2. i \in Nat /\ R[i + 1] = [out |-> e \o Q[i].out, data |-> Q[i].data]
    BY <1>0, <2>1
  <2>3. Q[i + 1] = Cut(Q[i], f) /\ Q[i] \in Split
    <3>1. i \in 0 .. Len(rest) /\ i + 1 \in 1 .. Len(rest) /\ i + 1 - 1 = i
      BY <1>0, <2>1, <2>2
    <3> QED
      BY <1>2, <1>3, <3>1
  <2>4. R[i + 1 + 1] = Cut(R[i + 1], f)
    <3>1. i + 1 + 1 \in 1 .. Len(d) /\ i + 1 + 1 - 1 = i + 1
      BY <1>0, <2>1, <2>2
    <3> QED
      BY <1>1, <3>1
  <2> QED
    BY <2>2, <2>3, <2>4, CutAppends
<1>7. T \in SUBSET Nat
  OBVIOUS
<1> HIDE DEF T
<1>8. T = Nat
  BY <1>5, <1>6, <1>7, NextNumbers
<1>9. k \in Nat /\ k <= Len(rest) /\ k \in T
  BY <1>0, <1>8 DEF rest
<1> QED
  BY <1>9 DEF T, R, Q, rest

\* splitStream goes on with what is behind the first frame, if there is one.
LEMMA SplitGoesOn ==
  ASSUME NEW f, CutsFrames(f), NEW d \in Seq(Nat)
  PROVE  /\ Stuck(d, f) => splitStream(d, f) = [out |-> <<>>, data |-> d]
         /\ \A e \in Frames, n \in 1 .. Len(d) : Takes(d, f, e, n) =>
              LET rest == splitStream(After(d, n), f)
              IN  splitStream(d, f) = [out |-> e \o rest.out, data |-> rest.data]
<1>0. Len(d) \in Nat
  OBVIOUS
<1>1. ASSUME NEW x \in Seq(Nat) PROVE splitStream(x, f) = Rounds(x, f)[Len(x)]
  <2>1. ~Unframed(f)
    BY DEF CutsFrames, Unframed
  <2> QED
    BY <2>1 DEF splitStream
<1>2. ASSUME Stuck(d, f) PROVE splitStream(d, f) = [out |-> <<>>, data |-> d]
  <2>1. Rounds(d, f)[0] = [out |-> <<>>, data |-> d]
    BY RoundsAre
  <2>2. 0 \in 0 .. Len(d) /\ Stuck(Rounds(d, f)[0].data, f)
    BY <1>0, <1>2, <2>1
  <2>3. Rounds(d, f)[Len(d)] = Rounds(d, f)[0]
    BY <2>2, RoundsStay
  <2> QED
    BY <1>1, <2>1, <2>3
<1>3. ASSUME NEW e \in Frames, NEW n \in 1 .. Len(d), Takes(d, f, e, n)
      PROVE  LET rest == splitStream(After(d, n), f)
             IN  splitStream(d, f) = [out |-> e \o rest.out, data |-> rest.data]
  <2> DEFINE behind == After(d, n)
             m == Len(behind)
             last == Rounds(behind, f)[m]
  <2>1. behind \in Seq(Nat) /\ Len(behind) = Len(d) - n
    BY <1>3, TakesIs
  <2>2. m \in 0 .. m /\ m + 1 \in 0 .. Len(d)
    BY <1>0, <2>1
  <2>3. last \in Split /\ (Stuck(last.data, f) \/ Len(last.data) <= m - m)
    BY <2>1, <2>2, RoundsTake
  <2>4. Rounds(d, f)[m + 1] = [out |-> e \o last.out, data |-> last.data]
    BY <1>3, <2>2, RoundsBehind
  <2> HIDE DEF last, m, behind
  <2>5. Stuck(last.data, f)
    <3>1. CASE Len(last.data) <= m - m
      <4>1. last.data \in Seq(Nat) /\ Len(last.data) <= 0
        BY <2>2, <2>3, <3>1 DEF Split
      <4>2. ~\E i \in 1 .. Len(last.data) : TRUE
        BY <4>1
      <4> QED
        BY <4>1, <4>2, CutTakes
    <3> QED
      BY <2>3, <3>1
  <2>6. Stuck(Rounds(d, f)[m + 1].data, f)
    BY <2>4, <2>5
  <2>7. Rounds(d, f)[Len(d)] = Rounds(d, f)[m + 1]
    BY <2>2, <2>6, RoundsStay
  <2>8. splitStream(d, f) = Rounds(d, f)[Len(d)] /\ splitStream(behind, f) = last
    BY <1>1, <2>1 DEF last, m
  <2> QED
    BY <2>4, <2>7, <2>8 DEF behind
<1> QED
  BY <1>2, <1>3

\* The bytes that are kept wait for more: to split all at once is to split what comes
\* later with them in front.
LEMMA SplitLater ==
  ASSUME NEW f, CutsFrames(f), NEW a \in Seq(Nat), NEW b \in Seq(Nat)
  PROVE  LET first == splitStream(a, f)
             then == splitStream(first.data \o b, f)
         IN  /\ first \in Split /\ Stuck(first.data, f)
             /\ splitStream(a \o b, f) = [out |-> first.out \o then.out, data |-> then.data]
             /\ then \in Split
<1> DEFINE S(x) == splitStream(x, f)
           Then(x) == S(S(x).data \o b)
           Good(x) == /\ S(x) \in Split /\ Stuck(S(x).data, f)
                      /\ S(x \o b) = [out |-> S(x).out \o Then(x).out, data |-> Then(x).data]
           T == {i \in Nat : \A x \in Seq(Nat) : Len(x) = i => S(x) \in Split /\ Stuck(S(x).data, f)}
           U == {i \in Nat : \A x \in Seq(Nat) : Len(x) = i => Good(x)}
<1>1. ASSUME NEW x \in Seq(Nat), Stuck(x, f)
      PROVE  S(x) = [out |-> <<>>, data |-> x] /\ S(x) \in Split /\ Stuck(S(x).data, f)
  <2>1. S(x) = [out |-> <<>>, data |-> x]
    BY <1>1, SplitGoesOn
  <2> QED
    BY <1>1, <2>1, NoFrame DEF Split
<1>2. ASSUME NEW i \in Nat, \A k \in Nat : k < i => k \in T PROVE i \in T
  <2>1. SUFFICES ASSUME NEW x \in Seq(Nat), Len(x) = i, ~Stuck(x, f)
                 PROVE  S(x) \in Split /\ Stuck(S(x).data, f)
    BY <1>1
  <2>2. PICK e \in Frames, n \in 1 .. Len(x) : Takes(x, f, e, n)
    BY <2>1, CutTakes
  <2> DEFINE rest == After(x, n)
  <2>30. rest \in Seq(Nat) /\ Len(rest) = Len(x) - n
    BY <2>2, TakesIs
  <2>31. n \in Nat /\ n > 0 /\ Len(x) \in Nat
    BY <2>2
  <2>3. rest \in Seq(Nat) /\ Len(rest) = Len(x) - n /\ n \in Nat /\ n > 0 /\ Len(x) \in Nat
    BY <2>30, <2>31
  <2>4. S(x) = [out |-> e \o S(rest).out, data |-> S(rest).data]
    BY <2>2, SplitGoesOn
  <2> HIDE DEF rest
  <2>5. Len(rest) < i /\ Len(rest) \in Nat
    BY <2>1, <2>2, <2>3
  <2>6. S(rest) \in Split /\ Stuck(S(rest).data, f)
    BY <1>2, <2>3, <2>5
  <2> HIDE DEF S
  <2>7. e \o S(rest).out \in Frames
    BY <2>2, <2>6, FramesJoin DEF Split
  <2> QED
    BY <2>4, <2>6, <2>7 DEF Split
<1>3. T = Nat
  <2>1. T \in SUBSET Nat
    OBVIOUS
  <2> HIDE DEF T
  <2> QED
    BY <1>2, <2>1, AllNumbers
<1>4. ASSUME NEW x \in Seq(Nat) PROVE S(x) \in Split /\ Stuck(S(x).data, f)
  <2>1. Len(x) \in T
    BY <1>3
  <2> QED
    BY <2>1
<1>5. ASSUME NEW i \in Nat, \A k \in Nat : k < i => k \in U PROVE i \in U
  <2>1. SUFFICES ASSUME NEW x \in Seq(Nat), Len(x) = i
                 PROVE  S(x \o b) = [out |-> S(x).out \o Then(x).out, data |-> Then(x).data]
    BY <1>4
  <2>2. S(x) \in Split /\ x \o b \in Seq(Nat) /\ S(x).data \o b \in Seq(Nat)
    BY <1>4, ConcatProperties DEF Split
  <2>3. Then(x) \in Split
    BY <1>4, <2>2
  <2>4. CASE Stuck(x, f)
    <3>1. S(x) = [out |-> <<>>, data |-> x]
      BY <1>1, <2>4
    <3> HIDE DEF S
    <3>2. Then(x) = S(x \o b) /\ S(x).out = <<>>
      BY <3>1
    <3>3. <<>> \o Then(x).out = Then(x).out /\ Then(x) = [out |-> Then(x).out, data |-> Then(x).data]
      BY <2>3, FramesJoin DEF Split
    <3> QED
      BY <3>2, <3>3
  <2>5. CASE ~Stuck(x, f)
    <3>1. PICK e \in Frames, n \in 1 .. Len(x) : Takes(x, f, e, n)
      BY <2>5, CutTakes
    <3> DEFINE rest == After(x, n)
    <3>20. rest \in Seq(Nat) /\ Len(rest) = Len(x) - n
      BY <3>1, TakesIs
    <3>21. n \in Nat /\ n > 0 /\ Len(x) \in Nat
      BY <3>1
    <3>2. rest \in Seq(Nat) /\ Len(rest) = Len(x) - n /\ n \in Nat /\ n > 0 /\ Len(x) \in Nat
      BY <3>20, <3>21
    <3>3. S(x) = [out |-> e \o S(rest).out, data |-> S(rest).data]
      BY <3>1, SplitGoesOn
    <3>4. Len(rest) < i /\ Len(rest) \in Nat
      BY <2>1, <3>1, <3>2
    <3>5. Good(rest)
      <4> HIDE DEF Good
      <4> QED
        BY <1>5, <3>2, <3>4
    <3>6. Takes(x \o b, f, e, n) /\ n \in 1 .. Len(x \o b) /\ After(x \o b, n) = rest \o b
      <4>1. After(x \o b, n) = rest \o b /\ Len(x \o b) = Len(x) + Len(b) /\ Len(b) \in Nat
        <5>1. n \in 0 .. Len(x)
          BY <3>2
        <5>2. After(x \o b, n) = rest \o b
          BY <5>1, FrontStays
        <5> QED
          BY <5>2, ConcatProperties
      <4>2. ASSUME NEW o \in Frames, NEW c \in Seq(Nat)
            PROVE  Cut([out |-> o, data |-> (x \o b) \o c], f)
                     = [out |-> o \o e, data |-> After(x \o b, n) \o c]
        <5>1. (x \o b) \o c = x \o (b \o c) /\ (rest \o b) \o c = rest \o (b \o c) /\ b \o c \in Seq(Nat)
          <6>1. b \o c \in Seq(Nat)
            BY ConcatProperties
          <6>2. Join(Join(x, b), c) = Join(x, Join(b, c))
            BY JoinBytes
          <6> HIDE DEF rest
          <6>3. Join(Join(rest, b), c) = Join(rest, Join(b, c))
            BY <3>2, JoinBytes
          <6> QED
            BY <6>1, <6>2, <6>3 DEF Join
        <5>2. Cut([out |-> o, data |-> x \o (b \o c)], f) = [out |-> o \o e, data |-> rest \o (b \o c)]
          BY <3>1, <5>1 DEF Takes
        <5> QED
          BY <4>1, <5>1, <5>2
      <4>3. n \in 1 .. Len(x \o b)
        <5> HIDE DEF rest
        <5> QED
          BY <3>1, <3>21, <4>1
      <4>4. Takes(x \o b, f, e, n)
        <5> HIDE DEF rest
        <5> DEFINE all == x \o b
        <5>1. \A o \in Frames, c \in Seq(Nat) :
                Cut([out |-> o, data |-> all \o c], f) = [out |-> o \o e, data |-> After(all, n) \o c]
          BY <4>2
        <5> HIDE DEF all
        <5>2. Takes(all, f, e, n)
          BY <5>1 DEF Takes
        <5> QED
          BY <5>2 DEF all
      <4> QED
        BY <4>1, <4>3, <4>4
    <3>7. S(x \o b) = [out |-> e \o S(rest \o b).out, data |-> S(rest \o b).data]
      <4> DEFINE all == x \o b
      <4>1. all \in Seq(Nat) /\ e \in Frames /\ n \in 1 .. Len(all) /\ Takes(all, f, e, n)
        BY <2>2, <3>1, <3>6
      <4> HIDE DEF all
      <4>2. S(all) = [out |-> e \o S(After(all, n)).out, data |-> S(After(all, n)).data]
        BY <4>1, SplitGoesOn
      <4> QED
        BY <3>6, <4>2 DEF all
    <3> DEFINE later == S(S(rest).data \o b)
    <3>8. later \in Split
      <4>1. S(rest).data \o b \in Seq(Nat)
        BY <1>4, <3>2, ConcatProperties DEF Split
      <4> QED
        BY <1>4, <4>1
    <3>9. Then(x) = later
      <4> HIDE DEF S
      <4> QED
        BY <3>3
    <3>10. S(rest \o b) = [out |-> S(rest).out \o later.out, data |-> later.data]
      BY <3>5
    <3>11. S(rest).out \in Frames /\ later.out \in Frames
      BY <3>5, <3>8 DEF Split
    <3> HIDE DEF S, later
    <3> DEFINE front == S(rest).out
               back == later.out
    <3> HIDE DEF front, back
    <3>12. e \o (front \o back) = (e \o front) \o back
      <4>1. e \in Frames /\ front \in Frames /\ back \in Frames
        BY <3>1, <3>11 DEF front, back
      <4>2. Join(e, Join(front, back)) = Join(Join(e, front), back)
        BY <4>1, JoinFrames
      <4> QED
        BY <4>2 DEF Join
    <3> QED
      <4>1. S(x \o b) = [out |-> e \o (front \o back), data |-> later.data]
        BY <3>7, <3>10 DEF front, back
      <4>2. S(x).out = e \o front
        BY <3>3, SMTT(40) DEF front
      <4> QED
        BY <3>9, <3>12, <4>1, <4>2 DEF back
  <2> QED
    BY <2>4, <2>5
<1>6. U = Nat
  <2>1. U \in SUBSET Nat
    OBVIOUS
  <2> HIDE DEF U
  <2> QED
    BY <1>5, <2>1, AllNumbers
<1>7. Good(a)
  <2>1. Len(a) \in Nat
    OBVIOUS
  <2>2. Len(a) \in U
    <3> HIDE DEF U
    <3> QED
      BY <1>6, <2>1
  <2> HIDE DEF Good
  <2> QED
    BY <2>2
<1>8. Then(a) \in Split
  <2>1. S(a).data \o b \in Seq(Nat)
    BY <1>4, ConcatProperties DEF Split
  <2> QED
    BY <1>4, <2>1
<1> QED
  BY <1>7, <1>8
-----------------------------------------------------------------------------
\* Chunks do not matter: the frames and the remaining bytes are those of all bytes
\* taken at once.
StreamTypes ==
  /\ rule \in Rules
  /\ wire \in [Clients -> Seq(Nat)]
  /\ msgCh \in Frames
  /\ arrived \in Seq(Nat)
  /\ buffer \in Seq(Nat)
  /\ frames \in Frames

StreamInv == StreamTypes /\ ChunksDoNotMatter

LEMMA NoBytes ==
  ASSUME NEW f, CutsFrames(f)
  PROVE  splitStream(<<>>, f) = [out |-> <<>>, data |-> <<>>]
<1> DEFINE d == <<>>
<1>1. d \in Seq(Nat) /\ Len(d) = 0
  OBVIOUS
<1>2. ~Unframed(f)
  BY DEF CutsFrames, Unframed
<1>3. Rounds(d, f)[0] = [out |-> <<>>, data |-> d]
  <2> HIDE DEF d
  <2> QED
    BY <1>1, RoundsAre
<1> QED
  BY <1>1, <1>2, <1>3 DEF splitStream

\* What a client puts on the wire is bytes.
LEMMA EncodeIsBytes ==
  ASSUME rule \in Rules, NEW m \in Payloads[rule]
  PROVE  m \in Seq(Nat) /\ Encode(m) \in Seq(Nat)
<1>1. CutsFrames(rule) /\ m \in Seq(Nat)
  BY RulesAssumption
<1>2. CASE rule.mode = "delimiter"
  <2>1. Encode(m) = m \o rule.delimiter /\ rule.delimiter \in Seq(Nat)
    BY <1>1, <1>2 DEF Encode, CutsFrames
  <2> QED
    BY <1>1, <2>1, ConcatProperties
<1>3. CASE rule.mode = "fixed_length"
  BY <1>1, <1>3 DEF Encode
<1>4. CASE rule.mode = "length_field"
  <2>1. Encode(m) = Header(m) \o m /\ rule.offset + rule.size \in Int
    BY <1>1, <1>4 DEF Encode, CutsFrames
  <2>2. Header(m) \in Seq(Nat)
    <3> DEFINE size == rule.offset + rule.size
    <3>1. /\ DOMAIN Header(m) = 1 .. size
          /\ \A i \in 1 .. size : Header(m)[i] \in Nat
          /\ Header(m) = [i \in 1 .. size |-> Header(m)[i]]
      BY <1>1, LenProperties DEF Header
    <3>2. CASE size \in Nat
      BY <3>1, <3>2
    <3>3. CASE size \notin Nat
      <4>1. 1 .. size = 1 .. 0 /\ 0 \in Nat
        BY <2>1, <3>3
      <4> DEFINE h == Header(m)
      <4> HIDE DEF size
      <4>2. h \in [1 .. 0 -> Nat]
        BY <3>1, <4>1
      <4> HIDE DEF h
      <4>3. h \in Seq(Nat)
        BY <4>1, <4>2
      <4> QED
        BY <4>3 DEF h
    <3> QED
      BY <3>2, <3>3
  <2> QED
    BY <1>1, <2>1, <2>2, ConcatProperties
<1> QED
  BY <1>1, <1>2, <1>3, <1>4 DEF CutsFrames

LEMMA InitStream == StreamInit => StreamInv
<1> SUFFICES ASSUME StreamInit PROVE StreamInv
  OBVIOUS
<1>1. StreamTypes
  BY DEF StreamInit, StreamTypes, Frames
<1>2. ChunksDoNotMatter
  BY NoBytes, RulesAssumption DEF StreamInit, ChunksDoNotMatter
<1> QED
  BY <1>1, <1>2 DEF StreamInv

LEMMA NextStream ==
  ASSUME StreamInv, [StreamNext]_streamVars
  PROVE  StreamInv'
<1> USE DEF StreamInv
<1>1. CASE UNCHANGED streamVars
  BY <1>1 DEF streamVars, StreamTypes, ChunksDoNotMatter
<1>2. ASSUME NEW c \in Clients, NEW m \in Payloads[rule], Send(c, m)
      PROVE  StreamInv'
  <2>1. wire'[c] \in Seq(Nat) /\ wire' = [wire EXCEPT ![c] = wire'[c]]
    <3>1. wire' = [wire EXCEPT ![c] = wire[c] \o Encode(m)] /\ wire[c] \in Seq(Nat)
      BY <1>2 DEF Send, StreamTypes
    <3>2. wire[c] \o Encode(m) \in Seq(Nat)
      BY <3>1, EncodeIsBytes, ConcatProperties DEF StreamTypes
    <3> QED
      BY <3>1, <3>2 DEF StreamTypes
  <2> QED
    BY <1>2, <2>1 DEF Send, StreamTypes, ChunksDoNotMatter
<1>3. ASSUME NEW c \in Clients, NEW n \in 1 .. MaxChunk, handleConn(c, n)
      PROVE  StreamInv'
  <2>1. wire[c] \in Seq(Nat) /\ n \in 0 .. Len(wire[c]) /\ 0 \in Nat
    BY <1>3, BoundsAssumption DEF handleConn, StreamTypes
  <2>2. After(wire[c], n) \in Seq(Nat) /\ Slice(wire[c], 0, n) \in Seq(Nat)
    BY <2>1, AfterIs, SliceIs
  <2>3. wire' \in [Clients -> Seq(Nat)]
    BY <1>3, <2>2 DEF handleConn, StreamTypes
  <2>4. msgCh' \in Frames
    <3>1. Append(msgCh, Slice(wire[c], 0, n)) \in Frames
      BY <2>2, AppendProperties DEF StreamTypes, Frames
    <3> QED
      BY <1>3, <3>1 DEF handleConn, StreamTypes
  <2> QED
    BY <1>3, <2>3, <2>4 DEF handleConn, StreamTypes, ChunksDoNotMatter
<1>4. CASE Read
  <2> DEFINE b == Head(msgCh)
             first == splitStream(arrived, rule)
             next == splitStream(buffer \o b, rule)
  <2>1. b \in Seq(Nat) /\ msgCh' \in Frames
    <3>1. msgCh # <<>> /\ msgCh' = Tail(msgCh) /\ msgCh \in Seq(Seq(Nat))
      BY <1>4 DEF Read, StreamTypes, Frames
    <3> QED
      BY <3>1, HeadTailProperties DEF Frames
  <2>2. CutsFrames(rule) /\ arrived \in Seq(Nat) /\ rule' = rule
    BY <1>4, RulesAssumption DEF Read, StreamTypes
  <2> HIDE DEF b
  <2>3. /\ first \in Split /\ next \in Split
        /\ splitStream(arrived \o b, rule) = [out |-> first.out \o next.out, data |-> next.data]
    <3>1. first.data = buffer
      BY DEF ChunksDoNotMatter
    <3> QED
      BY <2>1, <2>2, <3>1, SplitLater
  <2>4. frames' = first.out \o next.out /\ buffer' = next.data /\ arrived' = arrived \o b
    BY <1>4 DEF Read, applyFraming, ChunksDoNotMatter, b
  <2>5. frames' \in Frames /\ buffer' \in Seq(Nat) /\ arrived' \in Seq(Nat)
    <3>1. first.out \in Frames /\ next.out \in Frames /\ next.data \in Seq(Nat)
      BY <2>3 DEF Split
    <3>2. arrived \o b \in Seq(Nat)
      BY <2>1, <2>2, ConcatProperties
    <3> HIDE DEF first, next
    <3> QED
      BY <2>4, <3>1, <3>2, FramesJoin
  <2>6. ChunksDoNotMatter'
    <3> HIDE DEF first, next
    <3>1. splitStream(arrived', rule') = [out |-> frames', data |-> buffer']
      BY <2>2, <2>3, <2>4
    <3> QED
      BY <3>1 DEF ChunksDoNotMatter
  <2> QED
    BY <1>4, <2>1, <2>2, <2>5, <2>6 DEF Read, StreamTypes
<1> QED
  BY <1>1, <1>2, <1>3, <1>4 DEF StreamNext

\* Under every rule that cuts frames the frames published and the bytes in the buffer
\* are those of splitStream on all bytes taken at once, wherever the network cut them.
THEOREM ChunksCorrect == StreamSpec => []ChunksDoNotMatter
<1>1. StreamInv => ChunksDoNotMatter
  BY DEF StreamInv
<1> QED
  BY InitStream, NextStream, <1>1, PTL DEF StreamSpec
-----------------------------------------------------------------------------
\* The frames of messages, one message after another.
IsListing(g, n, P) == g = [i \in 0 .. n |-> IF i = 0 THEN <<>> ELSE g[i - 1] \o P[i]]

LEMMA ListingExists ==
  ASSUME NEW P
  PROVE  \A n \in Nat : \E g : IsListing(g, n, P)
<1> DEFINE T == {n \in Nat : \E g : IsListing(g, n, P)}
<1>1. 0 \in T
  <2>1. IsListing([i \in 0 .. 0 |-> <<>>], 0, P)
    BY DEF IsListing
  <2> QED
    BY <2>1
<1>2. ASSUME NEW n \in T PROVE n + 1 \in T
  <2>1. PICK g : IsListing(g, n, P)
    OBVIOUS
  <2> DEFINE h == [i \in 0 .. n + 1 |-> IF i = n + 1 THEN g[n] \o P[n + 1] ELSE g[i]]
  <2>2. ASSUME NEW i \in 0 .. n + 1
        PROVE  h[i] = IF i = 0 THEN <<>> ELSE h[i - 1] \o P[i]
    <3>1. n \in Nat /\ h[i] = IF i = n + 1 THEN g[n] \o P[n + 1] ELSE g[i]
      OBVIOUS
    <3>2. CASE i = n + 1
      <4>1. i # 0 /\ i - 1 = n /\ h[n] = g[n]
        BY <3>1, <3>2
      <4> HIDE DEF h
      <4> QED
        BY <3>1, <3>2, <4>1
    <3>3. CASE i # n + 1
      <4>1. i \in 0 .. n /\ (i # 0 => i - 1 \in 0 .. n + 1 /\ i - 1 # n + 1)
        BY <3>1, <3>3
      <4>2. h[i] = g[i] /\ (i # 0 => h[i - 1] = g[i - 1])
        BY <3>3, <4>1
      <4>3. g[i] = IF i = 0 THEN <<>> ELSE g[i - 1] \o P[i]
        BY <2>1, <4>1 DEF IsListing
      <4> HIDE DEF h
      <4> QED
        BY <4>2, <4>3
    <3> QED
      BY <3>2, <3>3
  <2>3. IsListing(h, n + 1, P)
    BY <2>2 DEF IsListing
  <2> QED
    BY <2>3
<1> HIDE DEF T
<1>3. T \in SUBSET Nat
  BY DEF T
<1>4. T = Nat
  BY <1>1, <1>2, <1>3, NextNumbers
<1> QED
  BY <1>4 DEF T

SameFront(P, Q, n) == \A i \in 1 .. n : P[i] = Q[i]

LEMMA ListingsAgree ==
  ASSUME NEW P, NEW Q, NEW g, NEW h, NEW n \in Nat, NEW k \in Nat, n <= k,
         IsListing(g, n, P), IsListing(h, k, Q), SameFront(P, Q, n)
  PROVE  g[n] = h[n]
<1> DEFINE T == {i \in Nat : i <= n => g[i] = h[i]}
<1>1. 0 \in T
  <2>1. g[0] = <<>> /\ h[0] = <<>>
    BY DEF IsListing
  <2> QED
    BY <2>1
<1>2. ASSUME NEW i \in T PROVE i + 1 \in T
  <2> SUFFICES ASSUME i + 1 <= n PROVE g[i + 1] = h[i + 1]
    OBVIOUS
  <2>1. g[i] = h[i] /\ i + 1 \in 1 .. n /\ i + 1 \in 0 .. n /\ i + 1 \in 0 .. k /\ i + 1 # 0 /\ (i + 1) - 1 = i
    OBVIOUS
  <2>2. g[i + 1] = g[i] \o P[i + 1] /\ P[i + 1] = Q[i + 1]
    BY <2>1 DEF IsListing, SameFront
  <2>3. h[i + 1] = h[i] \o Q[i + 1]
    BY <2>1 DEF IsListing
  <2> QED
    BY <2>1, <2>2, <2>3
<1> HIDE DEF T
<1>3. T \in SUBSET Nat
  BY DEF T
<1>4. T = Nat
  BY <1>1, <1>2, <1>3, NextNumbers
<1> QED
  BY <1>4 DEF T

LEMMA FramesOfListing ==
  ASSUME NEW s, Len(s) \in Nat
  PROVE  \E g : /\ IsListing(g, Len(s), [i \in 1 .. Len(s) |-> Published(s[i])])
                /\ FramesOf(s) = g[Len(s)]
<1> DEFINE n == Len(s)
           P == [i \in 1 .. n |-> Published(s[i])]
           G(g) == g = [i \in 0 .. n |-> IF i = 0 THEN <<>> ELSE g[i - 1] \o Published(s[i])]
           f == CHOOSE g : G(g)
<1>1. PICK g : IsListing(g, n, P)
  BY ListingExists
<1>2. ASSUME NEW h PROVE IsListing(h, n, P) <=> G(h)
  <2>1. [i \in 0 .. n |-> IF i = 0 THEN <<>> ELSE h[i - 1] \o P[i]]
          = [i \in 0 .. n |-> IF i = 0 THEN <<>> ELSE h[i - 1] \o Published(s[i])]
    <3>1. \A i \in 0 .. n : i # 0 => i \in 1 .. n
      OBVIOUS
    <3> QED
      BY <3>1
  <2> QED
    BY <2>1 DEF IsListing
<1>3. G(f)
  BY <1>1, <1>2
<1>4. FramesOf(s) = f[n]
  BY DEF FramesOf
<1> QED
  BY <1>2, <1>3, <1>4

\* FramesOf, message by message.
LEMMA FramesOfNone == FramesOf(<<>>) = <<>>
<1> DEFINE s == <<>>
<1>1. Len(s) = 0 /\ Len(s) \in Nat
  OBVIOUS
<1> HIDE DEF s
<1>2. PICK g : /\ IsListing(g, Len(s), [i \in 1 .. Len(s) |-> Published(s[i])])
               /\ FramesOf(s) = g[Len(s)]
  BY <1>1, FramesOfListing
<1>3. g[0] = <<>>
  BY <1>1, <1>2 DEF IsListing
<1> QED
  BY <1>1, <1>2, <1>3 DEF s

LEMMA FramesOfNext ==
  ASSUME NEW M, NEW s \in Seq(M), NEW m \in M
  PROVE  FramesOf(Append(s, m)) = FramesOf(s) \o Published(m)
<1>1. PICK t, n, k : t = Append(s, m) /\ n = Len(s) /\ k = n + 1
  OBVIOUS
<1>2. /\ n \in Nat /\ k \in Nat /\ n <= k /\ Len(t) = k /\ t[k] = m
      /\ \A i \in 1 .. n : t[i] = s[i]
  BY <1>1, AppendProperties
<1>3. PICK P, Q : /\ P = [i \in 1 .. Len(s) |-> Published(s[i])]
                  /\ Q = [i \in 1 .. Len(t) |-> Published(t[i])]
  OBVIOUS
<1>4. PICK g : IsListing(g, n, P) /\ FramesOf(s) = g[n]
  BY <1>1, <1>2, <1>3, FramesOfListing
<1>5. PICK h : IsListing(h, k, Q) /\ FramesOf(t) = h[k]
  BY <1>2, <1>3, FramesOfListing
<1>6. SameFront(P, Q, n)
  BY <1>1, <1>2, <1>3 DEF SameFront
<1>7. Q[k] = Published(m)
  BY <1>1, <1>2, <1>3
<1>8. g[n] = h[n]
  <2>1. n \in Nat /\ k \in Nat /\ n <= k /\ IsListing(g, n, P) /\ IsListing(h, k, Q)
    BY <1>2, <1>4, <1>5
  <2> QED
    BY <1>6, <2>1, ListingsAgree
<1>9. h[k] = h[n] \o Q[k]
  <2>1. k \in 0 .. k /\ k # 0 /\ k - 1 = n
    BY <1>1, <1>2
  <2> QED
    BY <1>5, <2>1 DEF IsListing
<1> QED
  BY <1>1, <1>4, <1>5, <1>7, <1>8, <1>9

-----------------------------------------------------------------------------
\* A message that is sent alone comes out as its frame.

\* One round that takes everything.
LEMMA CutAll ==
  ASSUME NEW f, CutsFrames(f), NEW d \in Seq(Nat), Len(d) > 0, NEW e,
         Cut([out |-> <<>>, data |-> d], f) = [out |-> e, data |-> <<>>]
  PROVE  splitStream(d, f) = [out |-> e, data |-> <<>>]
<1>1. ~Stuck(d, f)
  <2>1. d # <<>>
    OBVIOUS
  <2> QED
    BY <2>1 DEF Stuck
<1>2. PICK x \in Frames, n \in 1 .. Len(d) : Takes(d, f, x, n)
  BY <1>1, CutTakes
<1>3. <<>> \o x = x /\ x \o <<>> = x
  BY NoFrame, FramesJoin
<1>4. Cut([out |-> <<>>, data |-> d], f) = [out |-> x, data |-> After(d, n)]
  <2>1. \A o \in Frames : Cut([out |-> o, data |-> d], f) = [out |-> o \o x, data |-> After(d, n)]
    BY <1>2, TakesIs
  <2> QED
    BY <1>3, <2>1, NoFrame
<1>5. e = x /\ After(d, n) = <<>>
  BY <1>4
<1>6. splitStream(<<>>, f) = [out |-> <<>>, data |-> <<>>]
  BY NoBytes
<1> DEFINE rest == splitStream(After(d, n), f)
<1>7. splitStream(d, f) = [out |-> x \o rest.out, data |-> rest.data]
  BY <1>2, SplitGoesOn
<1>8. rest = [out |-> <<>>, data |-> <<>>]
  BY <1>5, <1>6
<1> HIDE DEF rest
<1>9. rest.out = <<>> /\ rest.data = <<>>
  BY <1>8
<1> QED
  BY <1>3, <1>5, <1>7, <1>9

\* All of data, and nothing of it.
LEMMA SliceEnds ==
  ASSUME NEW d \in Seq(Nat), NEW b \in Seq(Nat)
  PROVE  /\ After(d, Len(d)) = <<>>
         /\ Slice(d, 0, Len(d)) = d
         /\ Slice(d \o b, 0, Len(d)) = d
         /\ After(d \o b, Len(d)) = b
<1>1. Len(d) \in Nat /\ Len(d) \in 0 .. Len(d) /\ 0 \in Nat
  OBVIOUS
<1>2. After(d, Len(d)) \in Seq(Nat) /\ Len(After(d, Len(d))) = 0
  BY <1>1, AfterIs
<1>3. After(d, Len(d)) = <<>>
  <2> HIDE DEF After
  <2> QED
    BY <1>2, EmptySeq
<1>4. Slice(d, 0, Len(d)) = d
  <2> DEFINE s == Slice(d, 0, Len(d))
  <2> DEFINE n == Len(d)
  <2>0. n \in 0 .. Len(d) /\ n \in Nat /\ 0 \in Nat
    BY <1>1
  <2> HIDE DEF n
  <2>1. s \in Seq(Nat) /\ Len(s) = Len(d) /\ \A i \in 1 .. Len(d) : s[i] = d[i]
    <3>1. /\ Slice(d, 0, n) \in Seq(Nat)
          /\ Len(Slice(d, 0, n)) = IF 0 <= n THEN n - 0 ELSE 0
          /\ \A i \in 1 .. n - 0 : Slice(d, 0, n)[i] = d[0 + i]
      BY <2>0, SliceIs
    <3>2. n - 0 = n /\ 0 <= n /\ \A i \in 1 .. n : 0 + i = i
      BY <2>0
    <3> QED
      BY <3>1, <3>2 DEF n
  <2> HIDE DEF s
  <2>2. s = d
    BY <2>1, SeqEqual
  <2> QED
    BY <2>2 DEF s
<1>5. Slice(d \o b, 0, Len(d)) = d
  BY <1>1, <1>4, SliceStays
<1>6. After(d \o b, Len(d)) = b
  <2>1. After(d \o b, Len(d)) = After(d, Len(d)) \o b
    BY <1>1, FrontStays
  <2> QED
    BY <1>3, <2>1, ConcatEmptySeq
<1> QED
  BY <1>3, <1>4, <1>5, <1>6

LEMMA DelimitedMessage ==
  ASSUME rule.mode = "delimiter", rule.delimiter \in Seq(Nat) \ {<<>>}, NEW m \in Seq(Nat),
         Index(m \o rule.delimiter, rule.delimiter) = Len(m)
  PROVE  Cut([out |-> <<>>, data |-> Encode(m)], rule) = [out |-> Published(m), data |-> <<>>]
<1> DEFINE sep == rule.delimiter
           d == m \o sep
<1>1. Encode(m) = d /\ FrameOf(m) = m
  BY DEF Encode, FrameOf
<1>2. /\ d \in Seq(Nat) /\ Len(d) = Len(m) + Len(sep)
      /\ Len(m) \in Nat /\ (Len(m) = 0 <=> m = <<>>)
  BY ConcatProperties, EmptySeq
<1>3. Slice(d, 0, Len(m)) = m /\ After(d, Len(m) + Len(sep)) = <<>>
  <2>1. Slice(d, 0, Len(m)) = m
    BY SliceEnds
  <2>2. After(d, Len(d)) = <<>>
    <3> HIDE DEF d
    <3> QED
      BY <1>2, SliceEnds
  <2> HIDE DEF d
  <2> QED
    BY <1>2, <2>1, <2>2
<1>4. Append(<<>>, m) = <<m>>
  OBVIOUS
<1>5. Index(d, sep) = Len(m)
  OBVIOUS
<1> HIDE DEF d
<1>6. Cut([out |-> <<>>, data |-> d], rule)
        = [out |-> IF Len(m) > 0 THEN <<m>> ELSE <<>>, data |-> <<>>]
  <2>1. Cut([out |-> <<>>, data |-> d], rule) = CutDelimiter([out |-> <<>>, data |-> d], rule)
    BY DEF Cut
  <2>2. CutDelimiter([out |-> <<>>, data |-> d], rule)
          = [out  |-> IF Len(m) > 0 THEN Append(<<>>, Slice(d, 0, Len(m))) ELSE <<>>,
             data |-> After(d, Len(m) + Len(sep))]
    <3>1. ~(Len(m) < 0)
      BY <1>2
    <3> DEFINE s == [out |-> <<>>, data |-> d]
    <3>2. s.data = d /\ s.out = <<>>
      OBVIOUS
    <3> HIDE DEF s
    <3>3. CutDelimiter(s, rule)
            = [out  |-> IF Len(m) > 0 THEN Append(<<>>, Slice(d, 0, Len(m))) ELSE <<>>,
               data |-> After(d, Len(m) + Len(sep))]
      BY <1>5, <3>1, <3>2 DEF CutDelimiter
    <3> QED
      BY <3>3 DEF s
  <2> QED
    BY <1>3, <1>4, <2>1, <2>2
<1> QED
  BY <1>1, <1>2, <1>6 DEF Published

LEMMA FixedMessage ==
  ASSUME rule.mode = "fixed_length", rule.length \in Nat \ {0}, NEW m \in Seq(Nat),
         Len(m) = rule.length
  PROVE  Cut([out |-> <<>>, data |-> Encode(m)], rule) = [out |-> Published(m), data |-> <<>>]
<1>1. Encode(m) = m /\ FrameOf(m) = m /\ m # <<>>
  BY DEF Encode, FrameOf
<1>2. Slice(m, 0, Len(m)) = m /\ After(m, Len(m)) = <<>>
  BY SliceEnds
<1>3. Append(<<>>, m) = <<m>>
  OBVIOUS
<1>4. Cut([out |-> <<>>, data |-> m], rule) = [out |-> <<m>>, data |-> <<>>]
  BY <1>2, <1>3 DEF Cut, CutFixedLength
<1> QED
  BY <1>1, <1>4 DEF Published

\* The header of a message says how long the message is.
LEMMA HeaderSays ==
  ASSUME rule.offset \in Nat, rule.size \in {1, 2, 4}, NEW m \in Seq(Nat)
  PROVE  LET size == rule.offset + rule.size
         IN  /\ Header(m) \in Seq(Nat) /\ Len(Header(m)) = size /\ size \in Nat \ {0}
             /\ readLengthValue(Slice(Header(m) \o m, rule.offset, size), rule) = Len(m)
<1> DEFINE size == rule.offset + rule.size
           h == Header(m)
           field == Slice(h, rule.offset, size)
<1>1. size \in Nat \ {0} /\ Len(m) \in Nat
  OBVIOUS
<1>2. h = [i \in 1 .. size |-> IF i = (IF rule.endian = "little" THEN rule.offset + 1 ELSE size)
                               THEN Len(m) ELSE 0]
  BY DEF Header
<1> HIDE DEF h
<1>3. h \in Seq(Nat) /\ Len(h) = size
  BY <1>1, <1>2
<1>4. Slice(h \o m, rule.offset, size) = field
  <2> HIDE DEF size
  <2>1. size \in 0 .. Len(h)
    BY <1>1, <1>3
  <2> QED
    BY <1>3, <2>1, SliceStays
<1>5. \A i \in 1 .. rule.size : field[i] = h[rule.offset + i]
  <2>1. size - rule.offset = rule.size
    OBVIOUS
  <2> HIDE DEF size
  <2>2. size \in 0 .. Len(h)
    BY <1>1, <1>3
  <2>3. \A i \in 1 .. size - rule.offset : field[i] = h[rule.offset + i]
    BY <1>3, <2>2, SliceIs
  <2> QED
    BY <2>1, <2>3
<1> HIDE DEF field
<1> DEFINE digit(k) == IF rule.endian = "little" THEN field[k + 1] ELSE field[rule.size - k]
<1>6. ASSUME NEW k \in Nat, k < rule.size
      PROVE  digit(k) = IF k = 0 THEN Len(m) ELSE 0
  <2>1. /\ k + 1 \in 1 .. rule.size /\ rule.size - k \in 1 .. rule.size
        /\ rule.offset + (k + 1) \in 1 .. size /\ rule.offset + (rule.size - k) \in 1 .. size
        /\ (rule.offset + (k + 1) = rule.offset + 1 <=> k = 0)
        /\ (rule.offset + (rule.size - k) = size <=> k = 0)
    <3> DEFINE a == rule.offset
               b == rule.size
    <3>1. b \in Nat /\ a \in Nat /\ size = a + b /\ k \in Nat /\ k < b
      BY <1>6
    <3> HIDE DEF a, b, size
    <3>2. /\ k + 1 \in 1 .. b /\ b - k \in 1 .. b
          /\ a + (k + 1) \in 1 .. size /\ a + (b - k) \in 1 .. size
          /\ (a + (k + 1) = a + 1 <=> k = 0)
          /\ (a + (b - k) = size <=> k = 0)
      BY <3>1
    <3> QED
      BY <3>2 DEF a, b
  <2>2. CASE rule.endian = "little"
    <3>1. digit(k) = h[rule.offset + (k + 1)]
      BY <1>5, <2>1, <2>2
    <3> QED
      BY <1>2, <2>1, <2>2, <3>1
  <2>3. CASE rule.endian # "little"
    <3>1. digit(k) = h[rule.offset + (rule.size - k)]
      BY <1>5, <2>1, <2>3
    <3> QED
      BY <1>2, <2>1, <2>3, <3>1
  <2> QED
    BY <2>2, <2>3
<1>7. readLengthValue(field, rule) = Len(m)
  <2>1. CASE rule.size = 1
    <3>1. readLengthValue(field, rule) = digit(0)
      BY <2>1 DEF readLengthValue
    <3> QED
      BY <1>6, <2>1, <3>1
  <2>2. CASE rule.size = 2
    <3>1. readLengthValue(field, rule) = digit(0) + 256 * digit(1)
      BY <2>2 DEF readLengthValue
    <3>2. digit(0) = Len(m) /\ digit(1) = 0
      BY <1>6, <2>2
    <3> HIDE DEF digit
    <3> QED
      BY <1>1, <3>1, <3>2
  <2>3. CASE rule.size = 4
    <3>1. readLengthValue(field, rule)
            = digit(0) + 256 * (digit(1) + 256 * (digit(2) + 256 * digit(3)))
      BY <2>3 DEF readLengthValue
    <3>2. digit(0) = Len(m) /\ digit(1) = 0 /\ digit(2) = 0 /\ digit(3) = 0
      <4> HIDE DEF digit
      <4> QED
        BY <1>6, <2>3
    <3> HIDE DEF digit
    <3> QED
      BY <1>1, <3>1, <3>2
  <2> QED
    BY <2>1, <2>2, <2>3
<1> QED
  BY <1>1, <1>3, <1>4, <1>7 DEF h

LEMMA HeadedMessage ==
  ASSUME rule.mode = "length_field", rule.offset \in Nat, rule.size \in {1, 2, 4},
         rule.include_header = TRUE, NEW m \in Seq(Nat)
  PROVE  /\ Cut([out |-> <<>>, data |-> Encode(m)], rule) = [out |-> Published(m), data |-> <<>>]
         /\ Len(Encode(m)) > 0
<1> DEFINE size == rule.offset + rule.size
           d == Header(m) \o m
           body == readLengthValue(Slice(d, rule.offset, size), rule)
<1>1. Encode(m) = d /\ FrameOf(m) = d
  BY DEF Encode, FrameOf
<1>2. Header(m) \in Seq(Nat) /\ Len(Header(m)) = size /\ size \in Nat \ {0} /\ body = Len(m)
  BY HeaderSays
<1>3. d \in Seq(Nat) /\ Len(d) = size + Len(m) /\ Len(m) \in Nat
  <2> DEFINE h == Header(m)
  <2> HIDE DEF h
  <2>1. h \in Seq(Nat) /\ Len(h) = size
    BY <1>2 DEF h
  <2>2. h \o m \in Seq(Nat) /\ Len(h \o m) = Len(h) + Len(m)
    BY <2>1, ConcatProperties
  <2> QED
    BY <2>1, <2>2 DEF h
<1> HIDE DEF d, body
<1>4. Slice(d, 0, size + body) = d /\ After(d, size + body) = <<>> /\ d # <<>> /\ Len(d) > 0
  BY <1>2, <1>3, SliceEnds
<1>5. Append(<<>>, d) = <<d>>
  OBVIOUS
<1>6. Cut([out |-> <<>>, data |-> d], rule) = [out |-> <<d>>, data |-> <<>>]
  <2> HIDE DEF size
  <2>1. Cut([out |-> <<>>, data |-> d], rule) = CutLengthField([out |-> <<>>, data |-> d], rule)
    BY DEF Cut
  <2>2. ~(Len(d) < size \/ body < 0 \/ Len(d) < size + body) /\ body + size = size + body
        /\ body + size # 0
    BY <1>2, <1>3
  <2>3. CutLengthField([out |-> <<>>, data |-> d], rule)
          = [out |-> Append(<<>>, Slice(d, 0, size + body)), data |-> After(d, body + size)]
    BY <2>2 DEF CutLengthField, size, body
  <2> QED
    BY <1>4, <1>5, <2>1, <2>2, <2>3
<1> QED
  BY <1>1, <1>4, <1>6 DEF Published

LEMMA MessageAlone ==
  ASSUME rule \in Rules, Sendable(rule), NEW m \in Payloads[rule]
  PROVE  /\ splitStream(Encode(m), rule) = [out |-> Published(m), data |-> <<>>]
         /\ Encode(m) \in Seq(Nat)
<1>1. CutsFrames(rule) /\ m \in Seq(Nat) /\ Encode(m) \in Seq(Nat)
  BY EncodeIsBytes, RulesAssumption
<1>2. /\ Cut([out |-> <<>>, data |-> Encode(m)], rule) = [out |-> Published(m), data |-> <<>>]
      /\ Len(Encode(m)) > 0
  <2>1. CASE rule.mode = "delimiter"
    <3>1. rule.delimiter \in Seq(Nat) \ {<<>>}
      BY <1>1, <2>1 DEF CutsFrames
    <3>2. Len(Encode(m)) > 0
      <4>1. Encode(m) = m \o rule.delimiter
        BY <2>1 DEF Encode
      <4>2. Len(rule.delimiter) > 0 /\ Len(m) \in Nat /\ Len(rule.delimiter) \in Nat
        BY <1>1, <3>1, EmptySeq
      <4>3. Len(m \o rule.delimiter) = Len(m) + Len(rule.delimiter)
        BY <1>1, <3>1, ConcatProperties
      <4> QED
        BY <4>1, <4>2, <4>3
    <3>3. Index(m \o rule.delimiter, rule.delimiter) = Len(m)
      BY <2>1 DEF Sendable
    <3> QED
      BY <1>1, <2>1, <3>1, <3>2, <3>3, DelimitedMessage
  <2>2. CASE rule.mode = "fixed_length"
    <3>1. rule.length \in Nat \ {0} /\ Len(m) = rule.length
      BY <1>1, <2>2 DEF CutsFrames, Sendable
    <3>2. Encode(m) = m
      BY <2>2 DEF Encode
    <3> QED
      BY <1>1, <2>2, <3>1, <3>2, FixedMessage
  <2>3. CASE rule.mode = "length_field"
    <3>1. rule.offset \in Nat /\ rule.size \in {1, 2, 4} /\ rule.include_header = TRUE
      BY <1>1, <2>3 DEF CutsFrames, Sendable
    <3> QED
      BY <1>1, <2>3, <3>1, HeadedMessage
  <2> QED
    BY <1>1, <2>1, <2>2, <2>3 DEF CutsFrames
<1> QED
  BY <1>1, <1>2, CutAll

-----------------------------------------------------------------------------
\* The messages of a single client come out one by one.

\* Unless a chunk was dropped, what was taken, the chunks in the channel and the
\* wire are, one behind the other, bytes that are cut into what was sent: rest[i]
\* are those behind the first i chunks.
Conserved(c, rest) ==
  /\ rest \in [0 .. Len(msgCh) -> Seq(Nat)]
  /\ \A i \in 1 .. Len(msgCh) : rest[i - 1] = Join(msgCh[i], rest[i])
  /\ rest[Len(msgCh)] = wire[c]
  /\ splitStream(Join(arrived, rest[0]), rule) = [out |-> FramesOf(sent[c]), data |-> <<>>]

MessagesInv ==
  /\ StreamInv
  /\ sent \in [Clients -> Seq(Payloads[rule])]
  /\ lost \in BOOLEAN
  /\ \A c \in Clients : ~lost => \E rest : Conserved(c, rest)

LEMMA InitMessages == StreamInit => MessagesInv
<1> SUFFICES ASSUME StreamInit PROVE MessagesInv
  OBVIOUS
<1>1. sent \in [Clients -> Seq(Payloads[rule])] /\ lost \in BOOLEAN
  BY EmptySeq DEF StreamInit
<1>2. ASSUME NEW c \in Clients PROVE Conserved(c, [i \in 0 .. 0 |-> <<>>])
  <2> DEFINE rest == [i \in 0 .. 0 |-> <<>>]
  <2>1. Len(msgCh) = 0 /\ arrived = <<>> /\ sent[c] = <<>> /\ wire[c] = <<>> /\ CutsFrames(rule)
    BY RulesAssumption DEF StreamInit
  <2>2. rest[0] = <<>> /\ Join(<<>>, <<>>) = <<>> /\ rest \in [0 .. 0 -> Seq(Nat)]
    BY ConcatEmptySeq, EmptySeq DEF Join
  <2>3. splitStream(<<>>, rule) = [out |-> <<>>, data |-> <<>>] /\ FramesOf(<<>>) = <<>>
    BY <2>1, NoBytes, FramesOfNone
  <2> HIDE DEF rest
  <2> QED
    BY <2>1, <2>2, <2>3 DEF Conserved
<1> QED
  BY <1>1, <1>2, InitStream DEF MessagesInv

\* A client that sends a message puts it behind what it sent before.
LEMMA SendConserves ==
  ASSUME MessagesInv, NEW c \in Clients, NEW m \in Payloads[rule], Sendable(rule), Send(c, m),
         NEW rest, Conserved(c, rest)
  PROVE  \E more : Conserved(c, more)'
<1> DEFINE n == Len(msgCh)
           code == Encode(m)
           more == [i \in 0 .. n |-> Join(rest[i], code)]
           all == Join(arrived, rest[0])
<1>1. /\ rule' = rule /\ msgCh' = msgCh /\ arrived' = arrived
      /\ wire'[c] = Join(wire[c], code) /\ sent'[c] = Append(sent[c], m)
  BY DEF Send, MessagesInv, StreamInv, StreamTypes, Join
<1>2. /\ n \in Nat /\ msgCh \in Frames /\ arrived \in Seq(Nat) /\ CutsFrames(rule)
      /\ sent[c] \in Seq(Payloads[rule]) /\ rule \in Rules
  BY RulesAssumption DEF MessagesInv, StreamInv, StreamTypes, Frames
<1>3. /\ code \in Seq(Nat)
      /\ splitStream(code, rule) = [out |-> Published(m), data |-> <<>>]
  BY <1>2, MessageAlone
<1>4. /\ \A i \in 0 .. n : rest[i] \in Seq(Nat)
      /\ \A i \in 1 .. n : rest[i - 1] = Join(msgCh[i], rest[i])
      /\ rest[n] = wire[c]
      /\ splitStream(all, rule) = [out |-> FramesOf(sent[c]), data |-> <<>>]
  BY DEF Conserved
<1> HIDE DEF code
<1>5. ASSUME NEW x \in Seq(Nat), NEW y \in Seq(Nat)
      PROVE  Join(x, y) \in Seq(Nat)
  BY ConcatProperties DEF Join
<1>6. more \in [0 .. n -> Seq(Nat)]
  BY <1>3, <1>4, <1>5
<1>7. ASSUME NEW i \in 1 .. n PROVE more[i - 1] = Join(msgCh[i], more[i])
  <2>1. i - 1 \in 0 .. n /\ i \in 0 .. n /\ i \in 1 .. n
    BY <1>2
  <2>2. msgCh[i] \in Seq(Nat) /\ rest[i] \in Seq(Nat)
    BY <1>2, <1>4, <2>1, ElementOfSeq DEF Frames
  <2>3. more[i - 1] = Join(rest[i - 1], code) /\ more[i] = Join(rest[i], code)
    BY <2>1
  <2> HIDE DEF more
  <2>4. Join(Join(msgCh[i], rest[i]), code) = Join(msgCh[i], Join(rest[i], code))
    BY <1>3, <2>2, JoinBytes
  <2> QED
    BY <1>4, <2>3, <2>4
<1>8. more[n] = wire'[c] /\ more[0] = Join(rest[0], code)
  BY <1>1, <1>2, <1>4
<1>9. Join(arrived, more[0]) = Join(all, code)
  <2>1. rest[0] \in Seq(Nat)
    BY <1>2, <1>4
  <2> QED
    BY <1>2, <1>3, <1>8, <2>1, JoinBytes
<1>10. splitStream(Join(all, code), rule) = [out |-> FramesOf(Append(sent[c], m)), data |-> <<>>]
  <2>1. all \in Seq(Nat)
    BY <1>2, <1>4, <1>5
  <2> HIDE DEF all
  <2> DEFINE first == splitStream(all, rule)
             next == splitStream(first.data \o code, rule)
  <2>2. splitStream(all \o code, rule) = [out |-> first.out \o next.out, data |-> next.data]
    BY <1>2, <1>3, <2>1, SplitLater
  <2>3. first.out = FramesOf(sent[c]) /\ first.data = <<>>
    BY <1>4
  <2>4. <<>> \o code = code
    BY <1>3, ConcatEmptySeq
  <2>5. next.out = Published(m) /\ next.data = <<>>
    <3> HIDE DEF first
    <3> QED
      BY <1>3, <2>3, <2>4
  <2>6. FramesOf(Append(sent[c], m)) = FramesOf(sent[c]) \o Published(m)
    BY <1>2, FramesOfNext
  <2> HIDE DEF first, next
  <2> QED
    BY <2>2, <2>3, <2>5, <2>6 DEF Join
<1> HIDE DEF more, all
<1>11. FramesOf(sent[c])' = FramesOf(Append(sent[c], m))
  BY <1>1 DEF FramesOf, Published, FrameOf, Encode, Header
<1>12. PICK t : t = more
  OBVIOUS
<1>13. Conserved(c, t)'
  <2>1. t \in [0 .. Len(msgCh') -> Seq(Nat)]
    BY <1>1, <1>6, <1>12
  <2>2. \A i \in 1 .. Len(msgCh') : t[i - 1] = Join(msgCh'[i], t[i])
    BY <1>1, <1>7, <1>12
  <2>3. t[Len(msgCh')] = wire'[c]
    BY <1>1, <1>8, <1>12
  <2>4. splitStream(Join(arrived', t[0]), rule') = [out |-> FramesOf(sent[c])', data |-> <<>>]
    BY <1>1, <1>9, <1>10, <1>11, <1>12
  <2> QED
    BY <2>1, <2>2, <2>3, <2>4 DEF Conserved
<1> QED
  BY <1>13

\* What is read off the wire is the last chunk of the channel.
LEMMA ChunkConserves ==
  ASSUME MessagesInv, NEW c \in Clients, NEW k \in 1 .. MaxChunk, handleConn(c, k), ~lost',
         NEW rest, Conserved(c, rest)
  PROVE  \E more : Conserved(c, more)'
<1> DEFINE n == Len(msgCh)
           chunk == Slice(wire[c], 0, k)
           left == After(wire[c], k)
           more == [i \in 0 .. n + 1 |-> IF i = n + 1 THEN left ELSE rest[i]]
<1>1. /\ rule' = rule /\ sent' = sent /\ arrived' = arrived
      /\ wire'[c] = left /\ msgCh' = Append(msgCh, chunk)
  BY DEF handleConn, MessagesInv, StreamInv, StreamTypes
<1>2. /\ n \in Nat /\ msgCh \in Frames /\ wire[c] \in Seq(Nat)
      /\ k \in 0 .. Len(wire[c]) /\ 0 \in Nat
  BY BoundsAssumption DEF handleConn, MessagesInv, StreamInv, StreamTypes, Frames
<1>3. chunk \in Seq(Nat) /\ left \in Seq(Nat) /\ Len(chunk) = k /\ Len(left) = Len(wire[c]) - k
      /\ (\A i \in 1 .. k : chunk[i] = wire[c][i])
      /\ (\A i \in 1 .. Len(wire[c]) - k : left[i] = wire[c][k + i])
  <2> DEFINE w == wire[c]
  <2>1. w \in Seq(Nat) /\ k \in 0 .. Len(w) /\ k \in Nat /\ 0 \in Nat
    BY <1>2
  <2> HIDE DEF w
  <2>2. /\ After(w, k) \in Seq(Nat) /\ Len(After(w, k)) = Len(w) - k
        /\ \A i \in 1 .. Len(w) - k : After(w, k)[i] = w[k + i]
    BY <2>1, AfterIs
  <2>3. /\ Slice(w, 0, k) \in Seq(Nat)
        /\ Len(Slice(w, 0, k)) = IF 0 <= k THEN k - 0 ELSE 0
        /\ \A i \in 1 .. k - 0 : Slice(w, 0, k)[i] = w[0 + i]
    BY <2>1, SliceIs
  <2>4. k - 0 = k /\ 0 <= k /\ \A i \in 1 .. k : 0 + i = i
    BY <2>1
  <2>5. /\ Slice(w, 0, k) \in Seq(Nat) /\ Len(Slice(w, 0, k)) = k
        /\ \A i \in 1 .. k : Slice(w, 0, k)[i] = w[i]
    BY <2>3, <2>4
  <2> QED
    BY <2>2, <2>5 DEF w
<1> HIDE DEF chunk, left
<1>4. wire[c] = Join(chunk, left)
  <2> DEFINE w == wire[c]
             both == chunk \o left
  <2>1. /\ w \in Seq(Nat) /\ k \in 0 .. Len(w) /\ Len(w) \in Nat
        /\ Len(chunk) = k /\ Len(left) = Len(w) - k
        /\ (\A i \in 1 .. k : chunk[i] = w[i])
        /\ (\A i \in 1 .. Len(w) - k : left[i] = w[k + i])
    BY <1>2, <1>3
  <2>2. /\ both \in Seq(Nat) /\ Len(both) = Len(chunk) + Len(left)
        /\ \A i \in 1 .. Len(chunk) + Len(left) :
             both[i] = IF i <= Len(chunk) THEN chunk[i] ELSE left[i - Len(chunk)]
    BY <1>3, ConcatProperties
  <2> HIDE DEF w, both
  <2>3. Len(both) = Len(w)
    BY <2>1, <2>2
  <2>4. ASSUME NEW i \in 1 .. Len(w) PROVE both[i] = w[i]
    <3>1. CASE i <= k
      BY <2>1, <2>2, <3>1
    <3>2. CASE ~(i <= k)
      <4>1. i - k \in 1 .. Len(w) - k /\ k + (i - k) = i
        BY <2>1, <3>2
      <4>2. both[i] = left[i - k]
        BY <2>1, <2>2, <3>2
      <4> QED
        BY <2>1, <4>1, <4>2
    <3> QED
      BY <3>1, <3>2
  <2>5. both = w
    BY <2>1, <2>2, <2>3, <2>4, SeqEqual
  <2> QED
    BY <2>5 DEF w, both, Join
<1>5. /\ \A i \in 0 .. n : rest[i] \in Seq(Nat)
      /\ \A i \in 1 .. n : rest[i - 1] = Join(msgCh[i], rest[i])
      /\ rest[n] = wire[c]
      /\ splitStream(Join(arrived, rest[0]), rule) = [out |-> FramesOf(sent[c]), data |-> <<>>]
  BY DEF Conserved
<1>6. /\ Len(msgCh') = n + 1 /\ msgCh'[n + 1] = chunk
      /\ \A i \in 1 .. n : msgCh'[i] = msgCh[i]
  BY <1>1, <1>2, <1>3, AppendProperties DEF Frames
<1> HIDE DEF n
<1>7. more \in [0 .. n + 1 -> Seq(Nat)]
  BY <1>2, <1>3, <1>5
<1>8. /\ more[n + 1] = left /\ more[n] = wire[c] /\ more[0] = rest[0]
      /\ \A i \in 0 .. n : more[i] = rest[i]
  BY <1>2, <1>5
<1> HIDE DEF more
<1>9. ASSUME NEW i \in 1 .. n + 1 PROVE more[i - 1] = Join(msgCh'[i], more[i])
  <2>1. CASE i = n + 1
    <3>1. i - 1 = n
      BY <1>2, <2>1
    <3> QED
      BY <1>4, <1>6, <1>8, <2>1, <3>1
  <2>2. CASE i # n + 1
    <3>1. i \in 1 .. n /\ i \in 0 .. n /\ i - 1 \in 0 .. n
      BY <1>2, <2>2
    <3> QED
      BY <1>5, <1>6, <1>8, <3>1
  <2> QED
    BY <2>1, <2>2
<1>10. FramesOf(sent[c])' = FramesOf(sent[c])
  BY <1>1 DEF FramesOf, Published, FrameOf, Encode, Header
<1>11. PICK t : t = more
  OBVIOUS
<1>12. Conserved(c, t)'
  <2>1. t \in [0 .. Len(msgCh') -> Seq(Nat)]
    BY <1>6, <1>7, <1>11
  <2>2. \A i \in 1 .. Len(msgCh') : t[i - 1] = Join(msgCh'[i], t[i])
    BY <1>6, <1>9, <1>11
  <2>3. t[Len(msgCh')] = wire'[c]
    BY <1>1, <1>6, <1>8, <1>11
  <2>4. splitStream(Join(arrived', t[0]), rule') = [out |-> FramesOf(sent[c])', data |-> <<>>]
    BY <1>1, <1>5, <1>8, <1>10, <1>11
  <2> QED
    BY <2>1, <2>2, <2>3, <2>4 DEF Conserved
<1> QED
  BY <1>12

\* What is taken off the channel is behind what was taken before.
LEMMA ReadConserves ==
  ASSUME MessagesInv, NEW c \in Clients, Read, NEW rest, Conserved(c, rest)
  PROVE  \E more : Conserved(c, more)'
<1> DEFINE n == Len(msgCh)
           b == Head(msgCh)
           more == [i \in 0 .. n - 1 |-> rest[i + 1]]
<1>1. /\ rule' = rule /\ sent' = sent /\ wire' = wire
      /\ arrived' = Join(arrived, b) /\ msgCh' = Tail(msgCh) /\ msgCh # <<>>
  BY DEF Read, Join
<1>2. msgCh \in Frames /\ arrived \in Seq(Nat)
  BY DEF MessagesInv, StreamInv, StreamTypes
<1>3. /\ n \in Nat \ {0} /\ b = msgCh[1] /\ b \in Seq(Nat) /\ Len(msgCh') = n - 1
      /\ \A i \in 1 .. n - 1 : msgCh'[i] = msgCh[i + 1]
  <2> DEFINE q == msgCh
  <2>1. q \in Seq(Seq(Nat)) /\ q # <<>>
    BY <1>1, <1>2 DEF Frames
  <2> HIDE DEF q
  <2>2. /\ Len(q) \in Nat \ {0} /\ Head(q) = q[1] /\ Head(q) \in Seq(Nat)
        /\ Len(Tail(q)) = Len(q) - 1 /\ \A i \in 1 .. Len(q) - 1 : Tail(q)[i] = q[i + 1]
    BY <2>1, HeadTailProperties, EmptySeq
  <2> QED
    BY <1>1, <2>2 DEF q
<1>4. /\ \A i \in 0 .. n : rest[i] \in Seq(Nat)
      /\ \A i \in 1 .. n : rest[i - 1] = Join(msgCh[i], rest[i])
      /\ rest[n] = wire[c]
      /\ splitStream(Join(arrived, rest[0]), rule) = [out |-> FramesOf(sent[c]), data |-> <<>>]
  BY DEF Conserved
<1> HIDE DEF n, b
<1>5. /\ more \in [0 .. n - 1 -> Seq(Nat)] /\ more[0] = rest[1] /\ more[n - 1] = rest[n]
      /\ \A i \in 0 .. n - 1 : more[i] = rest[i + 1]
  BY <1>3, <1>4
<1> HIDE DEF more
<1>6. ASSUME NEW i \in 1 .. n - 1 PROVE more[i - 1] = Join(msgCh'[i], more[i])
  <2>1. /\ i - 1 \in 0 .. n - 1 /\ i \in 0 .. n - 1 /\ i + 1 \in 1 .. n
        /\ (i - 1) + 1 = i /\ (i + 1) - 1 = i
    BY <1>3
  <2>2. rest[i] = Join(msgCh[i + 1], rest[i + 1])
    BY <1>4, <2>1
  <2> QED
    BY <1>3, <1>5, <2>1, <2>2
<1>7. Join(Join(arrived, b), more[0]) = Join(arrived, rest[0])
  <2>1. 1 \in 1 .. n /\ 1 \in 0 .. n /\ 1 - 1 = 0
    BY <1>3
  <2>2. rest[0] = Join(b, rest[1]) /\ rest[1] \in Seq(Nat)
    BY <1>3, <1>4, <2>1
  <2> QED
    BY <1>2, <1>3, <1>5, <2>2, JoinBytes
<1>8. FramesOf(sent[c])' = FramesOf(sent[c])
  BY <1>1 DEF FramesOf, Published, FrameOf, Encode, Header
<1>9. PICK t : t = more
  OBVIOUS
<1>10. Conserved(c, t)'
  <2>1. t \in [0 .. Len(msgCh') -> Seq(Nat)]
    BY <1>3, <1>5, <1>9
  <2>2. \A i \in 1 .. Len(msgCh') : t[i - 1] = Join(msgCh'[i], t[i])
    BY <1>3, <1>6, <1>9
  <2>3. t[Len(msgCh')] = wire'[c]
    BY <1>1, <1>3, <1>4, <1>5, <1>9
  <2>4. splitStream(Join(arrived', t[0]), rule') = [out |-> FramesOf(sent[c])', data |-> <<>>]
    BY <1>1, <1>4, <1>7, <1>8, <1>9
  <2> QED
    BY <2>1, <2>2, <2>3, <2>4 DEF Conserved
<1> QED
  BY <1>10

LEMMA NextMessages ==
  ASSUME MessagesInv, [StreamNext]_streamVars, \A f \in Rules : Sendable(f),
         \A c, d \in Clients : c = d
  PROVE  MessagesInv'
<1>1. StreamInv' /\ rule \in Rules /\ Sendable(rule)
  BY NextStream DEF MessagesInv, StreamInv, StreamTypes
<1>2. CASE UNCHANGED streamVars
  <2>1. ASSUME NEW c \in Clients, NEW rest, Conserved(c, rest) PROVE Conserved(c, rest)'
    <3>1. rule' = rule /\ sent' = sent /\ wire' = wire /\ msgCh' = msgCh /\ arrived' = arrived
      BY <1>2 DEF streamVars
    <3>2. FramesOf(sent[c])' = FramesOf(sent[c])
      BY <3>1 DEF FramesOf, Published, FrameOf, Encode, Header
    <3> QED
      BY <2>1, <3>1, <3>2 DEF Conserved
  <2> QED
    BY <1>1, <1>2, <2>1 DEF MessagesInv, streamVars
<1>3. ASSUME NEW c \in Clients, NEW m \in Payloads[rule], Send(c, m)
      PROVE  MessagesInv'
  <2>1. sent' \in [Clients -> Seq(Payloads[rule'])] /\ lost' = lost
    <3>1. Append(sent[c], m) \in Seq(Payloads[rule])
      BY AppendProperties DEF MessagesInv
    <3> QED
      BY <1>3, <3>1 DEF Send, MessagesInv
  <2>2. ASSUME NEW d \in Clients, ~lost' PROVE \E more : Conserved(d, more)'
    <3>1. d = c
      OBVIOUS
    <3>2. PICK rest : Conserved(c, rest)
      BY <2>1, <2>2 DEF MessagesInv
    <3>3. \E more : Conserved(c, more)'
      BY <1>1, <1>3, <3>2, SendConserves
    <3> QED
      BY <3>1, <3>3
  <2> QED
    BY <1>1, <2>1, <2>2 DEF MessagesInv
<1>4. ASSUME NEW c \in Clients, NEW k \in 1 .. MaxChunk, handleConn(c, k)
      PROVE  MessagesInv'
  <2>1. sent' \in [Clients -> Seq(Payloads[rule'])] /\ lost' \in BOOLEAN /\ (lost => lost')
    BY <1>4 DEF handleConn, MessagesInv
  <2>2. ASSUME NEW d \in Clients, ~lost' PROVE \E more : Conserved(d, more)'
    <3>1. d = c
      OBVIOUS
    <3>2. PICK rest : Conserved(c, rest)
      BY <2>1, <2>2 DEF MessagesInv
    <3>3. \E more : Conserved(c, more)'
      BY <1>4, <2>2, <3>2, ChunkConserves
    <3> QED
      BY <3>1, <3>3
  <2> QED
    BY <1>1, <2>1, <2>2 DEF MessagesInv
<1>5. CASE Read
  <2>1. sent' \in [Clients -> Seq(Payloads[rule'])] /\ lost' = lost
    BY <1>5 DEF Read, MessagesInv
  <2>2. ASSUME NEW d \in Clients, ~lost' PROVE \E more : Conserved(d, more)'
    <3>1. PICK rest : Conserved(d, rest)
      BY <2>1, <2>2 DEF MessagesInv
    <3> QED
      BY <1>5, <3>1, ReadConserves
  <2> QED
    BY <1>1, <2>1, <2>2 DEF MessagesInv
<1> QED
  BY <1>2, <1>3, <1>4, <1>5 DEF StreamNext

LEMMA PrefixJoined ==
  ASSUME NEW a \in Frames, NEW b \in Frames
  PROVE  IsPrefix(a, a \o b)
<1> DEFINE n == Len(a)
           s == SubSeq(a, 1, n)
           t == SubSeq(a \o b, 1, n)
<1>1. a \in Seq(Seq(Nat)) /\ b \in Seq(Seq(Nat)) /\ n \in Nat /\ Len(b) \in Nat
  BY DEF Frames
<1>2. /\ Len(a \o b) = n + Len(b)
      /\ \A i \in 1 .. n : (a \o b)[i] = a[i] /\ a[i] \in Seq(Nat)
  BY <1>1, ConcatProperties, ElementOfSeq
<1>3. /\ s \in Seq(Seq(Nat)) /\ Len(s) = n
      /\ \A i \in 1 .. n : s[i] = a[i]
  BY <1>1, <1>2, SubSeqProperties
<1>4. /\ t \in Seq(Seq(Nat)) /\ Len(t) = n
      /\ \A i \in 1 .. n : t[i] = a[i]
  BY <1>1, <1>2, SubSeqProperties
<1> HIDE DEF s, t
<1>5. s = t
  BY <1>3, <1>4, SeqEqual
<1>6. n <= Len(a \o b)
  BY <1>1, <1>2
<1> QED
  BY <1>5, <1>6 DEF IsPrefix, s, t

LEMMA MessagesInvImplies == MessagesInv => FramesAreTheMessages
<1> SUFFICES ASSUME MessagesInv, NEW c \in Clients, ~lost
             PROVE  /\ IsPrefix(frames, FramesOf(sent[c]))
                    /\ wire[c] = <<>> /\ msgCh = <<>> =>
                         /\ frames = FramesOf(sent[c])
                         /\ frames # <<>> => splitChunk(arrived, rule) = frames
  BY DEF FramesAreTheMessages
<1>1. PICK rest : Conserved(c, rest)
  BY DEF MessagesInv
<1> DEFINE left == rest[0]
           first == splitStream(arrived, rule)
           next == splitStream(first.data \o left, rule)
<1>2. CutsFrames(rule) /\ arrived \in Seq(Nat) /\ msgCh \in Frames /\ frames \in Frames
  BY RulesAssumption DEF MessagesInv, StreamInv, StreamTypes
<1>3. left \in Seq(Nat)
  <2>1. 0 \in 0 .. Len(msgCh)
    BY <1>2 DEF Frames
  <2> QED
    BY <1>1, <2>1 DEF Conserved
<1>4. splitStream(arrived \o left, rule) = [out |-> FramesOf(sent[c]), data |-> <<>>]
  BY <1>1 DEF Conserved, Join
<1>5. frames = first.out /\ buffer = first.data
  BY DEF MessagesInv, StreamInv, ChunksDoNotMatter
<1>6. /\ first \in Split /\ next \in Split
      /\ splitStream(arrived \o left, rule) = [out |-> first.out \o next.out, data |-> next.data]
  <2> HIDE DEF left
  <2> QED
    BY <1>2, <1>3, SplitLater
<1>7. IsPrefix(frames, FramesOf(sent[c]))
  <2> HIDE DEF first, next
  <2>1. FramesOf(sent[c]) = frames \o next.out /\ next.out \in Frames
    BY <1>4, <1>5, <1>6 DEF Split
  <2> QED
    BY <1>2, <2>1, PrefixJoined
<1>8. ASSUME wire[c] = <<>>, msgCh = <<>>
      PROVE  /\ frames = FramesOf(sent[c])
             /\ frames # <<>> => splitChunk(arrived, rule) = frames
  <2>1. arrived \o left = arrived
    <3>1. left = <<>>
      BY <1>1, <1>8 DEF Conserved
    <3> QED
      BY <1>2, <3>1, ConcatEmptySeq
  <2>2. first = [out |-> FramesOf(sent[c]), data |-> <<>>]
    BY <1>4, <2>1
  <2>3. ~Unframed(rule)
    BY <1>2 DEF CutsFrames, Unframed
  <2>4. first.data = <<>> /\ first.out = frames /\ frames = FramesOf(sent[c])
    BY <1>5, <2>2
  <2>5. frames \o <<>> = frames
    BY <1>2, NoFrame, FramesJoin
  <2>6. frames # <<>> => splitChunk(arrived, rule) = frames
    <3> HIDE DEF first
    <3>1. first = splitStream(arrived, rule)
      BY DEF first
    <3> QED
      BY <2>3, <2>4, <2>5, <3>1 DEF splitChunk
  <2> QED
    BY <2>4, <2>6
<1> QED
  BY <1>7, <1>8

\* When no listener has dropped a chunk, what a single client sent comes out message
\* by message, and all of it once its bytes are taken, if its messages can be told
\* from each other (MCSmallParts has TLC evaluate both assumptions).
THEOREM MessagesCorrect ==
  ASSUME \A f \in Rules : Sendable(f), \A c, d \in Clients : c = d
  PROVE  StreamSpec => []FramesAreTheMessages
<1>1. MessagesInv /\ [StreamNext]_streamVars => MessagesInv'
  BY NextMessages
<1> QED
  BY InitMessages, <1>1, MessagesInvImplies, PTL DEF StreamSpec
=============================================================================
