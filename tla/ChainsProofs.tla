---------------------------- MODULE ChainsProofs ----------------------------
(***************************************************************************)
(* What is promised of the chains and the calls of their processors, for   *)
(* any number of chains, requests, messages and calls.                     *)
(***************************************************************************)
EXTENDS ChainRequests, PluginCalls, SequenceTheorems, FiniteSetTheorems, WellFoundedInduction,
        TLAPS
-----------------------------------------------------------------------------
\* First the pipelines: whatever their processors, they share no message that they make.

\* A set of numbers has a least one,
LEMMA LeastOf ==
  ASSUME NEW T \in SUBSET Nat, T # {}
  PROVE  \E m \in T : \A k \in T : m <= k
<1> DEFINE R == OpToRel(<, Nat)
<1>1. IsWellFoundedOn(R, Nat)
  BY NatLessThanWellFounded
<1>2. R = {p \in Nat \X Nat : p[1] < p[2]}
  BY DEF OpToRel
<1>3. \A x, y \in Nat : x < y => <<x, y>> \in R
  BY <1>2
<1> HIDE DEF R
<1>4. \E x \in T : \A y \in T : ~(<<y, x>> \in R)
  BY <1>1, WFMin
<1>5. PICK x \in T : \A y \in T : ~(<<y, x>> \in R)
  BY <1>4
<1>6. ASSUME NEW y \in T PROVE x <= y
  <2>1. x \in Nat /\ y \in Nat /\ ~(y < x)
    BY <1>3, <1>5
  <2> QED
    BY <2>1
<1> QED
  BY <1>6

\* and so one that each number shares which all below it do holds them all.
LEMMA AllNumbers ==
  ASSUME NEW T \in SUBSET Nat, \A n \in Nat : (\A k \in Nat : k < n => k \in T) => n \in T
  PROVE  T = Nat
<1> DEFINE U == Nat \ T
<1>1. ASSUME U # {} PROVE FALSE
  <2>1. PICK m \in U : \A k \in U : m <= k
    BY <1>1, LeastOf
  <2>2. \A k \in Nat : k < m => k \in T
    BY <2>1
  <2> QED
    BY <2>2
<1> QED
  BY <1>1

LEMMA NextNumbers ==
  ASSUME NEW T \in SUBSET Nat, 0 \in T, \A n \in T : n + 1 \in T
  PROVE  T = Nat
<1>1. ASSUME NEW n \in Nat, \A k \in Nat : k < n => k \in T PROVE n \in T
  <2>1. CASE n = 0
    BY <2>1
  <2>2. CASE n # 0
    <3>1. n - 1 \in Nat /\ n - 1 < n /\ n = n - 1 + 1
      BY <2>2
    <3> QED
      BY <1>1, <3>1
  <2> QED
    BY <2>1, <2>2
<1> QED
  BY <1>1, AllNumbers

\* New messages, as processors make them.
Copy == {i \in Item : ~i.same}

\* The sequences of FlattenSeq, and the sets of outcomes of a pipeline, are well defined.
IsFlattening(g, q, n) == g = [i \in 1 .. n |-> IF i = 1 THEN q[i] ELSE g[i - 1] \o q[i]]

LEMMA FlatteningExists ==
  ASSUME NEW q
  PROVE  \A n \in Nat : \E g : IsFlattening(g, q, n)
<1> DEFINE T == {n \in Nat : \E g : IsFlattening(g, q, n)}
<1>1. 0 \in T
  <2>1. IsFlattening([i \in 1 .. 0 |-> q[i]], q, 0)
    BY DEF IsFlattening
  <2> QED
    BY <2>1
<1>2. ASSUME NEW n \in T PROVE n + 1 \in T
  <2>1. PICK g : IsFlattening(g, q, n)
    OBVIOUS
  <2> DEFINE h == [i \in 1 .. n + 1 |->
                     IF i = n + 1 THEN IF n = 0 THEN q[i] ELSE g[n] \o q[i] ELSE g[i]]
  <2>2. ASSUME NEW i \in 1 .. n + 1
        PROVE  h[i] = IF i = 1 THEN q[i] ELSE h[i - 1] \o q[i]
    <3>1. /\ n \in Nat
          /\ h[i] = IF i = n + 1 THEN IF n = 0 THEN q[i] ELSE g[n] \o q[i] ELSE g[i]
      OBVIOUS
    <3>2. CASE i = n + 1
      <4>1. i # 1 => n # 0 /\ i - 1 = n /\ h[n] = g[n]
        BY <3>1, <3>2
      <4>2. i = 1 <=> n = 0
        BY <3>1, <3>2
      <4> HIDE DEF h
      <4> QED
        BY <3>1, <3>2, <4>1, <4>2
    <3>3. CASE i # n + 1
      <4>1. i \in 1 .. n /\ (i # 1 => i - 1 \in 1 .. n + 1 /\ i - 1 # n + 1)
        BY <3>1, <3>3
      <4>2. h[i] = g[i] /\ (i # 1 => h[i - 1] = g[i - 1])
        BY <3>3, <4>1
      <4>3. g[i] = IF i = 1 THEN q[i] ELSE g[i - 1] \o q[i]
        BY <2>1, <4>1 DEF IsFlattening
      <4> HIDE DEF h
      <4> QED
        BY <4>2, <4>3
    <3> QED
      BY <3>2, <3>3
  <2>3. IsFlattening(h, q, n + 1)
    BY <2>2 DEF IsFlattening
  <2> QED
    BY <2>3
<1> HIDE DEF T
<1>3. T \in SUBSET Nat
  BY DEF T
<1>4. T = Nat
  BY <1>1, <1>2, <1>3, NextNumbers
<1> QED
  BY <1>4 DEF T

LEMMA FlattenIs ==
  ASSUME NEW q, Len(q) \in Nat \ {0}
  PROVE  \E g : IsFlattening(g, q, Len(q)) /\ FlattenSeq(q) = g[Len(q)]
<1> DEFINE n == Len(q)
           F(g) == g = [i \in 1 .. Len(q) |-> IF i = 1 THEN q[i] ELSE g[i - 1] \o q[i]]
<1>1. FlattenSeq(q) = (CHOOSE g : F(g))[n]
  BY DEF FlattenSeq
<1>2. PICK g : IsFlattening(g, q, n)
  BY FlatteningExists
<1>3. F(g)
  BY <1>2 DEF IsFlattening
<1>4. F(CHOOSE h : F(h))
  BY <1>3
<1>5. IsFlattening(CHOOSE h : F(h), q, n)
  BY <1>4 DEF IsFlattening
<1> QED
  BY <1>1, <1>5

LEMMA FlattenKeeps ==
  ASSUME NEW S, NEW q \in Seq(Seq(S))
  PROVE  FlattenSeq(q) \in Seq(S)
<1>1. CASE Len(q) = 0
  BY <1>1 DEF FlattenSeq
<1>2. CASE Len(q) # 0
  <2>1. PICK g : IsFlattening(g, q, Len(q)) /\ FlattenSeq(q) = g[Len(q)]
    BY <1>2, FlattenIs
  <2>2. \A i \in 1 .. Len(q) : q[i] \in Seq(S)
    OBVIOUS
  <2> DEFINE T == {n \in Nat : n \in 1 .. Len(q) => g[n] \in Seq(S)}
  <2>3. 0 \in T
    OBVIOUS
  <2>4. ASSUME NEW n \in T PROVE n + 1 \in T
    <3>1. CASE n + 1 \in 1 .. Len(q)
      <4>1. g[n + 1] = IF n + 1 = 1 THEN q[n + 1] ELSE g[n + 1 - 1] \o q[n + 1]
        <5>1. \A i \in 1 .. Len(q) : g[i] = IF i = 1 THEN q[i] ELSE g[i - 1] \o q[i]
          BY <2>1 DEF IsFlattening
        <5> QED
          BY <3>1, <5>1
      <4>2. n \in Nat /\ n + 1 - 1 = n /\ (n + 1 = 1 <=> n = 0) /\ (n # 0 => n \in 1 .. Len(q))
        BY <3>1
      <4>3. n # 0 => g[n] \in Seq(S)
        BY <4>2
      <4>4. g[n + 1] \in Seq(S)
        BY <2>2, <3>1, <4>1, <4>2, <4>3
      <4> QED
        BY <4>2, <4>4
    <3> QED
      BY <3>1
  <2> HIDE DEF T
  <2>5. T \in SUBSET Nat
    BY DEF T
  <2>6. T = Nat
    BY <2>3, <2>4, <2>5, NextNumbers
  <2>7. Len(q) \in T /\ Len(q) \in 1 .. Len(q)
    BY <1>2, <2>6
  <2> QED
    BY <2>1, <2>7 DEF T
<1> QED
  BY <1>1, <1>2

LEMMA FlattenOne ==
  ASSUME NEW q, Len(q) = 1
  PROVE  FlattenSeq(q) = q[1]
<1>1. PICK g : IsFlattening(g, q, Len(q)) /\ FlattenSeq(q) = g[Len(q)]
  <2>1. Len(q) \in Nat \ {0}
    OBVIOUS
  <2> QED
    BY <2>1, FlattenIs
<1> QED
  BY <1>1 DEF IsFlattening

\* A processor hands on its message as it came, alone, or new ones.
LEMMA ProcessMakes ==
  ASSUME NEW p \in Processor, p.key \in Known, NEW item \in Item, NEW o \in ProcessOf(p, item)
  PROVE  o.items \in Seq(Copy) \/ o.items = <<item>>
<1>1. \A t \in Topics \cup {None} : Cloned(item, t).items \in Seq(Copy)
  BY DEF Cloned, Made, Copy, Item
<1>2. Failed.items \in Seq(Copy) /\ Dropped.items \in Seq(Copy) /\ PassedOn(item).items = <<item>>
  BY DEF Failed, Dropped, PassedOn, Made
<1>3. p.topic \in Topics \cup {None} /\ None \in Topics \cup {None} /\ UNION p.answers \subseteq Topics
  BY DEF Processor
<1>4. ASSUME o \in ByScript(p) PROVE o.items \in Seq(Copy)
  <2>1. CASE o \in {Failed, Dropped}
    BY <1>2, <2>1
  <2>2. ASSUME NEW topics \in p.answers, NEW order \in SetToSeqs(topics),
               o = Made([k \in DOMAIN order |-> [same |-> FALSE, topic |-> order[k]]])
        PROVE  o.items \in Seq(Copy)
    <3>1. topics \subseteq Topics /\ IsFiniteSet(topics)
      BY DEF Processor
    <3>2. Cardinality(topics) \in Nat
      BY <3>1, FS_CardinalityType
    <3>3. order \in [1 .. Cardinality(topics) -> topics]
      BY DEF SetToSeqs
    <3>4. o.items = [k \in 1 .. Cardinality(topics) |-> [same |-> FALSE, topic |-> order[k]]]
      BY <2>2, <3>3 DEF Made
    <3>5. \A k \in 1 .. Cardinality(topics) : [same |-> FALSE, topic |-> order[k]] \in Copy
      BY <3>1, <3>3 DEF Copy, Item
    <3> QED
      BY <3>2, <3>4, <3>5
  <2> QED
    BY <1>4, <2>1, <2>2 DEF ByScript
<1>5. ASSUME o \in ByPlugin(item, p) PROVE o.items \in Seq(Copy)
  BY <1>1, <1>2, <1>3, <1>5 DEF ByPlugin
<1>6. ASSUME o \in ByDecoder(item) PROVE o.items \in Seq(Copy) \/ o.items = <<item>>
  BY <1>1, <1>2, <1>3, <1>6 DEF ByDecoder
<1>7. ASSUME o \in Converted(item, p) \cup Filtered(item, p) \cup TextReplaceProcessor(item, p)
      PROVE  o.items \in Seq(Copy)
  BY <1>1, <1>2, <1>3, <1>7 DEF Converted, Filtered, TextReplaceProcessor
<1>8. \/ o \in Converted(item, p) \cup Filtered(item, p) \cup TextReplaceProcessor(item, p)
      \/ o \in {Failed, PassedOn(item)} \cup ByScript(p)
      \/ o \in ByPlugin(item, p)
      \/ o \in ByDecoder(item)
  BY DEF ProcessOf, Known, FieldMapProcessor, TextRegexFilterProcessor
<1> QED
  BY <1>2, <1>4, <1>5, <1>6, <1>7, <1>8

\* What a pipeline makes of a message is the message alone, or new ones.
Alone == <<[same |-> TRUE, topic |-> None]>>

AloneOrNew(outcomes) == \A o \in outcomes : o.items = Alone \/ o.items \in Seq(Copy)

LEMMA ThroughKeeps ==
  ASSUME NEW items, items = Alone \/ items \in Seq(Copy),
         NEW p \in Processor, p.key \in Known
  PROVE  AloneOrNew(Through(items, p))
<1> DEFINE calls == {call \in [DOMAIN items -> UNION {ProcessOf(p, items[k]) : k \in DOMAIN items}] :
                       \A k \in DOMAIN items : call[k] \in ProcessOf(p, items[k])}
<1>1. SUFFICES ASSUME NEW call \in calls
               PROVE  LET q == [k \in DOMAIN call |-> call[k].items]
                      IN  FlattenSeq(q) = Alone \/ FlattenSeq(q) \in Seq(Copy)
  <2>1. Failed.items \in Seq(Copy) /\ \A x : Made(x).items = x
    BY DEF Failed, Made
  <2>2. \A o \in Through(items, p) : \E call \in calls :
           o = Failed \/ o = Made(FlattenSeq([k \in DOMAIN call |-> call[k].items]))
    BY DEF Through
  <2> HIDE DEF calls
  <2>3. \A o \in Through(items, p) : o.items = Alone \/ o.items \in Seq(Copy)
    BY <1>1, <2>1, <2>2
  <2> QED
    BY <2>3 DEF AloneOrNew
<1> DEFINE q == [k \in DOMAIN items |-> call[k].items]
<1>2. Len(items) \in Nat /\ DOMAIN items = 1 .. Len(items) /\ \A k \in DOMAIN items : items[k] \in Item
  <2>1. CASE items = Alone
    <3>1. [same |-> TRUE, topic |-> None] \in Item
      BY DEF Item
    <3>2. \A x \in Item : Len(<<x>>) = 1 /\ DOMAIN <<x>> = 1 .. 1 /\ <<x>>[1] = x
      OBVIOUS
    <3>3. Len(items) = 1 /\ DOMAIN items = 1 .. 1 /\ items[1] \in Item
      BY <2>1, <3>1, <3>2 DEF Alone
    <3> QED
      <4>1. \A k \in 1 .. 1 : k = 1
        OBVIOUS
      <4> QED
        BY <3>3, <4>1
  <2>2. CASE items \in Seq(Copy)
    <3>1. \A k \in DOMAIN items : items[k] \in Copy
      BY <2>2
    <3> QED
      BY <2>2, <3>1 DEF Copy
  <2> QED
    BY <2>1, <2>2
<1>3. DOMAIN call = DOMAIN items /\ Len(q) = Len(items)
  BY <1>2
<1>4. \A k \in DOMAIN items : q[k] \in Seq(Copy) \/ q[k] = <<items[k]>>
  BY <1>2, ProcessMakes
<1> HIDE DEF q
<1>5. CASE items = Alone
  <2>1. Len(q) = 1 /\ 1 \in DOMAIN items /\ items[1] = [same |-> TRUE, topic |-> None]
    BY <1>3, <1>5 DEF Alone
  <2>2. FlattenSeq(q) = q[1]
    BY <2>1, FlattenOne
  <2> QED
    BY <1>3, <1>4, <2>1, <2>2 DEF Alone, q
<1>6. CASE items \in Seq(Copy)
  <2>1. \A k \in DOMAIN items : items[k] \in Copy /\ <<items[k]>> \in Seq(Copy)
    BY <1>6
  <2>2. \A k \in DOMAIN items : q[k] \in Seq(Copy)
    BY <1>4, <2>1
  <2>3. q \in [1 .. Len(items) -> Seq(Copy)]
    BY <1>2, <2>2 DEF q
  <2>4. q \in Seq(Seq(Copy))
    BY <1>2, <2>3
  <2> QED
    BY <1>3, <2>4, FlattenKeeps DEF q
<1> QED
  BY <1>5, <1>6

LEMMA AlsoThroughKeeps ==
  ASSUME NEW outcomes, AloneOrNew(outcomes), NEW p \in Processor
  PROVE  AloneOrNew(AlsoThrough(outcomes, p))
<1>1. CASE p.key \notin Known
  BY <1>1 DEF AlsoThrough
<1>2. CASE p.key \in Known
  <2>1. \A o \in outcomes : AloneOrNew(Through(o.items, p))
    BY <1>2, ThroughKeeps DEF AloneOrNew
  <2> QED
    BY <1>2, <2>1 DEF AlsoThrough, AloneOrNew
<1> QED
  BY <1>1, <1>2

IsPipeline(g, processors, n) ==
  g = [i \in 0 .. n |-> IF i = 0 THEN {PassedOn([same |-> TRUE, topic |-> None])}
                        ELSE AlsoThrough(g[i - 1], processors[i])]

LEMMA PipelineExists ==
  ASSUME NEW processors
  PROVE  \A n \in Nat : \E g : IsPipeline(g, processors, n)
<1> DEFINE T == {n \in Nat : \E g : IsPipeline(g, processors, n)}
           start == {PassedOn([same |-> TRUE, topic |-> None])}
<1>1. 0 \in T
  <2>1. IsPipeline([i \in 0 .. 0 |-> start], processors, 0)
    BY DEF IsPipeline
  <2> QED
    BY <2>1
<1>2. ASSUME NEW n \in T PROVE n + 1 \in T
  <2>1. PICK g : IsPipeline(g, processors, n)
    OBVIOUS
  <2> DEFINE h == [i \in 0 .. n + 1 |->
                     IF i = n + 1 THEN AlsoThrough(g[n], processors[n + 1]) ELSE g[i]]
  <2>2. ASSUME NEW i \in 0 .. n + 1
        PROVE  h[i] = IF i = 0 THEN start ELSE AlsoThrough(h[i - 1], processors[i])
    <3>1. n \in Nat /\ h[i] = IF i = n + 1 THEN AlsoThrough(g[n], processors[n + 1]) ELSE g[i]
      OBVIOUS
    <3>2. CASE i = n + 1
      <4>1. i # 0 /\ i - 1 = n /\ h[n] = g[n]
        BY <3>1, <3>2
      <4> HIDE DEF h
      <4> QED
        BY <3>1, <3>2, <4>1
    <3>3. CASE i # n + 1
      <4>1. i \in 0 .. n /\ (i # 0 => i - 1 \in 0 .. n + 1 /\ i - 1 # n + 1)
        BY <3>1, <3>3
      <4>2. h[i] = g[i] /\ (i # 0 => h[i - 1] = g[i - 1])
        BY <3>3, <4>1
      <4>3. g[i] = IF i = 0 THEN start ELSE AlsoThrough(g[i - 1], processors[i])
        BY <2>1, <4>1 DEF IsPipeline
      <4> HIDE DEF h
      <4> QED
        BY <4>2, <4>3
    <3> QED
      BY <3>2, <3>3
  <2>3. IsPipeline(h, processors, n + 1)
    BY <2>2 DEF IsPipeline
  <2> QED
    BY <2>3
<1> HIDE DEF T
<1>3. T \in SUBSET Nat
  BY DEF T
<1>4. T = Nat
  BY <1>1, <1>2, <1>3, NextNumbers
<1> QED
  BY <1>4 DEF T

\* Pipeline.Process (internal/decode): of a message it makes that message alone, as it
\* came, or messages of its own, whichever processors it is made of.
THEOREM OutcomesCorrect ==
  ASSUME NEW processors \in Seq(Processor), NEW o \in Outcomes(processors)
  PROVE  /\ o.items \in Seq(Item)
         /\ IsPassedOn(o) => o.items = Alone
<1> DEFINE n == Len(processors)
           G(g) == g = [i \in 0 .. Len(processors) |->
                          IF i = 0 THEN {PassedOn([same |-> TRUE, topic |-> None])}
                          ELSE AlsoThrough(g[i - 1], processors[i])]
<1>1. Outcomes(processors) = (CHOOSE g : G(g))[n]
  BY DEF Outcomes
<1>2. PICK g : IsPipeline(g, processors, n)
  BY PipelineExists
<1>3. G(CHOOSE h : G(h))
  <2>1. G(g)
    BY <1>2 DEF IsPipeline
  <2> QED
    BY <2>1
<1>4. PICK after : IsPipeline(after, processors, n) /\ Outcomes(processors) = after[n]
  <2>1. IsPipeline(CHOOSE h : G(h), processors, n)
    BY <1>3 DEF IsPipeline
  <2> QED
    BY <1>1, <2>1
<1> HIDE DEF G
<1> DEFINE T == {i \in Nat : i <= n => AloneOrNew(after[i])}
<1>5. 0 \in T
  <2>1. 0 \in 0 .. n
    OBVIOUS
  <2>2. after[0] = {PassedOn([same |-> TRUE, topic |-> None])}
    BY <1>4, <2>1 DEF IsPipeline
  <2>3. PassedOn([same |-> TRUE, topic |-> None]).items = Alone
    BY DEF Alone, PassedOn, Made
  <2>4. AloneOrNew(after[0])
    BY <2>2, <2>3 DEF AloneOrNew
  <2> QED
    BY <2>4
<1>6. ASSUME NEW i \in T PROVE i + 1 \in T
  <2>1. CASE i + 1 <= n
    <3>1. i \in Nat /\ i <= n /\ i + 1 \in 1 .. n /\ i + 1 - 1 = i /\ i + 1 # 0 /\ AloneOrNew(after[i])
      BY <2>1
    <3>2. after[i + 1] = AlsoThrough(after[i], processors[i + 1]) /\ processors[i + 1] \in Processor
      <4>1. \A k \in 0 .. n : after[k] = IF k = 0 THEN {PassedOn([same |-> TRUE, topic |-> None])}
                                         ELSE AlsoThrough(after[k - 1], processors[k])
        BY <1>4 DEF IsPipeline
      <4>2. i + 1 \in 0 .. n
        BY <3>1
      <4> HIDE DEF n
      <4>3. after[i + 1] = AlsoThrough(after[i], processors[i + 1])
        BY <3>1, <4>1, <4>2
      <4> QED
        BY <3>1, <4>3 DEF n
    <3>3. AloneOrNew(after[i + 1])
      BY <3>1, <3>2, AlsoThroughKeeps
    <3> QED
      BY <3>1, <3>3
  <2> QED
    BY <2>1
<1> HIDE DEF T
<1>7. T \in SUBSET Nat
  BY DEF T
<1>8. n \in T
  <2>1. n \in Nat
    OBVIOUS
  <2>2. T = Nat
    BY <1>5, <1>6, <1>7, NextNumbers
  <2> QED
    BY <2>1, <2>2
<1>9. o.items = Alone \/ o.items \in Seq(Copy)
  BY <1>4, <1>8 DEF T, AloneOrNew
<1>10. CASE o.items = Alone
  BY <1>10 DEF Alone, Item
<1>11. CASE o.items \in Seq(Copy)
  <2>1. o.items \in Seq(Item) /\ \A i \in DOMAIN o.items : o.items[i] \in Copy
    BY <1>11 DEF Copy
  <2> QED
    BY <2>1 DEF IsPassedOn, Copy
<1> QED
  BY <1>9, <1>10, <1>11
-----------------------------------------------------------------------------
Elements(q) == {q[i] : i \in DOMAIN q}

Distinct(q) == \A i, j \in DOMAIN q : q[i] = q[j] => i = j

InTopic(w) == table.topic[chain[w]]

Passer(w) == PassesOn(table, chain[w])

Working(w) == pc[w] # "idle"

Queued(w) == Elements(ch[w])

ToPublish(w) == {results[w][i].obj : i \in DOMAIN results[w]}

Holds(w) == Queued(w) \cup (IF Working(w) THEN {msg[w]} ELSE {}) \cup ToPublish(w)

Own(w, o) == \A v \in Workers \ {w} : o \notin Holds(v)

StepsAsWritten ==
  \A w \in Workers :
    /\ w \notin Started => ch[w] = <<>> /\ pc[w] = "idle"
    /\ w \in Started => InTopic(w) \in Topics
    /\ pc[w] \in {"idle", "process"} <=> results[w] = <<>>
    /\ pc[w] # "idle" => msg[w] \in Objects

OneWorkerToAChain ==
  \A v \in Started : chain[v] \notin stopped =>
    chain[v] \in pipelines /\ \A w \in Started : chain[w] = chain[v] => w = v

\* A chain that hands messages on is never stopped.
PassersGoOn == \A c \in stopped : table.topic[c] # None => ~PassesOn(table, c)

ObjectsExist == \A w \in Workers : Holds(w) \subseteq 1 .. Len(topicOf)

\* Nobody else has what a worker is going to publish, which is the message alone or
\* are new objects;
ResultsAreOwn ==
  \A w \in Workers :
    /\ \A o \in ToPublish(w) : Own(w, o) /\ o \notin Queued(w)
    /\ \A i, j \in DOMAIN results[w] : results[w][i].obj = results[w][j].obj => i = j
    /\ msg[w] \in ToPublish(w) =>
         Passer(w) /\ Len(results[w]) = 1 /\ results[w][1].topic = None

\* nor what has been given to one that may hand it on.
PassedAreOwn ==
  \A w \in Started :
    /\ Distinct(ch[w])
    /\ Passer(w) => /\ \A o \in Holds(w) : Own(w, o)
                    /\ Working(w) => msg[w] \notin Queued(w)

GivenOnTopic ==
  \A w \in Workers :
    /\ \A o \in Queued(w) : topicOf[o] = InTopic(w)
    /\ Working(w) /\ (pc[w] = "publish" => msg[w] \notin ToPublish(w))
         => topicOf[msg[w]] = InTopic(w)

ResultTopic(w, i) ==
  /\ i # 1 \/ pc[w] # "publish" =>
       topicOf[results[w][i].obj] = IF results[w][i].topic = None THEN InTopic(w)
                                    ELSE results[w][i].topic
  /\ i = 1 /\ pc[w] = "publish" =>
       topicOf[results[w][i].obj] =
         IF results[w][i].topic # None THEN results[w][i].topic
         ELSE IF table.outTopic[chain[w]] # None THEN table.outTopic[chain[w]] ELSE InTopic(w)
  /\ table.outTopic[chain[w]] # None => results[w][i].topic # InTopic(w)

ResultTopics == \A w \in Workers : \A i \in DOMAIN results[w] : ResultTopic(w, i)

LoadedIsTopic ==
  \A w \in Workers : pc[w] = "redirect" => loaded[w] = topicOf[results[w][1].obj]

TopicsInv ==
  /\ StepsAsWritten /\ OneWorkerToAChain /\ PassersGoOn /\ ObjectsExist /\ ResultsAreOwn
  /\ PassedAreOwn /\ GivenOnTopic /\ ResultTopics /\ LoadedIsTopic

Rank == CHOOSE rank \in [Topics -> 0 .. Cardinality(Chains)] : LeadsOn(table, rank)

\* c is behind w on the way of what chains hand on.
Behind(c, w) == table.topic[c] \in Topics /\ Rank[table.topic[c]] < Rank[InTopic(w)]

\* A chain that was not stopped has taken nothing twice, nor what it is still to take;
NotTakenYet ==
  /\ \A c \in Chains : \A o \in Objects :
       /\ c \notin stopped => taken[c][o] < 2
       /\ taken[c][o] > 0 => o \in 1 .. Len(topicOf)
  /\ \A w \in Started : \A o \in Queued(w) : chain[w] \notin stopped => taken[chain[w]][o] = 0

\* nobody has taken a new object that is to be published;
NewNotTaken ==
  \A w \in Workers : \A o \in ToPublish(w) : o # msg[w] => \A c \in Chains : taken[c][o] = 0

\* and what may be handed on has been taken by chains behind only.
TakenBehind ==
  \A w \in Started : Passer(w) => \A c \in Chains :
    /\ \A o \in Queued(w) : taken[c][o] > 0 => Behind(c, w)
    /\ Working(w) /\ taken[c][msg[w]] > 0 => c = chain[w] \/ Behind(c, w)

NoneTwice == NotTakenYet /\ NewNotTaken /\ TakenBehind

RequestsTyped ==
  /\ issued \subseteq Chains /\ rows \subseteq issued /\ enabled \subseteq rows
  /\ todo \in [Requests \cup {Boot} -> Seq(Call)]

\* Without requests there is the start of the program only.
NoStops ==
  table.requested = {} =>
    /\ stopped = {}
    /\ \A q \in Requests \cup {Boot} : \A e \in Elements(todo[q]) : e.call \in {"list", "start"}

ChainsInv == RequestsTyped /\ NoStops /\ TypeOK /\ TopicsInv

LEMMA OfAppend ==
  ASSUME NEW S, NEW q \in Seq(S), NEW v \in S
  PROVE  /\ Elements(Append(q, v)) = Elements(q) \cup {v}
         /\ Distinct(q) /\ v \notin Elements(q) => Distinct(Append(q, v))
<1>1. /\ Len(q) \in Nat /\ DOMAIN q = 1 .. Len(q)
      /\ DOMAIN Append(q, v) = 1 .. Len(q) + 1
      /\ \A i \in 1 .. Len(q) : Append(q, v)[i] = q[i]
      /\ Append(q, v)[Len(q) + 1] = v
  OBVIOUS
<1> DEFINE a == Append(q, v)
<1> HIDE DEF a
<1>2. /\ \A i \in DOMAIN a : (i \in DOMAIN q /\ a[i] = q[i]) \/ (i = Len(q) + 1 /\ a[i] = v)
      /\ \A i \in DOMAIN q : i \in DOMAIN a /\ a[i] = q[i]
      /\ Len(q) + 1 \in DOMAIN a
  BY <1>1 DEF a
<1>3. Elements(a) = Elements(q) \cup {v}
  BY <1>1, <1>2 DEF Elements
<1>4. Distinct(q) /\ v \notin Elements(q) => Distinct(a)
  BY <1>2 DEF Distinct, Elements
<1> QED
  BY <1>3, <1>4 DEF a

LEMMA OfTail ==
  ASSUME NEW S, NEW q \in Seq(S), q # <<>>
  PROVE  /\ Head(q) \in Elements(q) /\ Head(q) \in S /\ Head(q) = q[1] /\ 1 \in DOMAIN q
         /\ Tail(q) \in Seq(S) /\ Elements(Tail(q)) \subseteq Elements(q)
         /\ Distinct(q) => Distinct(Tail(q)) /\ Head(q) \notin Elements(Tail(q))
         /\ \A i \in DOMAIN Tail(q) : i + 1 \in DOMAIN q /\ i + 1 # 1 /\ Tail(q)[i] = q[i + 1]
<1>1. /\ Len(q) \in Nat \ {0} /\ DOMAIN q = 1 .. Len(q) /\ Head(q) = q[1] /\ q[1] \in S
      /\ Tail(q) \in Seq(S) /\ DOMAIN Tail(q) = 1 .. Len(q) - 1
      /\ \A i \in 1 .. Len(q) - 1 : Tail(q)[i] = q[i + 1]
  OBVIOUS
<1> DEFINE t == Tail(q)
<1> HIDE DEF t
<1>2. \A i \in DOMAIN t : i + 1 \in DOMAIN q /\ t[i] = q[i + 1] /\ 1 < i + 1 /\ i \in Nat
  BY <1>1 DEF t
<1>3. 1 \in DOMAIN q
  BY <1>1
<1>4. Elements(t) \subseteq Elements(q) /\ Head(q) \in Elements(q)
  BY <1>1, <1>2, <1>3 DEF Elements
<1>5. Distinct(q) => Distinct(t) /\ Head(q) \notin Elements(t)
  BY <1>1, <1>2, <1>3 DEF Distinct, Elements
<1> QED
  BY <1>1, <1>2, <1>3, <1>4, <1>5 DEF t

LEMMA InitChains == Init => TypeOK /\ TopicsInv /\ NoneTwice
<1> SUFFICES ASSUME Init PROVE TypeOK /\ TopicsInv /\ NoneTwice
  OBVIOUS
<1> USE NoneAssumption, TablesAssumption, MaxAssumption, CapAssumption DEF Init
<1>1. TypeOK
  BY DEF TypeOK, Workers, Objects, Result
<1>2. Started = {}
  BY DEF Started
<1>3. \A w \in Workers : Queued(w) = {} /\ ToPublish(w) = {} /\ Holds(w) = {}
  BY DEF Queued, Elements, ToPublish, Holds, Working
<1>4. TopicsInv
  BY <1>2, <1>3 DEF TopicsInv, StepsAsWritten, OneWorkerToAChain, PassersGoOn, ObjectsExist,
     ResultsAreOwn, PassedAreOwn, GivenOnTopic, ResultTopics, LoadedIsTopic, Working
<1>5. NoneTwice
  BY <1>2, <1>3 DEF NoneTwice, NotTakenYet, NewNotTaken, TakenBehind
<1> QED
  BY <1>1, <1>4, <1>5

\* Nobody else reads the topic of a chain that hands messages on.
LEMMA OnlyReader ==
  ASSUME TypeOK, TopicsInv, NothingShared(table),
         NEW v \in Started, NEW u \in Started, Passer(v), InTopic(u) = InTopic(v)
  PROVE  u = v
<1>1. chain[v] \in Chains /\ chain[u] \in Chains /\ table.topic[chain[v]] # None
  BY NoneAssumption DEF TypeOK, TopicsInv, StepsAsWritten, Started, InTopic
<1>2. chain[u] = chain[v]
  BY <1>1 DEF NothingShared, Passer, InTopic
<1>3. chain[v] \notin stopped
  BY <1>1 DEF TopicsInv, PassersGoOn, Passer
<1> QED
  BY <1>2, <1>3 DEF TopicsInv, OneWorkerToAChain

\* An object that its publisher has let go of is delivered.
LEMMA Delivered ==
  ASSUME TypeOK, TopicsInv, NothingShared(table), UNCHANGED managerVars,
         NEW o \in Objects, NEW t \in Topics, Deliver(o, t),
         \A u \in Workers :
           /\ ToPublish(u)' \subseteq ToPublish(u) \ {o}
           /\ Working(u)' => Working(u) /\ msg'[u] = msg[u] /\ msg[u] # o
           /\ o \notin Queued(u)
  PROVE  /\ ch' \in [Workers -> Seq(Objects)] /\ \A u \in Workers : Len(ch'[u]) <= Cap
         /\ \A u \in Workers : \/ ch'[u] = ch[u] /\ Queued(u)' = Queued(u)
                               \/ /\ u \in Started /\ InTopic(u) = t
                                  /\ Queued(u)' = Queued(u) \cup {o}
         /\ \A u \in Workers : u \notin Started => ch'[u] = ch[u]
         /\ \A u \in Workers : \A x \in ToPublish(u)' : Own(u, x)' /\ x \notin Queued(u)'
         /\ PassedAreOwn'
<1>1. \A u \in Workers : ch[u] \in Seq(Objects) /\ Len(ch[u]) <= Cap
  BY DEF TypeOK
<1>2. \A u \in Workers : \/ ch'[u] = ch[u]
                         \/ /\ u \in Started /\ InTopic(u) = t /\ Len(ch[u]) < Cap
                            /\ ch'[u] = Append(ch[u], o)
  BY DEF Deliver, InTopic
<1>3. \A u \in Workers : /\ Append(ch[u], o) \in Seq(Objects)
                         /\ Len(ch[u]) < Cap => Len(Append(ch[u], o)) <= Cap
                         /\ Elements(Append(ch[u], o)) = Elements(ch[u]) \cup {o}
                         /\ Distinct(ch[u]) => Distinct(Append(ch[u], o))
  BY <1>1, CapAssumption, OfAppend DEF Queued
<1>4. ch' \in [Workers -> Seq(Objects)] /\ \A u \in Workers : Len(ch'[u]) <= Cap
  <2>1. ch' = [u \in Workers |-> ch'[u]]
    BY DEF Deliver
  <2>2. \A u \in Workers : ch'[u] \in Seq(Objects) /\ Len(ch'[u]) <= Cap
    BY <1>1, <1>2, <1>3
  <2> QED
    BY <2>1, <2>2
<1>5. \A u \in Workers : \/ ch'[u] = ch[u] /\ Queued(u)' = Queued(u)
                         \/ /\ u \in Started /\ InTopic(u) = t
                            /\ Queued(u)' = Queued(u) \cup {o}
  BY <1>2, <1>3 DEF Queued
<1>6. \A u \in Workers : u \notin Started => ch'[u] = ch[u]
  BY <1>2
<1>7. \A u \in Workers : /\ Holds(u)' \subseteq Holds(u) \cup {o}
                         /\ o \in Holds(u)' => u \in Started /\ InTopic(u) = t
  BY <1>5 DEF Holds
<1>8. \A u \in Workers : \A x \in ToPublish(u)' : Own(u, x)' /\ x \notin Queued(u)'
  <2> SUFFICES ASSUME NEW u \in Workers, NEW x \in ToPublish(u)'
               PROVE  Own(u, x)' /\ x \notin Queued(u)'
    OBVIOUS
  <2>1. x # o /\ Own(u, x) /\ x \notin Queued(u)
    BY DEF TopicsInv, ResultsAreOwn
  <2> QED
    BY <1>5, <1>7, <2>1 DEF Own
<1>9. PassedAreOwn'
  <2>0. Started' = Started /\ \A u \in Started : (Passer(u)' <=> Passer(u))
    BY DEF Started, Passer, managerVars
  <2> SUFFICES ASSUME NEW u \in Started
               PROVE  /\ Distinct(ch'[u])
                      /\ Passer(u) => /\ \A x \in Holds(u)' : Own(u, x)'
                                      /\ Working(u)' => msg'[u] \notin Queued(u)'
    BY <2>0 DEF PassedAreOwn
  <2>1. u \in Workers /\ Distinct(ch[u])
    BY DEF TopicsInv, PassedAreOwn, Started
  <2>2. Distinct(ch'[u])
    BY <1>2, <1>3, <2>1
  <2>3. ASSUME Passer(u), NEW x \in Holds(u)'
        PROVE  Own(u, x)'
    <3>1. CASE x = o
      <4>1. ASSUME NEW v \in Workers, o \in Holds(v)'
            PROVE  v = u
        BY <1>7, <2>1, <2>3, <3>1, <4>1, OnlyReader
      <4> QED
        BY <3>1, <4>1 DEF Own
    <3>2. CASE x # o
      <4>1. Own(u, x)
        BY <1>7, <2>1, <2>3, <3>2 DEF TopicsInv, PassedAreOwn
      <4> QED
        BY <1>7, <3>2, <4>1 DEF Own
    <3> QED
      BY <3>1, <3>2
  <2>4. ASSUME Passer(u), Working(u)'
        PROVE  msg'[u] \notin Queued(u)'
    BY <1>5, <2>1, <2>4 DEF TopicsInv, PassedAreOwn
  <2> QED
    BY <2>2, <2>3, <2>4
<1> QED
  BY <1>4, <1>5, <1>6, <1>8, <1>9

\* What everyone holds has a topic.
LEMMA HeldHaveTopics ==
  ASSUME TypeOK, TopicsInv
  PROVE  /\ Len(topicOf) \in Nat /\ DOMAIN topicOf = 1 .. Len(topicOf)
         /\ \A w \in Workers : \A o \in Holds(w) : o \in 1 .. Len(topicOf) /\ topicOf[o] \in Topics
         /\ \A w \in Workers : \A i \in DOMAIN results[w] :
              results[w][i].obj \in Holds(w) /\ results[w][i] \in Result
         /\ \A w \in Workers : results[w] # <<>> =>
              Head(results[w]) = results[w][1] /\ 1 \in DOMAIN results[w]
         /\ \A w \in Workers : Queued(w) \subseteq Holds(w) /\ ToPublish(w) \subseteq Holds(w)
         /\ \A w \in Workers : Working(w) => msg[w] \in Holds(w)
         /\ \A w \in Workers : pc[w] # "idle" => w \in Started
<1>1. /\ Len(topicOf) \in Nat /\ DOMAIN topicOf = 1 .. Len(topicOf)
      /\ \A o \in 1 .. Len(topicOf) : topicOf[o] \in Topics
  BY DEF TypeOK
<1>2. \A w \in Workers : results[w] \in Seq(Result)
  BY DEF TypeOK
<1>3. \A q \in Seq(Result) : /\ \A i \in DOMAIN q : q[i] \in Result
                             /\ q # <<>> => Head(q) = q[1] /\ 1 \in DOMAIN q
  OBVIOUS
<1>4. \A w \in Workers : \A i \in DOMAIN results[w] : results[w][i].obj \in Holds(w)
  BY DEF Holds, ToPublish
<1>5. \A w \in Workers : pc[w] # "idle" => w \in Started
  BY DEF TopicsInv, StepsAsWritten
<1>6. \A w \in Workers : Holds(w) \subseteq 1 .. Len(topicOf)
  BY DEF TopicsInv, ObjectsExist
<1> QED
  BY <1>1, <1>2, <1>3, <1>4, <1>5, <1>6 DEF Holds

LEMMA SameResult ==
  ASSUME NEW w, NEW i, results'[w] = results[w], pc'[w] = pc[w], UNCHANGED <<table, chain>>,
         topicOf'[results[w][i].obj] = topicOf[results[w][i].obj], ResultTopic(w, i)
  PROVE  ResultTopic(w, i)'
<1>1. InTopic(w)' = InTopic(w) /\ table'.outTopic[chain'[w]] = table.outTopic[chain[w]]
  BY DEF InTopic
<1> QED
  BY <1>1 DEF ResultTopic

LEMMA InjectKeeps ==
  ASSUME TypeOK, TopicsInv, NothingShared(table), NEW t \in Topics, Inject(t)
  PROVE  TypeOK' /\ TopicsInv'
<1> DEFINE n == Len(topicOf) + 1
<1>0. /\ Len(topicOf) \in Nat /\ n \in Objects /\ n \notin 1 .. Len(topicOf)
      /\ topicOf' = Append(topicOf, t) /\ Deliver(n, t)
      /\ UNCHANGED <<managerVars, pc, msg, results, loaded, taken>>
  BY HeldHaveTopics, MaxAssumption DEF Inject, Objects
<1>1. /\ topicOf' \in Seq(Topics) /\ Len(topicOf') = Len(topicOf) + 1
      /\ \A o \in 1 .. Len(topicOf) : topicOf'[o] = topicOf[o]
      /\ topicOf'[n] = t
  BY <1>0 DEF TypeOK
<1> HIDE DEF n
<1>2. \A u \in Workers :
        /\ ToPublish(u)' = ToPublish(u) /\ n \notin ToPublish(u)
        /\ (Working(u)' <=> Working(u)) /\ msg'[u] = msg[u] /\ (Working(u) => msg[u] # n)
        /\ n \notin Queued(u)
  BY <1>0, HeldHaveTopics DEF ToPublish, Working
<1>3. /\ ch' \in [Workers -> Seq(Objects)] /\ \A u \in Workers : Len(ch'[u]) <= Cap
      /\ \A u \in Workers : \/ ch'[u] = ch[u] /\ Queued(u)' = Queued(u)
                            \/ /\ u \in Started /\ InTopic(u) = t
                               /\ Queued(u)' = Queued(u) \cup {n}
      /\ \A u \in Workers : u \notin Started => ch'[u] = ch[u]
      /\ \A u \in Workers : \A x \in ToPublish(u)' : Own(u, x)' /\ x \notin Queued(u)'
      /\ PassedAreOwn'
  <2>1. \A u \in Workers :
           /\ ToPublish(u)' \subseteq ToPublish(u) \ {n}
           /\ Working(u)' => Working(u) /\ msg'[u] = msg[u] /\ msg[u] # n
           /\ n \notin Queued(u)
    BY <1>2
  <2>2. UNCHANGED managerVars /\ n \in Objects /\ Deliver(n, t)
    BY <1>0
  <2> QED
    BY <2>1, <2>2, Delivered
<1>4. TypeOK'
  BY <1>0, <1>1, <1>3, TablesAssumption DEF TypeOK, Inject, managerVars
<1>5. \A u \in Workers : /\ InTopic(u)' = InTopic(u) /\ (Passer(u)' <=> Passer(u))
                         /\ (u \in Started' <=> u \in Started)
  BY <1>0 DEF InTopic, Passer, Started, managerVars
<1>6. StepsAsWritten'
  BY <1>0, <1>3, <1>5 DEF TopicsInv, StepsAsWritten
<1>7. OneWorkerToAChain' /\ PassersGoOn'
  BY <1>0, <1>5 DEF TopicsInv, OneWorkerToAChain, PassersGoOn, managerVars, Started
<1>8. ObjectsExist'
  <2>1. \A u \in Workers : Holds(u)' \subseteq Holds(u) \cup {n}
    BY <1>2, <1>3 DEF Holds
  <2>2. 1 .. Len(topicOf) \subseteq 1 .. Len(topicOf') /\ n \in 1 .. Len(topicOf')
    BY <1>0, <1>1 DEF n
  <2> QED
    BY <2>1, <2>2 DEF TopicsInv, ObjectsExist
<1>9. ResultsAreOwn'
  BY <1>0, <1>2, <1>3, <1>5 DEF TopicsInv, ResultsAreOwn
<1>10. GivenOnTopic'
  <2>1. \A u \in Workers : \A o \in Queued(u)' : topicOf'[o] = InTopic(u)
    BY <1>1, <1>3, HeldHaveTopics DEF TopicsInv, GivenOnTopic
  <2>2. \A u \in Workers : Working(u) => topicOf'[msg[u]] = topicOf[msg[u]]
    BY <1>1, HeldHaveTopics
  <2>3. \A u \in Workers :
          Working(u)' /\ (pc'[u] = "publish" => msg'[u] \notin ToPublish(u)')
            => topicOf'[msg'[u]] = InTopic(u)
    BY <1>0, <1>2, <2>2 DEF TopicsInv, GivenOnTopic
  <2> QED
    BY <1>5, <2>1, <2>3 DEF GivenOnTopic
<1>11. ResultTopics' /\ LoadedIsTopic'
  <2>1. \A u \in Workers : \A i \in DOMAIN results[u] :
          topicOf'[results[u][i].obj] = topicOf[results[u][i].obj]
    BY <1>1, HeldHaveTopics
  <2>2. \A u \in Workers : pc[u] = "redirect" => 1 \in DOMAIN results[u]
    BY HeldHaveTopics DEF TopicsInv, StepsAsWritten
  <2>3. ResultTopics'
    BY <1>0, <2>1, SameResult DEF TopicsInv, ResultTopics, managerVars
  <2>4. LoadedIsTopic'
    BY <1>0, <2>1, <2>2 DEF TopicsInv, LoadedIsTopic
  <2> QED
    BY <2>3, <2>4
<1> QED
  BY <1>3, <1>4, <1>6, <1>7, <1>8, <1>9, <1>10, <1>11 DEF TopicsInv

LEMMA PublishResultKeeps ==
  ASSUME TypeOK, TopicsInv, NothingShared(table), NEW w \in Workers, PublishResult(w)
  PROVE  TypeOK' /\ TopicsInv'
<1> DEFINE o == results[w][1].obj
           t == topicOf[o]
           rest == Tail(results[w])
<1>0. /\ pc[w] = "publish" /\ results[w] # <<>> /\ results[w] \in Seq(Result) /\ w \in Started
      /\ Working(w) /\ msg[w] \in Holds(w)
      /\ Head(results[w]) = results[w][1] /\ 1 \in DOMAIN results[w] /\ results[w][1] \in Result
      /\ o \in ToPublish(w) /\ o \in Objects /\ t \in Topics
  <2>1. pc[w] = "publish" /\ results[w] \in Seq(Result)
    BY DEF PublishResult, TypeOK
  <2>2. results[w] # <<>> /\ Working(w)
    BY <2>1 DEF TopicsInv, StepsAsWritten, Working
  <2> QED
    BY <2>1, <2>2, HeldHaveTopics DEF ToPublish, Result, Working
<1>1. /\ Deliver(o, t) /\ UNCHANGED <<managerVars, msg, loaded, topicOf, taken, injected>>
      /\ results' = [results EXCEPT ![w] = rest]
      /\ pc' = [pc EXCEPT ![w] = IF rest = <<>> THEN "idle" ELSE "load"]
  BY <1>0 DEF PublishResult, Continue
<1>2. /\ rest \in Seq(Result)
      /\ \A i \in DOMAIN rest : i + 1 \in DOMAIN results[w] /\ i + 1 # 1 /\ rest[i] = results[w][i + 1]
      /\ \A i \in DOMAIN rest : i \in Nat
      /\ rest # <<>> => Len(results[w]) # 1
  <2>1. /\ rest \in Seq(Result)
        /\ \A i \in DOMAIN rest : i + 1 \in DOMAIN results[w] /\ i + 1 # 1 /\ rest[i] = results[w][i + 1]
    BY <1>0, OfTail
  <2> QED
    BY <1>0, <2>1
<1>3. /\ results'[w] = rest /\ pc'[w] = IF rest = <<>> THEN "idle" ELSE "load"
      /\ \A u \in Workers \ {w} : results'[u] = results[u] /\ pc'[u] = pc[u]
  BY <1>1 DEF TypeOK
<1>4. /\ ToPublish(w)' \subseteq ToPublish(w) \ {o}
      /\ \A u \in Workers \ {w} : ToPublish(u)' = ToPublish(u) /\ o \notin Holds(u)
      /\ o \notin Queued(w)
      /\ Working(w)' => msg[w] # o /\ msg[w] \notin ToPublish(w)
  <2>1. \A i \in DOMAIN rest : rest[i].obj \in ToPublish(w) /\ rest[i].obj # o
    BY <1>0, <1>2 DEF ToPublish, TopicsInv, ResultsAreOwn
  <2>2. ToPublish(w)' = {rest[i].obj : i \in DOMAIN rest}
    BY <1>3 DEF ToPublish
  <2>3. \A u \in Workers \ {w} : ToPublish(u)' = ToPublish(u)
    BY <1>3 DEF ToPublish
  <2>4. Own(w, o) /\ o \notin Queued(w)
    BY <1>0 DEF TopicsInv, ResultsAreOwn
  <2>5. Working(w)' => rest # <<>>
    BY <1>3 DEF Working
  <2>6. rest # <<>> => msg[w] \notin ToPublish(w)
    BY <1>2 DEF TopicsInv, ResultsAreOwn
  <2> QED
    BY <1>0, <2>1, <2>2, <2>3, <2>4, <2>5, <2>6 DEF Own
<1>5. \A u \in Workers :
        /\ ToPublish(u)' \subseteq ToPublish(u) \ {o}
        /\ Working(u)' => Working(u) /\ msg'[u] = msg[u] /\ msg[u] # o
        /\ o \notin Queued(u)
  <2>1. \A u \in Workers \ {w} : /\ o \notin ToPublish(u) /\ o \notin Queued(u)
                                 /\ Working(u) => msg[u] # o
    BY <1>4 DEF Holds
  <2>2. \A u \in Workers \ {w} : Working(u)' => Working(u)
    BY <1>3 DEF Working
  <2> QED
    BY <1>0, <1>1, <1>4, <2>1, <2>2
<1> HIDE DEF o, t, rest
<1>6. /\ ch' \in [Workers -> Seq(Objects)] /\ \A u \in Workers : Len(ch'[u]) <= Cap
      /\ \A u \in Workers : \/ ch'[u] = ch[u] /\ Queued(u)' = Queued(u)
                            \/ /\ u \in Started /\ InTopic(u) = t
                               /\ Queued(u)' = Queued(u) \cup {o}
      /\ \A u \in Workers : u \notin Started => ch'[u] = ch[u]
      /\ \A u \in Workers : \A x \in ToPublish(u)' : Own(u, x)' /\ x \notin Queued(u)'
      /\ PassedAreOwn'
  <2>1. UNCHANGED managerVars /\ o \in Objects /\ t \in Topics /\ Deliver(o, t)
    BY <1>0, <1>1
  <2> QED
    BY <1>5, <2>1, Delivered
<1>7. TypeOK'
  <2>1. results' \in [Workers -> Seq(Result)]
        /\ pc' \in [Workers -> {"idle", "process", "load", "redirect", "publish"}]
    BY <1>1, <1>2 DEF TypeOK
  <2> QED
    BY <1>1, <1>6, <2>1 DEF TypeOK, managerVars
<1>8. \A u \in Workers : /\ InTopic(u)' = InTopic(u) /\ (Passer(u)' <=> Passer(u))
                         /\ (u \in Started' <=> u \in Started)
  BY <1>1 DEF InTopic, Passer, Started, managerVars
<1>9. StepsAsWritten'
  <2>1. \A u \in Workers \ {w} :
          /\ u \notin Started' => ch'[u] = <<>> /\ pc'[u] = "idle"
          /\ u \in Started' => InTopic(u)' \in Topics
          /\ pc'[u] \in {"idle", "process"} <=> results'[u] = <<>>
          /\ pc'[u] # "idle" => msg'[u] \in Objects
    BY <1>1, <1>3, <1>6, <1>8 DEF TopicsInv, StepsAsWritten
  <2>2. /\ w \in Started' /\ InTopic(w)' \in Topics
        /\ pc'[w] \in {"idle", "process"} <=> results'[w] = <<>>
        /\ pc'[w] # "idle" => msg'[w] \in Objects
    BY <1>0, <1>1, <1>3, <1>8 DEF TopicsInv, StepsAsWritten
  <2> QED
    BY <2>1, <2>2 DEF StepsAsWritten
<1>10. OneWorkerToAChain' /\ PassersGoOn'
  BY <1>1, <1>8 DEF TopicsInv, OneWorkerToAChain, PassersGoOn, managerVars, Started
<1>11. ObjectsExist'
  <2>1. \A u \in Workers : Holds(u)' \subseteq Holds(u) \cup {o}
    BY <1>5, <1>6 DEF Holds
  <2>2. o \in 1 .. Len(topicOf)
    BY <1>0, HeldHaveTopics
  <2> QED
    BY <1>1, <2>1, <2>2 DEF TopicsInv, ObjectsExist
<1>12. ResultsAreOwn'
  <2>1. \A u \in Workers \ {w} :
          /\ \A i, j \in DOMAIN results'[u] : results'[u][i].obj = results'[u][j].obj => i = j
          /\ msg'[u] \in ToPublish(u)' =>
               Passer(u)' /\ Len(results'[u]) = 1 /\ results'[u][1].topic = None
    BY <1>1, <1>3, <1>4, <1>8 DEF TopicsInv, ResultsAreOwn
  <2>2. \A i, j \in DOMAIN rest : rest[i].obj = rest[j].obj => i = j
    <3> SUFFICES ASSUME NEW i \in DOMAIN rest, NEW j \in DOMAIN rest, rest[i].obj = rest[j].obj
                 PROVE  i = j
      OBVIOUS
    <3>1. i + 1 = j + 1
      BY <1>2 DEF TopicsInv, ResultsAreOwn
    <3> QED
      BY <1>2, <3>1
  <2>3. msg'[w] \notin ToPublish(w)'
    <3>1. CASE rest = <<>>
      BY <1>3, <3>1 DEF ToPublish
    <3>2. CASE rest # <<>>
      BY <1>1, <1>3, <1>4, <3>2 DEF Working
    <3> QED
      BY <3>1, <3>2
  <2> QED
    BY <1>3, <1>6, <2>1, <2>2, <2>3 DEF ResultsAreOwn
<1>13. GivenOnTopic'
  <2>1. \A u \in Workers : \A x \in Queued(u)' : topicOf'[x] = InTopic(u)'
    BY <1>1, <1>6, <1>8 DEF TopicsInv, GivenOnTopic, t
  <2>2. \A u \in Workers \ {w} :
          Working(u)' /\ (pc'[u] = "publish" => msg'[u] \notin ToPublish(u)')
            => topicOf'[msg'[u]] = InTopic(u)'
    BY <1>1, <1>3, <1>4, <1>8 DEF TopicsInv, GivenOnTopic, Working
  <2>3. Working(w)' => topicOf'[msg'[w]] = InTopic(w)'
    BY <1>0, <1>1, <1>4, <1>8 DEF TopicsInv, GivenOnTopic
  <2> QED
    BY <2>1, <2>2, <2>3 DEF GivenOnTopic
<1>14. ResultTopics'
  <2>1. \A u \in Workers \ {w} : \A i \in DOMAIN results'[u] : ResultTopic(u, i)'
    BY <1>1, <1>3, SameResult DEF TopicsInv, ResultTopics, managerVars
  <2>2. ASSUME NEW i \in DOMAIN results'[w]
        PROVE  ResultTopic(w, i)'
    <3>1. /\ i + 1 \in DOMAIN results[w] /\ i + 1 # 1 /\ rest[i] = results[w][i + 1]
          /\ ResultTopic(w, i + 1)
      BY <1>2, <1>3, <2>2 DEF TopicsInv, ResultTopics
    <3>2. pc'[w] # "publish" /\ results'[w][i] = results[w][i + 1]
      BY <1>3, <3>1
    <3>3. topicOf' = topicOf /\ InTopic(w)' = InTopic(w) /\ table' = table /\ chain' = chain
      BY <1>1, <1>8 DEF managerVars
    <3> QED
      BY <3>1, <3>2, <3>3 DEF ResultTopic
  <2> QED
    BY <2>1, <2>2 DEF ResultTopics
<1>15. LoadedIsTopic'
  BY <1>1, <1>3 DEF TopicsInv, LoadedIsTopic
<1> QED
  BY <1>6, <1>7, <1>9, <1>10, <1>11, <1>12, <1>13, <1>14, <1>15 DEF TopicsInv

\* Nothing is held that was not held before.
LEMMA Shrunk ==
  ASSUME TopicsInv, UNCHANGED <<table, topicOf>>,
         Len(topicOf) \in Nat,
         \A u \in Workers : Holds(u)' \subseteq Holds(u)
  PROVE  /\ \A u \in Workers : \A x : Own(u, x) => Own(u, x)'
         /\ ObjectsExist'
<1>1. \A u \in Workers : \A x : Own(u, x) => Own(u, x)'
  BY DEF Own
<1>2. ObjectsExist'
  BY DEF TopicsInv, ObjectsExist
<1> QED
  BY <1>1, <1>2

LEMMA StartPipelineKeeps ==
  ASSUME TypeOK, TopicsInv, NEW c \in Chains, NEW w \in Workers, StartPipeline(c, w)
  PROVE  TypeOK' /\ TopicsInv'
<1>0. /\ c \notin pipelines /\ w \notin Started
      /\ pipelines' = pipelines \cup {c}
      /\ chain' = IF table.topic[c] # None THEN [chain EXCEPT ![w] = c] ELSE chain
      /\ UNCHANGED <<table, stopped, ch, pc, msg, results, loaded, topicOf, taken, injected>>
  BY DEF StartPipeline, Fresh
<1>1. /\ \A u \in Workers \ {w} : chain'[u] = chain[u]
      /\ chain'[w] \in {None, c} /\ (chain'[w] = c => table.topic[c] # None)
      /\ c # None
      /\ chain' \in [Workers -> Chains \cup {None}]
  BY <1>0, NoneAssumption DEF TypeOK, Started
<1>2. TypeOK'
  BY <1>0, <1>1 DEF TypeOK
<1>3. /\ ch[w] = <<>> /\ pc[w] = "idle" /\ results[w] = <<>>
      /\ Queued(w) = {} /\ ToPublish(w) = {} /\ Holds(w) = {}
  <2>1. ch[w] = <<>> /\ pc[w] = "idle" /\ results[w] = <<>>
    BY <1>0 DEF TopicsInv, StepsAsWritten
  <2> QED
    BY <2>1 DEF Queued, Elements, ToPublish, Holds, Working
<1>4. \A u \in Workers \ {w} : /\ InTopic(u)' = InTopic(u) /\ (Passer(u)' <=> Passer(u))
                               /\ (u \in Started' <=> u \in Started)
  BY <1>0, <1>1 DEF InTopic, Passer, Started
<1>5. \A u \in Workers : /\ Queued(u)' = Queued(u) /\ ToPublish(u)' = ToPublish(u)
                         /\ Holds(u)' = Holds(u) /\ (Working(u)' <=> Working(u))
  BY <1>0 DEF Queued, ToPublish, Holds, Working
<1>6. StepsAsWritten'
  <2>1. w \in Started' => InTopic(w)' \in Topics
    BY <1>0, <1>1, TablesAssumption DEF Started, InTopic, TypeOK
  <2> QED
    BY <1>0, <1>3, <1>4, <2>1 DEF TopicsInv, StepsAsWritten
<1>7. OneWorkerToAChain'
  <2> SUFFICES ASSUME NEW v \in Started', chain'[v] \notin stopped'
               PROVE  /\ chain'[v] \in pipelines'
                      /\ \A u \in Started' : chain'[u] = chain'[v] => u = v
    BY DEF OneWorkerToAChain
  <2>1. CASE v = w
    <3>1. chain'[v] = c
      BY <1>1, <2>1 DEF Started
    <3>2. \A u \in Started : chain[u] # c
      BY <1>0, <3>1 DEF TopicsInv, OneWorkerToAChain
    <3> QED
      BY <1>0, <1>1, <1>4, <2>1, <3>1, <3>2 DEF Started
  <2>2. CASE v # w
    <3>1. v \in Started /\ chain'[v] = chain[v] /\ chain[v] \in pipelines
      BY <1>0, <1>1, <1>4, <2>2 DEF TopicsInv, OneWorkerToAChain, Started
    <3>2. chain'[w] # chain[v]
      BY <1>0, <1>1, <3>1 DEF Started
    <3> QED
      BY <1>0, <1>1, <1>4, <3>1, <3>2 DEF TopicsInv, OneWorkerToAChain, Started
  <2> QED
    BY <2>1, <2>2
<1>8. PassersGoOn'
  BY <1>0 DEF TopicsInv, PassersGoOn
<1>9. ObjectsExist' /\ \A u \in Workers : \A x : Own(u, x) => Own(u, x)'
  BY <1>0, <1>5, HeldHaveTopics, Shrunk
<1>10. ResultsAreOwn'
  <2>1. \A u \in Workers : \A x \in ToPublish(u)' : Own(u, x)' /\ x \notin Queued(u)'
    BY <1>5, <1>9 DEF TopicsInv, ResultsAreOwn
  <2>2. \A u \in Workers : msg'[u] \in ToPublish(u)' =>
          Passer(u)' /\ Len(results'[u]) = 1 /\ results'[u][1].topic = None
    BY <1>0, <1>3, <1>4, <1>5 DEF TopicsInv, ResultsAreOwn
  <2> QED
    BY <1>0, <2>1, <2>2 DEF TopicsInv, ResultsAreOwn
<1>11. PassedAreOwn'
  <2>1. \A u \in Started' : Distinct(ch'[u])
    <3>1. Distinct(ch[w])
      BY <1>3 DEF Distinct
    <3> QED
      BY <1>0, <1>4, <3>1 DEF TopicsInv, PassedAreOwn, Started
  <2>2. ASSUME NEW u \in Started', Passer(u)'
        PROVE  (\A x \in Holds(u)' : Own(u, x)') /\ (Working(u)' => msg'[u] \notin Queued(u)')
    <3>1. u \in Workers
      BY DEF Started
    <3>2. CASE u = w
      BY <1>3, <1>5, <3>2 DEF Working
    <3>3. CASE u # w
      BY <1>0, <1>4, <1>5, <1>9, <2>2, <3>1, <3>3 DEF TopicsInv, PassedAreOwn
    <3> QED
      BY <3>2, <3>3
  <2> QED
    BY <2>1, <2>2 DEF PassedAreOwn
<1>12. GivenOnTopic'
  BY <1>0, <1>3, <1>4, <1>5 DEF TopicsInv, GivenOnTopic, Working
<1>13. ResultTopics'
  <2>1. ASSUME NEW u \in Workers, NEW i \in DOMAIN results'[u]
        PROVE  ResultTopic(u, i)'
    <3>1. u # w /\ i \in DOMAIN results[u] /\ ResultTopic(u, i)
      BY <1>0, <1>3, <2>1 DEF TopicsInv, ResultTopics
    <3>2. chain'[u] = chain[u] /\ InTopic(u)' = InTopic(u)
      BY <1>1, <1>4, <3>1
    <3> QED
      BY <1>0, <3>1, <3>2 DEF ResultTopic
  <2> QED
    BY <2>1 DEF ResultTopics
<1>14. LoadedIsTopic'
  BY <1>0 DEF TopicsInv, LoadedIsTopic
<1> QED
  BY <1>2, <1>6, <1>7, <1>8, <1>9, <1>10, <1>11, <1>12, <1>13, <1>14 DEF TopicsInv

LEMMA ForgetKeeps ==
  ASSUME TypeOK, TopicsInv, NEW chains \in SUBSET Chains, Forget(chains), PassersGoOn'
  PROVE  TypeOK' /\ TopicsInv'
<1>0. /\ pipelines' = pipelines \ chains /\ stopped' = stopped \cup (pipelines \cap chains)
      /\ UNCHANGED <<table, chain, ch, pc, msg, results, loaded, topicOf, taken, injected>>
  BY DEF Forget
<1>1. TypeOK'
  BY <1>0 DEF TypeOK
<1>2. /\ Started' = Started
      /\ \A u \in Workers : InTopic(u)' = InTopic(u) /\ (Passer(u)' <=> Passer(u))
      /\ \A u \in Workers : /\ Queued(u)' = Queued(u) /\ ToPublish(u)' = ToPublish(u)
                            /\ Holds(u)' = Holds(u) /\ (Working(u)' <=> Working(u))
      /\ \A u \in Workers : \A x : Own(u, x)' <=> Own(u, x)
  BY <1>0 DEF Started, InTopic, Passer, Queued, ToPublish, Holds, Working, Own
<1>3. StepsAsWritten' /\ ObjectsExist'
  BY <1>0, <1>2 DEF TopicsInv, StepsAsWritten, ObjectsExist
<1>4. OneWorkerToAChain'
  BY <1>0, <1>2 DEF TopicsInv, OneWorkerToAChain
<1>5. ResultsAreOwn'
  BY <1>0, <1>2 DEF TopicsInv, ResultsAreOwn
<1>6. PassedAreOwn'
  BY <1>0, <1>2 DEF TopicsInv, PassedAreOwn, Started
<1>7. GivenOnTopic'
  BY <1>0, <1>2 DEF TopicsInv, GivenOnTopic
<1>8. ResultTopics'
  BY <1>0, SameResult DEF TopicsInv, ResultTopics
<1>9. LoadedIsTopic'
  BY <1>0 DEF TopicsInv, LoadedIsTopic
<1> QED
  BY <1>1, <1>3, <1>4, <1>5, <1>6, <1>7, <1>8, <1>9 DEF TopicsInv

LEMMA TakeKeeps ==
  ASSUME TypeOK, TopicsInv, NEW w \in Workers, Take(w)
  PROVE  TypeOK' /\ TopicsInv'
<1> DEFINE o == Head(ch[w])
<1>0. /\ w \in Started /\ pc[w] = "idle" /\ ch[w] # <<>> /\ ch[w] \in Seq(Objects)
      /\ msg' = [msg EXCEPT ![w] = o] /\ ch' = [ch EXCEPT ![w] = Tail(@)]
      /\ pc' = [pc EXCEPT ![w] = "process"]
      /\ taken' = [taken EXCEPT ![chain[w]][o] = IF @ < 2 THEN @ + 1 ELSE 2]
      /\ UNCHANGED <<managerVars, results, loaded, topicOf, injected>>
      /\ results[w] = <<>> /\ chain[w] \in Chains
  BY DEF Take, TypeOK, TopicsInv, StepsAsWritten, Started
<1>1. /\ o \in Elements(ch[w]) /\ o \in Objects
      /\ Tail(ch[w]) \in Seq(Objects) /\ Elements(Tail(ch[w])) \subseteq Elements(ch[w])
      /\ Distinct(ch[w]) => Distinct(Tail(ch[w])) /\ o \notin Elements(Tail(ch[w]))
  BY <1>0, OfTail
<1>2. Len(Tail(ch[w])) <= Cap
  BY <1>0, CapAssumption DEF TypeOK
<1> HIDE DEF o
<1>3. /\ msg'[w] = o /\ ch'[w] = Tail(ch[w]) /\ pc'[w] = "process"
      /\ \A u \in Workers \ {w} : ch'[u] = ch[u] /\ pc'[u] = pc[u] /\ msg'[u] = msg[u]
  BY <1>0 DEF TypeOK
<1>4. TypeOK'
  <2>1. taken' \in [Chains -> [Objects -> 0 .. 2]]
    <3>1. taken[chain[w]][o] \in 0 .. 2
      BY <1>0, <1>1 DEF TypeOK
    <3>2. (IF taken[chain[w]][o] < 2 THEN taken[chain[w]][o] + 1 ELSE 2) \in 0 .. 2
      BY <3>1
    <3> QED
      BY <1>0, <1>1, <3>2 DEF TypeOK
  <2>2. msg' \in [Workers -> Objects \cup {None}] /\ ch' \in [Workers -> Seq(Objects)]
        /\ pc' \in [Workers -> {"idle", "process", "load", "redirect", "publish"}]
    BY <1>0, <1>1 DEF TypeOK
  <2>3. \A u \in Workers : Len(ch'[u]) <= Cap
    BY <1>2, <1>3 DEF TypeOK
  <2> QED
    BY <1>0, <2>1, <2>2, <2>3 DEF TypeOK, managerVars
<1>5. /\ Started' = Started
      /\ \A u \in Workers : InTopic(u)' = InTopic(u) /\ (Passer(u)' <=> Passer(u))
      /\ \A u \in Workers : ToPublish(u)' = ToPublish(u)
      /\ \A u \in Workers \ {w} : Queued(u)' = Queued(u) /\ Holds(u)' = Holds(u)
                                  /\ (Working(u)' <=> Working(u))
  BY <1>0, <1>3 DEF Started, InTopic, Passer, Queued, ToPublish, Holds, Working, managerVars
<1>6. /\ Queued(w)' = Elements(Tail(ch[w])) /\ Queued(w)' \subseteq Queued(w) /\ o \in Queued(w)
      /\ ToPublish(w) = {} /\ Holds(w)' \subseteq Holds(w)
  BY <1>0, <1>1, <1>3, <1>5 DEF Queued, ToPublish, Holds
<1>7. StepsAsWritten'
  BY <1>0, <1>1, <1>3, <1>5 DEF TopicsInv, StepsAsWritten
<1>8. OneWorkerToAChain' /\ PassersGoOn'
  BY <1>0, <1>5 DEF TopicsInv, OneWorkerToAChain, PassersGoOn, managerVars
<1>9. ObjectsExist' /\ \A u \in Workers : \A x : Own(u, x) => Own(u, x)'
  BY <1>0, <1>5, <1>6, HeldHaveTopics, Shrunk DEF managerVars
<1>10. ResultsAreOwn'
  <2>1. \A u \in Workers : \A x \in ToPublish(u)' : Own(u, x)' /\ x \notin Queued(u)'
    BY <1>5, <1>6, <1>9 DEF TopicsInv, ResultsAreOwn
  <2>2. \A u \in Workers : msg'[u] \in ToPublish(u)' =>
          Passer(u)' /\ Len(results'[u]) = 1 /\ results'[u][1].topic = None
    BY <1>0, <1>3, <1>5, <1>6 DEF TopicsInv, ResultsAreOwn
  <2> QED
    BY <1>0, <2>1, <2>2 DEF TopicsInv, ResultsAreOwn
<1>11. PassedAreOwn'
  <2>1. \A u \in Started : Distinct(ch'[u])
    BY <1>1, <1>3 DEF TopicsInv, PassedAreOwn, Started
  <2>2. ASSUME NEW u \in Started, Passer(u)
        PROVE  (\A x \in Holds(u)' : Own(u, x)') /\ (Working(u)' => msg'[u] \notin Queued(u)')
    <3>1. u \in Workers
      BY DEF Started
    <3>2. CASE u = w
      BY <1>0, <1>1, <1>3, <1>6, <1>9, <2>2, <3>2 DEF TopicsInv, PassedAreOwn
    <3>3. CASE u # w
      BY <1>3, <1>5, <1>9, <2>2, <3>1, <3>3 DEF TopicsInv, PassedAreOwn
    <3> QED
      BY <3>2, <3>3
  <2>3. \A u \in Started : (Passer(u)' <=> Passer(u))
    BY <1>5 DEF Started
  <2> QED
    BY <1>5, <2>1, <2>2, <2>3 DEF PassedAreOwn
<1>12. GivenOnTopic'
  <2>1. \A u \in Workers \ {w} :
          /\ \A x \in Queued(u)' : topicOf'[x] = InTopic(u)'
          /\ Working(u)' /\ (pc'[u] = "publish" => msg'[u] \notin ToPublish(u)')
               => topicOf'[msg'[u]] = InTopic(u)'
    BY <1>0, <1>3, <1>5 DEF TopicsInv, GivenOnTopic
  <2>2. \A x \in Queued(w) : topicOf'[x] = InTopic(w)'
    BY <1>0, <1>5 DEF TopicsInv, GivenOnTopic
  <2> QED
    BY <1>3, <1>6, <2>1, <2>2 DEF GivenOnTopic
<1>13. ResultTopics'
  <2>1. ASSUME NEW u \in Workers, NEW i \in DOMAIN results'[u]
        PROVE  ResultTopic(u, i)'
    <3>1. u # w /\ i \in DOMAIN results[u] /\ ResultTopic(u, i)
      BY <1>0, <2>1 DEF TopicsInv, ResultTopics
    <3> QED
      BY <1>0, <1>3, <3>1, SameResult DEF managerVars
  <2> QED
    BY <2>1 DEF ResultTopics
<1>14. LoadedIsTopic'
  BY <1>0, <1>3 DEF TopicsInv, LoadedIsTopic
<1> QED
  BY <1>4, <1>7, <1>8, <1>9, <1>10, <1>11, <1>12, <1>13, <1>14 DEF TopicsInv

LEMMA LoadTopicKeeps ==
  ASSUME TypeOK, TopicsInv, NEW w \in Workers, LoadTopic(w)
  PROVE  TypeOK' /\ TopicsInv'
<1>0. /\ pc[w] = "load" /\ results[w] # <<>> /\ 1 \in DOMAIN results[w]
      /\ loaded' = [loaded EXCEPT ![w] = topicOf[results[w][1].obj]]
      /\ pc' = [pc EXCEPT ![w] = "redirect"]
      /\ UNCHANGED <<managerVars, ch, msg, results, topicOf, taken, injected>>
      /\ topicOf[results[w][1].obj] \in Topics
  <2>1. pc[w] = "load" /\ results[w] # <<>>
    BY DEF LoadTopic, TopicsInv, StepsAsWritten
  <2> QED
    BY <2>1, HeldHaveTopics DEF LoadTopic
<1>1. /\ pc'[w] = "redirect" /\ loaded'[w] = topicOf[results[w][1].obj]
      /\ \A u \in Workers \ {w} : pc'[u] = pc[u] /\ loaded'[u] = loaded[u]
  BY <1>0 DEF TypeOK
<1>2. TypeOK'
  BY <1>0 DEF TypeOK, managerVars
<1>3. /\ Started' = Started
      /\ \A u \in Workers : InTopic(u)' = InTopic(u) /\ (Passer(u)' <=> Passer(u))
      /\ \A u \in Workers : Queued(u)' = Queued(u) /\ ToPublish(u)' = ToPublish(u)
      /\ \A u \in Workers : (Working(u)' <=> Working(u))
  BY <1>0, <1>1 DEF Started, InTopic, Passer, Queued, ToPublish, Working, managerVars
<1>4. /\ \A u \in Workers : Holds(u)' = Holds(u)
      /\ \A u \in Workers : \A x : Own(u, x)' <=> Own(u, x)
  <2>1. \A u \in Workers : Holds(u)' = Holds(u)
    BY <1>0, <1>3 DEF Holds
  <2> QED
    BY <2>1 DEF Own
<1>5. StepsAsWritten' /\ ObjectsExist'
  BY <1>0, <1>1, <1>3, <1>4 DEF TopicsInv, StepsAsWritten, ObjectsExist
<1>6. OneWorkerToAChain' /\ PassersGoOn'
  BY <1>0, <1>3 DEF TopicsInv, OneWorkerToAChain, PassersGoOn, managerVars
<1>7. ResultsAreOwn'
  BY <1>0, <1>3, <1>4 DEF TopicsInv, ResultsAreOwn
<1>8. PassedAreOwn'
  BY <1>0, <1>3, <1>4 DEF TopicsInv, PassedAreOwn, Started
<1>9. GivenOnTopic'
  BY <1>0, <1>1, <1>3 DEF TopicsInv, GivenOnTopic
<1>10. ResultTopics'
  <2>1. ASSUME NEW u \in Workers, NEW i \in DOMAIN results'[u]
        PROVE  ResultTopic(u, i)'
    <3>1. i \in DOMAIN results[u] /\ ResultTopic(u, i)
      BY <1>0, <2>1 DEF TopicsInv, ResultTopics
    <3>2. pc'[u] # "publish" <=> pc[u] # "publish"
      BY <1>0, <1>1
    <3> QED
      BY <1>0, <1>3, <3>1, <3>2 DEF ResultTopic, managerVars
  <2> QED
    BY <2>1 DEF ResultTopics
<1>11. LoadedIsTopic'
  BY <1>0, <1>1 DEF TopicsInv, LoadedIsTopic
<1> QED
  BY <1>2, <1>5, <1>6, <1>7, <1>8, <1>9, <1>10, <1>11 DEF TopicsInv

LEMMA RedirectKeeps ==
  ASSUME TypeOK, TopicsInv, NEW w \in Workers, Redirect(w)
  PROVE  TypeOK' /\ TopicsInv'
<1> DEFINE o == results[w][1].obj
           out == table.outTopic[chain[w]]
<1>0. /\ pc[w] = "redirect" /\ results[w] # <<>> /\ 1 \in DOMAIN results[w] /\ w \in Started
      /\ topicOf' = IF Redirected(w) THEN [topicOf EXCEPT ![o] = out] ELSE topicOf
      /\ pc' = [pc EXCEPT ![w] = "publish"]
      /\ UNCHANGED <<managerVars, ch, msg, results, loaded, taken, injected>>
      /\ o \in ToPublish(w) /\ o \in 1 .. Len(topicOf)
      /\ chain[w] \in Chains /\ Working(w) /\ msg[w] \in 1 .. Len(topicOf)
      /\ Redirected(w) <=> out # None /\ topicOf[o] = topicOf[msg[w]]
  <2>1. pc[w] = "redirect" /\ results[w] # <<>> /\ Working(w)
    BY DEF Redirect, TopicsInv, StepsAsWritten, Working
  <2>2. 1 \in DOMAIN results[w] /\ Head(results[w]) = results[w][1] /\ w \in Started
        /\ o \in 1 .. Len(topicOf) /\ msg[w] \in 1 .. Len(topicOf)
    BY <2>1, HeldHaveTopics DEF Working
  <2>3. loaded[w] = topicOf[o]
    BY <2>1 DEF TopicsInv, LoadedIsTopic
  <2>4. chain[w] \in Chains
    BY <2>2 DEF Started, TypeOK
  <2> QED
    BY <2>1, <2>2, <2>3, <2>4 DEF Redirect, Redirected, ToPublish
<1>1. /\ pc'[w] = "publish"
      /\ \A u \in Workers \ {w} : pc'[u] = pc[u]
      /\ Len(topicOf') = Len(topicOf) /\ Len(topicOf) \in Nat
      /\ \A x \in 1 .. Len(topicOf) : x # o => topicOf'[x] = topicOf[x]
      /\ topicOf'[o] = IF Redirected(w) THEN out ELSE topicOf[o]
      /\ topicOf' \in Seq(Topics)
  <2>1. out \in Topics \cup {None}
    BY <1>0, TablesAssumption DEF TypeOK
  <2>2. CASE Redirected(w)
    <3>1. out \in Topics /\ topicOf \in Seq(Topics)
      BY <1>0, <2>1, <2>2 DEF TypeOK
    <3>2. topicOf' = [topicOf EXCEPT ![o] = out]
      BY <1>0, <2>2
    <3>3. /\ Len(topicOf') = Len(topicOf) /\ Len(topicOf) \in Nat
          /\ \A x \in 1 .. Len(topicOf) : x # o => topicOf'[x] = topicOf[x]
          /\ topicOf'[o] = out
          /\ topicOf' \in Seq(Topics)
      BY <1>0, <3>1, <3>2
    <3> QED
      BY <1>0, <2>2, <3>3 DEF TypeOK
  <2>3. CASE ~Redirected(w)
    BY <1>0, <2>3 DEF TypeOK
  <2> QED
    BY <2>2, <2>3
<1>2. TypeOK'
  BY <1>0, <1>1 DEF TypeOK, managerVars
<1>3. /\ Started' = Started
      /\ \A u \in Workers : InTopic(u)' = InTopic(u) /\ (Passer(u)' <=> Passer(u))
      /\ \A u \in Workers : Queued(u)' = Queued(u) /\ ToPublish(u)' = ToPublish(u)
      /\ \A u \in Workers : (Working(u)' <=> Working(u))
  BY <1>0, <1>1 DEF Started, InTopic, Passer, Queued, ToPublish, Working, managerVars
<1>4. /\ \A u \in Workers : Holds(u)' = Holds(u)
      /\ \A u \in Workers : \A x : Own(u, x)' <=> Own(u, x)
  <2>1. \A u \in Workers : Holds(u)' = Holds(u)
    BY <1>0, <1>3 DEF Holds
  <2> QED
    BY <2>1 DEF Own
<1>a. /\ \A u \in Workers \ {w} : \A x \in Holds(u) : topicOf'[x] = topicOf[x]
      /\ \A x \in Queued(w) : topicOf'[x] = topicOf[x]
      /\ \A i \in DOMAIN results[w] : i # 1 => results[w][i].obj # o
                                               /\ topicOf'[results[w][i].obj] = topicOf[results[w][i].obj]
      /\ topicOf[msg[w]] = InTopic(w)
      /\ msg[w] # o => topicOf'[msg[w]] = topicOf[msg[w]]
  <2>1. \A u \in Workers \ {w} : \A x \in Holds(u) : x # o
    BY <1>0 DEF TopicsInv, ResultsAreOwn, Own
  <2>2. \A x \in Queued(w) : x # o
    BY <1>0 DEF TopicsInv, ResultsAreOwn
  <2>3. \A i \in DOMAIN results[w] : i # 1 => results[w][i].obj # o
    BY <1>0 DEF TopicsInv, ResultsAreOwn
  <2>4. topicOf[msg[w]] = InTopic(w)
    BY <1>0 DEF TopicsInv, GivenOnTopic, Working
  <2> QED
    BY <1>0, <1>1, <2>1, <2>2, <2>3, <2>4, HeldHaveTopics, SMTT(40)
<1> HIDE DEF o, out
<1>5. StepsAsWritten' /\ ObjectsExist'
  BY <1>0, <1>1, <1>3, <1>4 DEF TopicsInv, StepsAsWritten, ObjectsExist
<1>6. OneWorkerToAChain' /\ PassersGoOn'
  BY <1>0, <1>3 DEF TopicsInv, OneWorkerToAChain, PassersGoOn, managerVars
<1>7. ResultsAreOwn'
  BY <1>0, <1>3, <1>4 DEF TopicsInv, ResultsAreOwn
<1>8. PassedAreOwn'
  BY <1>0, <1>3, <1>4 DEF TopicsInv, PassedAreOwn, Started
<1>9. GivenOnTopic'
  <2>1. \A u \in Workers : \A x \in Queued(u)' : topicOf'[x] = InTopic(u)'
    BY <1>3, <1>a, HeldHaveTopics DEF TopicsInv, GivenOnTopic
  <2>2. \A u \in Workers \ {w} :
          Working(u)' /\ (pc'[u] = "publish" => msg'[u] \notin ToPublish(u)')
            => topicOf'[msg'[u]] = InTopic(u)'
    BY <1>0, <1>1, <1>3, <1>a, HeldHaveTopics DEF TopicsInv, GivenOnTopic
  <2>3. msg'[w] \notin ToPublish(w)' => topicOf'[msg'[w]] = InTopic(w)'
    BY <1>0, <1>3, <1>a
  <2> QED
    BY <1>1, <2>1, <2>2, <2>3 DEF GivenOnTopic
<1>10. ResultTopics'
  <2>1. ASSUME NEW u \in Workers \ {w}, NEW i \in DOMAIN results'[u]
        PROVE  ResultTopic(u, i)'
    <3>1. i \in DOMAIN results[u] /\ ResultTopic(u, i) /\ results'[u] = results[u]
      BY <1>0, <2>1 DEF TopicsInv, ResultTopics
    <3>2. pc'[u] = pc[u] /\ topicOf'[results[u][i].obj] = topicOf[results[u][i].obj]
      BY <1>1, <1>a, <3>1, HeldHaveTopics
    <3>3. UNCHANGED <<table, chain>>
      BY <1>0 DEF managerVars
    <3> QED
      BY <3>1, <3>2, <3>3, SameResult
  <2>2. ASSUME NEW i \in DOMAIN results'[w]
        PROVE  ResultTopic(w, i)'
    <3>1. /\ i \in DOMAIN results[w] /\ ResultTopic(w, i) /\ results' = results
          /\ UNCHANGED <<table, chain>>
      BY <1>0, <2>2 DEF TopicsInv, ResultTopics, managerVars
    <3>2. CASE i # 1
      BY <1>0, <1>1, <1>3, <1>a, <3>1, <3>2 DEF ResultTopic
    <3>3. CASE i = 1
      <4>1. /\ topicOf[o] = IF results[w][1].topic = None THEN InTopic(w) ELSE results[w][1].topic
            /\ out # None => results[w][1].topic # InTopic(w)
        BY <1>0, <3>1, <3>3 DEF ResultTopic, o, out
      <4>2. topicOf'[o] = IF results[w][1].topic # None THEN results[w][1].topic
                          ELSE IF out # None THEN out ELSE InTopic(w)
        BY <1>0, <1>1, <1>a, <4>1
      <4> QED
        BY <1>1, <1>3, <3>1, <3>3, <4>1, <4>2 DEF ResultTopic, o, out
    <3> QED
      BY <3>2, <3>3
  <2> QED
    BY <2>1, <2>2 DEF ResultTopics
<1>11. LoadedIsTopic'
  <2>1. \A u \in Workers \ {w} : pc[u] = "redirect" =>
          results[u] # <<>> /\ topicOf'[results[u][1].obj] = topicOf[results[u][1].obj]
    <3>1. \A u \in Workers : pc[u] = "redirect" => results[u] # <<>>
      BY DEF TopicsInv, StepsAsWritten
    <3> QED
      BY <1>a, <3>1, HeldHaveTopics
  <2> QED
    BY <1>0, <1>1, <2>1 DEF TopicsInv, LoadedIsTopic
<1> QED
  BY <1>2, <1>5, <1>6, <1>7, <1>8, <1>9, <1>10, <1>11 DEF TopicsInv

\* What a worker has made of its message: the message, or objects nobody has.
LEMMA Processed ==
  ASSUME TypeOK, TopicsInv, NothingShared(table), NEW w \in Workers, Process(w)
  PROVE  /\ pc[w] = "process" /\ w \in Started /\ Working(w) /\ msg[w] \in Holds(w)
         /\ topicOf' \in Seq(Topics) /\ Len(topicOf') \in Nat /\ Len(topicOf) <= Len(topicOf')
         /\ \A x \in 1 .. Len(topicOf) : topicOf'[x] = topicOf[x]
         /\ results' \in [Workers -> Seq(Result)]
         /\ pc' \in [Workers -> {"idle", "process", "load", "redirect", "publish"}]
         /\ \A u \in Workers \ {w} : results'[u] = results[u] /\ pc'[u] = pc[u]
         /\ pc'[w] = IF results'[w] = <<>> THEN "idle" ELSE "load"
         /\ UNCHANGED <<managerVars, ch, msg, loaded, taken, injected>>
         /\ \A i \in DOMAIN results'[w] :
              /\ topicOf'[results'[w][i].obj] = IF results'[w][i].topic = None THEN InTopic(w)
                                                ELSE results'[w][i].topic
              /\ table.outTopic[chain[w]] # None => results'[w][i].topic # InTopic(w)
         /\ \/ /\ Passer(w) /\ ToPublish(w)' = {msg[w]} /\ Len(topicOf') = Len(topicOf)
               /\ Len(results'[w]) = 1 /\ results'[w][1].topic = None
               /\ DOMAIN results'[w] = {1}
            \/ /\ ToPublish(w)' \subseteq (1 .. Len(topicOf')) \ (1 .. Len(topicOf))
               /\ \A i, j \in DOMAIN results'[w] : results'[w][i].obj = results'[w][j].obj => i = j
<1>0. /\ pc[w] = "process" /\ w \in Started /\ Working(w) /\ msg[w] \in Holds(w)
      /\ msg[w] \in Objects /\ msg[w] \in 1 .. Len(topicOf) /\ topicOf[msg[w]] = InTopic(w)
      /\ InTopic(w) \in Topics /\ chain[w] \in Chains /\ table \in Tables
      /\ Len(topicOf) \in Nat /\ topicOf \in Seq(Topics)
  <2>1. pc[w] = "process" /\ Working(w)
    BY DEF Process, Working
  <2>2. w \in Started /\ msg[w] \in Holds(w) /\ msg[w] \in 1 .. Len(topicOf) /\ Len(topicOf) \in Nat
    BY <2>1, HeldHaveTopics
  <2>3. topicOf[msg[w]] = InTopic(w)
    BY <2>1 DEF TopicsInv, GivenOnTopic
  <2>4. msg[w] \in Objects /\ InTopic(w) \in Topics
    BY <2>1, <2>2 DEF TopicsInv, StepsAsWritten
  <2> QED
    BY <2>1, <2>2, <2>3, <2>4 DEF TypeOK, Started
<1>1. PICK outcome \in Outcomes(table.processors[chain[w]]) :
        LET items == outcome.items
            new == IF IsPassedOn(outcome) THEN <<>> ELSE items
        IN  /\ Len(topicOf) + Len(new) <= MaxObjects
            /\ topicOf' = topicOf \o [i \in DOMAIN new |->
                 IF new[i].topic # None THEN new[i].topic ELSE topicOf[msg[w]]]
            /\ Continue(w, [i \in DOMAIN items |->
                 [obj |-> IF IsPassedOn(outcome) THEN msg[w] ELSE Len(topicOf) + i,
                  topic |-> items[i].topic]])
  BY DEF Process
<1> DEFINE items == outcome.items
           new == IF IsPassedOn(outcome) THEN <<>> ELSE items
           topics == [i \in DOMAIN new |->
                        IF new[i].topic # None THEN new[i].topic ELSE topicOf[msg[w]]]
           res == [i \in DOMAIN items |->
                     [obj |-> IF IsPassedOn(outcome) THEN msg[w] ELSE Len(topicOf) + i,
                      topic |-> items[i].topic]]
<1>2. /\ items \in Seq(Item)
      /\ IsPassedOn(outcome) => items = <<[same |-> TRUE, topic |-> None]>>
      /\ IsPassedOn(outcome) => Passer(w)
      /\ table.outTopic[chain[w]] # None => \A i \in DOMAIN items : items[i].topic # InTopic(w)
  <2>1. /\ items \in Seq(Item)
        /\ IsPassedOn(outcome) => items = <<[same |-> TRUE, topic |-> None]>>
    <3>1. table.processors[chain[w]] \in Seq(Processor)
      BY <1>0, TablesAssumption
    <3> QED
      BY <3>1, OutcomesCorrect DEF Alone
  <2>2. IsPassedOn(outcome) => Passer(w)
    BY DEF Passer, PassesOn
  <2>3. InTopic(w) # None
    BY <1>0, NoneAssumption
  <2>4. table.outTopic[chain[w]] # None => \A i \in DOMAIN items : items[i].topic # InTopic(w)
    BY <1>0, <2>3 DEF NothingShared, InTopic
  <2> QED
    BY <2>1, <2>2, <2>4
<1>3. /\ Len(topicOf) + Len(new) <= MaxObjects /\ topicOf' = topicOf \o topics
      /\ results' = [results EXCEPT ![w] = res]
      /\ pc' = [pc EXCEPT ![w] = IF res = <<>> THEN "idle" ELSE "load"]
      /\ UNCHANGED <<managerVars, ch, msg, loaded, taken, injected>>
  BY <1>1 DEF Continue, Process
<1>4. /\ Len(items) \in Nat /\ DOMAIN items = 1 .. Len(items)
      /\ \A i \in DOMAIN items : items[i].topic \in Topics \cup {None}
  <2>1. \A q \in Seq(Item) : Len(q) \in Nat /\ DOMAIN q = 1 .. Len(q) /\ \A i \in DOMAIN q : q[i] \in Item
    OBVIOUS
  <2> QED
    BY <1>2, <2>1 DEF Item
<1>5. /\ new \in Seq(Item) /\ Len(new) \in Nat /\ DOMAIN new = 1 .. Len(new)
      /\ \A i \in DOMAIN new : new[i] \in Item
  <2>1. \A q \in Seq(Item) : Len(q) \in Nat /\ DOMAIN q = 1 .. Len(q) /\ \A i \in DOMAIN q : q[i] \in Item
    OBVIOUS
  <2>2. new \in Seq(Item)
    BY <1>2
  <2> QED
    BY <2>1, <2>2
<1>6. /\ topics \in Seq(Topics) /\ Len(topics) = Len(new)
      /\ \A i \in 1 .. Len(new) : topics[i] = IF new[i].topic # None THEN new[i].topic ELSE InTopic(w)
  <2>1. \A i \in DOMAIN new : new[i].topic \in Topics \cup {None}
    BY <1>5 DEF Item
  <2> QED
    BY <1>0, <1>5, <2>1, SMTT(40)
<1> HIDE DEF topics
<1>7. /\ topicOf' \in Seq(Topics) /\ Len(topicOf') \in Nat
      /\ Len(topicOf') = Len(topicOf) + Len(new)
      /\ \A x \in 1 .. Len(topicOf) : topicOf'[x] = topicOf[x]
      /\ \A i \in 1 .. Len(new) : topicOf'[Len(topicOf) + i] = topics[i]
  <2>1. /\ topicOf' \in Seq(Topics) /\ Len(topicOf') = Len(topicOf) + Len(topics)
        /\ \A x \in 1 .. Len(topicOf) : topicOf'[x] = topicOf[x]
        /\ \A i \in 1 .. Len(topics) : topicOf'[Len(topicOf) + i] = topics[i]
    <3>1. \A a, b \in Seq(Topics) :
            /\ a \o b \in Seq(Topics) /\ Len(a \o b) = Len(a) + Len(b)
            /\ \A x \in 1 .. Len(a) : (a \o b)[x] = a[x]
            /\ \A i \in 1 .. Len(b) : (a \o b)[Len(a) + i] = b[i]
      OBVIOUS
    <3> QED
      BY <1>0, <1>3, <1>6, <3>1
  <2> QED
    BY <1>0, <1>5, <1>6, <2>1
<1>8. /\ DOMAIN res = 1 .. Len(items)
      /\ \A i \in DOMAIN items : res[i].topic = items[i].topic
      /\ IsPassedOn(outcome) => \A i \in DOMAIN items : res[i].obj = msg[w]
      /\ ~IsPassedOn(outcome) => \A i \in DOMAIN items : res[i].obj = Len(topicOf) + i
  BY <1>4
<1>9. res \in Seq(Result) /\ Len(res) = Len(items)
  <2>1. \A i \in DOMAIN items : res[i] \in Result
    <3> SUFFICES ASSUME NEW i \in DOMAIN items PROVE res[i] \in Result
      OBVIOUS
    <3>1. CASE IsPassedOn(outcome)
      BY <1>0, <1>4, <3>1 DEF Result
    <3>2. CASE ~IsPassedOn(outcome)
      <4>1. Len(topicOf) + i \in Objects
        BY <1>0, <1>3, <1>4, <3>2, MaxAssumption DEF Objects
      <4> QED
        BY <1>4, <3>2, <4>1 DEF Result
    <3> QED
      BY <3>1, <3>2
  <2>2. res = [i \in 1 .. Len(items) |-> res[i]]
    BY <1>4
  <2> HIDE DEF res
  <2> QED
    BY <1>4, <2>1, <2>2
<1> HIDE DEF res, items, new
<1>10. /\ results'[w] = res /\ pc'[w] = IF res = <<>> THEN "idle" ELSE "load"
       /\ \A u \in Workers \ {w} : results'[u] = results[u] /\ pc'[u] = pc[u]
       /\ results' \in [Workers -> Seq(Result)]
       /\ pc' \in [Workers -> {"idle", "process", "load", "redirect", "publish"}]
       /\ ToPublish(w)' = {res[i].obj : i \in DOMAIN res}
  <2>1. /\ results'[w] = res /\ pc'[w] = IF res = <<>> THEN "idle" ELSE "load"
        /\ \A u \in Workers \ {w} : results'[u] = results[u] /\ pc'[u] = pc[u]
        /\ results' \in [Workers -> Seq(Result)]
        /\ pc' \in [Workers -> {"idle", "process", "load", "redirect", "publish"}]
    BY <1>3, <1>9 DEF TypeOK
  <2> QED
    BY <2>1 DEF ToPublish
<1>11. \A i \in DOMAIN res :
         /\ topicOf'[res[i].obj] = IF res[i].topic = None THEN InTopic(w) ELSE res[i].topic
         /\ table.outTopic[chain[w]] # None => res[i].topic # InTopic(w)
  <2> SUFFICES ASSUME NEW i \in DOMAIN res
               PROVE  topicOf'[res[i].obj] = IF res[i].topic = None THEN InTopic(w) ELSE res[i].topic
    BY <1>2, <1>4, <1>8
  <2>1. CASE IsPassedOn(outcome)
    <3>1. i = 1 /\ items[i].topic = None
      BY <1>2, <1>4, <1>8, <2>1
    <3> QED
      BY <1>0, <1>4, <1>7, <1>8, <2>1, <3>1
  <2>2. CASE ~IsPassedOn(outcome)
    <3>1. new = items
      BY <2>2 DEF new
    <3>2. /\ i \in 1 .. Len(new) /\ res[i].topic = items[i].topic
          /\ res[i].obj = Len(topicOf) + i /\ new[i].topic = items[i].topic
      BY <1>4, <1>8, <2>2, <3>1
    <3>3. topicOf'[Len(topicOf) + i] = IF new[i].topic # None THEN new[i].topic ELSE InTopic(w)
      BY <1>6, <1>7, <3>2
    <3> QED
      BY <3>2, <3>3
  <2> QED
    BY <2>1, <2>2
<1>12. CASE IsPassedOn(outcome)
  <2>1. Len(items) = 1 /\ items[1].topic = None
    BY <1>2, <1>12
  <2>2. Len(new) = 0
    BY <1>12 DEF new
  <2>3. DOMAIN res = {1} /\ res[1].obj = msg[w] /\ res[1].topic = None /\ Len(res) = 1
    BY <1>4, <1>8, <1>9, <1>12, <2>1
  <2>4. /\ Passer(w) /\ ToPublish(w)' = {msg[w]} /\ Len(topicOf') = Len(topicOf)
        /\ Len(results'[w]) = 1 /\ results'[w][1].topic = None /\ DOMAIN results'[w] = {1}
    BY <1>0, <1>2, <1>7, <1>10, <1>12, <2>2, <2>3
  <2>5. Len(topicOf) <= Len(topicOf')
    BY <1>0, <2>4
  <2> QED
    BY <1>0, <1>3, <1>7, <1>10, <1>11, <2>4, <2>5
<1>13. CASE ~IsPassedOn(outcome)
  <2>1. new = items
    BY <1>13 DEF new
  <2>2. \A i \in DOMAIN res : /\ res[i].obj = Len(topicOf) + i /\ i \in 1 .. Len(new)
    BY <1>4, <1>8, <1>13, <2>1
  <2>3. ToPublish(w)' \subseteq (1 .. Len(topicOf')) \ (1 .. Len(topicOf))
    BY <1>0, <1>5, <1>7, <1>10, <2>2
  <2>4. \A i, j \in DOMAIN res : res[i].obj = res[j].obj => i = j
    BY <1>0, <2>2
  <2>5. Len(topicOf) <= Len(topicOf')
    BY <1>0, <1>5, <1>7
  <2> QED
    BY <1>0, <1>3, <1>7, <1>10, <1>11, <2>3, <2>4, <2>5
<1> QED
  BY <1>12, <1>13

LEMMA ProcessKeeps ==
  ASSUME TypeOK, TopicsInv, NothingShared(table), NEW w \in Workers, Process(w)
  PROVE  TypeOK' /\ TopicsInv'
<1>0. /\ pc[w] = "process" /\ w \in Started /\ Working(w) /\ msg[w] \in Holds(w)
      /\ topicOf' \in Seq(Topics) /\ Len(topicOf') \in Nat /\ Len(topicOf) <= Len(topicOf')
      /\ \A x \in 1 .. Len(topicOf) : topicOf'[x] = topicOf[x]
      /\ results' \in [Workers -> Seq(Result)]
      /\ pc' \in [Workers -> {"idle", "process", "load", "redirect", "publish"}]
      /\ \A u \in Workers \ {w} : results'[u] = results[u] /\ pc'[u] = pc[u]
      /\ pc'[w] = IF results'[w] = <<>> THEN "idle" ELSE "load"
      /\ UNCHANGED <<managerVars, ch, msg, loaded, taken, injected>>
      /\ \A i \in DOMAIN results'[w] :
           /\ topicOf'[results'[w][i].obj] = IF results'[w][i].topic = None THEN InTopic(w)
                                             ELSE results'[w][i].topic
           /\ table.outTopic[chain[w]] # None => results'[w][i].topic # InTopic(w)
  BY Processed
<1> DEFINE old == 1 .. Len(topicOf)
           new == (1 .. Len(topicOf')) \ (1 .. Len(topicOf))
           now == 1 .. Len(topicOf')
<1>1. \/ /\ Passer(w) /\ ToPublish(w)' = {msg[w]} /\ Len(topicOf') = Len(topicOf)
         /\ Len(results'[w]) = 1 /\ results'[w][1].topic = None
         /\ DOMAIN results'[w] = {1}
      \/ /\ ToPublish(w)' \subseteq new
         /\ \A i, j \in DOMAIN results'[w] : results'[w][i].obj = results'[w][j].obj => i = j
  BY Processed
<1>2. old \subseteq now /\ Len(topicOf) \in Nat /\ \A x \in new : x \notin old
  BY <1>0, HeldHaveTopics
<1> HIDE DEF old, new, now
<1>3. TypeOK'
  BY <1>0 DEF TypeOK, managerVars
<1>4. /\ Started' = Started
      /\ \A u \in Workers : InTopic(u)' = InTopic(u) /\ (Passer(u)' <=> Passer(u))
      /\ \A u \in Workers : Queued(u)' = Queued(u)
      /\ \A u \in Workers \ {w} : ToPublish(u)' = ToPublish(u) /\ (Working(u)' <=> Working(u))
  BY <1>0 DEF Started, InTopic, Passer, Queued, ToPublish, Working, managerVars
<1>5. /\ \A u \in Workers : Holds(u) \subseteq old
      /\ \A u \in Workers \ {w} : Holds(u)' = Holds(u)
      /\ Holds(w)' \subseteq Holds(w) \cup new
      /\ Queued(w) \subseteq Holds(w)
  <2>1. \A u \in Workers : Holds(u) \subseteq old
    BY DEF TopicsInv, ObjectsExist, old
  <2>2. \A u \in Workers \ {w} : Holds(u)' = Holds(u)
    BY <1>0, <1>4 DEF Holds
  <2>3. Holds(w)' \subseteq Holds(w) \cup new
    BY <1>0, <1>1, <1>4 DEF Holds
  <2> QED
    BY <2>1, <2>2, <2>3 DEF Holds
<1>6. ObjectsExist'
  <2>1. new \subseteq now
    BY DEF new, now
  <2> QED
    BY <1>2, <1>5, <2>1 DEF ObjectsExist, now
<1>7. StepsAsWritten'
  <2>1. \A u \in Workers \ {w} :
          /\ u \notin Started' => ch'[u] = <<>> /\ pc'[u] = "idle"
          /\ u \in Started' => InTopic(u)' \in Topics
          /\ pc'[u] \in {"idle", "process"} <=> results'[u] = <<>>
          /\ pc'[u] # "idle" => msg'[u] \in Objects
    BY <1>0, <1>4 DEF TopicsInv, StepsAsWritten
  <2>2. /\ w \in Started' /\ InTopic(w)' \in Topics
        /\ pc'[w] \in {"idle", "process"} <=> results'[w] = <<>>
        /\ msg'[w] \in Objects
    BY <1>0, <1>4 DEF TopicsInv, StepsAsWritten
  <2> QED
    BY <2>1, <2>2 DEF StepsAsWritten
<1>8. OneWorkerToAChain' /\ PassersGoOn'
  BY <1>0, <1>4 DEF TopicsInv, OneWorkerToAChain, PassersGoOn, managerVars
<1>9. \A u \in Workers : \A x \in old : Own(u, x) => Own(u, x)'
  BY <1>2, <1>5 DEF Own
<1>10. ResultsAreOwn'
  <2>1. \A u \in Workers \ {w} :
          /\ \A x \in ToPublish(u)' : Own(u, x)' /\ x \notin Queued(u)'
          /\ \A i, j \in DOMAIN results'[u] : results'[u][i].obj = results'[u][j].obj => i = j
          /\ msg'[u] \in ToPublish(u)' =>
               Passer(u)' /\ Len(results'[u]) = 1 /\ results'[u][1].topic = None
    <3>1. \A u \in Workers : ToPublish(u) \subseteq old
      BY <1>5 DEF Holds
    <3> QED
      BY <1>0, <1>4, <1>9, <3>1 DEF TopicsInv, ResultsAreOwn
  <2>2. CASE /\ Passer(w) /\ ToPublish(w)' = {msg[w]} /\ Len(topicOf') = Len(topicOf)
             /\ Len(results'[w]) = 1 /\ results'[w][1].topic = None
             /\ DOMAIN results'[w] = {1}
    <3>1. Own(w, msg[w]) /\ msg[w] \notin Queued(w)
      BY <1>0, <2>2 DEF TopicsInv, PassedAreOwn
    <3>2. Own(w, msg[w])'
      BY <1>0, <1>5, <1>9, <3>1
    <3>3. /\ \A x \in ToPublish(w)' : Own(w, x)' /\ x \notin Queued(w)'
          /\ \A i, j \in DOMAIN results'[w] : results'[w][i].obj = results'[w][j].obj => i = j
          /\ Passer(w)'
      <4>1. \A x \in ToPublish(w)' : x = msg[w]
        BY <2>2
      <4> QED
        BY <1>0, <1>4, <2>2, <3>1, <3>2, <4>1 DEF Own
    <3> QED
      BY <1>4, <2>1, <2>2, <3>3 DEF ResultsAreOwn
  <2>3. CASE /\ ToPublish(w)' \subseteq new
             /\ \A i, j \in DOMAIN results'[w] : results'[w][i].obj = results'[w][j].obj => i = j
    <3>1. \A x \in ToPublish(w)' : Own(w, x)' /\ x \notin Queued(w)'
      BY <1>2, <1>4, <1>5, <2>3 DEF Own
    <3>2. msg'[w] \notin ToPublish(w)'
      BY <1>0, <1>2, <1>5, <2>3
    <3> QED
      BY <2>1, <2>3, <3>1, <3>2 DEF ResultsAreOwn
  <2> QED
    BY <1>1, <2>2, <2>3
<1>11. PassedAreOwn'
  <2>1. \A u \in Started : Distinct(ch'[u])
    BY <1>0 DEF TopicsInv, PassedAreOwn
  <2>2. ASSUME NEW u \in Started, Passer(u), NEW x \in Holds(u)'
        PROVE  Own(u, x)'
    <3>1. u \in Workers
      BY DEF Started
    <3>2. CASE x \in old
      <4>1. x \in Holds(u) /\ Own(u, x)
        BY <1>2, <1>5, <2>2, <3>1, <3>2 DEF TopicsInv, PassedAreOwn
      <4> QED
        BY <1>9, <3>1, <3>2, <4>1
    <3>3. CASE x \notin old
      BY <1>5, <2>2, <3>1, <3>3 DEF Own
    <3> QED
      BY <3>2, <3>3
  <2>3. ASSUME NEW u \in Started, Passer(u), Working(u)'
        PROVE  msg'[u] \notin Queued(u)'
    <3>1. u \in Workers /\ Working(u)
      BY <1>0, <1>4, <2>3 DEF Started
    <3> QED
      BY <1>0, <1>4, <2>3, <3>1 DEF TopicsInv, PassedAreOwn
  <2>4. \A u \in Started : (Passer(u)' <=> Passer(u))
    BY <1>4 DEF Started
  <2> QED
    BY <1>4, <2>1, <2>2, <2>3, <2>4 DEF PassedAreOwn
<1>12. \A u \in Workers : \A x \in Holds(u) : topicOf'[x] = topicOf[x]
  BY <1>0, <1>5 DEF old
<1>13. GivenOnTopic'
  <2>1. \A u \in Workers : \A x \in Queued(u)' : topicOf'[x] = InTopic(u)'
    BY <1>4, <1>12, HeldHaveTopics DEF TopicsInv, GivenOnTopic
  <2>2. \A u \in Workers \ {w} :
          Working(u)' /\ (pc'[u] = "publish" => msg'[u] \notin ToPublish(u)')
            => topicOf'[msg'[u]] = InTopic(u)'
    <3>1. \A u \in Workers : Working(u) => topicOf'[msg[u]] = topicOf[msg[u]]
      BY <1>12, HeldHaveTopics
    <3> QED
      BY <1>0, <1>4, <3>1, SMTT(40) DEF TopicsInv, GivenOnTopic
  <2>3. topicOf'[msg'[w]] = InTopic(w)'
    BY <1>0, <1>4, <1>12 DEF TopicsInv, GivenOnTopic
  <2> QED
    BY <2>1, <2>2, <2>3 DEF GivenOnTopic
<1>14. ResultTopics'
  <2>1. ASSUME NEW u \in Workers \ {w}, NEW i \in DOMAIN results'[u]
        PROVE  ResultTopic(u, i)'
    <3>1. i \in DOMAIN results[u] /\ ResultTopic(u, i) /\ results'[u] = results[u] /\ pc'[u] = pc[u]
      BY <1>0, <2>1 DEF TopicsInv, ResultTopics
    <3>2. topicOf'[results[u][i].obj] = topicOf[results[u][i].obj]
      BY <1>12, <3>1, HeldHaveTopics
    <3>3. UNCHANGED <<table, chain>>
      BY <1>0 DEF managerVars
    <3> QED
      BY <3>1, <3>2, <3>3, SameResult
  <2>2. ASSUME NEW i \in DOMAIN results'[w]
        PROVE  ResultTopic(w, i)'
    BY <1>0, <1>4 DEF ResultTopic, managerVars
  <2> QED
    BY <2>1, <2>2 DEF ResultTopics
<1>15. LoadedIsTopic'
  <2>1. \A u \in Workers : pc[u] = "redirect" =>
          results[u] # <<>> /\ topicOf'[results[u][1].obj] = topicOf[results[u][1].obj]
    <3>1. \A u \in Workers : pc[u] = "redirect" => results[u] # <<>>
      BY DEF TopicsInv, StepsAsWritten
    <3> QED
      BY <1>12, <3>1, HeldHaveTopics
  <2> QED
    BY <1>0, <2>1, ZenonT(40) DEF TopicsInv, LoadedIsTopic
<1> QED
  BY <1>3, <1>6, <1>7, <1>8, <1>10, <1>11, <1>13, <1>14, <1>15 DEF TopicsInv

LEMMA NextChains ==
  ASSUME TypeOK, TopicsInv, NothingShared(table), [Next]_vars, PassersGoOn'
  PROVE  TypeOK' /\ TopicsInv'
<1>1. ASSUME NEW t \in Topics, Inject(t) PROVE TypeOK' /\ TopicsInv'
  BY <1>1, InjectKeeps
<1>2. ASSUME NEW c \in Chains, NEW w \in Workers, StartPipeline(c, w) PROVE TypeOK' /\ TopicsInv'
  BY <1>2, StartPipelineKeeps
<1>3. ASSUME StopAll \/ \E c \in Chains : StopPipeline(c) PROVE TypeOK' /\ TopicsInv'
  <2>1. PICK chains \in SUBSET Chains : Forget(chains)
    BY <1>3 DEF StopAll, StopPipeline
  <2> QED
    BY <2>1, ForgetKeeps
<1>4. ASSUME NEW w \in Workers, WorkerStep(w) PROVE TypeOK' /\ TopicsInv'
  BY <1>4, TakeKeeps, ProcessKeeps, LoadTopicKeeps, RedirectKeeps, PublishResultKeeps DEF WorkerStep
<1>5. CASE UNCHANGED vars
  <2>1. /\ pipelines' = pipelines \ {} /\ stopped' = stopped \cup (pipelines \cap {})
        /\ UNCHANGED <<table, chain, ch, pc, msg, results, loaded, topicOf, taken, injected>>
    BY <1>5 DEF vars, managerVars
  <2>2. Forget({})
    BY <2>1 DEF Forget
  <2> QED
    BY <2>2, ForgetKeeps
<1> QED
  BY <1>1, <1>2, <1>3, <1>4, <1>5 DEF Next

LEMMA Ranked ==
  ASSUME NothingReturns(table)
  PROVE  LeadsOn(table, Rank) /\ \A t \in Topics : Rank[t] \in Int
<1>1. Rank \in [Topics -> 0 .. Cardinality(Chains)] /\ LeadsOn(table, Rank)
  BY DEF NothingReturns, Rank
<1> QED
  BY <1>1

LEMMA TakenCounts ==
  ASSUME TypeOK
  PROVE  \A c \in Chains : \A o \in Objects : taken[c][o] > 0 \/ taken[c][o] = 0
<1>1. \A c \in Chains : \A o \in Objects : taken[c][o] \in 0 .. 2
  BY DEF TypeOK
<1> QED
  BY <1>1

\* A step that gives nobody anything but new objects.
LEMMA NothingGiven ==
  ASSUME TypeOK, NoneTwice, UNCHANGED <<table, chain, taken, msg>>, stopped \subseteq stopped',
         Len(topicOf) \in Nat, Len(topicOf') \in Nat, Len(topicOf) <= Len(topicOf'),
         \A u \in Workers :
           /\ Queued(u)' = Queued(u) /\ (Working(u)' => Working(u))
           /\ \A o \in ToPublish(u)' : \/ o = msg[u] \/ o \in ToPublish(u)
                                       \/ o \in Objects /\ o \notin 1 .. Len(topicOf)
  PROVE  NoneTwice'
<1>1. \A u \in Workers : (u \in Started' <=> u \in Started) /\ (Passer(u)' <=> Passer(u))
  BY DEF Started, Passer
<1>2. \A c, u : Behind(c, u)' <=> Behind(c, u)
  BY DEF Behind, Rank, InTopic
<1>3. NotTakenYet'
  BY <1>1 DEF NoneTwice, NotTakenYet, Started
<1>4. NewNotTaken'
  <2>1. \A c \in Chains : \A o \in Objects : o \notin 1 .. Len(topicOf) => taken[c][o] = 0
    BY TakenCounts DEF NoneTwice, NotTakenYet
  <2> QED
    BY <2>1 DEF NoneTwice, NewNotTaken
<1>5. TakenBehind'
  BY <1>1, <1>2 DEF NoneTwice, TakenBehind, Started
<1> QED
  BY <1>3, <1>4, <1>5 DEF NoneTwice

LEMMA InjectNoneTwice ==
  ASSUME TypeOK, TopicsInv, NoneTwice, NEW t \in Topics, Inject(t)
  PROVE  NoneTwice'
<1> DEFINE n == Len(topicOf) + 1
<1>0. /\ Len(topicOf) \in Nat /\ n \in Objects /\ n \notin 1 .. Len(topicOf)
      /\ topicOf' = Append(topicOf, t) /\ Deliver(n, t)
      /\ UNCHANGED <<managerVars, pc, msg, results, loaded, taken>>
  BY HeldHaveTopics, MaxAssumption DEF Inject, Objects
<1>1. Len(topicOf') = Len(topicOf) + 1 /\ 1 .. Len(topicOf) \subseteq 1 .. Len(topicOf')
  BY <1>0 DEF TypeOK
<1> HIDE DEF n
<1>2. \A c \in Chains : taken[c][n] = 0
  BY <1>0, TakenCounts DEF NoneTwice, NotTakenYet
<1>3. \A u \in Workers : Queued(u)' \subseteq Queued(u) \cup {n}
  <2>1. \A u \in Workers : ch[u] \in Seq(Objects)
    BY DEF TypeOK
  <2>2. \A u \in Workers : ch'[u] = ch[u] \/ ch'[u] = Append(ch[u], n)
    BY <1>0 DEF Deliver
  <2>3. \A u \in Workers : Elements(Append(ch[u], n)) = Elements(ch[u]) \cup {n}
    BY <1>0, <2>1, OfAppend
  <2> QED
    BY <2>2, <2>3 DEF Queued
<1>4. \A u \in Workers : /\ (u \in Started' <=> u \in Started) /\ (Passer(u)' <=> Passer(u))
                         /\ (Working(u)' <=> Working(u)) /\ ToPublish(u)' = ToPublish(u)
  BY <1>0 DEF Started, Passer, Working, ToPublish, managerVars
<1>5. \A c, u : Behind(c, u)' <=> Behind(c, u)
  BY <1>0 DEF Behind, Rank, InTopic, managerVars
<1>6. NotTakenYet'
  <2>1. \A c \in Chains : \A o \in Objects :
          /\ c \notin stopped' => taken'[c][o] < 2
          /\ taken'[c][o] > 0 => o \in 1 .. Len(topicOf')
    BY <1>0, <1>1 DEF NoneTwice, NotTakenYet, managerVars
  <2>2. ASSUME NEW w \in Started, NEW o \in Queued(w)', chain[w] \notin stopped
        PROVE  taken[chain[w]][o] = 0
    BY <1>2, <1>3, <2>2 DEF NoneTwice, NotTakenYet, Started, TypeOK
  <2> QED
    BY <1>0, <1>4, <2>1, <2>2 DEF NotTakenYet, managerVars, Started
<1>7. NewNotTaken'
  BY <1>0, <1>4 DEF NoneTwice, NewNotTaken
<1>8. TakenBehind'
  <2> SUFFICES ASSUME NEW w \in Started, Passer(w), NEW c \in Chains
               PROVE  /\ \A o \in Queued(w)' : taken[c][o] > 0 => Behind(c, w)
                      /\ Working(w) /\ taken[c][msg[w]] > 0 => c = chain[w] \/ Behind(c, w)
    BY <1>0, <1>4, <1>5 DEF TakenBehind, managerVars, Started
  <2>1. w \in Workers
    BY DEF Started
  <2> QED
    BY <1>2, <1>3, <2>1 DEF NoneTwice, TakenBehind
<1> QED
  BY <1>6, <1>7, <1>8 DEF NoneTwice

LEMMA PublishResultNoneTwice ==
  ASSUME TypeOK, TopicsInv, NoneTwice, NothingReturns(table), NEW w \in Workers, PublishResult(w)
  PROVE  NoneTwice'
<1> DEFINE o == results[w][1].obj
           t == topicOf[o]
<1>0. /\ pc[w] = "publish" /\ results[w] # <<>> /\ results[w] \in Seq(Result) /\ w \in Started
      /\ Working(w) /\ Head(results[w]) = results[w][1] /\ 1 \in DOMAIN results[w]
      /\ o \in ToPublish(w) /\ o \in Objects /\ t \in Topics
      /\ InTopic(w) \in Topics /\ chain[w] \in Chains
  <2>1. pc[w] = "publish" /\ results[w] \in Seq(Result)
    BY DEF PublishResult, TypeOK
  <2>2. results[w] # <<>> /\ Working(w)
    BY <2>1 DEF TopicsInv, StepsAsWritten, Working
  <2>3. w \in Started /\ Head(results[w]) = results[w][1] /\ 1 \in DOMAIN results[w]
        /\ results[w][1] \in Result /\ t \in Topics
    BY <2>1, <2>2, HeldHaveTopics
  <2>4. InTopic(w) \in Topics /\ chain[w] \in Chains
    BY <2>3 DEF TopicsInv, StepsAsWritten, TypeOK, Started
  <2> QED
    BY <2>1, <2>2, <2>3, <2>4 DEF ToPublish, Result
<1>1. /\ Deliver(o, t) /\ UNCHANGED <<managerVars, msg, loaded, topicOf, taken, injected>>
      /\ results' = [results EXCEPT ![w] = Tail(results[w])]
      /\ pc' = [pc EXCEPT ![w] = IF Tail(results[w]) = <<>> THEN "idle" ELSE "load"]
  BY <1>0 DEF PublishResult, Continue
<1>2. \A u \in Workers : ToPublish(u)' \subseteq ToPublish(u) /\ (Working(u)' => Working(u))
  <2>1. \A u \in Workers \ {w} : ToPublish(u)' = ToPublish(u) /\ (Working(u)' => Working(u))
    BY <1>1 DEF ToPublish, Working, TypeOK
  <2>2. results'[w] = Tail(results[w])
    BY <1>1 DEF TypeOK
  <2>3. \A i \in DOMAIN Tail(results[w]) :
          i + 1 \in DOMAIN results[w] /\ Tail(results[w])[i] = results[w][i + 1]
    BY <1>0, OfTail
  <2>4. ToPublish(w)' = {Tail(results[w])[i].obj : i \in DOMAIN Tail(results[w])}
    BY <2>2 DEF ToPublish
  <2>5. ToPublish(w)' \subseteq ToPublish(w)
    BY <2>3, <2>4 DEF ToPublish
  <2> QED
    BY <1>0, <2>1, <2>5
\* Where it arrives it has not been, and comes from behind.
<1>3. ASSUME NEW c \in Chains, taken[c][o] > 0
      PROVE  table.topic[c] \in Topics /\ Rank[table.topic[c]] < Rank[t]
  <2>1. o = msg[w]
    BY <1>0, <1>3 DEF NoneTwice, NewNotTaken
  <2>2. Passer(w) /\ results[w][1].topic = None
    BY <1>0, <2>1 DEF TopicsInv, ResultsAreOwn
  <2>3. table.outTopic[chain[w]] # None /\ Rank[InTopic(w)] < Rank[table.outTopic[chain[w]]]
    <3>1. InTopic(w) # None
      BY <1>0, NoneAssumption
    <3> QED
      BY <1>0, <2>2, <3>1, Ranked DEF LeadsOn, Passer, InTopic
  <2>4. t = table.outTopic[chain[w]]
    BY <1>0, <2>2, <2>3 DEF TopicsInv, ResultTopics, ResultTopic
  <2>5. c = chain[w] \/ Behind(c, w)
    BY <1>0, <1>3, <2>1, <2>2 DEF NoneTwice, TakenBehind
  <2>6. table.topic[c] \in Topics /\ (c = chain[w] \/ Rank[table.topic[c]] < Rank[InTopic(w)])
    BY <1>0, <2>5 DEF Behind, InTopic
  <2> QED
    BY <1>0, <2>3, <2>4, <2>6, Ranked DEF InTopic
<1> HIDE DEF o, t
<1>4. \A u \in Workers : \/ Queued(u)' = Queued(u)
                         \/ u \in Started /\ InTopic(u) = t /\ Queued(u)' = Queued(u) \cup {o}
  <2>1. \A u \in Workers : ch[u] \in Seq(Objects)
    BY DEF TypeOK
  <2>2. \A u \in Workers : \/ ch'[u] = ch[u]
                           \/ u \in Started /\ InTopic(u) = t /\ ch'[u] = Append(ch[u], o)
    BY <1>1 DEF Deliver, InTopic
  <2>3. \A u \in Workers : Elements(Append(ch[u], o)) = Elements(ch[u]) \cup {o}
    BY <1>0, <2>1, OfAppend
  <2> QED
    BY <2>2, <2>3 DEF Queued
<1>5. \A u \in Workers : (u \in Started' <=> u \in Started) /\ (Passer(u)' <=> Passer(u))
  BY <1>1 DEF Started, Passer, managerVars
<1>6. \A c, u : Behind(c, u)' <=> Behind(c, u)
  BY <1>1 DEF Behind, Rank, InTopic, managerVars
<1>7. NotTakenYet'
  <2>1. \A c \in Chains : \A x \in Objects :
          /\ c \notin stopped' => taken'[c][x] < 2
          /\ taken'[c][x] > 0 => x \in 1 .. Len(topicOf')
    BY <1>1 DEF NoneTwice, NotTakenYet, managerVars
  <2>2. ASSUME NEW u \in Started, NEW x \in Queued(u)', chain[u] \notin stopped
        PROVE  taken[chain[u]][x] = 0
    <3>1. u \in Workers /\ chain[u] \in Chains
      BY DEF Started, TypeOK
    <3>2. CASE x \in Queued(u)
      BY <2>2, <3>2 DEF NoneTwice, NotTakenYet
    <3>3. CASE x \notin Queued(u)
      <4>1. x = o /\ InTopic(u) = t
        BY <1>4, <2>2, <3>1, <3>3
      <4>2. ~ taken[chain[u]][o] > 0
        <5>1. ~ Rank[t] < Rank[t]
          BY <1>0, Ranked
        <5> QED
          BY <1>3, <3>1, <4>1, <5>1 DEF InTopic
      <4> QED
        BY <1>0, <3>1, <4>1, <4>2, TakenCounts
    <3> QED
      BY <3>2, <3>3
  <2> QED
    BY <1>1, <1>5, <2>1, <2>2 DEF NotTakenYet, managerVars, Started
<1>8. NewNotTaken'
  BY <1>1, <1>2 DEF NoneTwice, NewNotTaken
<1>9. TakenBehind'
  <2> SUFFICES ASSUME NEW u \in Started, Passer(u), NEW c \in Chains
               PROVE  /\ \A x \in Queued(u)' : taken[c][x] > 0 => Behind(c, u)
                      /\ Working(u)' /\ taken[c][msg[u]] > 0 => c = chain[u] \/ Behind(c, u)
    BY <1>1, <1>5, <1>6 DEF TakenBehind, managerVars, Started
  <2>1. u \in Workers
    BY DEF Started
  <2>2. ASSUME NEW x \in Queued(u)', taken[c][x] > 0
        PROVE  Behind(c, u)
    <3>1. CASE x \in Queued(u)
      BY <2>2, <3>1 DEF NoneTwice, TakenBehind
    <3>2. CASE x \notin Queued(u)
      BY <1>3, <1>4, <2>1, <2>2, <3>2 DEF Behind
    <3> QED
      BY <3>1, <3>2
  <2>3. Working(u)' /\ taken[c][msg[u]] > 0 => c = chain[u] \/ Behind(c, u)
    BY <1>2, <2>1 DEF NoneTwice, TakenBehind
  <2> QED
    BY <2>2, <2>3
<1> QED
  BY <1>7, <1>8, <1>9 DEF NoneTwice

LEMMA TakeNoneTwice ==
  ASSUME TypeOK, TopicsInv, NoneTwice, NEW w \in Workers, Take(w)
  PROVE  NoneTwice'
<1> DEFINE o == Head(ch[w])
<1>0. /\ w \in Started /\ pc[w] = "idle" /\ ch[w] # <<>> /\ ch[w] \in Seq(Objects)
      /\ msg' = [msg EXCEPT ![w] = o] /\ ch' = [ch EXCEPT ![w] = Tail(@)]
      /\ pc' = [pc EXCEPT ![w] = "process"]
      /\ taken' = [taken EXCEPT ![chain[w]][o] = IF @ < 2 THEN @ + 1 ELSE 2]
      /\ UNCHANGED <<managerVars, results, loaded, topicOf, injected>>
      /\ results[w] = <<>> /\ chain[w] \in Chains
  BY DEF Take, TypeOK, TopicsInv, StepsAsWritten, Started
<1>1. /\ o \in Elements(ch[w]) /\ o \in Objects
      /\ Elements(Tail(ch[w])) \subseteq Elements(ch[w]) /\ o \notin Elements(Tail(ch[w]))
  BY <1>0, OfTail DEF TopicsInv, PassedAreOwn
<1> HIDE DEF o
<1>2. /\ msg'[w] = o /\ \A u \in Workers \ {w} : msg'[u] = msg[u] /\ (Working(u)' <=> Working(u))
      /\ Queued(w)' \subseteq Queued(w) \ {o} /\ o \in Queued(w)
      /\ \A u \in Workers \ {w} : Queued(u)' = Queued(u)
      /\ \A u \in Workers : ToPublish(u)' = ToPublish(u) /\ (Passer(u)' <=> Passer(u))
      /\ ToPublish(w) = {} /\ Started' = Started
  BY <1>0, <1>1 DEF TypeOK, Queued, Working, ToPublish, Passer, Started, managerVars
<1>3. /\ \A c \in Chains : \A x \in Objects : c # chain[w] \/ x # o => taken'[c][x] = taken[c][x]
      /\ taken[chain[w]][o] = 0 => taken'[chain[w]][o] = 1
  BY <1>0, <1>1 DEF TypeOK
<1>4. \A c, u : Behind(c, u)' <=> Behind(c, u)
  BY <1>0 DEF Behind, Rank, InTopic, managerVars
<1>5. \A u \in Workers : \A x \in Queued(u) \cup ToPublish(u) : x \in Objects
  <2>1. \A u \in Workers : ch[u] \in Seq(Objects) /\ results[u] \in Seq(Result)
    BY DEF TypeOK
  <2>2. \A q \in Seq(Objects) : \A i \in DOMAIN q : q[i] \in Objects
    OBVIOUS
  <2>3. \A q \in Seq(Result) : \A i \in DOMAIN q : q[i] \in Result
    OBVIOUS
  <2>4. \A u \in Workers : \A x \in Queued(u) : x \in Objects
    BY <2>1, <2>2 DEF Queued, Elements
  <2>5. \A u \in Workers : \A x \in ToPublish(u) : x \in Objects
    <3>1. \A r \in Result : r.obj \in Objects
      BY DEF Result
    <3>2. \A u \in Workers : \A i \in DOMAIN results[u] : results[u][i].obj \in Objects
      BY <2>1, <2>3, <3>1
    <3> QED
      BY <3>2 DEF ToPublish
  <2> QED
    BY <2>4, <2>5
<1>6. NotTakenYet'
  <2>1. ASSUME NEW c \in Chains, NEW x \in Objects
        PROVE  /\ c \notin stopped' => taken'[c][x] < 2
               /\ taken'[c][x] > 0 => x \in 1 .. Len(topicOf')
    <3>1. CASE c # chain[w] \/ x # o
      BY <1>0, <1>3, <3>1 DEF NoneTwice, NotTakenYet, managerVars
    <3>2. CASE c = chain[w] /\ x = o
      <4>1. o \in 1 .. Len(topicOf)
        BY <1>2, HeldHaveTopics
      <4>2. c \notin stopped => taken[c][o] = 0
        BY <1>0, <1>2, <3>2 DEF NoneTwice, NotTakenYet
      <4> QED
        BY <1>0, <1>3, <3>2, <4>1, <4>2 DEF managerVars
    <3> QED
      BY <3>1, <3>2
  <2>2. ASSUME NEW u \in Started, NEW x \in Queued(u)', chain[u] \notin stopped
        PROVE  taken'[chain[u]][x] = 0
    <3>1. u \in Workers /\ chain[u] \in Chains /\ x \in Queued(u) /\ x \in Objects
      BY <1>2, <1>5, <2>2 DEF Started, TypeOK
    <3>2. chain[u] # chain[w] \/ x # o
      <4>1. CASE u = w
        BY <1>2, <2>2, <4>1
      <4>2. CASE u # w
        BY <1>0, <2>2, <4>2 DEF TopicsInv, OneWorkerToAChain
      <4> QED
        BY <4>1, <4>2
    <3> QED
      BY <1>3, <2>2, <3>1, <3>2 DEF NoneTwice, NotTakenYet
  <2> QED
    BY <1>0, <1>2, <2>1, <2>2 DEF NotTakenYet, managerVars
<1>7. NewNotTaken'
  <2> SUFFICES ASSUME NEW u \in Workers, NEW x \in ToPublish(u), x # msg'[u], NEW c \in Chains
               PROVE  taken'[c][x] = 0
    BY <1>2 DEF NewNotTaken
  <2>1. u # w
    BY <1>2
  <2>2. x # o
    BY <1>2, <2>1 DEF TopicsInv, ResultsAreOwn, Own, Holds
  <2> QED
    BY <1>2, <1>3, <1>5, <2>1, <2>2 DEF NoneTwice, NewNotTaken
<1>8. TakenBehind'
  <2> SUFFICES ASSUME NEW u \in Started, Passer(u), NEW c \in Chains
               PROVE  /\ \A x \in Queued(u)' : taken'[c][x] > 0 => Behind(c, u)
                      /\ Working(u)' /\ taken'[c][msg'[u]] > 0 => c = chain[u] \/ Behind(c, u)
    BY <1>0, <1>2, <1>4 DEF TakenBehind, managerVars, Started
  <2>0. u \in Workers
    BY DEF Started
  <2>1. CASE u = w
    <3>1. \A x \in Queued(w)' : x # o /\ x \in Queued(w) /\ taken'[c][x] = taken[c][x]
      BY <1>2, <1>3, <1>5
    <3>2. c = chain[w] \/ taken'[c][o] = taken[c][o]
      BY <1>1, <1>3
    <3> QED
      BY <1>2, <2>1, <3>1, <3>2 DEF NoneTwice, TakenBehind
  <2>2. CASE u # w
    <3>1. \A x \in Holds(u) : x # o
      BY <1>0, <1>2, <2>0, <2>2 DEF TopicsInv, PassedAreOwn, Own, Holds
    <3>2. \A x \in Queued(u) : taken'[c][x] = taken[c][x]
      BY <1>3, <1>5, <2>0, <3>1 DEF Holds
    <3>3. Working(u) => taken'[c][msg[u]] = taken[c][msg[u]]
      <4>1. Working(u) => msg[u] \in Objects /\ msg[u] \in Holds(u)
        BY <2>0 DEF TopicsInv, StepsAsWritten, Holds, Working
      <4> QED
        BY <1>3, <3>1, <4>1
    <3> QED
      BY <1>2, <2>0, <2>2, <3>2, <3>3 DEF NoneTwice, TakenBehind
  <2> QED
    BY <2>1, <2>2
<1> QED
  BY <1>6, <1>7, <1>8 DEF NoneTwice

LEMMA NextNoneTwice ==
  ASSUME TypeOK, TopicsInv, NothingShared(table), NothingReturns(table), NoneTwice, [Next]_vars
  PROVE  NoneTwice'
<1>1. ASSUME NEW t \in Topics, Inject(t) PROVE NoneTwice'
  BY <1>1, InjectNoneTwice
<1>2. ASSUME NEW c \in Chains, NEW w \in Workers, StartPipeline(c, w) PROVE NoneTwice'
  <2>0. /\ w \notin Started
        /\ \A u \in Workers \ {w} : chain'[u] = chain[u]
        /\ UNCHANGED <<table, stopped, ch, pc, msg, results, loaded, topicOf, taken, injected>>
    BY <1>2 DEF StartPipeline, Fresh, TypeOK
  <2>1. \A u \in Workers \ {w} : /\ (Passer(u)' <=> Passer(u))
                                 /\ (u \in Started' <=> u \in Started)
                                 /\ \A d : Behind(d, u)' <=> Behind(d, u)
    BY <2>0 DEF Passer, Started, Behind, Rank, InTopic
  <2>2. \A u \in Workers : /\ Queued(u)' = Queued(u) /\ ToPublish(u)' = ToPublish(u)
                           /\ (Working(u)' <=> Working(u))
    BY <2>0 DEF Queued, ToPublish, Working
  <2>3. Queued(w) = {} /\ ~Working(w)
    BY <2>0 DEF TopicsInv, StepsAsWritten, Queued, Elements, Working
  <2>4. NotTakenYet'
    <3>1. \A d \in Chains : \A o \in Objects :
            /\ d \notin stopped' => taken'[d][o] < 2
            /\ taken'[d][o] > 0 => o \in 1 .. Len(topicOf')
      BY <2>0 DEF NoneTwice, NotTakenYet
    <3>2. ASSUME NEW u \in Started', NEW o \in Queued(u)', chain'[u] \notin stopped'
          PROVE  taken'[chain'[u]][o] = 0
      BY <2>0, <2>1, <2>2, <2>3, <3>2 DEF NoneTwice, NotTakenYet, Started
    <3> QED
      BY <3>1, <3>2 DEF NotTakenYet
  <2>5. NewNotTaken'
    BY <2>0, <2>2 DEF NoneTwice, NewNotTaken
  <2>6. TakenBehind'
    <3> SUFFICES ASSUME NEW u \in Started', Passer(u)', NEW d \in Chains
                 PROVE  /\ \A o \in Queued(u)' : taken'[d][o] > 0 => Behind(d, u)'
                        /\ Working(u)' /\ taken'[d][msg'[u]] > 0 => d = chain'[u] \/ Behind(d, u)'
      BY DEF TakenBehind
    <3>1. CASE u = w
      BY <2>2, <2>3, <3>1
    <3>2. CASE u # w
      BY <2>0, <2>1, <2>2, <3>2 DEF NoneTwice, TakenBehind, Started
    <3> QED
      BY <3>1, <3>2
  <2> QED
    BY <2>4, <2>5, <2>6 DEF NoneTwice
<1>3. ASSUME StopAll \/ \E c \in Chains : StopPipeline(c) PROVE NoneTwice'
  <2>1. PICK chains \in SUBSET Chains : Forget(chains)
    BY <1>3 DEF StopAll, StopPipeline
  <2>2. /\ UNCHANGED <<table, chain, taken, msg, topicOf>> /\ stopped \subseteq stopped'
        /\ UNCHANGED <<ch, pc, results>>
    BY <2>1 DEF Forget
  <2>3. \A u \in Workers :
           /\ Queued(u)' = Queued(u) /\ (Working(u)' => Working(u))
           /\ \A o \in ToPublish(u)' : \/ o = msg[u] \/ o \in ToPublish(u)
                                       \/ o \in Objects /\ o \notin 1 .. Len(topicOf)
    BY <2>2 DEF Queued, Working, ToPublish
  <2>4. Len(topicOf) \in Nat /\ Len(topicOf') \in Nat /\ Len(topicOf) <= Len(topicOf')
    BY <2>2, HeldHaveTopics
  <2> QED
    BY <2>2, <2>3, <2>4, NothingGiven
<1>4. ASSUME NEW w \in Workers, Take(w) PROVE NoneTwice'
  BY <1>4, TakeNoneTwice
<1>5. ASSUME NEW w \in Workers, PublishResult(w) PROVE NoneTwice'
  BY <1>5, PublishResultNoneTwice
<1>6. ASSUME NEW w \in Workers, LoadTopic(w) \/ Redirect(w) PROVE NoneTwice'
  <2>1. /\ UNCHANGED <<table, chain, taken, msg, ch, results>> /\ stopped \subseteq stopped'
        /\ \A u \in Workers : Working(u)' => Working(u)
    BY <1>6 DEF LoadTopic, Redirect, managerVars, Working, TypeOK
  <2>2. Len(topicOf) \in Nat /\ Len(topicOf') = Len(topicOf)
    BY <1>6, HeldHaveTopics DEF LoadTopic, Redirect, TypeOK
  <2>3. \A u \in Workers :
           /\ Queued(u)' = Queued(u) /\ (Working(u)' => Working(u))
           /\ \A o \in ToPublish(u)' : \/ o = msg[u] \/ o \in ToPublish(u)
                                       \/ o \in Objects /\ o \notin 1 .. Len(topicOf)
    BY <2>1 DEF Queued, ToPublish
  <2>4. Len(topicOf') \in Nat /\ Len(topicOf) <= Len(topicOf')
    BY <2>2
  <2> QED
    BY <2>1, <2>2, <2>3, <2>4, NothingGiven
<1>7. ASSUME NEW w \in Workers, Process(w) PROVE NoneTwice'
  <2>1. /\ Working(w) /\ Len(topicOf') \in Nat /\ Len(topicOf) <= Len(topicOf') /\ Len(topicOf) \in Nat
        /\ \A u \in Workers \ {w} : results'[u] = results[u] /\ pc'[u] = pc[u]
        /\ results' \in [Workers -> Seq(Result)]
        /\ UNCHANGED <<managerVars, ch, msg, loaded, taken, injected>>
        /\ \/ ToPublish(w)' = {msg[w]}
           \/ ToPublish(w)' \subseteq (1 .. Len(topicOf')) \ (1 .. Len(topicOf))
    BY <1>7, Processed, HeldHaveTopics
  <2>2. UNCHANGED <<table, chain, taken, msg>> /\ stopped \subseteq stopped'
    BY <2>1 DEF managerVars
  <2>3. \A o \in ToPublish(w)' : o \in Objects
    <3>1. \A r \in Result : r.obj \in Objects
      BY DEF Result
    <3>2. \A q \in Seq(Result) : \A i \in DOMAIN q : q[i] \in Result
      OBVIOUS
    <3>3. \A i \in DOMAIN results'[w] : results'[w][i].obj \in Objects
      BY <2>1, <3>1, <3>2
    <3> QED
      BY <3>3 DEF ToPublish
  <2>4. \A u \in Workers :
           /\ Queued(u)' = Queued(u) /\ (Working(u)' => Working(u))
           /\ \A o \in ToPublish(u)' : \/ o = msg[u] \/ o \in ToPublish(u)
                                       \/ o \in Objects /\ o \notin 1 .. Len(topicOf)
    <3>1. \A u \in Workers : Queued(u)' = Queued(u)
      BY <2>1 DEF Queued
    <3>2. \A u \in Workers \ {w} : (Working(u)' => Working(u)) /\ ToPublish(u)' = ToPublish(u)
      BY <2>1 DEF Working, ToPublish
    <3> QED
      BY <2>1, <2>3, <3>1, <3>2
  <2> QED
    BY <2>1, <2>2, <2>4, NothingGiven
<1>8. CASE UNCHANGED vars
  <2>1. UNCHANGED <<table, chain, taken, msg, stopped, topicOf, ch, pc, results>>
    BY <1>8 DEF vars, managerVars
  <2>2. \A u \in Workers :
           /\ Queued(u)' = Queued(u) /\ (Working(u)' => Working(u))
           /\ \A o \in ToPublish(u)' : \/ o = msg[u] \/ o \in ToPublish(u)
                                       \/ o \in Objects /\ o \notin 1 .. Len(topicOf)
    BY <2>1 DEF Queued, Working, ToPublish
  <2>3. Len(topicOf) \in Nat /\ Len(topicOf') \in Nat /\ Len(topicOf) <= Len(topicOf')
    BY <2>1, HeldHaveTopics
  <2>4. UNCHANGED <<table, chain, taken, msg>> /\ stopped \subseteq stopped'
    BY <2>1
  <2> QED
    BY <2>2, <2>3, <2>4, NothingGiven
<1> QED
  BY <1>1, <1>2, <1>3, <1>4, <1>5, <1>6, <1>7, <1>8 DEF Next, WorkerStep
-----------------------------------------------------------------------------
LEMMA OfCons ==
  ASSUME NEW S, NEW x \in S, NEW q \in Seq(S)
  PROVE  <<x>> \o q \in Seq(S) /\ Elements(<<x>> \o q) = {x} \cup Elements(q)
<1>1. /\ Len(q) \in Nat /\ DOMAIN q = 1 .. Len(q)
      /\ <<x>> \o q \in Seq(S) /\ DOMAIN (<<x>> \o q) = 1 .. Len(q) + 1
      /\ (<<x>> \o q)[1] = x
      /\ \A i \in 2 .. Len(q) + 1 : (<<x>> \o q)[i] = q[i - 1]
  OBVIOUS
<1> DEFINE c == <<x>> \o q
<1> HIDE DEF c
<1>2. \A i \in DOMAIN c : (i = 1 /\ c[i] = x) \/ (i - 1 \in DOMAIN q /\ c[i] = q[i - 1])
  BY <1>1 DEF c
<1>3. \A i \in DOMAIN q : i + 1 \in DOMAIN c /\ c[i + 1] = q[i]
  <2> SUFFICES ASSUME NEW i \in DOMAIN q PROVE i + 1 \in DOMAIN c /\ c[i + 1] = q[i]
    OBVIOUS
  <2>1. i + 1 \in 2 .. Len(q) + 1 /\ (i + 1) - 1 = i /\ i + 1 \in DOMAIN c
    BY <1>1 DEF c
  <2> QED
    BY <1>1, <2>1 DEF c
<1>4. 1 \in DOMAIN c /\ c[1] = x
  BY <1>1 DEF c
<1>5. Elements(c) = {x} \cup Elements(q)
  BY <1>2, <1>3, <1>4 DEF Elements
<1> QED
  BY <1>1, <1>5 DEF c

\* Whatever requests do, and however they interleave, is a behaviour of the chains.
LEMMA RequestsStep == RequestsNext => [Next]_vars
<1> SUFFICES ASSUME RequestsNext PROVE [Next]_vars
  OBVIOUS
<1>1. ASSUME NEW q \in Requests, ReloadAll(q) PROVE UNCHANGED vars
  BY <1>1 DEF ReloadAll, Begin
<1>2. ASSUME NEW q \in Requests, NEW c \in table.requested,
             \/ Enable(q, c) \/ Disable(q, c) \/ Delete(q, c)
             \/ \E enable \in BOOLEAN : Create(q, c, enable) \/ Update(q, c, enable)
      PROVE  UNCHANGED vars
  BY <1>2 DEF Enable, Disable, Delete, Create, Update, Begin
<1>3. ASSUME NEW q \in Requests \cup {Boot}, RequestStep(q) PROVE [Next]_vars
  <2>1. ASSUME StopEverything(q) PROVE Next
    BY <2>1 DEF StopEverything, Next
  <2>2. ASSUME startPipelines(q) PROVE UNCHANGED vars
    BY <2>2 DEF startPipelines
  <2>3. ASSUME NEW c \in Chains, WriteEnable(q, c) \/ SkipStart(q, c) PROVE UNCHANGED vars
    BY <2>3 DEF WriteEnable, SkipStart
  <2>4. ASSUME NEW c \in Chains, Stop(q, c) PROVE Next
    BY <2>4 DEF Stop, Next
  <2>5. ASSUME NEW c \in Chains, NEW w \in Workers, Start(q, c, w) PROVE Next
    BY <2>5 DEF Start, Next
  <2> QED
    BY <1>3, <2>1, <2>2, <2>3, <2>4, <2>5 DEF RequestStep
<1>4. ASSUME (\E t \in Topics : Inject(t)) \/ (\E w \in Workers : WorkerStep(w)) PROVE Next
  BY <1>4 DEF Next
<1> QED
  BY <1>1, <1>2, <1>3, <1>4 DEF RequestsNext

LEMMA InitRequests == RequestsInit => ChainsInv /\ NoneTwice
<1> SUFFICES ASSUME RequestsInit PROVE ChainsInv /\ NoneTwice
  OBVIOUS
<1>1. TypeOK /\ TopicsInv /\ NoneTwice
  BY InitChains DEF RequestsInit
<1>2. C("list", Chains) \in Call
  BY DEF C, Call
<1>3. /\ \A q \in Requests \cup {Boot} : todo[q] = <<C("list", Chains)>> \/ todo[q] = <<>>
      /\ todo \in [Requests \cup {Boot} -> Seq(Call)]
  BY <1>2 DEF RequestsInit
<1>4. RequestsTyped
  BY <1>3 DEF RequestsInit, RequestsTyped
<1>5. stopped = {}
  BY DEF RequestsInit, Init
<1>6. Elements(<<>>) = {} /\ Elements(<<C("list", Chains)>>) = {C("list", Chains)}
  BY DEF Elements
<1>7. NoStops
  BY <1>3, <1>5, <1>6 DEF NoStops, C
<1> QED
  BY <1>1, <1>4, <1>7 DEF ChainsInv

LEMMA NextRequests ==
  ASSUME table \in Tables, RequestsTyped, NoStops, [RequestsNext]_allVars
  PROVE  RequestsTyped' /\ NoStops'
<1>0. /\ \A q \in Requests \cup {Boot} : todo[q] \in Seq(Call)
      /\ enabled \subseteq Chains /\ rows \subseteq Chains /\ issued \subseteq Chains
  BY DEF RequestsTyped
\* A request begins.
<1>1. ASSUME NEW q \in Requests, NEW calls \in Seq(Call), Begin(q, calls), table.requested # {},
             issued' \subseteq Chains, rows' \subseteq issued', enabled' \subseteq rows'
      PROVE  RequestsTyped' /\ NoStops'
  <2>1. todo' = [todo EXCEPT ![q] = calls] /\ table' = table
    BY <1>1 DEF Begin, vars, managerVars
  <2>2. todo' \in [Requests \cup {Boot} -> Seq(Call)]
    BY <2>1 DEF RequestsTyped
  <2> QED
    BY <1>1, <2>1, <2>2 DEF RequestsTyped, NoStops
<1>2. ASSUME NEW q \in Requests, ReloadAll(q) PROVE RequestsTyped' /\ NoStops'
  <2>1. C("stop_all", Chains) \in Call /\ C("list", Chains) \in Call
    BY DEF C, Call
  <2>2. <<C("stop_all", Chains), C("list", Chains)>> \in Seq(Call)
    BY <2>1
  <2> QED
    BY <1>1, <1>2, <2>2 DEF ReloadAll, rowVars, RequestsTyped
<1>3. ASSUME NEW q \in Requests, NEW c \in table.requested, c \in Chains,
             \/ Enable(q, c) \/ Disable(q, c) \/ Delete(q, c)
             \/ \E enable \in BOOLEAN : Create(q, c, enable) \/ Update(q, c, enable)
      PROVE  RequestsTyped' /\ NoStops'
  <2>0. /\ <<C("write_enable", {c}), C("start", {c})>> \in Seq(Call)
        /\ <<C("stop", {c})>> \in Seq(Call)
        /\ \A enable \in BOOLEAN : /\ IfEnabled(enable, c) \in Seq(Call)
                                   /\ <<C("stop", {c})>> \o IfEnabled(enable, c) \in Seq(Call)
    <3>1. \A name \in {"write_enable", "stop", "start"} : C(name, {c}) \in Call
      BY <1>3 DEF C, Call
    <3>2. \A enable \in BOOLEAN : IfEnabled(enable, c) \in Seq(Call)
      BY <3>1 DEF IfEnabled
    <3>3. <<C("stop", {c})>> \in Seq(Call)
      BY <3>1
    <3>4. <<C("write_enable", {c}), C("start", {c})>> \in Seq(Call)
      <4>1. \A x, y \in Call : <<x, y>> \in Seq(Call)
        OBVIOUS
      <4> QED
        BY <3>1, <4>1
    <3>5. \A enable \in BOOLEAN : <<C("stop", {c})>> \o IfEnabled(enable, c) \in Seq(Call)
      BY <3>2, <3>3
    <3> QED
      BY <3>2, <3>3, <3>4, <3>5
  <2>1. ASSUME Enable(q, c) PROVE RequestsTyped' /\ NoStops'
    BY <1>1, <2>0, <2>1 DEF Enable, rowVars, RequestsTyped
  <2>2. ASSUME Disable(q, c) PROVE RequestsTyped' /\ NoStops'
    <3>1. enabled' \subseteq rows' /\ rows' = rows /\ issued' = issued
      BY <2>2 DEF Disable, Written, RequestsTyped
    <3> QED
      BY <1>0, <1>1, <2>0, <2>2, <3>1 DEF Disable, RequestsTyped
  <2>3. ASSUME Delete(q, c) PROVE RequestsTyped' /\ NoStops'
    <3>1. enabled' \subseteq rows' /\ rows' \subseteq issued' /\ issued' = issued
      BY <2>3 DEF Delete, RequestsTyped
    <3> QED
      BY <1>0, <1>1, <2>0, <2>3, <3>1 DEF Delete
  <2>4. ASSUME NEW enable \in BOOLEAN, Create(q, c, enable) PROVE RequestsTyped' /\ NoStops'
    <3>1. enabled' \subseteq rows' /\ rows' \subseteq issued' /\ issued' \subseteq Chains
      BY <1>3, <2>4 DEF Create, RequestsTyped
    <3> QED
      BY <1>1, <2>0, <2>4, <3>1 DEF Create
  <2>5. ASSUME NEW enable \in BOOLEAN, Update(q, c, enable) PROVE RequestsTyped' /\ NoStops'
    <3>1. enabled' \subseteq rows' /\ rows' = rows /\ issued' = issued
      BY <2>5 DEF Update, Written, RequestsTyped
    <3> QED
      BY <1>0, <1>1, <2>0, <2>5, <3>1 DEF Update, RequestsTyped
  <2> QED
    BY <1>3, <2>1, <2>2, <2>3, <2>4, <2>5
\* A goroutine makes one of its calls.
<1>4. ASSUME NEW q \in Requests \cup {Boot}, NEW rest \in Seq(Call), todo' = [todo EXCEPT ![q] = rest],
             table.requested = {} => \A e \in Elements(rest) : e.call \in {"list", "start"},
             table.requested = {} => stopped' = {},
             table' = table, enabled' \subseteq rows', UNCHANGED <<rows, issued>>
      PROVE  RequestsTyped' /\ NoStops'
  <2>1. todo' \in [Requests \cup {Boot} -> Seq(Call)]
    BY <1>4 DEF RequestsTyped
  <2>2. \A p \in Requests \cup {Boot} : todo'[p] = IF p = q THEN rest ELSE todo[p]
    BY <1>4 DEF RequestsTyped
  <2> QED
    BY <1>4, <2>1, <2>2 DEF RequestsTyped, NoStops
<1>5. ASSUME NEW q \in Requests \cup {Boot}, todo[q] # <<>>
      PROVE  /\ Head(todo[q]) \in Call /\ Head(todo[q]) \in Elements(todo[q])
             /\ Tail(todo[q]) \in Seq(Call) /\ Elements(Tail(todo[q])) \subseteq Elements(todo[q])
             /\ <<>> \o Tail(todo[q]) = Tail(todo[q])
  BY <1>0, <1>5, OfTail
<1>6. ASSUME NEW q \in Requests \cup {Boot}, NEW name, NEW c \in Chains, Makes(q, name, c),
             table.requested = {} => stopped' = {},
             table' = table, enabled' \subseteq rows', UNCHANGED <<rows, issued>>
      PROVE  RequestsTyped' /\ NoStops'
  <2> DEFINE e == Head(todo[q])
             x == C(name, e.chains \ {c})
             rest == IF e.chains = {c} THEN Tail(todo[q]) ELSE <<x>> \o Tail(todo[q])
  <2>1. todo[q] # <<>> /\ e.call = name /\ todo' = [todo EXCEPT ![q] = rest]
    BY <1>6 DEF Makes
  <2>2. x \in Call /\ x.call = name
    BY <1>5, <2>1 DEF C, Call
  <2>3. rest \in Seq(Call) /\ Elements(rest) \subseteq {x} \cup Elements(todo[q])
    <3> HIDE DEF x
    <3>1. Tail(todo[q]) \in Seq(Call) /\ Elements(Tail(todo[q])) \subseteq Elements(todo[q])
      BY <1>5, <2>1
    <3>2. /\ <<x>> \o Tail(todo[q]) \in Seq(Call)
          /\ Elements(<<x>> \o Tail(todo[q])) = {x} \cup Elements(Tail(todo[q]))
      BY <2>2, <3>1, OfCons, ZenonT(40)
    <3> QED
      BY <3>1, <3>2
  <2>4. table.requested = {} => \A y \in Elements(rest) : y.call \in {"list", "start"}
    BY <1>5, <2>1, <2>2, <2>3 DEF NoStops
  <2> HIDE DEF rest
  <2> QED
    BY <1>4, <1>6, <2>1, <2>3, <2>4
<1>7. ASSUME NEW q \in Requests \cup {Boot}, NEW name, NEW next \in {"stop_all", "start"},
             NEW chains \in SUBSET Chains, MakesAll(q, name, next, chains),
             chains # {} => next = "start",
             table.requested = {} => stopped' = {},
             table' = table, enabled' \subseteq rows', UNCHANGED <<rows, issued>>
      PROVE  RequestsTyped' /\ NoStops'
  <2> DEFINE x == C(next, chains)
             rest == (IF chains = {} THEN <<>> ELSE <<x>>) \o Tail(todo[q])
  <2>1. todo[q] # <<>> /\ todo' = [todo EXCEPT ![q] = rest]
    BY <1>7 DEF MakesAll
  <2>2. x \in Call /\ x.call = next
    BY DEF C, Call
  <2>3. CASE chains = {}
    <3>1. rest = Tail(todo[q])
      BY <1>5, <2>1, <2>3
    <3>2. rest \in Seq(Call) /\ Elements(rest) \subseteq Elements(todo[q])
      BY <1>5, <2>1, <3>1
    <3>3. table.requested = {} => \A y \in Elements(rest) : y.call \in {"list", "start"}
      BY <3>2 DEF NoStops
    <3> HIDE DEF rest
    <3> QED
      BY <1>4, <1>7, <2>1, <3>2, <3>3
  <2>4. CASE chains # {}
    <3>1. rest = <<x>> \o Tail(todo[q])
      BY <2>4
    <3>2. rest \in Seq(Call) /\ Elements(rest) \subseteq {x} \cup Elements(todo[q])
      <4> HIDE DEF x, rest
      <4>1. Tail(todo[q]) \in Seq(Call) /\ Elements(Tail(todo[q])) \subseteq Elements(todo[q])
        BY <1>5, <2>1
      <4>2. \A e \in Call : \A s \in Seq(Call) :
              <<e>> \o s \in Seq(Call) /\ Elements(<<e>> \o s) = {e} \cup Elements(s)
        BY OfCons
      <4>3. x \in Call
        BY <2>2
      <4>4. /\ <<x>> \o Tail(todo[q]) \in Seq(Call)
            /\ Elements(<<x>> \o Tail(todo[q])) = {x} \cup Elements(Tail(todo[q]))
        BY <4>1, <4>2, <4>3
      <4> QED
        BY <3>1, <4>1, <4>4
    <3>3. table.requested = {} => \A y \in Elements(rest) : y.call \in {"list", "start"}
      BY <1>7, <2>2, <2>4, <3>2 DEF NoStops
    <3> HIDE DEF rest
    <3> QED
      BY <1>4, <1>7, <2>1, <3>2, <3>3
  <2> QED
    BY <2>3, <2>4
<1>8. ASSUME NEW q \in Requests \cup {Boot}, RequestStep(q) PROVE RequestsTyped' /\ NoStops'
  <2>1. ASSUME StopEverything(q) PROVE RequestsTyped' /\ NoStops'
    <3>1. table.requested # {}
      <4>1. todo[q] # <<>> /\ Head(todo[q]).call = "stop_all"
        BY <2>1 DEF StopEverything, MakesAll
      <4> QED
        BY <1>5, <4>1 DEF NoStops
    <3>2. UNCHANGED <<table, rows, enabled, issued>> /\ MakesAll(q, "stop_all", "stop_all", {})
      BY <2>1 DEF StopEverything, StopAll, Forget, rowVars
    <3>3. /\ enabled' \subseteq rows' /\ UNCHANGED <<rows, issued>> /\ table' = table
          /\ table.requested = {} => stopped' = {}
      BY <3>1, <3>2 DEF RequestsTyped
    <3>4. {} \in SUBSET Chains /\ ({} # {} => "stop_all" = "start")
      OBVIOUS
    <3> QED
      BY <1>7, <3>2, <3>3, <3>4
  <2>2. ASSUME startPipelines(q) PROVE RequestsTyped' /\ NoStops'
    <3>1. UNCHANGED <<table, stopped, rows, enabled, issued>> /\ MakesAll(q, "list", "start", enabled)
      BY <2>2 DEF startPipelines, vars, managerVars, rowVars
    <3> QED
      BY <1>0, <1>7, <3>1 DEF RequestsTyped, NoStops
  <2>3. ASSUME NEW c \in Chains, WriteEnable(q, c) PROVE RequestsTyped' /\ NoStops'
    <3>1. UNCHANGED <<table, stopped, rows, issued>> /\ Makes(q, "write_enable", c)
          /\ enabled' \subseteq rows'
      BY <2>3 DEF WriteEnable, Written, vars, managerVars, RequestsTyped
    <3> QED
      BY <1>6, <3>1 DEF NoStops
  <2>4. ASSUME NEW c \in Chains, SkipStart(q, c) PROVE RequestsTyped' /\ NoStops'
    <3>1. UNCHANGED <<table, stopped, rows, enabled, issued>> /\ Makes(q, "start", c)
      BY <2>4 DEF SkipStart, vars, managerVars, rowVars
    <3> QED
      BY <1>6, <3>1 DEF NoStops, RequestsTyped
  <2>5. ASSUME NEW c \in Chains, Stop(q, c) PROVE RequestsTyped' /\ NoStops'
    <3>1. table.requested # {}
      <4>1. todo[q] # <<>> /\ Head(todo[q]).call = "stop"
        BY <2>5 DEF Stop, Makes
      <4> QED
        BY <1>5, <4>1 DEF NoStops
    <3>2. UNCHANGED <<table, rows, enabled, issued>> /\ Makes(q, "stop", c)
      BY <2>5 DEF Stop, StopPipeline, Forget, rowVars
    <3> QED
      BY <1>6, <3>1, <3>2 DEF RequestsTyped
  <2>6. ASSUME NEW c \in Chains, NEW w \in Workers, Start(q, c, w) PROVE RequestsTyped' /\ NoStops'
    <3>1. UNCHANGED <<table, stopped, rows, enabled, issued>> /\ Makes(q, "start", c)
      BY <2>6 DEF Start, StartPipeline, rowVars
    <3> QED
      BY <1>6, <3>1 DEF NoStops, RequestsTyped
  <2> QED
    BY <1>8, <2>1, <2>2, <2>3, <2>4, <2>5, <2>6 DEF RequestStep
<1>9. ASSUME (\E t \in Topics : Inject(t)) \/ (\E w \in Workers : WorkerStep(w)),
             UNCHANGED <<rowVars, todo, made>>
      PROVE  RequestsTyped' /\ NoStops'
  <2>1. UNCHANGED managerVars
    BY <1>9 DEF Inject, WorkerStep, Take, Process, LoadTopic, Redirect, PublishResult
  <2> QED
    BY <1>9, <2>1 DEF RequestsTyped, NoStops, rowVars, managerVars
<1>10. CASE UNCHANGED allVars
  BY <1>10 DEF allVars, rowVars, vars, managerVars, RequestsTyped, NoStops
<1>11. table.requested \subseteq Chains
  BY TablesAssumption
<1> QED
  BY <1>2, <1>3, <1>8, <1>9, <1>10, <1>11 DEF RequestsNext

\* The boot and the requests, which come in any order and number, do nothing to the
\* chains that Spec does not allow.
THEOREM RequestsAreChains == RequestsSpec => Spec
<1>1. RequestsInit => Init
  BY DEF RequestsInit
<1>2. [RequestsNext]_allVars => [Next]_vars
  BY RequestsStep DEF allVars, vars, managerVars
<1> QED
  BY <1>1, <1>2, PTL DEF RequestsSpec, Spec

LEMMA NextChainsInv ==
  ASSUME \A t \in Tables : NothingShared(t), ChainsInv, [RequestsNext]_allVars
  PROVE  ChainsInv'
<1>1. table \in Tables /\ NothingShared(table)
  BY DEF ChainsInv, TypeOK
<1>2. RequestsTyped' /\ NoStops'
  BY <1>1, NextRequests DEF ChainsInv
<1>3. [Next]_vars
  BY RequestsStep DEF allVars, vars, managerVars
<1>4. table' = table
  BY <1>3 DEF Next, Inject, StopAll, StopPipeline, StartPipeline, Forget, WorkerStep, Take,
              Process, LoadTopic, Redirect, PublishResult, vars, managerVars
<1>5. PassersGoOn'
  <2>1. ASSUME NEW c \in stopped', table.topic[c] # None PROVE ~PassesOn(table, c)
    <3>1. table.requested # {}
      BY <1>2, <1>4, <2>1 DEF NoStops
    <3>2. c \in Chains
      BY <1>3, <2>1 DEF Next, Inject, StopAll, StopPipeline, StartPipeline, Forget, WorkerStep,
                        Take, Process, LoadTopic, Redirect, PublishResult, vars, managerVars,
                        ChainsInv, TypeOK
    <3> QED
      BY <1>1, <2>1, <3>1, <3>2 DEF NothingShared
  <2> QED
    BY <1>4, <2>1 DEF PassersGoOn
<1> QED
  BY <1>1, <1>2, <1>3, <1>5, NextChains DEF ChainsInv

LEMMA ChainsInvTopics == ChainsInv => TopicsAsChosen
<1> SUFFICES ASSUME ChainsInv PROVE TopicsAsChosen
  OBVIOUS
<1>1. \A w \in Workers : results[w] # <<>> =>
        Head(results[w]) = results[w][1] /\ 1 \in DOMAIN results[w]
  BY HeldHaveTopics DEF ChainsInv
<1>2. ASSUME NEW w \in Workers, pc[w] = "publish"
      PROVE  /\ Head(results[w]) = results[w][1]
             /\ topicOf[results[w][1].obj] =
                  IF results[w][1].topic # None THEN results[w][1].topic
                  ELSE IF table.outTopic[chain[w]] # None THEN table.outTopic[chain[w]]
                  ELSE InTopic(w)
  <2>1. results[w] # <<>>
    BY <1>2 DEF ChainsInv, TopicsInv, StepsAsWritten
  <2>2. ResultTopic(w, 1)
    BY <1>1, <2>1 DEF ChainsInv, TopicsInv, ResultTopics
  <2> QED
    BY <1>1, <1>2, <2>1, <2>2 DEF ResultTopic
<1>3. UndirectedGoesToOutTopic
  BY <1>2 DEF UndirectedGoesToOutTopic
<1>4. DirectedKeepsTopic
  BY <1>2 DEF DirectedKeepsTopic
<1>5. QueuedKeepsTopic
  <2> SUFFICES ASSUME NEW w \in Workers, NEW i \in 1 .. Len(ch[w])
               PROVE  topicOf[ch[w][i]] = InTopic(w)
    BY DEF QueuedKeepsTopic, InTopic
  <2>1. ch[w][i] \in Queued(w)
    BY DEF Queued, Elements, ChainsInv, TypeOK
  <2> QED
    BY <2>1 DEF ChainsInv, TopicsInv, GivenOnTopic
<1> QED
  BY <1>3, <1>4, <1>5 DEF TopicsAsChosen

\* Whatever is started and stopped meanwhile, every message is on the topic that a
\* processor or its chain has chosen for it, if no object is shared by two chains.
THEOREM TopicsCorrect ==
  ASSUME \A t \in Tables : NothingShared(t)
  PROVE  RequestsSpec => []TopicsAsChosen
<1>1. RequestsInit => ChainsInv
  BY InitRequests
<1>2. ChainsInv /\ [RequestsNext]_allVars => ChainsInv'
  BY NextChainsInv
<1> QED
  BY <1>1, <1>2, ChainsInvTopics, PTL DEF RequestsSpec

\* And where what is handed on does not come back, a chain takes no message twice
\* unless it is stopped, whichever requests start it at the same time.
THEOREM NoneTakenTwice ==
  ASSUME \A t \in Tables : NothingShared(t) /\ NothingReturns(t)
  PROVE  RequestsSpec => []TakenOnce
<1>1. RequestsInit => ChainsInv /\ NoneTwice
  BY InitRequests
<1>2. ASSUME ChainsInv, NoneTwice, [RequestsNext]_allVars
      PROVE  ChainsInv' /\ NoneTwice'
  <2>1. TypeOK /\ TopicsInv /\ NothingShared(table) /\ NothingReturns(table)
    BY <1>2 DEF ChainsInv, TypeOK
  <2>2. [Next]_vars
    BY <1>2, RequestsStep DEF allVars, vars, managerVars
  <2>3. \A t \in Tables : NothingShared(t)
    OBVIOUS
  <2> QED
    BY <1>2, <2>1, <2>2, <2>3, NextChainsInv, NextNoneTwice
<1>3. ChainsInv /\ NoneTwice => TakenOnce
  BY DEF NoneTwice, NotTakenYet, TakenOnce
<1>4. (ChainsInv /\ NoneTwice) /\ [RequestsNext]_allVars => (ChainsInv /\ NoneTwice)'
  BY <1>2
<1> QED
  BY <1>1, <1>3, <1>4, PTL DEF RequestsSpec
-----------------------------------------------------------------------------
(* The calls of user code. *)

\* Why PluginRunsOneCall is inductive: the mutex is that of the goroutine of a timed
\* call until it has unlocked it, whatever its caller has done meanwhile, or that of
\* the caller of a push.
HolderIsInside ==
  \A c \in Invocations :
    /\ kind[c] = "timed" => (holder = c <=> worker[c] \in {"inside", "answered"})
    /\ kind[c] # "timed" => (holder = c <=> caller[c] = "inside")
    /\ caller[c] = "inside" => kind[c] = "push"

\* A call that waits for the lock, or has not begun, has no goroutine.
NoEarlyGoroutine ==
  \A c \in Invocations : caller[c] \in {"idle", "lock"} => worker[c] = "none"

CallsInv == CallsTypeOK /\ HolderIsInside /\ NoEarlyGoroutine

LEMMA InitCalls == CallsInit => CallsInv
<1> SUFFICES ASSUME CallsInit PROVE CallsInv
  OBVIOUS
<1>1. \A c \in Invocations : caller[c] = "idle" /\ worker[c] = "none" /\ holder # c
  BY CallsAssumption DEF CallsInit
<1>2. CallsTypeOK
  BY DEF CallsInit, CallsTypeOK
<1> QED
  BY <1>1, <1>2 DEF CallsInv, HolderIsInside, NoEarlyGoroutine

LEMMA NextCalls ==
  ASSUME CallsInv, [CallsNext]_callVars
  PROVE  CallsInv'
<1> USE CallsAssumption DEF CallsInv, CallsTypeOK, HolderIsInside, NoEarlyGoroutine
<1>1. ASSUME NEW c \in Invocations, Invoke(c)
      PROVE  CallsInv'
  BY <1>1 DEF Invoke
<1>2. ASSUME NEW c \in Invocations, InvokeProcess(c)
      PROVE  CallsInv'
  BY <1>2 DEF InvokeProcess
<1>3. ASSUME NEW c \in Invocations, InvokePush(c)
      PROVE  CallsInv'
  BY <1>3 DEF InvokePush
<1>4. ASSUME NEW c \in Invocations, CallScript(c)
      PROVE  CallsInv'
  <2>1. CASE caller' = [caller EXCEPT ![c] = "returned"] /\ UNCHANGED <<worker, compiled>>
    BY <1>4, <2>1 DEF CallScript
  <2>2. CASE /\ compiled' = TRUE
             /\ caller' = [caller EXCEPT ![c] = "select"]
             /\ worker' = [worker EXCEPT ![c] = "inside"]
    BY <1>4, <2>2 DEF CallScript
  <2> QED
    BY <1>4, <2>1, <2>2 DEF CallScript
<1>5. ASSUME NEW c \in Invocations, TakeAnswer(c) \/ TimesOut(c)
      PROVE  CallsInv'
  BY <1>5 DEF TakeAnswer, TimesOut, Returns
<1>6. ASSUME NEW c \in Invocations, Answer(c)
      PROVE  CallsInv'
  BY <1>6 DEF Answer
<1>7. ASSUME NEW c \in Invocations, GoroutineEnds(c)
      PROVE  CallsInv'
  BY <1>7 DEF GoroutineEnds
<1>8. ASSUME NEW c \in Invocations, PushReturns(c)
      PROVE  CallsInv'
  BY <1>8 DEF PushReturns, Returns
<1>9. CASE UNCHANGED callVars
  BY <1>9 DEF callVars
<1> QED
  BY <1>1, <1>2, <1>3, <1>4, <1>5, <1>6, <1>7, <1>8, <1>9 DEF CallsNext, CallerStep

\* However many callers have given up, there is never more than one call inside a
\* plugin.
THEOREM OneCallAtATime == CallsSpec => []PluginRunsOneCall
<1>1. CallsInv => PluginRunsOneCall
  BY DEF CallsInv, HolderIsInside, PluginRunsOneCall, InPlugin
<1> QED
  BY <1>1, InitCalls, NextCalls, PTL DEF CallsSpec
=============================================================================
