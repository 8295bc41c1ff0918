------------------------- MODULE MessageQueueProofs -------------------------
(***************************************************************************)
(* Theorems about MessageQueue, for all sets of publishers, subscribers    *)
(* and topics, all buffer sizes and any number of published messages; and  *)
(* that the viewers keep to the queue, so that they hold with viewers too. *)
(***************************************************************************)
EXTENDS Viewers, FiniteSetTheorems, SequenceTheorems, TLAPS

\* What a publisher's record holds at each place of Publish.
PubShape ==
  \A p \in Publishers :
    /\ pc[p] = "idle" => todo[p] = {}
    /\ pc[p] \in {"idle", "deliver"} => target[p] = NoSub
    /\ pc[p] \in {"sent", "full"} => target[p] \in Subs \ todo[p]
    /\ pc[p] # "idle" => msg[p] \in Message

TypeInv == TypeOK /\ PubShape

LEMMA InitTypeInv == Init => TypeInv
<1> SUFFICES ASSUME Init PROVE TypeInv
  OBVIOUS
<1>1. /\ subscribers \subseteq Subs /\ closed \subseteq Subs /\ known \subseteq Topics
      /\ panicked \in BOOLEAN
  BY DEF Init
<1>6. /\ snapshots \in [Topics -> Seq(Message)]
      /\ topicSubs \in [Topics -> SUBSET Subs]
  BY DEF Init
<1>2. /\ pc \in [Publishers -> {"idle", "deliver", "sent", "full"}]
      /\ msg \in [Publishers -> Message \cup {NoMsg}]
      /\ todo \in [Publishers -> SUBSET Subs]
      /\ target \in [Publishers -> Subs \cup {NoSub}]
      /\ sent \in [Publishers -> Nat]
  BY DEF Init
<1>3. /\ topics \in [Subs -> SUBSET Topics]
      /\ ch \in [Subs -> Seq(Message)]
      /\ received \in [Subs -> Seq(Message)]
      /\ hand \in [Subs -> Message \cup {NoMsg}]
  BY DEF Init
<1>4. /\ cap \in [Subs -> Nat] /\ offered \in [Subs -> Nat]
      /\ enqueued \in [Subs -> Nat] /\ dequeued \in [Subs -> Nat] /\ dropped \in [Subs -> Nat]
  BY DEF Init
<1>5. PubShape
  BY DEF Init, PubShape
<1> QED
  BY <1>1, <1>2, <1>3, <1>4, <1>5, <1>6 DEF TypeInv, TypeOK

LEMMA PublishTypeInv ==
  ASSUME TypeInv, NEW p \in Publishers, NEW t \in Topics, Publish(p, t)
  PROVE  TypeInv'
<1> DEFINE m == NewMessage(p, t)
<1> USE DEF TypeInv
<1>1. m \in Message
  BY DEF TypeOK, Message, NewMessage
<1> HIDE DEF m
<1>2. PushSnapshot(snapshots[t], m) \in Seq(Message)
  BY <1>1, SnapSizeAssumption DEF PushSnapshot, TypeOK
<1>3. /\ pc' = [pc EXCEPT ![p] = IF topicSubs[t] = {} THEN "idle" ELSE "deliver"]
      /\ todo' = [todo EXCEPT ![p] = topicSubs[t]]
      /\ msg' = [msg EXCEPT ![p] = m]
      /\ snapshots' = [snapshots EXCEPT ![t] = PushSnapshot(@, m)]
      /\ pc[p] = "idle"
      /\ UNCHANGED target
  BY DEF Publish, m
<1>4. PubShape'
  <2> SUFFICES ASSUME NEW q \in Publishers
               PROVE  /\ pc'[q] = "idle" => todo'[q] = {}
                      /\ pc'[q] \in {"idle", "deliver"} => target'[q] = NoSub
                      /\ pc'[q] \in {"sent", "full"} => target'[q] \in Subs \ todo'[q]
                      /\ pc'[q] # "idle" => msg'[q] \in Message
    BY DEF PubShape
  <2>1. CASE q = p
    BY <2>1, <1>1, <1>3 DEF PubShape, TypeOK
  <2>2. CASE q # p
    BY <2>2, <1>3 DEF PubShape, TypeOK
  <2> QED
    BY <2>1, <2>2
<1>5. /\ pc' \in [Publishers -> {"idle", "deliver", "sent", "full"}]
      /\ msg' \in [Publishers -> Message \cup {NoMsg}]
      /\ todo' \in [Publishers -> SUBSET Subs]
      /\ target' \in [Publishers -> Subs \cup {NoSub}]
  BY <1>1, <1>3 DEF TypeOK
<1>6. snapshots' \in [Topics -> Seq(Message)]
  BY <1>2, <1>3 DEF TypeOK
<1>9. offered' \in [Subs -> Nat]
  <2>1. ASSUME NEW s \in Subs
        PROVE  offered[s] + (IF s \in topicSubs[t] THEN 1 ELSE 0) \in Nat
    BY DEF TypeOK
  <2> QED
    BY <2>1 DEF Publish
<1>7. /\ sent' \in [Publishers -> Nat]
      /\ known' \subseteq Topics
  BY SMTT(40) DEF Publish, TypeOK
<1>8. UNCHANGED <<subscribers, topicSubs, topics, cap, ch, closed, enqueued, dequeued,
                  dropped, hand, panicked, received>>
  BY DEF Publish, countVars
<1> QED
  BY <1>4, <1>5, <1>6, <1>7, <1>8, <1>9 DEF TypeOK

LEMMA SendTypeInv ==
  ASSUME TypeInv, NEW p \in Publishers, NEW s \in Subs,
         SendToSub(p, s) \/ SkipFullSub(p, s) \/ SendOnClosed(p, s)
  PROVE  TypeInv'
<1>1. ASSUME NEW place \in {"sent", "full"}, Settles(p, s, place), Reaches(p, s)
      PROVE  /\ PubShape'
             /\ pc' \in [Publishers -> {"idle", "deliver", "sent", "full"}]
             /\ msg' \in [Publishers -> Message \cup {NoMsg}]
             /\ todo' \in [Publishers -> SUBSET Subs]
             /\ target' \in [Publishers -> Subs \cup {NoSub}]
  <2>1. PubShape'
    BY <1>1 DEF Settles, Reaches, TypeInv, TypeOK, PubShape
  <2> QED
    BY <1>1, <2>1 DEF Settles, TypeInv, TypeOK
<1>2. CASE SendToSub(p, s)
  <2>1. ch' \in [Subs -> Seq(Message)]
    BY <1>2 DEF SendToSub, Reaches, TypeInv, TypeOK, PubShape
  <2>2. UNCHANGED <<known, snapshots, subscribers, topicSubs, topics, cap, closed,
                    enqueued, dequeued, dropped, hand, panicked, sent, offered, received>>
    BY <1>2 DEF SendToSub, queueVars, countVars
  <2> QED
    BY <1>1, <1>2, <2>1, <2>2 DEF SendToSub, TypeInv, TypeOK
<1>3. CASE SkipFullSub(p, s)
  <2>1. UNCHANGED <<known, snapshots, subscribers, topicSubs, topics, cap, ch, closed,
                    enqueued, dequeued, dropped, hand, panicked, sent, offered, received>>
    BY <1>3 DEF SkipFullSub, queueVars, countVars
  <2> QED
    BY <1>1, <1>3, <2>1 DEF SkipFullSub, TypeInv, TypeOK
<1>4. CASE SendOnClosed(p, s)
  BY <1>4 DEF SendOnClosed, TypeInv, TypeOK, PubShape, queueVars, countVars, pubVars
<1> QED
  BY <1>2, <1>3, <1>4

LEMMA RecordTypeInv ==
  ASSUME TypeInv, NEW p \in Publishers, recordEnqueue(p) \/ recordDrop(p)
  PROVE  TypeInv'
<1>1. ASSUME NextSub(p), pc[p] \in {"sent", "full"}
      PROVE  /\ PubShape'
             /\ pc' \in [Publishers -> {"idle", "deliver", "sent", "full"}]
             /\ msg' \in [Publishers -> Message \cup {NoMsg}]
             /\ todo' \in [Publishers -> SUBSET Subs]
             /\ target' \in [Publishers -> Subs \cup {NoSub}]
  <2>1. PubShape'
    BY <1>1 DEF NextSub, TypeInv, TypeOK, PubShape
  <2> QED
    BY <1>1, <2>1 DEF NextSub, TypeInv, TypeOK
<1>2. target[p] \in Subs
  BY DEF recordEnqueue, recordDrop, TypeInv, PubShape
<1>3. CASE recordEnqueue(p)
  <2>1. UNCHANGED <<known, snapshots, subscribers, topicSubs, topics, cap, ch, closed,
                    dequeued, dropped, hand, panicked, sent, offered, received>>
    BY <1>3 DEF recordEnqueue, queueVars
  <2>2. enqueued' \in [Subs -> Nat]
    BY <1>2, <1>3 DEF recordEnqueue, TypeInv, TypeOK
  <2> QED
    BY <1>1, <1>3, <2>1, <2>2 DEF recordEnqueue, TypeInv, TypeOK
<1>4. CASE recordDrop(p)
  <2>1. UNCHANGED <<known, snapshots, subscribers, topicSubs, topics, cap, ch, closed,
                    enqueued, dequeued, hand, panicked, sent, offered, received>>
    BY <1>4 DEF recordDrop, queueVars
  <2>2. dropped' \in [Subs -> Nat]
    BY <1>2, <1>4 DEF recordDrop, TypeInv, TypeOK
  <2> QED
    BY <1>1, <1>4, <2>1, <2>2 DEF recordDrop, TypeInv, TypeOK
<1> QED
  BY <1>3, <1>4

LEMMA SubscribeTypeInv ==
  ASSUME TypeInv, NEW s \in Subs, NEW T \in SUBSET Topics, NEW b \in Buffers,
         SubscribeNamed(s, T, b)
  PROVE  TypeInv'
<1>1. BufferOf(b) \in Nat
  BY BuffersAssumption, DefaultBufferAssumption DEF BufferOf
<1>2. topicSubs' \in [Topics -> SUBSET Subs]
  BY DEF SubscribeNamed, TypeInv, TypeOK
<1> QED
  BY <1>1, <1>2 DEF SubscribeNamed, TypeInv, TypeOK, PubShape, countVars, pubVars

LEMMA UnsubscribeTypeInv ==
  ASSUME TypeInv, NEW s \in Subs, UnsubscribeSub(s)
  PROVE  TypeInv'
<1>1. topicSubs' \in [Topics -> SUBSET Subs]
  BY DEF UnsubscribeSub, Unindexed, TypeInv, TypeOK
<1> QED
  BY <1>1 DEF UnsubscribeSub, TypeInv, TypeOK, PubShape, countVars, pubVars

LEMMA ConsumerTypeInv ==
  ASSUME TypeInv, NEW s \in Subs, ConsumerStep(s)
  PROVE  TypeInv'
<1>1. CASE Receive(s)
  BY <1>1, SMTT(40) DEF Receive, TypeInv, TypeOK, PubShape, queueVars, countVars, pubVars
<1>2. CASE RecordDequeue(s)
  BY <1>2, NullAssumption, SMTT(40) DEF RecordDequeue, TypeInv, TypeOK, PubShape, queueVars, pubVars
<1> QED
  BY <1>1, <1>2 DEF ConsumerStep

LEMMA NextTypeInv ==
  ASSUME TypeInv, [Next]_vars
  PROVE  TypeInv'
<1>1. ASSUME NEW p \in Publishers, NEW t \in Topics, Publish(p, t)
      PROVE  TypeInv'
  BY <1>1, PublishTypeInv
<1>2. ASSUME NEW p \in Publishers, PublisherStep(p)
      PROVE  TypeInv'
  BY <1>2, SendTypeInv, RecordTypeInv DEF PublisherStep
<1>3. ASSUME NEW t \in Topics, RegisterTopic(t)
      PROVE  TypeInv'
  BY <1>3 DEF RegisterTopic, TypeInv, TypeOK, PubShape, countVars, pubVars
<1>4. ASSUME NEW s \in Subs, NEW T \in SUBSET Topics, NEW b \in Buffers,
             SubscribeNamed(s, T, b)
      PROVE  TypeInv'
  BY <1>4, SubscribeTypeInv
<1>5. ASSUME NEW s \in Subs, UnsubscribeSub(s) \/ ConsumerStep(s)
      PROVE  TypeInv'
  BY <1>5, UnsubscribeTypeInv, ConsumerTypeInv
<1>6. CASE UNCHANGED vars
  BY <1>6 DEF vars, TypeInv, TypeOK, PubShape, queueVars, countVars, pubVars
<1> QED
  BY <1>1, <1>2, <1>3, <1>4, <1>5, <1>6 DEF Next

\* Every variable keeps its type, and a publisher's local variables fit the
\* place it stands at: in particular the subscriber whose outcome is being
\* counted is one the loop of Publish will not meet again.
LEMMA TypeInvariant == Spec => []TypeInv
BY InitTypeInv, NextTypeInv, PTL DEF Spec

\* Every variable of the queue keeps its type.
THEOREM TypeCorrect == Spec => []TypeOK
<1>1. TypeInv => TypeOK
  BY DEF TypeInv
<1> QED
  BY <1>1, TypeInvariant, PTL
-----------------------------------------------------------------------------
\* Every action but SubscribeNamed and UnsubscribeSub leaves the indexes alone.
LEMMA IndexUntouched ==
  ASSUME [Next]_vars,
         ~ \E s \in Subs, T \in SUBSET Topics, b \in Buffers : SubscribeNamed(s, T, b),
         ~ \E s \in Subs : UnsubscribeSub(s)
  PROVE  UNCHANGED <<subscribers, topicSubs, topics>>
<1>1. ASSUME NEW p \in Publishers, NEW t \in Topics, Publish(p, t)
      PROVE  UNCHANGED <<subscribers, topicSubs, topics>>
  BY <1>1 DEF Publish
<1>2. ASSUME NEW p \in Publishers, PublisherStep(p)
      PROVE  UNCHANGED <<subscribers, topicSubs, topics>>
  BY <1>2 DEF PublisherStep, SendToSub, SkipFullSub, SendOnClosed, recordEnqueue,
              recordDrop, queueVars
<1>3. ASSUME NEW t \in Topics, RegisterTopic(t)
      PROVE  UNCHANGED <<subscribers, topicSubs, topics>>
  BY <1>3 DEF RegisterTopic
<1>4. ASSUME NEW s \in Subs, ConsumerStep(s)
      PROVE  UNCHANGED <<subscribers, topicSubs, topics>>
  BY <1>4 DEF ConsumerStep, Receive, RecordDequeue, queueVars
<1>5. CASE UNCHANGED vars
  BY <1>5 DEF vars, queueVars
<1> QED
  BY <1>1, <1>2, <1>3, <1>4, <1>5 DEF Next

LEMMA NextIndex ==
  ASSUME TypeInv, TopicIndexConsistent, [Next]_vars
  PROVE  TopicIndexConsistent'
<1>1. ASSUME NEW s \in Subs, NEW T \in SUBSET Topics, NEW b \in Buffers,
             SubscribeNamed(s, T, b)
      PROVE  TopicIndexConsistent'
  <2> SUFFICES ASSUME NEW t \in Topics
               PROVE  topicSubs'[t] = {x \in subscribers' : t \in topics'[x]}
    BY DEF TopicIndexConsistent
  <2>1. topicSubs'[t] = IF t \in T THEN topicSubs[t] \cup {s} ELSE topicSubs[t]
    BY <1>1 DEF SubscribeNamed
  <2>2. \A x \in Subs : topics'[x] = IF x = s THEN T ELSE topics[x]
    BY <1>1 DEF SubscribeNamed, TypeInv, TypeOK
  <2>3. topics[s] = {} /\ subscribers' = subscribers \cup {s}
    BY <1>1 DEF SubscribeNamed, Created
  <2> QED
    BY <2>1, <2>2, <2>3, SMTT(40) DEF TopicIndexConsistent, TypeInv, TypeOK
<1>2. ASSUME NEW s \in Subs, UnsubscribeSub(s)
      PROVE  TopicIndexConsistent'
  <2> SUFFICES ASSUME NEW t \in Topics
               PROVE  topicSubs'[t] = {x \in subscribers' : t \in topics'[x]}
    BY DEF TopicIndexConsistent
  <2>1. topicSubs'[t] = IF t \in topics[s] THEN topicSubs[t] \ {s} ELSE topicSubs[t]
    BY <1>2 DEF UnsubscribeSub, Unindexed
  <2>2. topics' = topics /\ subscribers' = subscribers \ {s}
    BY <1>2 DEF UnsubscribeSub
  <2> QED
    BY <2>1, <2>2 DEF TopicIndexConsistent, TypeInv, TypeOK
<1>3. CASE UNCHANGED <<subscribers, topicSubs, topics>>
  BY <1>3 DEF TopicIndexConsistent
<1> QED
  BY <1>1, <1>2, <1>3, IndexUntouched

\* The two indexes of the subscriptions never disagree: a topic's entry holds
\* exactly the registered subscribers of that topic.
THEOREM IndexConsistent == Spec => []TopicIndexConsistent
<1>1. Init => TopicIndexConsistent
  BY DEF Init, TopicIndexConsistent
<1> QED
  BY <1>1, TypeInvariant, NextIndex, PTL DEF Spec
-----------------------------------------------------------------------------
LEMMA PublisherSetsFinite ==
  ASSUME NEW s
  PROVE  /\ IsFiniteSet(Uncounted(s)) /\ Cardinality(Uncounted(s)) \in Nat
         /\ IsFiniteSet(InFlight(s)) /\ Cardinality(InFlight(s)) \in Nat
  BY PublishersAssumption, FS_Subset, FS_CardinalityType DEF Uncounted, InFlight

\* One subscriber's part of DepthAccounting and of EveryOfferCounted.
DepthOf(s) ==
  enqueued[s] + Cardinality(Uncounted(s))
    = dequeued[s] + Len(ch[s]) + InHand(s)
OffersOf(s) ==
  enqueued[s] + dropped[s] + Cardinality(InFlight(s)) = offered[s]


\* Neither the publishers nor what is counted about x changes.
LEMMA AccountingUntouched ==
  ASSUME NEW x \in Subs, DepthOf(x), OffersOf(x), UNCHANGED pubVars,
         UNCHANGED <<enqueued, dropped, offered>>,
         dequeued'[x] + Len(ch'[x]) + InHand(x)' = dequeued[x] + Len(ch[x]) + InHand(x)
  PROVE  DepthOf(x)' /\ OffersOf(x)'
<1>1. Uncounted(x)' = Uncounted(x) /\ InFlight(x)' = InFlight(x)
  BY DEF Uncounted, InFlight, pubVars
<1> QED
  BY <1>1 DEF DepthOf, OffersOf, InHand

LEMMA PublishAccounting ==
  ASSUME TypeInv, NEW p \in Publishers, NEW t \in Topics, Publish(p, t),
         NEW x \in Subs, DepthOf(x), OffersOf(x)
  PROVE  DepthOf(x)' /\ OffersOf(x)'
<1>1. /\ UNCHANGED <<enqueued, dequeued, dropped, ch, hand, target>>
      /\ pc[p] = "idle"
      /\ \A q \in Publishers :
           /\ pc'[q] = IF q = p THEN (IF topicSubs[t] = {} THEN "idle" ELSE "deliver") ELSE pc[q]
           /\ todo'[q] = IF q = p THEN topicSubs[t] ELSE todo[q]
  BY DEF Publish, countVars, TypeInv, TypeOK
<1>8. offered'[x] = offered[x] + IF x \in topicSubs[t] THEN 1 ELSE 0
  BY DEF Publish
<1>2. target[p] = NoSub /\ todo[p] = {} /\ x # NoSub
  BY <1>1, NullAssumption DEF TypeInv, PubShape
<1>3. Uncounted(x)' = Uncounted(x) /\ InHand(x)' = InHand(x)
  BY <1>1, <1>2 DEF Uncounted, InHand
<1>4. InFlight(x)' = IF x \in topicSubs[t] THEN InFlight(x) \cup {p} ELSE InFlight(x)
  BY <1>1, <1>2 DEF InFlight
<1>5. p \notin InFlight(x)
  BY <1>2 DEF InFlight
<1>6. Cardinality(InFlight(x)') = Cardinality(InFlight(x)) + IF x \in topicSubs[t] THEN 1 ELSE 0
  <2>1. IsFiniteSet(InFlight(x)) /\ Cardinality(InFlight(x)) \in Nat
    BY PublisherSetsFinite
  <2>2. CASE x \in topicSubs[t]
    BY <2>1, <2>2, <1>4, <1>5, FS_AddElement
  <2>3. CASE x \notin topicSubs[t]
    BY <2>1, <2>3, <1>4
  <2> QED
    BY <2>2, <2>3
<1>7. offered[x] \in Nat /\ enqueued[x] \in Nat /\ dropped[x] \in Nat
  BY DEF TypeInv, TypeOK
<1> QED
  BY <1>1, <1>3, <1>6, <1>7, <1>8, PublisherSetsFinite DEF DepthOf, OffersOf, InHand

LEMMA SendAccounting ==
  ASSUME TypeInv, NEW p \in Publishers, NEW s \in Subs,
         SendToSub(p, s) \/ SkipFullSub(p, s),
         NEW x \in Subs, DepthOf(x), OffersOf(x)
  PROVE  DepthOf(x)' /\ OffersOf(x)'
<1>1. PICK place \in {"sent", "full"} :
        /\ Reaches(p, s) /\ Settles(p, s, place)
        /\ UNCHANGED <<enqueued, dequeued, dropped, hand, offered>>
        /\ IF place = "sent" THEN ch' = [ch EXCEPT ![s] = Append(@, msg[p])]
                             ELSE ch' = ch
  BY DEF SendToSub, SkipFullSub, countVars
<1>2. /\ pc[p] = "deliver" /\ s \in todo[p] /\ target[p] = NoSub
      /\ msg[p] \in Message /\ s # NoSub
  BY <1>1, NullAssumption DEF Reaches, TypeInv, PubShape
<1>3. \A q \in Publishers :
        /\ pc'[q] = IF q = p THEN place ELSE pc[q]
        /\ target'[q] = IF q = p THEN s ELSE target[q]
        /\ todo'[q] = IF q = p THEN todo[p] \ {s} ELSE todo[q]
  BY <1>1 DEF Settles, TypeInv, TypeOK
<1>4. InFlight(x)' = InFlight(x)
  BY <1>2, <1>3, NullAssumption DEF InFlight
<1>5. OffersOf(x)'
  BY <1>1, <1>4 DEF OffersOf
<1>6. p \notin Uncounted(x)
  BY <1>2 DEF Uncounted
<1>7. ch[x] \in Seq(Message) /\ Len(ch[x]) \in Nat /\ enqueued[x] \in Nat /\ dequeued[x] \in Nat
  BY DEF TypeInv, TypeOK
<1>8. CASE place = "sent" /\ x = s
  <2>1. Uncounted(x)' = Uncounted(x) \cup {p}
    BY <1>3, <1>8 DEF Uncounted
  <2>2. Cardinality(Uncounted(x)') = Cardinality(Uncounted(x)) + 1
    BY <2>1, <1>6, PublisherSetsFinite, FS_AddElement
  <2>3. ch'[x] = Append(ch[x], msg[p])
    BY <1>1, <1>8 DEF TypeInv, TypeOK
  <2>4. Len(ch'[x]) = Len(ch[x]) + 1
    BY <2>3, <1>2, <1>7
  <2>5. Cardinality(Uncounted(x)) \in Nat /\ Len(ch[x]) \in Nat /\ InHand(x) \in Nat
    BY <1>7, PublisherSetsFinite DEF InHand
  <2>6. enqueued'[x] = enqueued[x] /\ dequeued'[x] = dequeued[x] /\ InHand(x)' = InHand(x)
    BY <1>1 DEF InHand
  <2>7. /\ enqueued[x] \in Nat /\ dequeued[x] \in Nat
        /\ enqueued[x] + Cardinality(Uncounted(x)) = dequeued[x] + Len(ch[x]) + InHand(x)
    BY <1>7 DEF DepthOf
  <2>8. enqueued'[x] + Cardinality(Uncounted(x)') = (enqueued[x] + Cardinality(Uncounted(x))) + 1
    BY <2>2, <2>5, <2>6, <2>7, SMTT(40)
  <2>9. dequeued'[x] + Len(ch'[x]) + InHand(x)' = (dequeued[x] + Len(ch[x]) + InHand(x)) + 1
    BY <2>4, <2>5, <2>6, <2>7, SMTT(40)
  <2>10. DepthOf(x)'
    BY <2>7, <2>8, <2>9 DEF DepthOf
  <2> QED
    BY <2>10, <1>5
<1>9. CASE place = "full" \/ x # s
  <2>1. Uncounted(x)' = Uncounted(x)
    BY <1>2, <1>3, <1>9, <1>6 DEF Uncounted
  <2>2. ch'[x] = ch[x]
    BY <1>1, <1>9 DEF TypeInv, TypeOK
  <2> QED
    BY <2>1, <2>2, <1>1, <1>5 DEF DepthOf, InHand
<1> QED
  BY <1>8, <1>9

LEMMA RecordAccounting ==
  ASSUME TypeInv, NEW p \in Publishers, recordEnqueue(p) \/ recordDrop(p),
         NEW x \in Subs, DepthOf(x), OffersOf(x)
  PROVE  DepthOf(x)' /\ OffersOf(x)'
<1> DEFINE s == target[p]
<1>1. /\ s \in Subs \ todo[p] /\ s # NoSub
      /\ pc[p] \in {"sent", "full"} /\ NextSub(p)
      /\ UNCHANGED <<dequeued, ch, hand, offered>>
  BY NullAssumption DEF recordEnqueue, recordDrop, TypeInv, PubShape
<1>2. \A q \in Publishers :
        /\ pc'[q] = IF q = p THEN (IF todo[p] = {} THEN "idle" ELSE "deliver") ELSE pc[q]
        /\ target'[q] = IF q = p THEN NoSub ELSE target[q]
        /\ todo'[q] = todo[q]
  BY <1>1 DEF NextSub, TypeInv, TypeOK
<1>3. InFlight(x)' = IF x = s THEN InFlight(x) \ {p} ELSE InFlight(x)
  BY <1>1, <1>2, NullAssumption DEF InFlight
<1>4. Uncounted(x)' = IF x = s THEN Uncounted(x) \ {p} ELSE Uncounted(x)
  BY <1>1, <1>2 DEF Uncounted
<1>5. /\ enqueued[x] \in Nat /\ dequeued[x] \in Nat /\ dropped[x] \in Nat
      /\ Len(ch[x]) \in Nat
  BY DEF TypeInv, TypeOK
<1>6. IsFiniteSet(InFlight(x)) /\ Cardinality(InFlight(x)) \in Nat
  BY PublisherSetsFinite
<1>7. IsFiniteSet(Uncounted(x)) /\ Cardinality(Uncounted(x)) \in Nat
  BY PublisherSetsFinite
<1>8. CASE x # s
  <2>1. enqueued'[x] = enqueued[x] /\ dropped'[x] = dropped[x]
    BY <1>8, <1>1 DEF recordEnqueue, recordDrop, TypeInv, TypeOK
  <2> QED
    BY <2>1, <1>1, <1>3, <1>4, <1>8 DEF DepthOf, OffersOf, InHand
<1>9. CASE x = s
  <2>1. p \in InFlight(x)
    BY <1>9 DEF InFlight
  <2>2. Cardinality(InFlight(x)') = Cardinality(InFlight(x)) - 1
    BY <2>1, <1>3, <1>6, <1>9, FS_RemoveElement
  <2>3. CASE recordEnqueue(p)
    <3>1. enqueued'[x] = enqueued[x] + 1 /\ dropped' = dropped /\ pc[p] = "sent"
      BY <2>3, <1>9 DEF recordEnqueue, TypeInv, TypeOK
    <3>2. p \in Uncounted(x)
      BY <1>9, <3>1 DEF Uncounted
    <3>3. Cardinality(Uncounted(x)') = Cardinality(Uncounted(x)) - 1
      BY <3>2, <1>4, <1>7, <1>9, FS_RemoveElement
    <3>4. DepthOf(x)'
      BY <3>1, <3>3, <1>1, <1>5, <1>7 DEF DepthOf, InHand
    <3>5. OffersOf(x)'
      BY <3>1, <2>2, <1>1, <1>5, <1>6, SMTT(40) DEF OffersOf
    <3> QED
      BY <3>4, <3>5
  <2>4. CASE recordDrop(p)
    <3>1. dropped'[x] = dropped[x] + 1 /\ enqueued' = enqueued /\ pc[p] = "full"
      BY <2>4, <1>9 DEF recordDrop, TypeInv, TypeOK
    <3>2. Uncounted(x)' = Uncounted(x)
      BY <1>4, <3>1 DEF Uncounted
    <3>3. DepthOf(x)'
      BY <3>1, <3>2, <1>1 DEF DepthOf, InHand
    <3>4. OffersOf(x)'
      BY <3>1, <2>2, <1>1, <1>5, <1>6 DEF OffersOf
    <3> QED
      BY <3>3, <3>4
  <2> QED
    BY <2>3, <2>4
<1> QED
  BY <1>8, <1>9

LEMMA ConsumerAccounting ==
  ASSUME TypeInv, NEW s \in Subs, ConsumerStep(s),
         NEW x \in Subs, DepthOf(x), OffersOf(x)
  PROVE  DepthOf(x)' /\ OffersOf(x)'
<1>1. UNCHANGED <<pubVars, enqueued, dropped, offered>>
  BY DEF ConsumerStep, Receive, RecordDequeue, countVars
<1>2. ch[s] \in Seq(Message) /\ dequeued[s] \in Nat /\ dequeued[x] \in Nat
  BY DEF TypeInv, TypeOK
<1>3. CASE Receive(s)
  <2>1. /\ dequeued' = dequeued
        /\ ch'[x] = IF x = s THEN Tail(ch[s]) ELSE ch[x]
        /\ hand'[x] = IF x = s THEN Head(ch[s]) ELSE hand[x]
        /\ ch[s] # <<>> /\ hand[s] = NoMsg
    BY <1>3 DEF Receive, countVars, TypeInv, TypeOK
  <2>2. Head(ch[s]) # NoMsg /\ Len(Tail(ch[s])) = Len(ch[s]) - 1
    BY <2>1, <1>2, NullAssumption
  <2>3. Len(ch[s]) \in Nat /\ Len(ch[x]) \in Nat
    BY SMTT(40) DEF TypeInv, TypeOK
  <2>4. InHand(x)' = IF x = s THEN 1 ELSE InHand(x)
    BY <2>1, <2>2 DEF InHand
  <2>5. InHand(s) = 0
    BY <2>1 DEF InHand
  <2>6. Len(ch'[x]) = IF x = s THEN Len(ch[s]) - 1 ELSE Len(ch[x])
    BY <2>1, <2>2
  <2>7. dequeued'[x] + Len(ch'[x]) + InHand(x)' = dequeued[x] + Len(ch[x]) + InHand(x)
    BY <2>1, <2>3, <2>4, <2>5, <2>6, <1>2
  <2> QED
    BY <2>7, <1>1, AccountingUntouched
<1>4. CASE RecordDequeue(s)
  <2>1. /\ dequeued'[x] = IF x = s THEN dequeued[s] + 1 ELSE dequeued[x]
        /\ ch' = ch
        /\ hand'[x] = IF x = s THEN NoMsg ELSE hand[x]
        /\ hand[s] # NoMsg
    BY <1>4 DEF RecordDequeue, TypeInv, TypeOK
  <2>3. Len(ch[x]) \in Nat
    BY DEF TypeInv, TypeOK
  <2>4. InHand(x)' = (IF x = s THEN 0 ELSE InHand(x)) /\ InHand(s) = 1
    BY <2>1 DEF InHand
  <2>5. dequeued'[x] + Len(ch'[x]) + InHand(x)' = dequeued[x] + Len(ch[x]) + InHand(x)
    BY <2>1, <2>3, <2>4, <1>2
  <2> QED
    BY <2>5, <1>1, AccountingUntouched
<1> QED
  BY <1>3, <1>4 DEF ConsumerStep

LEMMA NextAccounting ==
  ASSUME TypeInv, CountersAgree, [Next]_vars
  PROVE  CountersAgree'
<1> SUFFICES ASSUME NEW x \in Subs PROVE DepthOf(x)' /\ OffersOf(x)'
  BY DEF CountersAgree, DepthAccounting, EveryOfferCounted, DepthOf, OffersOf
<1>0. DepthOf(x) /\ OffersOf(x)
  BY DEF CountersAgree, DepthAccounting, EveryOfferCounted, DepthOf, OffersOf
<1>1. ASSUME NEW p \in Publishers, NEW t \in Topics, Publish(p, t)
      PROVE  DepthOf(x)' /\ OffersOf(x)'
  BY <1>0, <1>1, PublishAccounting
<1>2. ASSUME NEW p \in Publishers, PublisherStep(p)
      PROVE  DepthOf(x)' /\ OffersOf(x)'
  <2>1. ASSUME NEW s \in Subs, SendToSub(p, s) \/ SkipFullSub(p, s)
        PROVE  DepthOf(x)' /\ OffersOf(x)'
    BY <2>1, <1>0, SendAccounting
  <2>2. ASSUME NEW s \in Subs, SendOnClosed(p, s)
        PROVE  DepthOf(x)' /\ OffersOf(x)'
    BY <2>2, <1>0, AccountingUntouched DEF InHand, SendOnClosed, countVars
  <2>3. ASSUME recordEnqueue(p) \/ recordDrop(p)
        PROVE  DepthOf(x)' /\ OffersOf(x)'
    BY <2>3, <1>0, RecordAccounting
  <2> QED
    BY <1>2, <2>1, <2>2, <2>3 DEF PublisherStep
<1>3. ASSUME NEW t \in Topics, RegisterTopic(t)
      PROVE  DepthOf(x)' /\ OffersOf(x)'
  BY <1>0, <1>3, AccountingUntouched DEF InHand, RegisterTopic, countVars
<1>4. ASSUME NEW s \in Subs, NEW T \in SUBSET Topics, NEW b \in Buffers,
             SubscribeNamed(s, T, b)
      PROVE  DepthOf(x)' /\ OffersOf(x)'
  BY <1>0, <1>4, AccountingUntouched DEF InHand, SubscribeNamed, countVars
<1>5. ASSUME NEW s \in Subs, UnsubscribeSub(s)
      PROVE  DepthOf(x)' /\ OffersOf(x)'
  BY <1>0, <1>5, AccountingUntouched DEF InHand, UnsubscribeSub, countVars
<1>6. ASSUME NEW s \in Subs, ConsumerStep(s)
      PROVE  DepthOf(x)' /\ OffersOf(x)'
  BY <1>0, <1>6, ConsumerAccounting
<1>7. CASE UNCHANGED vars
  <2>1. UNCHANGED <<ch, hand, dequeued, enqueued, dropped, offered>> /\ UNCHANGED pubVars
    BY <1>7 DEF vars, countVars
  <2> QED
    BY <1>0, <2>1, AccountingUntouched DEF InHand
<1> QED
  BY <1>1, <1>2, <1>3, <1>4, <1>5, <1>6, <1>7 DEF Next

LEMMA InitAccounting == Init => CountersAgree
<1> SUFFICES ASSUME Init, NEW x \in Subs PROVE DepthOf(x) /\ OffersOf(x)
  BY DEF CountersAgree, DepthAccounting, EveryOfferCounted, DepthOf, OffersOf
<1>1. Uncounted(x) = {} /\ InFlight(x) = {}
  BY NullAssumption DEF Init, Uncounted, InFlight
<1>2. Cardinality({}) = 0
  BY FS_EmptySet
<1> QED
  BY <1>1, <1>2 DEF Init, DepthOf, OffersOf, InHand

\* The counters of a subscriber explain the depth of its channel at every
\* instant, and every Publish that collected it ends in one counted outcome.
THEOREM AccountingCorrect == Spec => []CountersAgree
BY InitAccounting, TypeInvariant, NextAccounting, PTL DEF Spec
-----------------------------------------------------------------------------
\* The message a consumer holds, as a sequence.
Held(s) == IF hand[s] = NoMsg THEN <<>> ELSE <<hand[s]>>

LEMMA HeadThenTail ==
  ASSUME NEW S, NEW q \in Seq(S), q # <<>>
  PROVE  <<Head(q)>> \o Tail(q) = q
<1>1. Head(q) \in S /\ Tail(q) \in Seq(S) /\ Len(Tail(q)) = Len(q) - 1
      /\ \A i \in 1 .. Len(Tail(q)) : Tail(q)[i] = q[i+1]
  BY HeadTailProperties
<1>2. <<Head(q)>> \in Seq(S) /\ Len(<<Head(q)>>) = 1 /\ <<Head(q)>>[1] = q[1]
  BY <1>1
<1> DEFINE r == <<Head(q)>> \o Tail(q)
<1>3. /\ r \in Seq(S) /\ Len(r) = 1 + Len(Tail(q))
      /\ \A i \in 1 .. 1 + Len(Tail(q)) :
           r[i] = IF i <= 1 THEN <<Head(q)>>[i] ELSE Tail(q)[i - 1]
  BY <1>1, <1>2, ConcatProperties
<1>4. Len(r) = Len(q)
  BY <1>1, <1>3
<1>5. ASSUME NEW i \in 1 .. Len(r) PROVE r[i] = q[i]
  <2>1. CASE i = 1
    BY <2>1, <1>2, <1>3, <1>5
  <2>2. CASE i # 1
    BY <2>2, <1>1, <1>3, <1>5
  <2> QED
    BY <2>1, <2>2
<1> HIDE DEF r
<1>6. r = q
  BY <1>3, <1>4, <1>5, SeqEqual
<1> QED
  BY <1>6 DEF r

LEMMA AppendToConcat ==
  ASSUME NEW S, NEW a \in Seq(S), NEW b \in Seq(S), NEW e \in S
  PROVE  a \o Append(b, e) = Append(a \o b, e)
<1> DEFINE t == <<e>>
<1>1. t \in Seq(S)
  OBVIOUS
<1>2. Append(b, e) = b \o t /\ Append(a \o b, e) = (a \o b) \o t
  BY AppendIsConcat, ConcatProperties
<1> HIDE DEF t
<1>3. (a \o b) \o t = a \o (b \o t)
  BY <1>1, ConcatAssociative, SMTT(40)
<1> QED
  BY <1>2, <1>3

\* Moving the head of the third part to the empty second part.
LEMMA MoveHead ==
  ASSUME NEW S, NEW a \in Seq(S), NEW q \in Seq(S), q # <<>>
  PROVE  (a \o <<Head(q)>>) \o Tail(q) = a \o q
<1> DEFINE h == <<Head(q)>>
<1>1. h \in Seq(S) /\ Tail(q) \in Seq(S)
  BY HeadTailProperties
<1>2. h \o Tail(q) = q
  BY HeadThenTail
<1> HIDE DEF h
<1>3. (a \o h) \o Tail(q) = a \o (h \o Tail(q))
  BY <1>1, ConcatAssociative, SMTT(40)
<1> QED
  BY <1>2, <1>3 DEF h

LEMMA DeliveredParts ==
  ASSUME TypeInv, NEW s \in Subs
  PROVE  /\ received[s] \in Seq(Message) /\ ch[s] \in Seq(Message) /\ Held(s) \in Seq(Message)
         /\ Delivered(s) = (received[s] \o Held(s)) \o ch[s]
         /\ Delivered(s) \in Seq(Message)
<1>1. received[s] \in Seq(Message) /\ ch[s] \in Seq(Message) /\ Held(s) \in Seq(Message)
  BY DEF TypeInv, TypeOK, Held
<1>2. Delivered(s) = (received[s] \o Held(s)) \o ch[s]
  BY DEF Delivered, Held
<1>3. received[s] \o Held(s) \in Seq(Message)
  BY <1>1, ConcatProperties
<1> QED
  BY <1>1, <1>2, <1>3, ConcatProperties

LEMMA DeliveredMessages ==
  ASSUME TypeInv, NEW s \in Subs, NEW i \in 1 .. Len(Delivered(s))
  PROVE  Delivered(s)[i].from \in Publishers /\ Delivered(s)[i].seq \in Nat
<1>1. Delivered(s) \in Seq(Message)
  BY DeliveredParts
<1>2. Delivered(s)[i] \in Message
  BY <1>1
<1> QED
  BY <1>2 DEF Message

LEMMA DeliveredOnSend ==
  ASSUME TypeInv, TypeInv', NEW p \in Publishers, NEW s \in Subs, SendToSub(p, s),
         NEW x \in Subs
  PROVE  Delivered(x)' = IF x = s THEN Append(Delivered(x), msg[p]) ELSE Delivered(x)
<1>1. /\ received' = received /\ Held(x)' = Held(x)
      /\ ch'[x] = IF x = s THEN Append(ch[x], msg[p]) ELSE ch[x]
      /\ msg[p] \in Message
  BY DEF SendToSub, Reaches, Held, TypeInv, TypeOK, PubShape
<1> DEFINE before == received[x] \o Held(x)
<1>2. before \in Seq(Message) /\ ch[x] \in Seq(Message)
  BY DeliveredParts, ConcatProperties
<1>3. Delivered(x)' = before \o ch'[x] /\ Delivered(x) = before \o ch[x]
  BY <1>1 DEF Delivered, Held
<1> HIDE DEF before
<1>4. CASE x = s
  BY <1>1, <1>2, <1>3, <1>4, AppendToConcat
<1>5. CASE x # s
  BY <1>1, <1>3, <1>5
<1> QED
  BY <1>4, <1>5

LEMMA DeliveredOnConsume ==
  ASSUME TypeInv, NEW s \in Subs, ConsumerStep(s), NEW x \in Subs
  PROVE  Delivered(x)' = Delivered(x)
<1>1. CASE x # s
  <2>1. received'[x] = received[x] /\ hand'[x] = hand[x] /\ ch'[x] = ch[x]
    BY <1>1 DEF ConsumerStep, Receive, RecordDequeue, TypeInv, TypeOK
  <2> QED
    BY <2>1 DEF Delivered
<1>2. CASE x = s /\ Receive(s)
  <2>1. /\ received' = received /\ Held(x) = <<>> /\ ch[x] # <<>>
        /\ ch'[x] = Tail(ch[x]) /\ hand'[x] = Head(ch[x])
    BY <1>2 DEF Receive, Held, TypeInv, TypeOK
  <2>2. received[x] \in Seq(Message) /\ ch[x] \in Seq(Message)
    BY DEF TypeInv, TypeOK
  <2>3. Head(ch[x]) \in Message /\ Tail(ch[x]) \in Seq(Message)
    BY <2>1, <2>2, HeadTailProperties
  <2>4. Held(x)' = <<Head(ch[x])>> /\ <<Head(ch[x])>> \in Seq(Message)
    BY <2>1, <2>3, NullAssumption DEF Held
  <2>5. Delivered(x)' = (received[x] \o <<Head(ch[x])>>) \o Tail(ch[x])
    BY <2>1, <2>4 DEF Delivered, Held
  <2>6. (received[x] \o <<Head(ch[x])>>) \o Tail(ch[x]) = received[x] \o ch[x]
    BY <2>1, <2>2, MoveHead
  <2>8. Delivered(x) = (received[x] \o <<>>) \o ch[x]
    BY <2>1, DeliveredParts
  <2>9. received[x] \o <<>> = received[x]
    BY <2>2, ConcatEmptySeq
  <2> QED
    BY <2>5, <2>6, <2>8, <2>9
<1>3. CASE x = s /\ RecordDequeue(s)
  <2>1. /\ received'[x] = Append(received[x], hand[x]) /\ hand'[x] = NoMsg
        /\ ch' = ch /\ hand[x] # NoMsg /\ hand[x] \in Message
    BY <1>3 DEF RecordDequeue, TypeInv, TypeOK
  <2>2. received[x] \in Seq(Message) /\ ch[x] \in Seq(Message)
    BY DEF TypeInv, TypeOK
  <2>3. Held(x) = <<hand[x]>>
    BY <2>1 DEF Held
  <2>4. Append(received[x], hand[x]) = received[x] \o <<hand[x]>>
    BY <2>1, <2>2, AppendIsConcat
  <2>5. Delivered(x)' = (Append(received[x], hand[x]) \o <<>>) \o ch[x]
    BY <2>1 DEF Delivered
  <2>6. Append(received[x], hand[x]) \o <<>> = Append(received[x], hand[x])
    BY <2>1, <2>2, ConcatEmptySeq, AppendProperties
  <2> QED
    BY <2>3, <2>4, <2>5, <2>6, DeliveredParts
<1> QED
  BY <1>1, <1>2, <1>3 DEF ConsumerStep

\* The inductive invariant behind PublisherOrderKept: a publisher numbers its
\* messages upwards, has delivered none beyond its last, and none of it is at a
\* subscriber the loop of Publish has still to reach.
OrderInv ==
  /\ \A p \in Publishers : pc[p] # "idle" => msg[p].from = p /\ msg[p].seq = sent[p]
  /\ \A s \in Subs : \A i \in 1 .. Len(Delivered(s)) :
       Delivered(s)[i].seq <= sent[Delivered(s)[i].from]
  /\ \A p \in Publishers : \A s \in todo[p] : \A i \in 1 .. Len(Delivered(s)) :
       Delivered(s)[i].from = p => Delivered(s)[i].seq < sent[p]
  /\ PublisherOrderKept

\* Steps that deliver nothing and only shrink the publishers' work.
LEMMA OrderUntouched ==
  ASSUME TypeInv, OrderInv, UNCHANGED <<msg, sent>>,
         \A s \in Subs : Delivered(s)' = Delivered(s),
         \A p \in Publishers : todo'[p] \subseteq todo[p] /\ (pc'[p] # "idle" => pc[p] # "idle")
  PROVE  OrderInv'
<1>1. \A p \in Publishers : todo[p] \subseteq Subs
  BY DEF TypeInv, TypeOK
<1>2. \A p \in Publishers : pc'[p] # "idle" => msg'[p].from = p /\ msg'[p].seq = sent'[p]
  BY DEF OrderInv
<1>3. \A s \in Subs : \A i \in 1 .. Len(Delivered(s)') :
        Delivered(s)'[i].seq <= sent'[Delivered(s)'[i].from]
  BY DEF OrderInv
<1>4. \A p \in Publishers : \A s \in todo'[p] : \A i \in 1 .. Len(Delivered(s)') :
        Delivered(s)'[i].from = p => Delivered(s)'[i].seq < sent'[p]
  BY <1>1 DEF OrderInv
<1>5. PublisherOrderKept'
  BY DEF OrderInv, PublisherOrderKept
<1> QED
  BY <1>2, <1>3, <1>4, <1>5 DEF OrderInv

LEMMA PublishOrder ==
  ASSUME TypeInv, OrderInv, NEW p \in Publishers, NEW t \in Topics, Publish(p, t)
  PROVE  OrderInv'
<1>1. \A s \in Subs : Delivered(s)' = Delivered(s)
  BY DEF Publish, Delivered
<1>2. /\ \A q \in Publishers : q # p => /\ pc'[q] = pc[q] /\ msg'[q] = msg[q]
                                       /\ todo'[q] = todo[q] /\ sent'[q] = sent[q]
      /\ msg'[p] = NewMessage(p, t) /\ sent'[p] = sent[p] + 1
      /\ todo[p] = {} /\ todo'[p] = topicSubs[t] /\ topicSubs[t] \subseteq Subs
      /\ sent[p] \in Nat
  BY DEF Publish, TypeInv, TypeOK, PubShape
<1>3. msg'[p].from = p /\ msg'[p].seq = sent'[p]
  BY <1>2 DEF NewMessage
<1>4. ASSUME NEW s \in Subs, NEW i \in 1 .. Len(Delivered(s))
      PROVE  Delivered(s)[i].from \in Publishers /\ Delivered(s)[i].seq \in Nat
  BY DeliveredMessages
<1>5. \A q \in Publishers : sent[q] \in Nat /\ todo[q] \subseteq Subs
  BY DEF TypeInv, TypeOK
<1>6. \A q \in Publishers : pc'[q] # "idle" => msg'[q].from = q /\ msg'[q].seq = sent'[q]
  BY <1>2, <1>3 DEF OrderInv
<1>7. ASSUME NEW s \in Subs, NEW i \in 1 .. Len(Delivered(s))
      PROVE  Delivered(s)[i].seq <= sent'[Delivered(s)[i].from]
  <2>1. Delivered(s)[i].seq <= sent[Delivered(s)[i].from]
    BY DEF OrderInv
  <2>2. sent'[Delivered(s)[i].from] >= sent[Delivered(s)[i].from]
    BY <1>2, <1>4, <1>5
  <2> QED
    BY <2>1, <2>2, <1>2, <1>4, <1>5
<1>8. ASSUME NEW q \in Publishers, NEW s \in todo'[q], NEW i \in 1 .. Len(Delivered(s)),
             Delivered(s)[i].from = q
      PROVE  Delivered(s)[i].seq < sent'[q]
  <2>1. s \in Subs
    BY <1>2, <1>5
  <2>2. CASE q = p
    BY <2>1, <2>2, <1>2, <1>4, <1>8 DEF OrderInv
  <2>3. CASE q # p
    BY <2>3, <1>2, <1>8 DEF OrderInv
  <2> QED
    BY <2>2, <2>3
<1>9. \A s \in Subs : \A i \in 1 .. Len(Delivered(s)') :
        Delivered(s)'[i].seq <= sent'[Delivered(s)'[i].from]
  BY <1>1, <1>7
<1>10. \A q \in Publishers : \A s \in todo'[q] : \A i \in 1 .. Len(Delivered(s)') :
        Delivered(s)'[i].from = q => Delivered(s)'[i].seq < sent'[q]
  BY <1>1, <1>2, <1>5, <1>8
<1>11. PublisherOrderKept'
  BY <1>1 DEF OrderInv, PublisherOrderKept
<1> QED
  BY <1>6, <1>9, <1>10, <1>11 DEF OrderInv

LEMMA SendOrder ==
  ASSUME TypeInv, TypeInv', OrderInv, NEW p \in Publishers, NEW s \in Subs, SendToSub(p, s)
  PROVE  OrderInv'
<1>1. /\ pc[p] = "deliver" /\ s \in todo[p] /\ msg[p] \in Message
      /\ UNCHANGED <<msg, sent>>
      /\ \A q \in Publishers :
           /\ pc'[q] # "idle" => pc[q] # "idle"
           /\ todo'[q] = IF q = p THEN todo[p] \ {s} ELSE todo[q]
  BY DEF SendToSub, Reaches, Settles, TypeInv, TypeOK, PubShape
<1>2. msg[p].from = p /\ msg[p].seq = sent[p] /\ sent[p] \in Nat
  BY <1>1 DEF OrderInv, TypeInv, TypeOK
<1>3. \A q \in Publishers : todo[q] \subseteq Subs
  BY DEF TypeInv, TypeOK
<1>4. \A x \in Subs : Delivered(x)' = IF x = s THEN Append(Delivered(s), msg[p]) ELSE Delivered(x)
  BY DeliveredOnSend
<1>5. \A x \in Subs : Delivered(x) \in Seq(Message)
  BY DeliveredParts
<1> DEFINE last == Len(Delivered(s)) + 1
<1>6. /\ Len(Delivered(s)') = last
      /\ Delivered(s)'[last] = msg[p]
      /\ \A i \in 1 .. Len(Delivered(s)) : Delivered(s)'[i] = Delivered(s)[i]
      /\ Len(Delivered(s)) \in Nat
  BY <1>1, <1>4, <1>5, AppendProperties
<1> HIDE DEF last
<1>7. \A i \in 1 .. Len(Delivered(s)') : i # last => i \in 1 .. Len(Delivered(s))
  BY <1>6 DEF last
<1>8. ASSUME NEW x \in Subs, NEW i \in 1 .. Len(Delivered(x)')
      PROVE  Delivered(x)'[i].seq <= sent[Delivered(x)'[i].from]
  <2>1. CASE x # s
    BY <2>1, <1>4, <1>8 DEF OrderInv
  <2>2. CASE x = s /\ i = last
    BY <2>2, <1>2, <1>6
  <2>3. CASE x = s /\ i # last
    BY <2>3, <1>6, <1>7, <1>8 DEF OrderInv
  <2> QED
    BY <2>1, <2>2, <2>3
<1>9. ASSUME NEW q \in Publishers, NEW x \in todo'[q], NEW i \in 1 .. Len(Delivered(x)'),
             Delivered(x)'[i].from = q
      PROVE  Delivered(x)'[i].seq < sent[q]
  <2>1. x \in Subs /\ x \in todo[q]
    BY <1>1, <1>3
  <2>2. CASE x # s
    BY <2>1, <2>2, <1>4, <1>9 DEF OrderInv
  <2>3. CASE x = s /\ i = last
    BY <2>3, <1>1, <1>2, <1>6, <1>9
  <2>4. CASE x = s /\ i # last
    BY <2>1, <2>4, <1>6, <1>7, <1>9 DEF OrderInv
  <2> QED
    BY <2>2, <2>3, <2>4
<1>10. ASSUME NEW x \in Subs, NEW i \in 1 .. Len(Delivered(x)'), NEW j \in 1 .. Len(Delivered(x)'),
              i < j, Delivered(x)'[i].from = Delivered(x)'[j].from
       PROVE  Delivered(x)'[i].seq < Delivered(x)'[j].seq
  <2>1. CASE x # s
    BY <2>1, <1>4, <1>10 DEF OrderInv, PublisherOrderKept
  <2>2. CASE x = s /\ j = last
    <3>1. i \in 1 .. Len(Delivered(s)) /\ Delivered(s)'[i] = Delivered(s)[i]
      BY <2>2, <1>6, <1>10 DEF last
    <3>2. Delivered(s)[i].from = p
      BY <3>1, <2>2, <1>2, <1>6, <1>10
    <3>3. Delivered(s)[i].seq < sent[p]
      BY <3>1, <3>2, <1>1 DEF OrderInv
    <3> QED
      BY <3>1, <3>3, <2>2, <1>2, <1>6
  <2>3. CASE x = s /\ j # last
    <3>1. j \in 1 .. Len(Delivered(s)) /\ i \in 1 .. Len(Delivered(s))
      BY <2>3, <1>6, <1>7, <1>10
    <3> QED
      BY <3>1, <2>3, <1>6, <1>10 DEF OrderInv, PublisherOrderKept
  <2> QED
    BY <2>1, <2>2, <2>3
<1>11. \A q \in Publishers : pc'[q] # "idle" => msg'[q].from = q /\ msg'[q].seq = sent'[q]
  BY <1>1 DEF OrderInv
<1>12. PublisherOrderKept'
  BY <1>10 DEF PublisherOrderKept
<1> QED
  BY <1>1, <1>8, <1>9, <1>11, <1>12 DEF OrderInv

LEMMA NextOrder ==
  ASSUME TypeInv, TypeInv', OrderInv, [Next]_vars
  PROVE  OrderInv'
<1>1. ASSUME NEW p \in Publishers, NEW t \in Topics, Publish(p, t)
      PROVE  OrderInv'
  BY <1>1, PublishOrder
<1>2. ASSUME NEW p \in Publishers, NEW s \in Subs, SendToSub(p, s)
      PROVE  OrderInv'
  BY <1>2, SendOrder
<1>3. ASSUME NEW p \in Publishers, NEW s \in Subs, SkipFullSub(p, s)
      PROVE  OrderInv'
  <2>1. \A x \in Subs : Delivered(x)' = Delivered(x)
    BY <1>3 DEF SkipFullSub, Delivered
  <2>2. \A q \in Publishers : todo'[q] \subseteq todo[q] /\ (pc'[q] # "idle" => pc[q] # "idle")
    BY <1>3 DEF SkipFullSub, Reaches, Settles, TypeInv, TypeOK
  <2> QED
    BY <2>1, <2>2, <1>3, OrderUntouched DEF SkipFullSub, Settles
<1>4. ASSUME NEW p \in Publishers, recordEnqueue(p) \/ recordDrop(p)
      PROVE  OrderInv'
  <2>1. \A x \in Subs : Delivered(x)' = Delivered(x)
    BY <1>4 DEF recordEnqueue, recordDrop, Delivered
  <2>2. \A q \in Publishers : todo'[q] \subseteq todo[q] /\ (pc'[q] # "idle" => pc[q] # "idle")
    BY <1>4 DEF recordEnqueue, recordDrop, NextSub, TypeInv, TypeOK
  <2> QED
    BY <2>1, <2>2, <1>4, OrderUntouched DEF recordEnqueue, recordDrop, NextSub
<1>5. ASSUME NEW s \in Subs, ConsumerStep(s)
      PROVE  OrderInv'
  <2>1. UNCHANGED <<msg, sent, todo, pc>>
    BY <1>5 DEF ConsumerStep, Receive, RecordDequeue, pubVars
  <2> QED
    BY <2>1, <1>5, DeliveredOnConsume, OrderUntouched
<1>6. ASSUME UNCHANGED <<ch, hand, received, msg, sent, todo, pc>>
      PROVE  OrderInv'
  <2>1. \A x \in Subs : Delivered(x)' = Delivered(x)
    BY <1>6 DEF Delivered
  <2> QED
    BY <2>1, <1>6, OrderUntouched
<1>7. ASSUME \/ \E p \in Publishers, s \in Subs : SendOnClosed(p, s)
             \/ \E t \in Topics : RegisterTopic(t)
             \/ \E s \in Subs, T \in SUBSET Topics, b \in Buffers : SubscribeNamed(s, T, b)
             \/ \E s \in Subs : UnsubscribeSub(s)
             \/ UNCHANGED vars
      PROVE  UNCHANGED <<ch, hand, received, msg, sent, todo, pc>>
  BY <1>7 DEF SendOnClosed, RegisterTopic, SubscribeNamed, UnsubscribeSub, vars, pubVars
<1> QED
  BY <1>1, <1>2, <1>3, <1>4, <1>5, <1>6, <1>7 DEF Next, PublisherStep

LEMMA InitOrder == Init => OrderInv
<1> SUFFICES ASSUME Init PROVE OrderInv
  OBVIOUS
<1>1. \A s \in Subs : Delivered(s) = <<>>
  <2>1. (<<>> \o <<>>) \o <<>> = <<>>
    OBVIOUS
  <2> QED
    BY <2>1 DEF Init, Delivered
<1>2. Len(<<>>) = 0 /\ 1 .. 0 = {}
  OBVIOUS
<1> QED
  BY <1>1, <1>2 DEF Init, OrderInv, PublisherOrderKept

LEMMA OrderInvariant == Spec => []OrderInv
BY InitOrder, TypeInvariant, NextOrder, PTL DEF Spec

\* However the publishers and the consumers interleave, a subscriber is given
\* the messages of one publisher in the order of their publication, none twice.
THEOREM OrderKept == Spec => []PublisherOrderKept
<1>1. OrderInv => PublisherOrderKept
  BY DEF OrderInv
<1> QED
  BY <1>1, OrderInvariant, PTL
-----------------------------------------------------------------------------
\* A snapshot is full at most, holds nothing that is not published, and what it
\* holds of one publisher is in the order of its numbers.
LogInv ==
  \A t \in Topics :
    /\ Len(snapshots[t]) <= SnapSize
    /\ \A k \in 1 .. Len(snapshots[t]) : snapshots[t][k].seq <= sent[snapshots[t][k].from]
    /\ \A j, k \in 1 .. Len(snapshots[t]) :
         j < k /\ snapshots[t][j].from = snapshots[t][k].from
           => snapshots[t][j].seq < snapshots[t][k].seq

\* The inductive invariant behind DeliveredWasSnapshotted: a publisher has pushed
\* what it is delivering.
SnapInv ==
  /\ LogInv
  /\ \A p \in Publishers : pc[p] # "idle" => Snapshotted(msg[p])
  /\ DeliveredWasSnapshotted

LEMMA Pushed ==
  ASSUME NEW log \in Seq(Message), Len(log) <= SnapSize, NEW m \in Message
  PROVE  /\ PushSnapshot(log, m) \in Seq(Message)
         /\ Len(PushSnapshot(log, m)) = IF Len(log) < SnapSize THEN Len(log) + 1 ELSE SnapSize
         /\ \A k \in 1 .. Len(PushSnapshot(log, m)) :
              PushSnapshot(log, m)[k] = IF k = Len(PushSnapshot(log, m)) THEN m
                                        ELSE IF Len(log) < SnapSize THEN log[k] ELSE log[k + 1]
<1> DEFINE new == PushSnapshot(log, m)
<1>1. CASE Len(log) < SnapSize
  <2>1. new = Append(log, m)
    BY <1>1 DEF PushSnapshot
  <2> QED
    BY <1>1, <2>1, AppendProperties
<1>2. CASE ~(Len(log) < SnapSize)
  <2>1. new = Append(Tail(log), m) /\ Len(log) = SnapSize /\ log # <<>> /\ SnapSize \in Nat \ {0}
    BY <1>2, SnapSizeAssumption DEF PushSnapshot
  <2>2. /\ Tail(log) \in Seq(Message) /\ Len(Tail(log)) = SnapSize - 1
        /\ \A k \in 1 .. Len(Tail(log)) : Tail(log)[k] = log[k + 1]
    BY <2>1, HeadTailProperties
  <2> QED
    BY <1>2, <2>1, <2>2, AppendProperties
<1> QED
  BY <1>1, <1>2

LEMMA PublishedNow ==
  ASSUME TypeInv, NEW p \in Publishers, NEW t \in Topics, Publish(p, t)
  PROVE  /\ NewMessage(p, t) \in Message /\ NewMessage(p, t).from = p
         /\ NewMessage(p, t).seq = sent[p] + 1 /\ NewMessage(p, t).topic = t
         /\ \A u \in Topics : snapshots'[u] = IF u = t THEN PushSnapshot(snapshots[t], NewMessage(p, t))
                                              ELSE snapshots[u]
         /\ \A q \in Publishers : sent'[q] = IF q = p THEN sent[p] + 1 ELSE sent[q]
         /\ \A q \in Publishers : sent[q] \in Nat
         /\ \A u \in Topics : snapshots[u] \in Seq(Message)
BY SMTT(40) DEF Publish, NewMessage, Message, TypeInv, TypeOK

LEMMA PublishLog ==
  ASSUME TypeInv, LogInv, NEW p \in Publishers, NEW t \in Topics, Publish(p, t)
  PROVE  LogInv'
<1> DEFINE log == snapshots[t]
           m == NewMessage(p, t)
           new == PushSnapshot(log, m)
<1>0. /\ \A q \in Publishers : sent[q] \in Nat /\ sent[q] <= sent'[q]
      /\ sent'[p] = sent[p] + 1
  BY PublishedNow
<1>1. /\ log \in Seq(Message) /\ Len(log) <= SnapSize /\ m \in Message
      /\ m.from = p /\ m.seq = sent[p] + 1
      /\ \A k \in 1 .. Len(log) : log[k] \in Message /\ log[k].from \in Publishers
                                  /\ log[k].seq \in Nat /\ log[k].seq <= sent[log[k].from]
      /\ \A j, k \in 1 .. Len(log) : j < k /\ log[j].from = log[k].from => log[j].seq < log[k].seq
  <2>1. log \in Seq(Message) /\ m \in Message /\ m.from = p /\ m.seq = sent[p] + 1
    BY PublishedNow
  <2>2. \A k \in 1 .. Len(log) : log[k] \in Message
    BY <2>1
  <2>3. \A k \in 1 .. Len(log) : log[k].from \in Publishers /\ log[k].seq \in Nat
    BY <2>2 DEF Message
  <2> QED
    BY <2>1, <2>2, <2>3 DEF LogInv
<1>2. /\ new \in Seq(Message)
      /\ Len(new) = IF Len(log) < SnapSize THEN Len(log) + 1 ELSE SnapSize
      /\ \A k \in 1 .. Len(new) :
           new[k] = IF k = Len(new) THEN m ELSE IF Len(log) < SnapSize THEN log[k] ELSE log[k + 1]
  BY <1>1, Pushed
<1>3. snapshots'[t] = new /\ \A u \in Topics \ {t} : snapshots'[u] = snapshots[u]
  BY PublishedNow
<1> HIDE DEF log, m, new
<1> DEFINE at(k) == IF Len(log) < SnapSize THEN k ELSE k + 1
<1>4. \A k \in 1 .. Len(new) : k # Len(new) => at(k) \in 1 .. Len(log) /\ new[k] = log[at(k)]
  BY <1>1, <1>2, SnapSizeAssumption
<1>5. Len(new) \in Nat /\ Len(new) <= SnapSize /\ Len(new) \in 1 .. Len(new)
      /\ new[Len(new)] = m
  BY <1>1, <1>2, SnapSizeAssumption
<1>6. ASSUME NEW k \in 1 .. Len(new)
      PROVE  new[k].seq <= sent'[new[k].from]
  <2>1. CASE k = Len(new)
    BY <1>0, <1>1, <1>5, <2>1
  <2>2. CASE k # Len(new)
    <3>1. /\ new[k].seq \in Nat /\ new[k].seq <= sent[new[k].from]
          /\ new[k].from \in Publishers
      BY <1>1, <1>4, <2>2
    <3>2. sent[new[k].from] \in Nat /\ sent[new[k].from] <= sent'[new[k].from]
          /\ sent'[new[k].from] \in Nat
      BY <1>0, <3>1, PublishedNow
    <3> QED
      BY <3>1, <3>2
  <2> QED
    BY <2>1, <2>2
<1>7. ASSUME NEW j \in 1 .. Len(new), NEW k \in 1 .. Len(new), j < k, new[j].from = new[k].from
      PROVE  new[j].seq < new[k].seq
  <2>1. j # Len(new)
    BY <1>5, <1>7
  <2>2. CASE k = Len(new)
    <3>1. new[j].seq \in Nat /\ new[j].seq <= sent[p] /\ new[k].seq = sent[p] + 1
      BY <1>1, <1>4, <1>5, <1>7, <2>1, <2>2
    <3> QED
      BY <3>1, <1>0
  <2>3. CASE k # Len(new)
    <3>1. at(j) < at(k)
      BY <1>7
    <3> QED
      BY <1>1, <1>4, <1>7, <2>1, <2>3, <3>1
  <2> QED
    BY <2>2, <2>3
<1>8. ASSUME NEW u \in Topics \ {t}, NEW k \in 1 .. Len(snapshots[u])
      PROVE  snapshots[u][k].seq <= sent'[snapshots[u][k].from]
  <2>1. snapshots[u][k] \in Message
    BY PublishedNow
  <2>2. /\ snapshots[u][k].seq \in Nat /\ snapshots[u][k].from \in Publishers
        /\ snapshots[u][k].seq <= sent[snapshots[u][k].from]
    BY <2>1 DEF Message, LogInv
  <2>3. sent[snapshots[u][k].from] \in Nat /\ sent'[snapshots[u][k].from] \in Nat
        /\ sent[snapshots[u][k].from] <= sent'[snapshots[u][k].from]
    BY <1>0, <2>2, PublishedNow
  <2> QED
    BY <2>2, <2>3
<1> QED
  BY <1>3, <1>5, <1>6, <1>7, <1>8 DEF LogInv

\* A later message pushes an earlier one out of the ring at most.
LEMMA PublishKeeps ==
  ASSUME TypeInv, LogInv, NEW p \in Publishers, NEW t \in Topics, Publish(p, t),
         NEW m \in Message, m.seq <= sent[m.from], Snapshotted(m)
  PROVE  Snapshotted(m)'
<1>0. m.topic \in Topics /\ m.from \in Publishers /\ m.seq \in Nat
  BY DEF Message
<1>1. CASE m.topic # t
  <2>1. snapshots'[m.topic] = snapshots[m.topic]
    BY <1>0, <1>1, PublishedNow
  <2> QED
    BY <2>1 DEF Snapshotted, KeptIn
<1>2. CASE m.topic = t
  <2> DEFINE log == snapshots[t]
             n == NewMessage(p, t)
             new == PushSnapshot(log, n)
  <2>1. /\ log \in Seq(Message) /\ Len(log) <= SnapSize /\ n \in Message
        /\ n.from = p /\ n.seq = sent[p] + 1 /\ sent[p] \in Nat
        /\ snapshots'[t] = new
        /\ \A j, k \in 1 .. Len(log) : j < k /\ log[j].from = log[k].from => log[j].seq < log[k].seq
    BY PublishedNow DEF LogInv
  <2>2. /\ new \in Seq(Message)
        /\ Len(new) = IF Len(log) < SnapSize THEN Len(log) + 1 ELSE SnapSize
        /\ \A k \in 1 .. Len(new) :
             new[k] = IF k = Len(new) THEN n ELSE IF Len(log) < SnapSize THEN log[k] ELSE log[k + 1]
    BY <2>1, Pushed
  <2>3. \/ \E k \in 1 .. Len(log) : log[k] = m
        \/ /\ Len(log) = SnapSize
           /\ \A k \in 1 .. Len(log) : log[k].from = m.from => log[k].seq > m.seq
    BY <1>2 DEF Snapshotted, KeptIn
  <2> SUFFICES \/ \E k \in 1 .. Len(new) : new[k] = m
               \/ /\ Len(new) = SnapSize
                  /\ \A k \in 1 .. Len(new) : new[k].from = m.from => new[k].seq > m.seq
    BY <1>2, <2>1 DEF Snapshotted, KeptIn
  <2>4. n.from = m.from => n.seq > m.seq
    BY <1>0, <2>1
  <2> HIDE DEF log, n, new
  <2>5. CASE Len(log) < SnapSize
    <3>1. PICK k \in 1 .. Len(log) : log[k] = m
      BY <2>1, <2>3, <2>5
    <3>2. k \in 1 .. Len(new) /\ k # Len(new)
      BY <2>1, <2>2, <2>5
    <3> QED
      BY <2>2, <2>5, <3>1, <3>2
  <2>6. CASE ~(Len(log) < SnapSize)
    <3>0. Len(log) = SnapSize /\ Len(new) = SnapSize /\ SnapSize \in Nat \ {0}
      BY <2>1, <2>2, <2>6, SnapSizeAssumption
    <3>1. ASSUME NEW k \in 1 .. Len(log), log[k] = m, k # 1
          PROVE  \E j \in 1 .. Len(new) : new[j] = m
      <4>1. k - 1 \in 1 .. Len(new) /\ k - 1 # Len(new) /\ (k - 1) + 1 = k
        BY <3>0, <3>1
      <4>2. new[k - 1] = log[(k - 1) + 1]
        BY <2>2, <2>6, <4>1
      <4> QED
        BY <3>1, <4>1, <4>2
    <3>2. ASSUME \A k \in 2 .. Len(log) : log[k].from = m.from => log[k].seq > m.seq
          PROVE  \A k \in 1 .. Len(new) : new[k].from = m.from => new[k].seq > m.seq
      <4> SUFFICES ASSUME NEW k \in 1 .. Len(new), new[k].from = m.from PROVE new[k].seq > m.seq
        OBVIOUS
      <4>1. CASE k = Len(new)
        BY <2>2, <2>4, <4>1
      <4>2. CASE k # Len(new)
        <5>1. new[k] = log[k + 1] /\ k + 1 \in 2 .. Len(log)
          BY <2>2, <2>6, <3>0, <4>2
        <5> QED
          BY <3>2, <5>1
      <4> QED
        BY <4>1, <4>2
    <3>3. ASSUME log[1] = m
          PROVE  \A k \in 2 .. Len(log) : log[k].from = m.from => log[k].seq > m.seq
      <4> SUFFICES ASSUME NEW k \in 2 .. Len(log), log[k].from = m.from PROVE log[k].seq > m.seq
        OBVIOUS
      <4>1. 1 \in 1 .. Len(log) /\ k \in 1 .. Len(log) /\ 1 < k
        BY <3>0
      <4>2. log[1].seq < log[k].seq
        BY <2>1, <3>3, <4>1
      <4>3. log[k] \in Message
        BY <2>1, <4>1
      <4>4. log[k].seq \in Nat
        BY <4>3 DEF Message
      <4> QED
        BY <1>0, <3>3, <4>2, <4>4
    <3>4. CASE \E k \in 1 .. Len(log) : log[k] = m
      BY <3>0, <3>1, <3>2, <3>3, <3>4
    <3>5. CASE \A k \in 1 .. Len(log) : log[k].from = m.from => log[k].seq > m.seq
      BY <3>0, <3>2, <3>5
    <3> QED
      BY <2>3, <3>4, <3>5
  <2> QED
    BY <2>5, <2>6
<1> QED
  BY <1>1, <1>2

\* The message a Publish has just pushed is the newest of its snapshot.
LEMMA PublishAdds ==
  ASSUME TypeInv, LogInv, NEW p \in Publishers, NEW t \in Topics, Publish(p, t)
  PROVE  Snapshotted(msg[p])'
<1> DEFINE n == NewMessage(p, t)
           new == PushSnapshot(snapshots[t], n)
<1>1. /\ n \in Message /\ n.topic = t /\ snapshots'[t] = new
      /\ snapshots[t] \in Seq(Message) /\ Len(snapshots[t]) <= SnapSize
  BY PublishedNow DEF LogInv
<1>2. Len(new) \in 1 .. Len(new) /\ new[Len(new)] = n
  <2>1. /\ Len(new) = IF Len(snapshots[t]) < SnapSize THEN Len(snapshots[t]) + 1 ELSE SnapSize
        /\ \A k \in 1 .. Len(new) : k = Len(new) => new[k] = n
    BY <1>1, Pushed
  <2> QED
    BY <1>1, <2>1, SnapSizeAssumption
<1>3. msg'[p] = n
  BY DEF Publish, TypeInv, TypeOK
<1> QED
  BY <1>1, <1>2, <1>3 DEF Snapshotted, KeptIn

LEMMA NextSnap ==
  ASSUME TypeInv, TypeInv', OrderInv, SnapInv, [Next]_vars
  PROVE  SnapInv'
<1>0. ASSUME NEW s \in Subs, NEW i \in 1 .. Len(Delivered(s))
      PROVE  /\ Delivered(s)[i] \in Message /\ Delivered(s)[i].seq <= sent[Delivered(s)[i].from]
             /\ Snapshotted(Delivered(s)[i])
  <2>1. Delivered(s) \in Seq(Message)
    BY DeliveredParts
  <2>2. Delivered(s)[i] \in Message
    BY <2>1
  <2> QED
    BY <2>2 DEF OrderInv, SnapInv, DeliveredWasSnapshotted
<1>1. ASSUME NEW p \in Publishers, NEW t \in Topics, Publish(p, t)
      PROVE  SnapInv'
  <2>0. \A x \in Message : x.seq <= sent[x.from] /\ KeptIn(snapshots[x.topic], x)
          => KeptIn(snapshots'[x.topic], x)
    BY <1>1, PublishKeeps DEF SnapInv, Snapshotted
  <2>1. LogInv'
    BY <1>1, PublishLog DEF SnapInv
  <2>2. ASSUME NEW q \in Publishers, pc'[q] # "idle"
        PROVE  Snapshotted(msg[q])'
    <3>1. CASE q = p
      BY <1>1, <3>1, PublishAdds DEF SnapInv
    <3>2. CASE q # p
      <4>1. msg'[q] = msg[q] /\ pc[q] # "idle"
        BY <1>1, <2>2, <3>2 DEF Publish, TypeInv, TypeOK
      <4>2. msg[q] \in Message /\ msg[q].from = q /\ msg[q].seq = sent[q] /\ sent[q] \in Nat
        BY <4>1 DEF TypeInv, TypeOK, PubShape, OrderInv
      <4>3. msg[q].seq <= sent[msg[q].from] /\ KeptIn(snapshots[msg[q].topic], msg[q])
        BY <4>1, <4>2 DEF SnapInv, Snapshotted
      <4>4. KeptIn(snapshots'[msg[q].topic], msg[q])
        BY <2>0, <4>2, <4>3
      <4> QED
        BY <4>1, <4>4 DEF Snapshotted
    <3> QED
      BY <3>1, <3>2
  <2>3. DeliveredWasSnapshotted'
    <3>1. \A s \in Subs : Delivered(s)' = Delivered(s)
      BY <1>1 DEF Publish, Delivered
    <3>2. \A s \in Subs : \A i \in 1 .. Len(Delivered(s)) :
            KeptIn(snapshots'[Delivered(s)[i].topic], Delivered(s)[i])
      BY <1>0, <2>0 DEF Snapshotted
    <3> QED
      BY <3>1, <3>2 DEF DeliveredWasSnapshotted, Snapshotted
  <2> QED
    BY <2>1, <2>2, <2>3 DEF SnapInv
<1>2. ASSUME NEW p \in Publishers, NEW s \in Subs, SendToSub(p, s)
      PROVE  SnapInv'
  <2>1. /\ snapshots' = snapshots /\ sent' = sent /\ msg' = msg
        /\ \A q \in Publishers : pc'[q] # "idle" => pc[q] # "idle"
    BY <1>2 DEF SendToSub, Reaches, Settles, queueVars, TypeInv, TypeOK
  <2>2. ASSUME NEW x \in Subs, NEW i \in 1 .. Len(Delivered(x)')
        PROVE  Snapshotted(Delivered(x)'[i])
    <3>1. Delivered(x)' = IF x = s THEN Append(Delivered(x), msg[p]) ELSE Delivered(x)
      BY <1>2, DeliveredOnSend
    <3>2. pc[p] # "idle" /\ msg[p] \in Message /\ Delivered(x) \in Seq(Message)
      BY <1>2, DeliveredParts DEF SendToSub, Reaches, TypeInv, PubShape
    <3>3. Snapshotted(msg[p])
      BY <3>2 DEF SnapInv
    <3>4. CASE x # s
      <4>1. Delivered(x)' = Delivered(x)
        BY <3>1, <3>4
      <4>2. i \in 1 .. Len(Delivered(x))
        BY <4>1
      <4> QED
        BY <1>0, <4>1, <4>2
    <3>5. CASE x = s
      <4>1. Delivered(x)' = Append(Delivered(x), msg[p])
        BY <3>1, <3>5
      <4>2. \/ i \in 1 .. Len(Delivered(x)) /\ Delivered(x)'[i] = Delivered(x)[i]
            \/ Delivered(x)'[i] = msg[p]
        BY <3>2, <4>1, AppendProperties
      <4> QED
        BY <1>0, <3>3, <4>2
    <3> QED
      BY <3>4, <3>5
  <2>3. DeliveredWasSnapshotted'
    <3>1. \A x \in Subs : \A i \in 1 .. Len(Delivered(x)') :
            KeptIn(snapshots'[Delivered(x)'[i].topic], Delivered(x)'[i])
      BY <2>1, <2>2 DEF Snapshotted
    <3> QED
      BY <3>1 DEF DeliveredWasSnapshotted, Snapshotted
  <2>4. LogInv'
    BY <2>1 DEF SnapInv, LogInv
  <2>5. \A q \in Publishers : pc'[q] # "idle" => Snapshotted(msg[q])'
    BY <2>1 DEF SnapInv, Snapshotted
  <2> QED
    BY <2>3, <2>4, <2>5 DEF SnapInv
<1>3. ASSUME UNCHANGED <<snapshots, sent, msg>>,
             \A q \in Publishers : pc'[q] # "idle" => pc[q] # "idle",
             \A s \in Subs : Delivered(s)' = Delivered(s)
      PROVE  SnapInv'
  <2>1. LogInv'
    BY <1>3 DEF SnapInv, LogInv
  <2>2. \A q \in Publishers : pc'[q] # "idle" => Snapshotted(msg[q])'
    BY <1>3 DEF SnapInv, Snapshotted
  <2>3. DeliveredWasSnapshotted'
    BY <1>3 DEF SnapInv, DeliveredWasSnapshotted, Snapshotted
  <2> QED
    BY <2>1, <2>2, <2>3 DEF SnapInv
<1>4. ASSUME NEW p \in Publishers,
             recordEnqueue(p) \/ recordDrop(p)
               \/ \E s \in Subs : SkipFullSub(p, s) \/ SendOnClosed(p, s)
      PROVE  SnapInv'
  <2>1. UNCHANGED <<snapshots, sent, msg, ch, hand, received>>
    BY <1>4 DEF recordEnqueue, recordDrop, SkipFullSub, SendOnClosed, NextSub, Settles,
       queueVars, pubVars
  <2>2. \A q \in Publishers : pc'[q] # "idle" => pc[q] # "idle"
    BY <1>4 DEF recordEnqueue, recordDrop, SkipFullSub, SendOnClosed, NextSub, Settles,
       Reaches, pubVars, TypeInv, TypeOK
  <2> QED
    BY <1>3, <2>1, <2>2 DEF Delivered
<1>5. ASSUME NEW s \in Subs, ConsumerStep(s)
      PROVE  SnapInv'
  <2>1. UNCHANGED <<snapshots, sent, msg, pc>>
    BY <1>5 DEF ConsumerStep, Receive, RecordDequeue, queueVars, pubVars
  <2> QED
    BY <1>3, <1>5, <2>1, DeliveredOnConsume
<1>6. ASSUME \/ \E t \in Topics : RegisterTopic(t)
             \/ \E s \in Subs, T \in SUBSET Topics, b \in Buffers : SubscribeNamed(s, T, b)
             \/ \E s \in Subs : UnsubscribeSub(s)
             \/ UNCHANGED vars
      PROVE  SnapInv'
  <2>1. UNCHANGED <<snapshots, sent, msg, pc, ch, hand, received>>
    BY <1>6 DEF RegisterTopic, SubscribeNamed, UnsubscribeSub, vars, queueVars, pubVars
  <2> QED
    BY <1>3, <2>1 DEF Delivered
<1> QED
  BY <1>1, <1>2, <1>4, <1>5, <1>6 DEF Next, PublisherStep

LEMMA InitSnap == Init => SnapInv
<1> SUFFICES ASSUME Init PROVE SnapInv
  OBVIOUS
<1>1. \A s \in Subs : Delivered(s) = <<>>
  <2>1. (<<>> \o <<>>) \o <<>> = <<>>
    OBVIOUS
  <2> QED
    BY <2>1 DEF Init, Delivered
<1>2. Len(<<>>) = 0 /\ 1 .. 0 = {} /\ 0 <= SnapSize
  BY SnapSizeAssumption
<1> QED
  BY <1>1, <1>2 DEF Init, SnapInv, LogInv, DeliveredWasSnapshotted

\* What a subscriber has been given is in its topic's snapshot, or was pushed out of
\* it by later messages: a page that loads the snapshot after a message has come
\* does not miss it.
THEOREM SnapshotFirst == Spec => []DeliveredWasSnapshotted
<1>1. SnapInv => DeliveredWasSnapshotted
  BY DEF SnapInv
<1> QED
  BY <1>1, InitSnap, TypeInvariant, OrderInvariant, NextSnap, PTL DEF Spec
-----------------------------------------------------------------------------
\* After UnsubscribeSub nothing more reaches a subscriber but what had been collected
\* for it before, and nothing that is sent once its channel is closed.
THEOREM GrowthCorrect == Spec => GrowsOnlyForCollected
<1>1. ASSUME TypeInv, Next, NEW s \in Subs, Len(ch'[s]) > Len(ch[s])
      PROVE  /\ s \notin closed
             /\ \E p \in Publishers : s \in todo[p] /\ s \notin todo'[p]
  <2>1. ASSUME NEW x \in Subs, Receive(x)
        PROVE  Len(ch'[s]) <= Len(ch[s])
    <3>0. ch \in [Subs -> Seq(Message)]
      BY <1>1 DEF TypeInv, TypeOK
    <3>1. ch[s] \in Seq(Message) /\ ch[x] # <<>>
          /\ ch'[s] = IF s = x THEN Tail(ch[s]) ELSE ch[s]
      BY <2>1, <3>0 DEF Receive
    <3>2. CASE s = x
      <4>1. Len(Tail(ch[s])) = Len(ch[s]) - 1 /\ Len(ch[s]) \in Nat
        BY <3>1, <3>2, HeadTailProperties, LenProperties
      <4> QED
        BY <3>1, <3>2, <4>1
    <3>3. CASE s # x
      <4>1. Len(ch[s]) \in Nat /\ ch'[s] = ch[s]
        BY <3>1, <3>3, LenProperties
      <4> QED
        BY <4>1
    <3> QED
      BY <3>2, <3>3
  <2>2. ch'[s] # ch[s]
    BY <1>1 DEF TypeInv, TypeOK
  <2>3. \A x \in Subs : ~Receive(x)
    BY <1>1, <2>1, SMTT(40) DEF TypeInv, TypeOK
  <2>4. PICK p \in Publishers, x \in Subs : SendToSub(p, x)
    BY <1>1, <2>2, <2>3
       DEF Next, PublisherStep, ConsumerStep, Publish, SkipFullSub, SendOnClosed, recordEnqueue,
           recordDrop, RegisterTopic, SubscribeNamed, UnsubscribeSub, RecordDequeue
  <2>5. x = s
    BY <2>2, <2>4 DEF SendToSub, TypeInv, TypeOK
  <2>6. s \in todo[p] /\ s \notin closed /\ todo' = [todo EXCEPT ![p] = @ \ {s}]
    BY <2>4, <2>5 DEF SendToSub, Reaches, Settles
  <2>7. todo \in [Publishers -> SUBSET Subs]
    BY <1>1 DEF TypeInv, TypeOK
  <2>8. s \notin todo'[p]
    BY <2>6, <2>7
  <2> QED
    BY <2>6, <2>8
<1>2. TypeInv /\ [Next]_vars =>
        [\A s \in Subs : Len(ch'[s]) > Len(ch[s]) =>
           /\ s \notin closed
           /\ \E p \in Publishers : s \in todo[p] /\ s \notin todo'[p]]_vars
  BY <1>1
<1> QED
  BY <1>2, TypeInvariant, PTL DEF Spec, GrowsOnlyForCollected
-----------------------------------------------------------------------------
LEMMA ViewerStepIsQueueStep ==
  ASSUME [ViewersNext]_viewersVars
  PROVE  [Next]_vars
<1>1. CASE OtherStep
  BY <1>1 DEF OtherStep, Next
<1>2. ASSUME NEW s \in ViewerSubs, NEW T \in SUBSET Topics, Stream(s, T)
      PROVE  Next
  BY <1>2, ViewerSubsAssumption DEF Stream, Next
<1>3. ASSUME NEW s \in ViewerSubs, StreamStep(s)
      PROVE  [Next]_vars
  BY <1>3, ViewerSubsAssumption
     DEF StreamStep, TakeMessage, CountMessage, WriteMessage, Leave, Next, ConsumerStep
<1>4. ASSUME NEW s \in ViewerSubs, BrowserGoes(s)
      PROVE  [Next]_vars
  BY <1>4 DEF BrowserGoes
<1>5. CASE UNCHANGED viewersVars
  BY <1>5 DEF viewersVars
<1> QED
  BY <1>1, <1>2, <1>3, <1>4, <1>5 DEF ViewersNext

\* A viewer uses the queue as any subscriber does: all that is proved of the queue
\* holds of it with its viewers.
THEOREM ViewersUseTheQueue == ViewersSpec => Spec
<1>1. ViewersInit => Init
  BY DEF ViewersInit
<1> QED
  BY <1>1, ViewerStepIsQueueStep, PTL DEF ViewersSpec, Spec
=============================================================================
