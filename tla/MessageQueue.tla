---------------------------- MODULE MessageQueue ----------------------------
(***************************************************************************)
(* The topic queue of internal/queue: every component of the gateway       *)
(* (connections, processor chains, dispatchers, viewers, mockers) talks to *)
(* the others only through it.                                             *)
(*                                                                         *)
(* q.mu makes the bookkeeping of one call atomic, but Publish delivers     *)
(* AFTER it has released q.mu, to the subscribers it collected before, and *)
(* it counts an enqueued or a dropped message only after the send.  The    *)
(* consumers of the channels run in goroutines of their own.  All of these *)
(* steps interleave; a publisher's record below holds where it stands.     *)
(***************************************************************************)
EXTENDS Integers, Sequences, FiniteSets

CONSTANTS
  Publishers,     \* goroutines that call Publish
  Subs,           \* subscriber identities; SubscribeNamed makes a fresh one per call
  Topics,
  Buffers,        \* values callers pass as SubOpts.Buffer
  DefaultBuffer,  \* q.buffer, used for a Buffer <= 0
  SnapSize,       \* q.snapSize
  MaxPublish,     \* bound: calls of Publish each publisher makes
  NoMsg,          \* "no message"
  NoSub           \* "no subscriber"

\* The content of a message does not matter here; its publisher and its number
\* among that publisher's messages identify it.
Message == [from : Publishers, seq : Nat \ {0}, topic : Topics]

ASSUME PublishersAssumption == IsFiniteSet(Publishers)
ASSUME NullAssumption == NoMsg \notin Message /\ NoSub \notin Subs
ASSUME BuffersAssumption == Buffers \subseteq Int
ASSUME DefaultBufferAssumption == DefaultBuffer \in Nat \ {0}
ASSUME SnapSizeAssumption == SnapSize \in Nat \ {0}
ASSUME MaxPublishAssumption == MaxPublish \in [Publishers -> Nat]

VARIABLES
  known,        \* keys of q.snapshots
  snapshots,    \* topic -> its most recent messages, oldest first
  subscribers,  \* keys of q.subscribers
  topicSubs,    \* q.topicSubs: topic -> subscribers (no entry = {})
  topics,       \* Subscriber.Topics
  cap,          \* Subscriber.Cap
  ch,           \* Subscriber.ch
  closed,       \* subscribers whose channel is closed
  enqueued, dequeued, dropped,  \* Subscriber's counters
  pc,           \* where each publisher stands in Publish: "idle" outside of it,
                \* "deliver" to the subscribers left, or at one whose channel it has
                \* "sent" to or found "full" and has not counted yet
  msg,          \* Publish: msg
  todo,         \* Publish: the part of subs not reached yet
  target,       \* Publish: the subscriber s being counted
  hand,         \* the message a consumer has taken and not yet counted
  panicked,     \* a send on a closed channel has killed the process
  sent,         \* history: number of messages a publisher has published
  offered,      \* history: number of Publish calls that collected a subscriber
  received      \* history: messages a consumer has handled, oldest first

queueVars == <<known, snapshots, subscribers, topicSubs, topics, cap>>
countVars == <<enqueued, dequeued, dropped>>
pubVars == <<pc, msg, todo, target>>
vars == <<queueVars, ch, closed, countVars, pubVars, hand, panicked,
          sent, offered, received>>

TypeOK ==
  /\ known \subseteq Topics
  /\ snapshots \in [Topics -> Seq(Message)]
  /\ subscribers \subseteq Subs
  /\ topicSubs \in [Topics -> SUBSET Subs]
  /\ topics \in [Subs -> SUBSET Topics]
  /\ cap \in [Subs -> Nat]
  /\ ch \in [Subs -> Seq(Message)]
  /\ closed \subseteq Subs
  /\ enqueued \in [Subs -> Nat]
  /\ dequeued \in [Subs -> Nat]
  /\ dropped \in [Subs -> Nat]
  /\ pc \in [Publishers -> {"idle", "deliver", "sent", "full"}]
  /\ msg \in [Publishers -> Message \cup {NoMsg}]
  /\ todo \in [Publishers -> SUBSET Subs]
  /\ target \in [Publishers -> Subs \cup {NoSub}]
  /\ hand \in [Subs -> Message \cup {NoMsg}]
  /\ panicked \in BOOLEAN
  /\ sent \in [Publishers -> Nat]
  /\ offered \in [Subs -> Nat]
  /\ received \in [Subs -> Seq(Message)]

(***************************************************************************)
(* New: empty maps; a Subs element is a subscriber that does not exist yet *)
(***************************************************************************)
Init ==
  /\ known = {}
  /\ snapshots = [t \in Topics |-> <<>>]
  /\ subscribers = {}
  /\ topicSubs = [t \in Topics |-> {}]
  /\ topics = [s \in Subs |-> {}]
  /\ cap = [s \in Subs |-> 0]
  /\ ch = [s \in Subs |-> <<>>]
  /\ closed = {}
  /\ enqueued = [s \in Subs |-> 0]
  /\ dequeued = [s \in Subs |-> 0]
  /\ dropped = [s \in Subs |-> 0]
  /\ pc = [p \in Publishers |-> "idle"]
  /\ msg = [p \in Publishers |-> NoMsg]
  /\ todo = [p \in Publishers |-> {}]
  /\ target = [p \in Publishers |-> NoSub]
  /\ hand = [s \in Subs |-> NoMsg]
  /\ panicked = FALSE
  /\ sent = [p \in Publishers |-> 0]
  /\ offered = [s \in Subs |-> 0]
  /\ received = [s \in Subs |-> <<>>]

\* A subscriber SubscribeNamed has returned, whether or not it is still registered.
Created(s) == topics[s] # {}

\* What the ring buffer of SnapSize slots holds after Push (module RingBuffer).
PushSnapshot(log, m) ==
  IF Len(log) < SnapSize THEN Append(log, m) ELSE Append(Tail(log), m)

NewMessage(p, t) == [from |-> p, seq |-> sent[p] + 1, topic |-> t]

\* The part of Publish under q.mu: the snapshot is written and the topic's
\* subscribers are collected for delivery after the unlock.
Publish(p, t) ==
  /\ ~panicked
  /\ pc[p] = "idle"
  /\ sent[p] < MaxPublish[p]
  /\ sent' = [sent EXCEPT ![p] = @ + 1]
  /\ known' = known \cup {t}
  /\ snapshots' = [snapshots EXCEPT ![t] = PushSnapshot(@, NewMessage(p, t))]
  /\ pc' = [pc EXCEPT ![p] = IF topicSubs[t] = {} THEN "idle" ELSE "deliver"]
  /\ msg' = [msg EXCEPT ![p] = NewMessage(p, t)]
  /\ todo' = [todo EXCEPT ![p] = topicSubs[t]]
  /\ offered' = [s \in Subs |-> offered[s] + IF s \in topicSubs[t] THEN 1 ELSE 0]
  /\ UNCHANGED <<subscribers, topicSubs, topics, cap, ch, closed, countVars,
                 target, hand, panicked, received>>

HasRoom(s) == Len(ch[s]) < cap[s]

\* The loop of Publish comes to s (in any order: it ranges over a copy of a map).
Reaches(p, s) ==
  /\ ~panicked
  /\ pc[p] = "deliver"
  /\ s \in todo[p] \ closed

\* Mutant: the subscriber stays among those to be served.
Settles_Again(p, s, place) ==
  /\ pc' = [pc EXCEPT ![p] = place]
  /\ target' = [target EXCEPT ![p] = s]
  /\ UNCHANGED <<todo, msg>>

\* The select on s is over; its outcome is still to be counted.
Settles(p, s, place) ==
  /\ pc' = [pc EXCEPT ![p] = place]
  /\ target' = [target EXCEPT ![p] = s]
  /\ todo' = [todo EXCEPT ![p] = @ \ {s}]
  /\ UNCHANGED msg

\* `case s.ch <- msg`, chosen when there is room.
SendToSub(p, s) ==
  /\ Reaches(p, s)
  /\ HasRoom(s)
  /\ ch' = [ch EXCEPT ![s] = Append(@, msg[p])]
  /\ Settles(p, s, "sent")
  /\ UNCHANGED <<queueVars, closed, countVars, hand, panicked,
                 sent, offered, received>>

\* Mutant: no default case, the send waits for room.
SkipFullSub_Wait(p, s) == Reaches(p, s) /\ ~HasRoom(s) /\ UNCHANGED vars

\* `default`, chosen when the channel is full.
SkipFullSub(p, s) ==
  /\ Reaches(p, s)
  /\ ~HasRoom(s)
  /\ Settles(p, s, "full")
  /\ UNCHANGED <<queueVars, ch, closed, countVars, hand, panicked,
                 sent, offered, received>>

\* A send on a channel that UnsubscribeSub has closed meanwhile: the select
\* panics, default or not, and no goroutine that publishes recovers.
SendOnClosed(p, s) ==
  /\ ~panicked
  /\ pc[p] = "deliver"
  /\ s \in todo[p] \cap closed
  /\ panicked' = TRUE
  /\ UNCHANGED <<queueVars, ch, closed, countVars, pubVars, hand,
                 sent, offered, received>>

\* Mutant: a drop ends the loop over the collected subscribers.
NextSub_StopAtDrop(p) ==
  /\ pc' = [pc EXCEPT ![p] = "idle"]
  /\ target' = [target EXCEPT ![p] = NoSub]
  /\ todo' = [todo EXCEPT ![p] = {}]
  /\ UNCHANGED msg

\* The loop goes on to a subscriber left, or Publish returns.
NextSub(p) ==
  /\ pc' = [pc EXCEPT ![p] = IF todo[p] = {} THEN "idle" ELSE "deliver"]
  /\ target' = [target EXCEPT ![p] = NoSub]
  /\ UNCHANGED <<msg, todo>>

recordEnqueue(p) ==
  /\ ~panicked
  /\ pc[p] = "sent"
  /\ enqueued' = [enqueued EXCEPT ![target[p]] = @ + 1]
  /\ NextSub(p)
  /\ UNCHANGED <<queueVars, ch, closed, dequeued, dropped, hand, panicked,
                 sent, offered, received>>

recordDrop(p) ==
  /\ ~panicked
  /\ pc[p] = "full"
  /\ dropped' = [dropped EXCEPT ![target[p]] = @ + 1]
  /\ NextSub(p)
  /\ UNCHANGED <<queueVars, ch, closed, enqueued, dequeued, hand, panicked,
                 sent, offered, received>>

RegisterTopic(t) ==
  /\ ~panicked
  /\ t \notin known
  /\ known' = known \cup {t}
  /\ UNCHANGED <<snapshots, subscribers, topicSubs, topics, cap, ch, closed,
                 countVars, pubVars, hand, panicked, sent, offered, received>>

BufferOf(buffer) == IF buffer <= 0 THEN DefaultBuffer ELSE buffer

SubscribeNamed(s, T, buffer) ==
  /\ ~panicked
  /\ ~Created(s)
  /\ T # {}
  /\ subscribers' = subscribers \cup {s}
  /\ topics' = [topics EXCEPT ![s] = T]
  /\ cap' = [cap EXCEPT ![s] = BufferOf(buffer)]
  /\ topicSubs' = [t \in Topics |->
                     IF t \in T THEN topicSubs[t] \cup {s} ELSE topicSubs[t]]
  /\ known' = known \cup T
  /\ UNCHANGED <<snapshots, ch, closed, countVars, pubVars, hand, panicked,
                 sent, offered, received>>

\* Mutant: one topic's entry keeps the subscriber.
Unindexed_ButOne(s) ==
  LET kept == CHOOSE t \in topics[s] : TRUE
  IN  [t \in Topics |-> IF t \in topics[s] \ {kept} THEN topicSubs[t] \ {s} ELSE topicSubs[t]]

Unindexed(s) ==
  [t \in Topics |-> IF t \in topics[s] THEN topicSubs[t] \ {s} ELSE topicSubs[t]]

\* Mutant: the channel is not closed.
UnsubscribeSub_NoClose(s) ==
  /\ ~panicked
  /\ s \in subscribers
  /\ subscribers' = subscribers \ {s}
  /\ topicSubs' = Unindexed(s)
  /\ UNCHANGED <<known, snapshots, topics, cap, ch, closed, countVars, pubVars, hand,
                 panicked, sent, offered, received>>

\* Called once per subscriber, by its owner.
UnsubscribeSub(s) ==
  /\ ~panicked
  /\ s \in subscribers
  /\ subscribers' = subscribers \ {s}
  /\ topicSubs' = Unindexed(s)
  /\ closed' = closed \cup {s}
  /\ UNCHANGED <<known, snapshots, topics, cap, ch, countVars, pubVars, hand,
                 panicked, sent, offered, received>>

\* `range ch` of a consumer: the channel still yields what it holds once closed.
Receive(s) ==
  /\ ~panicked
  /\ hand[s] = NoMsg
  /\ ch[s] # <<>>
  /\ hand' = [hand EXCEPT ![s] = Head(ch[s])]
  /\ ch' = [ch EXCEPT ![s] = Tail(@)]
  /\ UNCHANGED <<queueVars, closed, countVars, pubVars, panicked,
                 sent, offered, received>>

\* RecordDequeue, then the consumer's handler, as in Consume.
RecordDequeue(s) ==
  /\ ~panicked
  /\ hand[s] # NoMsg
  /\ dequeued' = [dequeued EXCEPT ![s] = @ + 1]
  /\ received' = [received EXCEPT ![s] = Append(@, hand[s])]
  /\ hand' = [hand EXCEPT ![s] = NoMsg]
  /\ UNCHANGED <<queueVars, ch, closed, enqueued, dropped, pubVars, panicked,
                 sent, offered>>

PublisherStep(p) ==
  \/ \E s \in Subs : SendToSub(p, s) \/ SkipFullSub(p, s) \/ SendOnClosed(p, s)
  \/ recordEnqueue(p)
  \/ recordDrop(p)

ConsumerStep(s) == Receive(s) \/ RecordDequeue(s)

\* A consumer whose channel is closed and empty has left its loop.
Finished(s) == s \in closed /\ ch[s] = <<>> /\ hand[s] = NoMsg

Next ==
  \/ \E p \in Publishers : (\E t \in Topics : Publish(p, t)) \/ PublisherStep(p)
  \/ \E t \in Topics : RegisterTopic(t)
  \/ \E s \in Subs, T \in SUBSET Topics, b \in Buffers : SubscribeNamed(s, T, b)
  \/ \E s \in Subs : UnsubscribeSub(s) \/ ConsumerStep(s)

Spec == Init /\ [][Next]_vars

\* A publisher in Publish runs on: no lock is awaited between its sends.
PublisherFairness == \A p \in Publishers : WF_vars(PublisherStep(p))

FairSpec == Spec /\ PublisherFairness
-----------------------------------------------------------------------------
\* Publishers that have collected subscriber s and not yet recorded its outcome.
InFlight(s) == {p \in Publishers : s \in todo[p] \/ target[p] = s}
\* Publishers whose send to s is done and not yet counted.
Uncounted(s) == {p \in Publishers : pc[p] = "sent" /\ target[p] = s}

\* Messages a consumer has taken and not yet counted.
InHand(s) == IF hand[s] = NoMsg THEN 0 ELSE 1

\* What s was given so far, in order: handled, in hand, still in the channel.
Delivered(s) ==
  received[s] \o (IF hand[s] = NoMsg THEN <<>> ELSE <<hand[s]>>) \o ch[s]

\* The two indexes of the subscriptions agree: a topic's entry holds exactly
\* the registered subscribers of that topic (SubscribeNamed, UnsubscribeSub).
TopicIndexConsistent ==
  \A t \in Topics : topicSubs[t] = {s \in subscribers : t \in topics[s]}

\* The counters explain the channel's depth at every instant, also between a
\* send and its recordEnqueue and between a receive and its RecordDequeue: no
\* message is counted twice, and none passes uncounted (Publish, Consume).
DepthAccounting ==
  \A s \in Subs :
    enqueued[s] + Cardinality(Uncounted(s))
      = dequeued[s] + Len(ch[s]) + InHand(s)

\* Every subscriber a Publish collected gets one outcome: the message is
\* enqueued, dropped, or its publisher has still to deal with it.
EveryOfferCounted ==
  \A s \in Subs :
    enqueued[s] + dropped[s] + Cardinality(InFlight(s)) = offered[s]

\* What the statistics show of a subscriber adds up, whenever they are asked for:
\* a send and its count, a receive and its count are two steps each (subscriber.go:52-81).
CountersAgree == DepthAccounting /\ EveryOfferCounted

\* A subscriber sees the messages of one publisher in the order they were
\* published and none of them twice, however publishers and consumers
\* interleave (between different publishers the code promises no order).
PublisherOrderKept ==
  \A s \in Subs : \A i, j \in 1 .. Len(Delivered(s)) :
    i < j /\ Delivered(s)[i].from = Delivered(s)[j].from
      => Delivered(s)[i].seq < Delivered(s)[j].seq

\* A message that log holds, or that the ring has lost to later ones.
KeptIn(log, m) ==
  \/ \E k \in 1 .. Len(log) : log[k] = m
  \/ /\ Len(log) = SnapSize
     /\ \A k \in 1 .. Len(log) : log[k].from = m.from => log[k].seq > m.seq

Snapshotted(m) == KeptIn(snapshots[m.topic], m)

\* Publish writes the snapshot before it delivers: a message that some
\* subscriber has been given is missing from its topic's snapshot only when
\* the ring is full of messages pushed after it.
DeliveredWasSnapshotted ==
  \A s \in Subs : \A i \in 1 .. Len(Delivered(s)) : Snapshotted(Delivered(s)[i])

\* A channel grows only while its subscriber is registered, except by the
\* message of a Publish that had collected it before: and a closed one never.
GrowsOnlyForCollected ==
  [][\A s \in Subs : Len(ch'[s]) > Len(ch[s]) =>
       /\ s \notin closed
       /\ \E p \in Publishers : s \in todo[p] /\ s \notin todo'[p]]_vars

\* PROJECT_CONTEXT.md 3.1: Publish never blocks.  With no fairness for the
\* consumers, a publisher still gets through its subscribers.
PublishReturns ==
  \A p \in Publishers : pc[p] # "idle" ~> (pc[p] = "idle" \/ panicked)

\* After UnsubscribeSub a consumer that keeps reading drains what the channel
\* holds and its goroutine ends, whatever the other consumers do: no subscription
\* outlives its cancellation.
UnsubscribedConsumerEnds ==
  \A s \in Subs : WF_vars(ConsumerStep(s)) =>
    (Created(s) /\ s \notin subscribers ~> Finished(s) \/ panicked)

\* Publishing never brings the process down: no publisher sends on the channel
\* of a subscriber that has been unsubscribed (TestUnsubscribeSub_StopsDelivery).
NoSendOnClosed == ~panicked
=============================================================================
