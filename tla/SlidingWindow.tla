--------------------------- MODULE SlidingWindow ---------------------------
(***************************************************************************)
(* The rates of a subscriber (internal/queue/subscriber.go): a ring of     *)
(* buckets, one per second, of which the ticker of the queue makes the     *)
(* next one current.  The goroutines that count an event, the ticker, and  *)
(* a reader of the rates take no common lock: each loads the index of the  *)
(* current bucket, and locks one bucket at a time afterwards.              *)
(*                                                                         *)
(* The counts of what is enqueued, dequeued and dropped are kept alike;    *)
(* one of them is modelled.                                                *)
(***************************************************************************)
EXTENDS Integers, Sequences, FiniteSets

CONSTANTS
  WindowBuckets,  \* windowBuckets, 10 in the code
  Recorders,      \* goroutines that count events
  MaxTicks,       \* bound: ticks
  MaxEvents,      \* bound: events
  NoBucket

ASSUME WindowAssumption ==
  /\ WindowBuckets \in Nat \ {0, 1}
  /\ MaxTicks \in Nat /\ MaxEvents \in Nat /\ NoBucket \notin Nat

VARIABLES
  tick,       \* tickBuckets: idx, the number of ticks of the queue
  advancing,  \* advanceBucket(idx) has yet to "zero" the bucket or to "store" the index
  listed,     \* the subscriber exists, and is among those the ticker collects
  bucketIdx,  \* Subscriber.bucketIdx
  buckets,    \* Subscriber.buckets
  loaded,     \* the index each recorder has loaded for the event it counts
  counted,    \* history: of each event the index it went by, and the tick it was added at
  reader      \* windowRates: cur, i and the sum; known is history, the events before it

windowVars == <<tick, advancing, listed, bucketIdx, buckets, loaded, counted, reader>>

WindowInit ==
  /\ tick = 0
  /\ advancing = "no" /\ listed = FALSE
  /\ bucketIdx = 0
  /\ buckets = [b \in 0 .. WindowBuckets - 1 |-> 0]
  /\ loaded = [r \in Recorders |-> NoBucket]
  /\ counted = <<>>
  /\ reader = [cur |-> 0, i |-> 0, sum |-> 0, known |-> 0]

\* SubscribeNamed: the subscriber joins a queue that has ticked for some time.
Listed == ~listed /\ listed' = TRUE
          /\ UNCHANGED <<tick, advancing, bucketIdx, buckets, loaded, counted, reader>>

\* The ticker of the queue.
Tick ==
  /\ advancing = "no"
  /\ tick < MaxTicks
  /\ tick' = tick + 1
  /\ advancing' = IF listed THEN "zero" ELSE "no"
  /\ UNCHANGED <<listed, bucketIdx, buckets, loaded, counted, reader>>

\* Mutant: the index is stored before the bucket is emptied.
advanceBucket_StoreFirst ==
  \/ /\ advancing = "zero"
     /\ bucketIdx' = tick /\ advancing' = "store"
     /\ UNCHANGED <<tick, listed, buckets, loaded, counted, reader>>
  \/ /\ advancing = "store"
     /\ buckets' = [buckets EXCEPT ![tick % WindowBuckets] = 0] /\ advancing' = "no"
     /\ UNCHANGED <<tick, listed, bucketIdx, loaded, counted, reader>>

advanceBucket ==
  \/ /\ advancing = "zero"
     /\ buckets' = [buckets EXCEPT ![tick % WindowBuckets] = 0] /\ advancing' = "store"
     /\ UNCHANGED <<tick, listed, bucketIdx, loaded, counted, reader>>
  \/ /\ advancing = "store"
     /\ bucketIdx' = tick /\ advancing' = "no"
     /\ UNCHANGED <<tick, listed, buckets, loaded, counted, reader>>

\* The first half of recordEnqueue, RecordDequeue and recordDrop.  Until its first
\* tick a subscriber counts in bucket 0, whatever the second.
LoadIndex(r) ==
  /\ listed
  /\ loaded[r] = NoBucket
  /\ Len(counted) + Cardinality({o \in Recorders : loaded[o] # NoBucket}) < MaxEvents
  /\ loaded' = [loaded EXCEPT ![r] = bucketIdx]
  /\ UNCHANGED <<tick, advancing, listed, bucketIdx, buckets, counted, reader>>

\* The second half, under the lock of the bucket.
AddToBucket(r) ==
  /\ loaded[r] # NoBucket
  /\ buckets' = [buckets EXCEPT ![loaded[r] % WindowBuckets] = @ + 1]
  /\ counted' = Append(counted, [began |-> loaded[r], ended |-> tick])
  /\ loaded' = [loaded EXCEPT ![r] = NoBucket]
  /\ UNCHANGED <<tick, advancing, listed, bucketIdx, reader>>

\* windowRates begins, and goes from the newest bucket to the oldest.
BeginRates ==
  /\ reader.i \in {0, WindowBuckets}
  /\ reader' = [cur |-> bucketIdx, i |-> 0, sum |-> 0, known |-> Len(counted)]
  /\ reader' # reader
  /\ UNCHANGED <<tick, advancing, listed, bucketIdx, buckets, loaded, counted>>

ReadBucket ==
  /\ reader.i < WindowBuckets
  /\ reader' = [reader EXCEPT
       !.i = @ + 1,
       !.sum = IF reader.cur < reader.i THEN @
               ELSE @ + buckets[(reader.cur - reader.i + WindowBuckets) % WindowBuckets]]
  /\ UNCHANGED <<tick, advancing, listed, bucketIdx, buckets, loaded, counted>>

WindowNext ==
  \/ Listed \/ Tick \/ advanceBucket \/ BeginRates \/ ReadBucket
  \/ \E r \in Recorders : LoadIndex(r) \/ AddToBucket(r)

WindowSpec == WindowInit /\ [][WindowNext]_windowVars
-----------------------------------------------------------------------------
\* What windowRates returns, although ticks and events come while it reads: no event
\* counted longer ago than the window, none twice, and every event from before the
\* reading that is still within the window when it ends; except that a subscriber
\* which has seen no tick yet (index 0) may forget its events early.  How long a
\* goroutine takes to count an event does not matter.
RatesAreOfTheWindow ==
  reader.i = WindowBuckets =>
    /\ reader.sum <= Cardinality({k \in DOMAIN counted :
                         counted[k].ended > reader.cur - WindowBuckets})
    /\ reader.sum >= Cardinality({k \in 1 .. reader.known :
                         counted[k].began # 0 /\ counted[k].began > tick - WindowBuckets})
=============================================================================
