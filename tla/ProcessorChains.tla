-------------------------- MODULE ProcessorChains --------------------------
(***************************************************************************)
(* The processor chains of internal/pipeline/manager.go: one goroutine per *)
(* StartPipeline takes the messages of the chain's topic, runs the         *)
(* processors, redirects what they have left on that topic to the chain's  *)
(* output topic and publishes the results.                                 *)
(*                                                                         *)
(* The queue hands every subscriber the SAME *Message, and processors may  *)
(* return it as it is: messages are objects here, with a Topic field that  *)
(* all goroutines holding the object read and write without a lock.        *)
(***************************************************************************)
EXTENDS Integers, Sequences, FiniteSets, Processors

CONSTANTS
  Chains,      \* rows of the processor_chain table
  Tables,      \* contents of the table: each a record of
               \*   topic      chain -> the topic it subscribes to, or None
               \*   outTopic   chain -> the topic it publishes to, or None
               \*   processors chain -> its processors, in the order of the row
               \*   broken     chains whose processors are not the JSON they should be
               \*   requested  chains that requests are about
               \*   messages   bound: messages the connections publish
  MaxWorkers,  \* bound: calls of StartPipeline that start a goroutine
  MaxObjects,  \* bound: messages made
  Cap          \* buffer of a subscription

ASSUME NoneAssumption == None \notin Topics \cup Chains
ASSUME TablesAssumption ==
  \A t \in Tables : /\ t.topic \in [Chains -> Topics \cup {None}]
                    /\ t.outTopic \in [Chains -> Topics \cup {None}]
                    /\ \A c \in Chains : t.processors[c] \in Seq(Processor)
                    /\ t.broken \subseteq Chains /\ t.requested \subseteq Chains
                    /\ t.messages \in Nat
ASSUME MaxAssumption == {MaxWorkers, MaxObjects} \subseteq Nat
ASSUME CapAssumption == Cap \in Nat \ {0}

\* Goroutines and messages are numbered in the order in which they are made.
Workers == 1 .. MaxWorkers
Objects == 1 .. MaxObjects

VARIABLES
  table,      \* the rows, which do not change here
  pipelines,  \* keys of m.pipelines
  stopped,    \* history: chains that have been stopped while they ran
  chain,      \* chain a worker runs, None before it is started
  ch,         \* channel of the worker's subscription
  pc,         \* "idle": at the channel; "process"; "load", "redirect" and "publish"
              \* for the result that comes next
  msg,        \* the message being processed
  results,    \* results not published yet: [obj, topic], the topic as the
              \* processors have chosen it, or None
  loaded,     \* result.Topic as read for the comparison with msg.Topic
  topicOf,    \* Topic field of each message made so far
  injected,   \* messages the connections have published so far
  taken       \* history: chain -> object -> how often its workers have taken it (2: or more)

managerVars == <<table, pipelines, stopped, chain>>
vars == <<managerVars, ch, pc, msg, results, loaded, topicOf, injected, taken>>

Result == [obj : Objects, topic : Topics \cup {None}]

TypeOK ==
  /\ table \in Tables
  /\ pipelines \subseteq Chains
  /\ stopped \subseteq Chains
  /\ chain \in [Workers -> Chains \cup {None}]
  /\ ch \in [Workers -> Seq(Objects)]
  /\ \A w \in Workers : Len(ch[w]) <= Cap
  /\ pc \in [Workers -> {"idle", "process", "load", "redirect", "publish"}]
  /\ msg \in [Workers -> Objects \cup {None}]
  /\ results \in [Workers -> Seq(Result)]
  /\ loaded \in [Workers -> Topics \cup {None}]
  /\ topicOf \in Seq(Topics)
  /\ injected \in 0 .. table.messages
  /\ taken \in [Chains -> [Objects -> 0 .. 2]]

Init ==
  /\ table \in Tables
  /\ pipelines = {}
  /\ stopped = {}
  /\ chain = [w \in Workers |-> None]
  /\ ch = [w \in Workers |-> <<>>]
  /\ pc = [w \in Workers |-> "idle"]
  /\ msg = [w \in Workers |-> None]
  /\ results = [w \in Workers |-> <<>>]
  /\ loaded = [w \in Workers |-> None]
  /\ topicOf = <<>>
  /\ injected = 0
  /\ taken = [c \in Chains |-> [o \in Objects |-> 0]]

Started == {w \in Workers : chain[w] # None}
Fresh(w) == w \notin Started /\ \A v \in 1 .. w - 1 : v \in Started

\* Publish of o on t: every subscriber of t with room gets the object (the steps
\* within Publish are in MessageQueue).
Deliver(o, t) ==
  ch' = [w \in Workers |->
           IF w \in Started /\ table.topic[chain[w]] = t /\ Len(ch[w]) < Cap
           THEN Append(ch[w], o) ELSE ch[w]]

\* A connection publishes a new message (on a topic of a chain: others reach none).
Inject(t) ==
  /\ \E c \in Chains : table.topic[c] = t
  /\ injected < table.messages
  /\ Len(topicOf) < MaxObjects
  /\ injected' = injected + 1
  /\ topicOf' = Append(topicOf, t)
  /\ Deliver(Len(topicOf) + 1, t)
  /\ UNCHANGED <<managerVars, pc, msg, results, loaded, taken>>

\* Mutant: a chain that runs already is started again.
StartPipeline_Again(c, w) ==
  /\ Fresh(w)
  /\ pipelines' = pipelines \cup {c}
  /\ chain' = [chain EXCEPT ![w] = c]
  /\ UNCHANGED <<table, stopped, ch, pc, msg, results, loaded, topicOf, taken, injected>>

\* createPipeline fails for a broken chain; one without a topic has no goroutine.
StartPipeline(c, w) ==
  /\ c \notin pipelines \cup table.broken
  /\ Fresh(w)
  /\ pipelines' = pipelines \cup {c}
  /\ chain' = IF table.topic[c] # None THEN [chain EXCEPT ![w] = c] ELSE chain
  /\ UNCHANGED <<table, stopped, ch, pc, msg, results, loaded, topicOf, taken, injected>>

\* Only the map entries go: the subscriptions and the goroutines stay.
Forget(chains) ==
  /\ pipelines' = pipelines \ chains
  /\ stopped' = stopped \cup (pipelines \cap chains)
  /\ UNCHANGED <<table, chain, ch, pc, msg, results, loaded, topicOf, taken, injected>>

StopPipeline(c) == Forget({c})

\* The part of Manager.StopAll that concerns the chains.
StopAll == Forget(Chains)

Take(w) ==
  /\ w \in Started
  /\ pc[w] = "idle"
  /\ ch[w] # <<>>
  /\ msg' = [msg EXCEPT ![w] = Head(ch[w])]
  /\ ch' = [ch EXCEPT ![w] = Tail(@)]
  /\ pc' = [pc EXCEPT ![w] = "process"]
  /\ taken' = [taken EXCEPT ![chain[w]][Head(ch[w])] = IF @ < 2 THEN @ + 1 ELSE 2]
  /\ UNCHANGED <<managerVars, results, loaded, topicOf, injected>>

\* The loop over the results goes on with those in rest, or to the next message.
Continue(w, rest) ==
  /\ results' = [results EXCEPT ![w] = rest]
  /\ pc' = [pc EXCEPT ![w] = IF rest = <<>> THEN "idle" ELSE "load"]

\* p.Process(msg): the message itself, or new objects.  There is no result when the
\* message is dropped or a processor fails.
Process(w) ==
  /\ pc[w] = "process"
  /\ \E outcome \in Outcomes(table.processors[chain[w]]) :
       LET made == outcome.items
           new == IF IsPassedOn(outcome) THEN <<>> ELSE made
       IN  /\ Len(topicOf) + Len(new) <= MaxObjects
           /\ topicOf' = topicOf \o [i \in DOMAIN new |->
                IF new[i].topic # None THEN new[i].topic ELSE topicOf[msg[w]]]
           /\ Continue(w, [i \in DOMAIN made |->
                [obj |-> IF IsPassedOn(outcome) THEN msg[w] ELSE Len(topicOf) + i,
                 topic |-> made[i].topic]])
  /\ UNCHANGED <<managerVars, ch, msg, loaded, taken, injected>>

\* `result.Topic == msg.Topic`: the left-hand side is read ...
LoadTopic(w) ==
  /\ pc[w] = "load"
  /\ loaded' = [loaded EXCEPT ![w] = topicOf[Head(results[w]).obj]]
  /\ pc' = [pc EXCEPT ![w] = "redirect"]
  /\ UNCHANGED <<managerVars, ch, msg, results, topicOf, taken, injected>>

\* Mutant: results are published on the topic they came with.
Redirected_Never(w) == FALSE

\* ... and compared with the right-hand side.
Redirected(w) == table.outTopic[chain[w]] # None /\ loaded[w] = topicOf[msg[w]]

Redirect(w) ==
  /\ pc[w] = "redirect"
  /\ topicOf' = IF Redirected(w)
                THEN [topicOf EXCEPT ![Head(results[w]).obj] = table.outTopic[chain[w]]]
                ELSE topicOf
  /\ pc' = [pc EXCEPT ![w] = "publish"]
  /\ UNCHANGED <<managerVars, ch, msg, results, loaded, taken, injected>>

PublishResult(w) ==
  /\ pc[w] = "publish"
  /\ LET o == Head(results[w]).obj IN Deliver(o, topicOf[o])
  /\ Continue(w, Tail(results[w]))
  /\ UNCHANGED <<managerVars, msg, loaded, topicOf, taken, injected>>

WorkerStep(w) == Take(w) \/ Process(w) \/ LoadTopic(w) \/ Redirect(w) \/ PublishResult(w)

Next ==
  \/ \E t \in Topics : Inject(t)
  \/ StopAll
  \/ \E c \in Chains : StopPipeline(c) \/ \E w \in Workers : StartPipeline(c, w)
  \/ \E w \in Workers : WorkerStep(w)

Spec == Init /\ [][Next]_vars

\* A chain's goroutine runs on whatever the others do.
FairSpec == Spec /\ \A w \in Workers : WF_vars(WorkerStep(w))
-----------------------------------------------------------------------------
\* A chain of t hands on messages as they came.
PassesOn(t, c) == \E o \in Outcomes(t.processors[c]) : IsPassedOn(o)

\* What the table must be like for topics to stay as chosen: a chain that hands on
\* messages has its topic, and its subscription, to itself, and no processor chooses
\* the input topic of a chain that has another for its output.
NothingShared(t) ==
  \A c \in Chains : t.topic[c] # None =>
    /\ PassesOn(t, c) => t.requested = {} /\ \A d \in Chains \ {c} : t.topic[d] # t.topic[c]
    /\ t.outTopic[c] # None =>
         \A o \in Outcomes(t.processors[c]) : \A i \in DOMAIN o.items :
           o.items[i].topic # t.topic[c]

\* And for messages not to come back: chains that hand them on form no cycle.
LeadsOn(t, rank) ==
  \A c \in Chains : PassesOn(t, c) /\ t.topic[c] # None =>
    t.outTopic[c] # None /\ rank[t.topic[c]] < rank[t.outTopic[c]]

NothingReturns(t) == \E rank \in [Topics -> 0 .. Cardinality(Chains)] : LeadsOn(t, rank)

\* PROJECT_CONTEXT.md 5.1: what no processor has given a topic of its own leaves
\* the chain on its output topic, whoever else holds the same message.
UndirectedGoesToOutTopic ==
  \A w \in Workers :
    pc[w] = "publish" /\ Head(results[w]).topic = None /\ table.outTopic[chain[w]] # None
      => topicOf[Head(results[w]).obj] = table.outTopic[chain[w]]

\* decode_script.go:53: the topic is entirely the one a script has returned as a
\* key.  A result with a topic of its own is published on that topic.
DirectedKeepsTopic ==
  \A w \in Workers :
    pc[w] = "publish" /\ Head(results[w]).topic # None
      => topicOf[Head(results[w]).obj] = Head(results[w]).topic

\* A message waiting for a chain still carries the topic it was published on: no
\* other holder of the object has redirected it meanwhile.
QueuedKeepsTopic ==
  \A w \in Workers : \A i \in 1 .. Len(ch[w]) : topicOf[ch[w][i]] = table.topic[chain[w]]

\* Where no object is shared by two chains that redirect, every message is on the topic
\* a processor or the chain has chosen for it (manager.go:869).
TopicsAsChosen == UndirectedGoesToOutTopic /\ DirectedKeepsTopic /\ QueuedKeepsTopic

\* Requests that start a chain at the same time leave it one goroutine, and no
\* message comes back to it through other chains: a chain that was never stopped
\* takes no message twice.
TakenOnce ==
  \A c \in Chains \ stopped : \A o \in Objects : taken[c][o] < 2

\* Chains that form no cycle come to rest once the connections are silent.
RelayComesToRest ==
  <>[](\A w \in Workers : pc[w] = "idle" /\ ch[w] = <<>>)
=============================================================================
