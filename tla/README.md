# Specifications of script-gateway

TLA+ models of the script-gateway server (the Go program in `src/`), TLC
configurations that check them on small instances, and proofs of their main
invariants for TLAPS. Every definition is translated from the source; the lines it stands
for are listed under `map` in `PROJECT.json`. File names below are relative to
`src/`.

1. [The system](#1-the-system)
2. [Modules and the code](#2-modules-and-the-code)
3. [Runs](#3-runs)
4. [Fairness and deadlock](#4-fairness-and-deadlock)
5. [Proofs](#5-proofs)
6. [Where code and documentation disagree](#6-where-code-and-documentation-disagree)
7. [What is not modelled, and the plan](#7-what-is-not-modelled-and-the-plan)

## 1. The system

The gateway takes in messages over connections (TCP, UDP, serial lines, HTTP
routes, MQTT subscriptions, scripts, plugins), passes them through processor chains,
and pushes them out through dispatchers. Chains, dispatchers, connections and
viewers do not call each other: each publishes to topics of one queue and subscribes to others.

    connection --Publish--> queue --channel--> chain --Publish--> queue --channel--> dispatcher
                              |                                     |
                              +--> snapshot (ring buffer)           +--channel--> viewer, connection

`main.go` loads the plugins, starts the manager (`pipeline.Default.Start`: parents
and their connections, chains, dispatchers, mockers, autostarted task plugins) and serves
the HTTP routes, whose handlers write a table and then call the manager.

| component | state | operations | what is hard about it | what makes it correct |
|---|---|---|---|---|
| message queue (`internal/queue`, `internal/types`) | subscribers by identity and by topic, a bounded channel and three counters for each, a ring of recent messages per topic | `Publish`, `SubscribeNamed`, `UnsubscribeSub`, `RegisterTopic`, `RecentMessages`, `Consume` | `Publish` delivers after it has released the lock; channels are closed meanwhile; counters follow the sends | indexes agree; every collected subscriber gets one counted outcome; order per publisher; publishing neither blocks nor panics |
| rates (`internal/queue/subscriber.go`) | an index and ten buckets per subscriber | tick, count, read | the index is loaded and the bucket locked separately; a new subscriber counts in bucket 0 until its first tick | a rate counts the events of the window, each once |
| viewer stream (`app/api/viewer.go`) | a subscription and a WebSocket per browser | open, write, close | a browser that has gone is noticed by a write that fails | its subscription ends then |
| processor chains (`internal/pipeline/manager.go`, `internal/decode`, `app/api/processor_chain.go`) | the rows, the keys of `pipelines`, one goroutine and one subscription per start, the message objects | create, update, enable, disable, delete, hot reload, the loop of the goroutine | all subscribers share one `*Message`, whose `Topic` is written without a lock; stopping only removes the key | a result goes to the topic its chain or its script says; no message twice; a stopped chain is silent |
| plugin invocation and scripts (`internal/plugin/factory.go`, `internal/script`) | a lock per plugin, a goroutine per timed call | invoke with a timeout | a call that times out still holds the plugin | one call at a time; a late answer finds room; the plugin remains usable |
| dispatchers (`app/api/dispatcher.go`, `hotreload.go`, manager) | the table row, `dispatchers`, `dispatcherSubs`, a goroutine per subscription | create, update, enable, disable, delete, reload one or all, the pushing goroutine | a request is a sequence of locked steps with no lock over the whole | subscriptions are those of the running dispatchers; what runs is what the rows say |
| mockers (`app/api/mocker.go`) | rows, stop channels by id, a goroutine with a ticker for each | create, update, enable, disable, delete, load; tick | a goroutine reads its row on each tick and leaves its entry behind | one timer per mocker, which a stop reaches; timers match rows |
| task plugins (manager, `internal/plugin`, `app/api/plugin.go`) | the registry of loaded plugins; one cancel function and one error per name, a goroutine per run | load, start, stop, stop all, reload one, a type or all, the run and its clean-up | the clean-up of a cancelled run comes late and goes by name; a reload is several locked steps | the stored cancel function is that of a live run; no run escapes; errors are of runs nobody stopped; what runs is what was loaded last |
| connections and parents (manager, `app/api/listener.go`) | rows; listeners, contexts and framing buffers by id; a parent's routes and topics; goroutines | start, stop, reload, read loop, output loop | the read loop ends by a context the manager may no longer hold; children are found by rows that may have changed; requests interleave | one reader per connection, which a stop reaches; a running connection keeps its buffer; children stop with their parent |
| listeners (`internal/listen`) | a socket, port, script or plugin per session, `msgCh`, for TCP the registered clients | open, read, write, close | goroutines of a session that was closed go on; sessions of a plugin share its functions; TCP accepts while it closes | messages in order and once; goroutines end; connections are closed |
| framing (manager, `internal/listen`) | a rule per connection, a buffer of bytes | `applyFraming`, `splitStream`, `splitChunk` | chunk boundaries fall anywhere, also inside separators and headers | what was sent comes out, whatever the chunks |
| configuration snapshots (`app/api/config_snapshot.go`) | JSON texts of all tables | create, restore | tables are read one by one; a restore gives rows new keys and does not tell the manager | a restore gives back what was saved; what runs under a key is what its row says |
| settings (`app/model/convert.go`) | a JSON column of a row, and flat fields in requests and answers | normalise, validate, view | the same settings have two forms | a form that is saved changes what was edited and nothing else |
| database set-up (`app/common`) | old and new names of tables and columns | migration at each start | no statement is undone when the next fails or the program stops | no value is lost; one start is enough |

Every component is listed in `PROJECT.json` with its status, and every hazard with its
line and the properties that watch it.

## 2. Modules and the code

| module | models | proofs | instances |
|---|---|---|---|
| `MessageQueue` | `internal/queue/queue.go`, `subscriber.go` | `MessageQueueProofs` | `MCMessageQueue` |
| `Viewers` | `app/api/viewer.go`, over `MessageQueue` | `MessageQueueProofs` | `MCQueueUsers` |
| `RingBuffer`, `RecentLog` | `ringBuffer` and what a snapshot promises | `SmallPartsProofs` | `MCSmallParts` |
| `SlidingWindow` | the rates of `subscriber.go` | `SmallPartsProofs` | `MCSmallParts` |
| `Processors` | `internal/decode`, `createPipeline` (`manager.go:972-1064`) | `ChainsProofs` | |
| `ProcessorChains` | chains: `manager.go:841-885` | `ChainsProofs` | |
| `ChainRequests` | `app/api/processor_chain.go`, `hotreload.go`, over `ProcessorChains` | `ChainsProofs` | `MCProcessorChains`, `MCChainsAndCalls` |
| `PluginCalls` | `internal/plugin/factory.go`, `internal/script`, `decode_script.go` | `ChainsProofs` | `MCChainsAndCalls` |
| `Dispatchers` | `app/api/dispatcher.go`, `hotreload.go`, `manager.go:654-756` | `DispatchersProofs` | `MCDispatchers` |
| `Mockers` | `app/api/mocker.go` | `DispatchersProofs` | `MCDispatchers` |
| `TaskPlugins` | `manager.go:777-830`, `724-756`, `internal/plugin/registry.go`, `loader.go` | `TaskPluginsProofs` | |
| `PluginRequests` | `app/api/plugin.go`, `hotreload.go`, over `TaskPlugins` | `TaskPluginsProofs` | `MCTaskPlugins` |
| `Connections` | `app/api/listener.go`, `hotreload.go`, `manager.go:213-652` | `ConnectionsProofs` | `MCConnections` |
| `Listeners` | serial, UDP, script and plugin listeners of `internal/listen` | `ListenersProofs` | `MCQueueUsers` |
| `TcpListener` | `listen_tcp.go`: acceptor, clients, writer, closing | `ListenersProofs` | `MCQueueUsers` |
| `Framing`, `StreamFraming` | `manager.go:1068-1290`, the bytes in `listen_tcp.go` | `StreamProofs` | `MCStreamFraming`, `MCSmallParts` |
| `ConfigSnapshots` | `app/api/config_snapshot.go` and the requests that create and delete rows | `SmallPartsProofs` | `MCSmallParts` |
| `ListenerRows` | `app/model/convert.go`, the validators of `app/api/listener.go` | `SmallPartsProofs` | `MCSmallParts` |
| `SchemaMigration` | `app/common/common.go` | `SmallPartsProofs` | `MCSmallParts` |

Modules that share nothing are checked side by side: an `MC` module with a variable
`part` says which of them a behaviour is about, and the variables of the others stay as
they are, so that the states of the instance are the sum of those of its parts, not
their product.

Definitions named `<definition>_<Change>` are mutants: the definition with a plausible
mistake in it. Each checked property is violated when one of them takes the place of
the original (`mutants` in `PROJECT.json`).

**MessageQueue.** What a call does under `q.mu` is one action (`Publish`,
`SubscribeNamed`, `UnsubscribeSub`, `RegisterTopic`). The rest of `Publish` is one
action per step: for a subscriber collected before, `SendToSub` or `SkipFullSub` is
the `select` with its default case, `SendOnClosed` the panic of a send on a closed
channel; then `recordEnqueue` or `recordDrop` counts it. `Receive` and `RecordDequeue` are the
two steps of `Consume`. `offered`, `sent` and `received` are history variables. The
order in which the code ranges over the collected subscribers is any order. A
snapshot is here the sequence of its most recent messages, which is what
`RingBuffer` is shown to implement.

**Viewers** adds the goroutine of a stream to the steps of its subscription: it takes
and counts a message, writes it to the socket and, after a write that fails, makes the
deferred call of `UnsubscribeSub`. The browser goes in two steps, because the network
takes some writes after it has gone. Without a message nothing is written, and the
subscription of a browser that has gone stays.

**RingBuffer** is the array with its write position and its count, each operation
under the buffer's own lock; `Recent(n)` is a function of the state. `RecentLog` is the
abstract specification, and `ImplementsRecentLog` maps its log to `Recent(0)` and says
that every `Recent(n)` is the end of it.

**SlidingWindow.** The ticker of the queue empties a bucket and then stores the index;
a goroutine that counts loads the index and then adds to a bucket; the reader loads the
index and then reads bucket after bucket. Each of these is a step. `counted` remembers
what was counted when.

**ProcessorChains.** Messages are objects with a `Topic` field, so that several
goroutines may hold one. The comparison `result.Topic == msg.Topic`, the assignment
and the publishing are separate steps (`LoadTopic`, `Redirect`, `PublishResult`); each
access of the field is taken to be atomic, although the race is undefined behaviour in
Go. The delivery of a message to all chains is one step, since the steps within it are
those of `MessageQueue`. A row whose processors cannot be read (`broken`) is not started.

**Processors** says what each processor may make of a message (itself, a copy, messages
with topics of their own, nothing, an error) and how a pipeline puts them together:
`Outcomes` is the set of lists of results. Which payloads a processor accepts is left
open, so that every answer the code can give is an outcome.

**ChainRequests** adds the handlers. A request is the sequence of row updates and manager
calls it still has to make; each element is one step, under `m.mu` or one SQL statement, and
requests interleave. The first to run is `main`, which starts the enabled rows; requests
come afterwards. An update leaves the processors and topics of its row as they are.

**PluginCalls.** A call is a caller and, unless it is a push, a goroutine with a channel of
one slot. The caller waits for the plugin without a timeout, and for the answer with one; the
goroutine unlocks the plugin when user code has returned, whether or not anybody
waits. Scripts lock nothing.

**Dispatchers.** Requests are sequences of steps as in `ChainRequests`. A dispatcher built by `createDispatcher` is an instance; the
goroutine of its subscription reads, pushes and ends. A push returns; it may take
any time.

**Mockers.** Requests are sequences of steps again; statements may fail, which ends a
request. A timer is the goroutine of one `startMockerRunner`. Its `select` may prefer
the tick to a closed stop channel. `clashed` and `dbFailed` record the ids about which two
requests have overlapped or a statement has failed.

**TaskPlugins.** A run is the goroutine of one `StartTaskPlugin`. It ends in two
steps: the plugin returns (`RunTask`), and the clean-up takes `m.mu` (`Exit`). In
between anything can happen. `late` records, for each run, the earlier runs of
its plugin that had not cleaned up when it was started; once one of them has, the run is
`Overtaken`: its entry may be gone.

**PluginRequests.** The handlers of `app/api/plugin.go` as sequences of calls. Loading
reads whatever is in the files at that time, one of `Sources`, or fails; a loaded plugin stays in
the registry when its files are gone. The directory of a plugin is taken to bear the
name in its manifest. `Close` of the plugin that is replaced, the parameters of a run and the
other plugin types are left out. `mixed` records the plugins about which two
requests have overlapped.

**Connections.** Requests are sequences of steps as in `ChainRequests`. A session is a
successful call of `StartConn`: its context, its listener, the goroutine that reads
it and the one that writes the output topic; `listeners`, `cancels` and `framing` map
a connection to a session. `Release` is what `StopConn`, `StopParent` and `StopAll`
have in common. The writing goroutine is in its `select` or in a write (`TakeOutgoing`,
`WriteReturns`), of a listener or to the broker; with its context done the `select` may still take
a message, and `LeaveWriteLoop` need not come first. A `StartConn` that fails, for whatever reason, is `FailConn`; it
leaves a blank framing state behind. The read loop gets an error from a closed listener and goes round
until its own context is cancelled, so a closed listener with a context that is not cancelled
would spin (`LeaveReadLoop`). `tcp_conn` stands for all connections without a parent.
Initially the tables are whatever an earlier run has left, and `Manager.Start` is the
first thing to run. `overlapped` and `moved` record which connections two requests
were about at once, and which were given another parent. `parents` has `httpRoutes` and
`mqttTopics`, one to a connection; what the MQTT client makes of two subscriptions to one
topic is its own affair (section 7).

**Listeners.** Sessions of one connection, one after the other, of which several may
still have goroutines: the one that reads (UDP, scripts, plugins) and the read loop of
the manager, between them `msgCh`. UDP drops what finds no room, scripts and plugins
wait with a `select` on the context. What a socket, a port or a script holds goes
with its session; the functions of a plugin are the same for every session, so that
a goroutine that is late takes a message from its successor.

**TcpListener.** `Accept` and `addConn` are two steps, with the connection in the hand of the
acceptor in between. `Write` holds `connMu` from its first client to its last.
Two goroutines close everything, `Close` and the one that waits for the context, each the
socket first and then the connections.

**Framing, StreamFraming.** `Framing` has the splitters as operators over sequences of
bytes. In `StreamFraming` the network cuts what clients send into chunks, the
listener's goroutines put them on `msgCh` or drop them when it is full, and the read
loop frames them. Only framing of TCP is modelled; a serial line takes the same way
without `msgCh`. Encoding of messages by a client is not in the repository: it
is what the rule describes.

**ConfigSnapshots** has the tables of parents and connections with their keys, which
are counted up and never used again, and what runs under which key. `Create` is two queries
with other requests in between. `Restore` is one step, since it is one transaction, but
each of its statements may have failed unnoticed. Other requests are one step here; how
their parts interleave is the subject of `Connections`.

**ListenerRows.** A row is a type and a config: no text, a text that is no object, or a
value for some of the fields, which may be of the wrong type. `Normalized`, `Valid` and
`FlatView` are what a request goes through on the way in and out.

**SchemaMigration** is one table with a row: each column has a cell under its old name, its
new name, or both. Every SQL statement is a step that may fail, and the program may stop
between any two. `Sync` is `Sync2` for this table: it may end after any part of what it has to add, and
the program starts all the same. `apart` records that it has made a second table beside the old one,
which the program then uses; `NoValueLost` looks for the old rows where they then are.

## 3. Runs

Passing runs:

| run | instance | shows |
|---|---|---|
| `queue` | two publishers with two messages and one; two subscriber identities, two topics, buffer 2, ring of 2 | the indexes, counters and order of the queue while subscribers come and go during the fan-out |
| `queue_users` | two publishers with a message each, two subscriptions, one of them of a viewer, buffer 1; listeners of four kinds with two sessions, three messages and a channel of one; a TCP listener with two clients and one write | `Publish` gets through with no fairness for consumers; cancelled consumers, streams of browsers that have gone, and the goroutines of closed listeners end; sessions read in order; what a closed TCP listener leaves behind |
| `data` | a ring of four slots and three values; three buckets, four ticks, two goroutines and two events; one client with three messages under four rules, chunks of up to four bytes, `msgCh` of two; two keys each of parents and connections; a table of two columns through three starts; every row of every type of listener over small values | the ring implements the log; rates are those of the window; framing does not depend on the chunks; snapshots, migration and settings keep what they hold |
| `tasks` | one plugin, two versions of its files, four runs; three requests, two at a time | overlapping starts, stops, reloads and clean-ups; what a late clean-up may make the manager lose, and that nothing else does |
| `chains` | six tables of two chains; one to three messages from outside, up to three goroutines; two requests that may overlap; three calls of a plugin or a script | routing, identity of queued messages, at most once, rest; one call at a time in a plugin, and no caller waits for ever |
| `dispatchers` | one dispatcher, two requests at a time, two instances, one configuration with topics and one without; one mocker, three requests, two at a time, three timers, intervals zero and one | subscriptions, instances and timers under interleaved requests |
| `connections` | one connection of three kinds (of its own; a script under an HTTP server; an MQTT topic), both parents, any tables at first, two requests that may overlap, two sessions | readers, buffers, children and routes under interleaved requests; ends of sessions |

Runs with a counterexample are those of section 6.

The bounds are enough for the cases that matter to occur.

- Queue: two publishers can both hold a subscriber that a third party unsubscribes; a
  buffer of two is filled by three messages. `queue` uses the symmetry of subscribers and
  topics, `data` that of names of connections and of goroutines that count; neither checks liveness, and
  the runs with liveness use none. In `queue_users` a buffer of
  one is full after one message, and the viewer can be the only one or one of two who are served.
- Listeners: a second session is enough for goroutines of two sessions to meet; three
  messages fill a channel of one with one held by the goroutine and one still waiting. With two TCP
  clients one can be in the acceptor's hand while the other is registered and being written to.
- Data: a ring of four wraps around; four ticks go round three buckets with one to spare;
  the separator, the header and a message of up to two bytes can be cut at each place, and
  a message may be empty, contain a byte of the separator or look like a header. A
  parent and a connection can be saved, deleted and restored under the second key. A
  second and a third start meet what the first has left; with two columns one can be done
  and the other not. The settings take each side of every bound the
  validators test.
- Tasks: a third run of a plugin can start while two are cleaning up. One task plugin is
  enough, because requests about several treat them one by one and plugins share nothing
  but the lock; the proofs cover any number.
- Chains: an object can be in two channels and two hands. Objects are numbered in order of
  creation, and `MaxObjects` is chosen so that it never stops a chain; requests are about
  one chain of one table, into which one message comes, and a third goroutine is the last. In one of the tables that row cannot be read. Of three
  calls one can hold the plugin after its timeout while two wait.
- Dispatchers and mockers: two instances of a dispatcher are an old one being drained and its
  successor; three timers are as many as three requests start, or two and the start of the program.
- Connections: two sessions are an old one and its successor. The tables the program
  finds take the place of the calls that would make them, so that two requests reach what
  would take five from empty tables; routes of HTTP differ from topics in that nothing
  can fail and nothing is written, and are not in the instance. The topic is the one kind with an
  output topic there: the writer of a listener takes the same steps.

## 4. Fairness and deadlock

Fairness is weak, with two exceptions, and given to the goroutines that the Go scheduler
runs, never to users, requests or the network. Where a property needs more, what it needs is
its premise.

- `queue_users`, queue: the steps of a publisher inside `Publish`. That `Publish` returns needs
  nothing of the consumers, which is the point. `UnsubscribedConsumerEnds` and
  `BrokenViewerEnds` have the steps of the one consumer or stream they are about as a premise.
- `queue_users`, listeners: the goroutines of a session; the functions of scripts and plugins
  return. For TCP also the waiters for `connMu`, while nobody holds it. That a client takes what is written
  to it is the premise of `StoppedTcpEnds`, because the code sets no deadline and the property fails
  without it.
- `chains`: the steps of a chain's goroutine; processors return, for `PluginCalls` shows that
  their callers do. There callers and goroutines run on and timers fire; a
  caller gets the plugin's lock as long as it is free. User code need not return, except in the
  premise of the second half of `CallsReturn`.
- `dispatchers`: the steps of a pushing goroutine; a push returns. For the mockers `publishMocker`,
  and strong fairness of `TimerStops`: its `select` finds the closed channel each time it is
  reached, perhaps together with a tick, and chooses at random, so that it does not
  pass the channel over for ever.
- `tasks` (`FairRequestsSpec`): the clean-up, which waits for `m.mu` only, and the return of a run that is
  cancelled. The second is what the context is handed to the plugin for; a plugin
  that ignores it never ends, and nothing in the code could end it.
- `connections`: the read loop, and a write that is under way. That a write returns some time is an assumption:
  closing the listener ends one to a socket, but `token.Wait` has no timeout (`manager.go:567`) and the
  `Write` of a script is user code, and if it never returns the goroutine stays. `LeaveWriteLoop` has strong
  fairness, as `TimerStops` has: while messages come the `select` is left again and again, and finds the context
  done each time it comes back.

All instances have parts that are bounded by the number of calls, messages, keys or
goroutines and stop when the bounds are used up (or, in `MessageQueue`, when the process
has panicked), so their configurations switch the deadlock check off. That nobody waits for ever
is what the liveness properties say.

## 5. Proofs

Proved for every value of the constants, from the named assumptions in the modules: sets
of publishers, clients, connections and parents are finite, buffers and sizes positive, "none" values
distinct. Some assumptions say more, and TLC evaluates each on the instance:

- `TablesAssumption` (`ProcessorChains`): the rows are rows; the topics that a script answers with at a time
  are finitely many.
- `SnapshotsAssumption`, `MigrationAssumption`, `WindowAssumption`, `RowsAssumption`: types of the constants, and that markers
  are no values. For `RowsAssumption` also that the texts a validator refuses are not among those
  it accepts.
- `RulesAssumption` (`StreamFraming`): the rules cut frames, and clients send bytes. Under a rule that cuts nothing
  every chunk is a frame of its own and chunks do matter; an offset below zero panics.

`TopicsCorrect` and `NoneTakenTwice` have hypotheses besides. `NothingShared` (a chain that hands messages
on as they are has its topic to itself and no requests are about it; no processor chooses the topic it reads
from) and `NothingReturns` (such chains form no cycle) are needed: without the first the code goes
wrong, as `chains_shared` shows. `HarmlessAssumption` has TLC see which tables of the instance
meet them. `MessagesCorrect` is about a connection with a single client, whose messages the rule can tell from each
other (`Sendable`: none contains the separator, all have the fixed length, or the header is part
of the frame); two clients share a buffer, and `framing_body_only` shows what becomes of frames
without their header. `MessagesAssumption` has TLC see that the instance is one of these.

| theorem | states | along |
|---|---|---|
| `TypeCorrect` | `MessageQueue!TypeOK` | `TypeInv`: the type invariant and `PubShape`, which says what a publisher holds at each place |
| `IndexConsistent` | `TopicIndexConsistent` | inductive relative to `TypeInv`; only subscribing and unsubscribing touch the indexes |
| `AccountingCorrect` | `CountersAgree` | per subscriber (`DepthOf`, `OffersOf`): each step moves a publisher between the sets `InFlight` and `Uncounted` whose cardinalities appear in the sums |
| `OrderKept` | `PublisherOrderKept` | `OrderInv`: a publisher's current message is its latest, everything delivered is at most that old, and strictly older at the subscribers it has still to reach |
| `SnapshotFirst` | `DeliveredWasSnapshotted` | `SnapInv`: what a publisher is delivering is in the log too or was pushed out of it, and the log has the messages of one publisher in order (`LogInv`); `PublishKeeps`: a later push only takes the oldest out of a full log |
| `GrowthCorrect` | `GrowsOnlyForCollected` | each step of `Next` under `TypeInv` |
| `ViewersUseTheQueue` | `ViewersSpec => Spec` of `MessageQueue` | every step of a stream is a step of a subscriber or a stutter, so the theorems above hold with viewers |
| `RingCorrect` | `RingInv`: the slots in use are those the window reads | inductive by itself |
| `RingImplementsLog` | the refinement of `RecentLog`, and every `Recent(n)` is the end of the log | `RingInv`; `RecentSlots` computes the slot of each message without `%`, `PushRecent` shows the step, `WindowSlots` that a shorter window reads the last of these slots |
| `RatesCorrect` | `RatesAreOfTheWindow` | `BucketsHold`: a bucket holds what was added since it was emptied (`AddedSince`); `ReadSoFar` bounds what a reader in the middle has summed by the cardinalities of what it may (`MayFind`) and what it must have found (`MustFind`) |
| `RequestsAreChains` | `RequestsSpec => Spec` of `ProcessorChains` | a step of a request is a step of the chains or a stutter |
| `OutcomesCorrect` | what a pipeline makes of a message is the message alone, as it came, or messages of its own | `ProcessMakes`, for each kind of processor; `ThroughKeeps`, for one processor and all items (`FlattenKeeps`); then along the pipeline |
| `TopicsCorrect` | `TopicsAsChosen` | `TopicsInv`: what a worker makes, and what a chain alone on its topic hands on, nobody else holds (`ResultsAreOwn`, `PassedAreOwn`), so that the topic compared and overwritten in three steps is its own (`OutcomesCorrect`); the object is on the topic of the chain that has it in its channel (`GivenOnTopic`) |
| `NoneTakenTwice` | `TakenOnce` | `NoneTwice`: a chain has not taken what its channel holds; what a chain has taken and another holds is further along, by the rank that `NothingReturns` gives the topics (`TakenBehind`) |
| `OneCallAtATime` | `PluginRunsOneCall` | `HolderIsInside`: whoever is in the plugin holds its lock, also when its caller has left; `NoEarlyGoroutine`: nobody has a goroutine before the lock |
| `SubscriptionsCorrect` | `SubscribedAsRunning` | `SubsInv` adds that an instance belongs to one id and that a fresh one is nowhere |
| `RowsCorrect` | `RunningMatchesRow` | `RowsInv` of `DispatchersProofs`: what requests have still to start is what the row says (`StartsAsWritten`), what runs and does not match its row is still to be stopped (`MatchesUnlessStopped`), one request is about an id that did not overlap, none about one that was not issued |
| `OneTimer` | `OneTimerPerMocker` | `MockersInv` adds that the entry of an id is a timer started for it (`EntriesAreOfTheirIds`), so that no two ids share one |
| `RowsHaveTheirTimers` | `TimersMatchRows` | `HandlersInv`: what a request has still to do is a tail of its handler (`HandlersAreShort`, `StepsAreAsWritten`), nobody asks about an id before the rows are loaded (`LoadedFirst`) or before it is issued |
| `StoredRunsCorrect`, `RunsLost`, `ErrorsCorrect` | `StoredRunIsWanted`, `LostOnlyByLateCleanUp`, `ErrorsAreCurrent` | `TaskInv` adds that every other goroutine of a plugin was there before the run that the manager holds (`OthersWereThere`), so that a clean-up which deletes the entry of another run overtakes it; an error comes from a run that nobody had stopped, and the manager holds none until a start removes it |
| `RequestsAreTaskPlugins`, `StoredRunsUnderRequests` | `RequestsSpec => Spec`; `StoredRunIsWanted` under the requests of `PluginRequests` | every step of a request is a step of the manager or the registry, or leaves both alone |
| `RegisteredIsRun` | `RunsWhatIsRegistered` | `RegistryInv`: what a request has still to load does not run or is stopped by it before (`StopsComeFirst`), starts come after loads (`StartsComeLast`), the program's own calls before all requests (`BootIsFirst`), and one request at a time is about a plugin that is not mixed; `Plan` is what the handlers issue |
| `OneReader`, `BufferStays` | `NoOrphanReader`, `RunningHasItsBuffer` of `Connections` | `Inv` adds that a context belongs to its connection, that the three maps agree where there is a listener, and that an unused session is nowhere; `ReleaseKeepsInv` serves all three stops |
| `ChildrenStop`, `RoutesCorrect` | `ChildrenStopWithParent`, `RoutesAreOfRunning` | `ChildrenInv` adds to `Inv`, unless requests overlapped: what is to be started is what the row says (`StartsAsWritten`), what runs is too or is the next to be stopped (`RunsAsWritten`), so that a stop of the parent finds it; a child runs while its parent does (`ChildrenHaveParents`) its parent has its route (`ServedByParents`), every route was made for a session under that parent (`RoutesOfSessions`), and one that is not that of what runs stays only where the connection was moved away, or is about to be stopped after it has come back (`RoutesAsWritten`) |
| `SessionsInOrder` | `SessionsReadInOrder` | `ListenersInv`: the order of one session through channel, hand and log (`InOrder`), all of it from what has arrived (`NothingFromTheFuture`), and a reader of a plugin looks at its context before it reads again (`StaleOnce`) |
| `OneStaysOpen` | `ClosedLeavesOneOpen` | `OpenIsKnown`: an open connection is registered or in the acceptor's hand; `ClosesAfterListening` and `NotAccepted`: connections are closed after the socket, so that no more come into the hand; `OneLeftOpen` |
| `RunsRows`, `SnapshotsTorn` | `RunsWhatItsRowSays`, `TornByNewParentsOnly` | `SnapshotsInv`: keys are handed out in order (`KeysInOrder`), the parent that a row names has a row, unless a restore has parted them (`ParentsKnown`), and parents the first query of a snapshot has missed are new (`ReadOrNew`) |
| `MigrationKeeps`, `MigrationEnds` | `NoValueLost`, `OneStartIsEnough` | `MigrationInv`: a column has one of its names at least and holds what it is meant to (`NoColumnLost`), there is one table unless `Sync` has made a second (`OneTable`), the loop goes by what it has seen (`LoopSees`), drops no column that was not copied (`DroppedIsCopied`) and leaves no old name behind (`NoOldNames`) |
| `ChunksCorrect` | `ChunksDoNotMatter` | `StreamInv` adds types only; the work is in `SplitLater`: to split all bytes at once is to split what comes later behind the bytes kept. A round of the loop either finds no frame or takes bytes whatever comes behind them (`CutTakes`), so the rounds behind a frame are those on the rest (`RoundsBehind`), and the length of the rest falls |
| `MessagesCorrect` | `FramesAreTheMessages` | `MessagesInv`: unless a chunk was dropped, what was taken, the chunks in the channel and the wire are bytes that are cut into the messages sent (`Conserved`); a message alone comes out as its frame (`MessageAlone`), so that one more message adds one frame |
| `FormsKeepTheRest` | `FormKeepsTheRest` | `RowsInv`: a row is as the validators let it through; then, for each type, `FlatView` after `Normalized` gives back each field |

The strengthenings are needed because none of the properties is inductive: `PublisherOrderKept`,
for one, says nothing of the messages that are still to come, `ClosedLeavesOneOpen`
nothing before both closers are done, and `RunningMatchesRow` and `TimersMatchRows` nothing while a request is under way.

Only the liveness properties are model-checked alone: they are out of the prover's reach. Where a proof
needs induction (the rounds of a splitter, the bytes of a chunk, the processors of a pipeline), the set of the numbers for which the claim holds
is shown to be all of them (`AllNumbers`, `NextNumbers` of `StreamProofs` and `ChainsProofs`), because the induction theorems of the
library take an operator that no installed prover can instantiate.

## 6. Where code and documentation disagree

Each has a run that shows it, except those at the end.

- `queue_send_on_closed`: `Publish` sends after the unlock (`queue.go:127`);
  `UnsubscribeSub` closes the channel in between, and the send panics.
- `task_reported`: the late clean-up of a stopped run deletes the entry of the run
  that has replaced it (`manager.go:797`), which then runs unreported.
- `chains_shared`: of two chains on one topic whose processors pass the message on as
  it is, one publishes it on the output topic of the other (`manager.go:870`).
- `framing_body_only`: with `include_header` off, the data advances by the length of
  the body only (`manager.go:1218`).
- `snapshot_restored`: a restore inserts parents under new keys and their children with
  the old ones (`config_snapshot.go:97`), so that a child comes back without its parent.

Met while modelling, with no run of their own:

- `StopPipeline` leaves subscription and goroutine (`manager.go:884`), so that a stopped
  chain goes on and an updated one runs twice, while
  `PROJECT_CONTEXT.md:61` gives the manager the complete life cycle. `ProcessorChains` has it so; `TakenOnce` leaves out chains that are stopped.
  A hot reload does this to every chain at once: `StopAll` empties the map, `Start`
  fills it again. A chain that passes its message on as it is then redirects the object
  its own twin still holds; the chain that `Restart` feeds copies, or
  `QueuedKeepsTopic` would fail.
- `StopConn` deletes a route or topic from the parent that the row names at the time
  (`manager.go:628`), but `Update` has written the row before: a connection moved to
  another parent stays registered with the old one, which serves it although
  `IsConnRunning` (`manager.go:136`) denies that it runs. `RoutesAreOfRunning` says that
  this is the only way to leave a route behind, and that it is gone when the connection has come back. Nor does it
  hold of a connection without a row, whose stop finds no parent, nor while requests about one overlap.
- The subscription of an output topic is never cancelled (`manager.go:470`, `:550`, `:600`): its
  channel fills up after a stop, and every restart adds another.
- A script that returns the topic of its input as a key does not decide the topic: the
  chain takes it for undirected and overrides it (`manager.go:869` against
  `decode_script.go:53`). No table of the `chains` run has such a script.
- `include_header` decides whether the header is kept, not whether the length counts
  it (`manager.go:1208` against `PROJECT_CONTEXT.md:130`). The `data` run
  uses devices whose length counts the body.
- All clients of a TCP listener share one framing buffer, because their messages carry
  neither of the keys `framingBufferKey` looks for (`manager.go:1277` against
  `PROJECT_CONTEXT.md:132`). The properties of framing are about one client; with two
  clients in the instance `EveryFrameWasSent` fails.
- A failing processor drops the message (`decode_interface.go:40`), where
  `decode_script.go:51` expects the caller to go on with the original.
- `modbus_tcp` is among the types the API offers (`decode_interface.go:74`), but
  `createPipeline` knows no such processor and leaves it out of the chain with a warning.
- A reload that succeeds leaves the plugin in the list of failed ones
  (`registry.go`), and a reload starts task plugins without their saved parameters
  (`plugin.go:120`, `:146`, `:168`), also those that were not running before.
- Two requests at a time on one dispatcher can leave it running although its row
  disables it; `RunningMatchesRow` leaves out ids on which requests have overlapped.
- A TCP connection that is accepted while its listener closes is registered after
  `closeAllConns` (`listen_tcp.go:126`) and stays open until its client hangs up.
  `ClosedLeavesOneOpen` says that it is the only one.
- `Write` of a TCP listener holds `connMu` while it writes to client after client without a
  deadline (`listen_tcp.go:101`). A client that does not read holds up `Close`, which `StopConn`
  calls with the manager's mutex held, and so every request to the manager. In the same
  way `Close` of a script or plugin is user code under that mutex
  (`listen_script.go:188`, `listen_plugin.go:105`).
- The goroutine of a plugin listener that was stopped may still be in `Read` when the connection is started
  again, and then takes one message of the new session and drops it (`listen_plugin.go:64`).
- A restore leaves the manager running what it ran, under keys that no row has any more;
  no request about a row reaches it until the program starts again, and `Restart` of the model ends it.
- The migration drops the old column also when copying it has failed (`common.go:222`); its test
  `= 0` compares texts with a number, which MySQL refuses in strict mode (the copy fails) and otherwise takes for equal
  when the text does not begin with one, so that a value written under the new name can be overwritten; and when `RENAME TABLE` has failed, `Sync2` makes an empty
  table under the new name, after which no start renames the old one. `NoValueLost` leaves out a column
  that was not copied, and says of a table with two names that the old one keeps its rows; `OneStartIsEnough`
  allows for such a table and nothing else.
- In a request with both forms of the settings the text wins over the flat fields
  (`convert.go:172`), also over those that were edited; the row of a plugin without name and
  parameters gives a form that is refused as it stands; and flat fields of a wrong type are ignored for
  a parent where they are an error for a connection.
- The `enable` column of the parameters of a task plugin is written and never looked at
  (`task_plugin_config.go`).

## 7. What is not modelled, and the plan

Not modelled:

- The payloads that processors convert, and the interpretation of scripts and plugins: what they
  answer is left open, so that every answer is an outcome.
- The metrics collector (`internal/metrics`): nothing calls the functions that count.
- `NewHTTP` and `NewMQTT` of `internal/listen`: nothing calls them; the manager serves both itself.
- Authentication and audit: stateless checks by libraries, and no route but their own asks for a
  token. Flow layout, listings, script tester and terminal bridge: input and output without protocol state.
- The front end, and the generated symbol tables of the interpreter.
- Of the manager: the errors of parents, the HTTP server that is shut down in the background and binds
  its port again, the matching of routes; when a port is given back is up to `net/http`, and
  `SkipParent` stands for the start that fails.
- The subscriptions of an MQTT client: two connections on one topic share one, of which the later has the
  callback and either stop makes an end (`manager.go:634`). What a second `Subscribe` does is in the library.
- `ensureAutoIncrementPK` (`common.go:244`), which alters the key of a column and no names or values.
- Two calls in one script interpreter at a time, and the map of framing buffers read without a lock:
  data races, whose outcome Go does not define.

Left for later, most important first:

1. The composition of `Connections` with `StreamFraming`: a chunk that a stopped session
   still holds is framed with the buffer of its successor.
2. The parent errors and the rebinding of the HTTP server in `Connections`.
