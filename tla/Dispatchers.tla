---------------------------- MODULE Dispatchers ----------------------------
(***************************************************************************)
(* The dispatchers: app/api/dispatcher.go and hotreload.go write the       *)
(* dispatcher_config table and then call the manager, which starts and     *)
(* stops dispatchers under m.mu.  No lock covers a whole request, so the   *)
(* manager calls of several requests interleave; a request is held here as *)
(* the sequence of calls it has still to make.  Each dispatcher has a      *)
(* goroutine of its own that pushes what its subscription delivers.        *)
(***************************************************************************)
EXTENDS Integers, Sequences, FiniteSets

CONSTANTS
  Ids,         \* primary keys of dispatcher_config
  Configs,     \* contents of a row, the enable column apart
  Topicless,   \* those with an empty topic list
  Requests,    \* HTTP handlers that run at the same time
  Instances,   \* dispatchers createDispatcher can build; one call makes a fresh one
  Buffer,      \* buffer of a subscription
  None

ASSUME NoneAssumption == None \notin Instances \cup Configs \cup Ids
ASSUME TopiclessAssumption == Topicless \subseteq Configs
ASSUME BufferAssumption == Buffer \in Nat \ {0}

VARIABLES
  row,          \* id -> [enable, config], or None
  issued,       \* keys handed out so far; the column is autoincremented
  todo,         \* request -> its calls left, each [call, id, config]
  overlapped,   \* history: ids of which two requests were in progress at once
  dispatchers,  \* m.dispatchers: id -> instance or None
  dispatcherSubs,  \* m.dispatcherSubs: id -> the instance whose subscription it is
  config,       \* instance -> the configuration it was built from
  shut,         \* instances that have been closed
  open,         \* instances whose subscription is registered with the queue
  depth,        \* messages in the channel of an instance's subscription
  place         \* goroutine of an instance: "none", "reading", "pushing", "gone"

managerVars == <<dispatchers, dispatcherSubs, config, shut, open, depth, place>>
vars == <<row, issued, todo, overlapped, managerVars>>

Row == [enable : BOOLEAN, config : Configs]
Call == [call : {"write_enable", "stop", "start", "stop_all", "list"},
         id : Ids \cup {None}, config : Configs \cup {None}]

TypeOK ==
  /\ row \in [Ids -> Row \cup {None}]
  /\ issued \subseteq Ids
  /\ todo \in [Requests -> Seq(Call)]
  /\ overlapped \subseteq Ids
  /\ dispatchers \in [Ids -> Instances \cup {None}]
  /\ dispatcherSubs \in [Ids -> Instances \cup {None}]
  /\ config \in [Instances -> Configs \cup {None}]
  /\ shut \subseteq Instances
  /\ open \subseteq Instances
  /\ depth \in [Instances -> 0 .. Buffer]
  /\ place \in [Instances -> {"none", "reading", "pushing", "gone"}]

Init ==
  /\ row = [id \in Ids |-> None]
  /\ issued = {}
  /\ todo = [r \in Requests |-> <<>>]
  /\ overlapped = {}
  /\ dispatchers = [id \in Ids |-> None]
  /\ dispatcherSubs = [id \in Ids |-> None]
  /\ config = [i \in Instances |-> None]
  /\ shut = {}
  /\ open = {}
  /\ depth = [i \in Instances |-> 0]
  /\ place = [i \in Instances |-> "none"]

C(name, id, cfg) == [call |-> name, id |-> id, config |-> cfg]

\* The dispatchers that calls are about.
Concerned(calls) == {id \in Ids : \E k \in DOMAIN calls : calls[k].id \in {id, None}}

Begin(r, calls) ==
  /\ todo[r] = <<>>
  /\ overlapped' = overlapped \cup
       (Concerned(calls) \cap UNION {Concerned(todo[q]) : q \in Requests})
  /\ todo' = [todo EXCEPT ![r] = calls]

IfEnabled(enable, call) == IF enable THEN <<call>> ELSE <<>>

Create(r, id, enable, cfg) ==
  /\ id \notin issued
  /\ issued' = issued \cup {id}
  /\ Begin(r, IfEnabled(enable, C("start", id, cfg)))
  /\ row' = [row EXCEPT ![id] = [enable |-> enable, config |-> cfg]]
  /\ UNCHANGED managerVars

\* Mutant: the running dispatcher is not stopped, so it keeps its configuration.
Update_NoStop(r, id, enable, cfg) ==
  /\ id \in issued
  /\ Begin(r, IfEnabled(enable, C("start", id, cfg)))
  /\ row' = [row EXCEPT ![id] = IF @ = None THEN None ELSE [enable |-> enable, config |-> cfg]]
  /\ UNCHANGED <<issued, managerVars>>

\* The UPDATE touches no row when there is none; the manager is called all the same.
Update(r, id, enable, cfg) ==
  /\ id \in issued
  /\ Begin(r, <<C("stop", id, None)>> \o IfEnabled(enable, C("start", id, cfg)))
  /\ row' = [row EXCEPT ![id] = IF @ = None THEN None ELSE [enable |-> enable, config |-> cfg]]
  /\ UNCHANGED <<issued, managerVars>>

\* The row is read first; its enable column is written and the dispatcher is
\* started from what was read.
Enable(r, id) ==
  /\ row[id] # None
  /\ Begin(r, <<C("write_enable", id, None), C("start", id, row[id].config)>>)
  /\ UNCHANGED <<row, issued, managerVars>>

Disable(r, id) ==
  /\ id \in issued
  /\ Begin(r, <<C("stop", id, None)>>)
  /\ row' = [row EXCEPT ![id] = IF @ = None THEN None ELSE [@ EXCEPT !.enable = FALSE]]
  /\ UNCHANGED <<issued, managerVars>>

Delete(r, id) ==
  /\ id \in issued
  /\ Begin(r, <<C("stop", id, None)>>)
  /\ row' = [row EXCEPT ![id] = None]
  /\ UNCHANGED <<issued, managerVars>>

ReloadDispatcher(r, id) ==
  /\ row[id] # None
  /\ Begin(r, <<C("stop", id, None)>>
                \o IfEnabled(row[id].enable, C("start", id, row[id].config)))
  /\ UNCHANGED <<row, issued, managerVars>>

ReloadAll(r) ==
  /\ Begin(r, <<C("stop_all", None, None), C("list", None, None)>>)
  /\ UNCHANGED <<row, issued, managerVars>>

\* `call` is next in request r and is made; `more` calls are put in its place.
Makes(r, call, more) ==
  /\ todo[r] # <<>>
  /\ Head(todo[r]) = call
  /\ todo' = [todo EXCEPT ![r] = more \o Tail(@)]

WriteEnable(r, id) ==
  /\ Makes(r, C("write_enable", id, None), <<>>)
  /\ row' = [row EXCEPT ![id] = IF @ = None THEN None ELSE [@ EXCEPT !.enable = TRUE]]
  /\ UNCHANGED <<issued, overlapped, managerVars>>

\* startDispatchers: the enabled rows are read at once and started one by one, in
\* the order of their keys or any other.
startDispatchers(r) ==
  LET enabled == {id \in Ids : row[id] # None /\ row[id].enable}
  IN  \E order \in [1 .. Cardinality(enabled) -> enabled] :
        /\ \A id \in enabled : \E k \in DOMAIN order : order[k] = id
        /\ Makes(r, C("list", None, None), [k \in DOMAIN order |->
            C("start", order[k], row[order[k]].config)])
        /\ UNCHANGED <<row, issued, overlapped, managerVars>>

Fresh == {i \in Instances : config[i] = None}

\* StartDispatcher: nothing when it runs already, or when it cannot be created
\* (the caller drops the error).
SkipStart(r, id, cfg) ==
  /\ Makes(r, C("start", id, cfg), <<>>)
  /\ UNCHANGED <<row, issued, overlapped, managerVars>>

StartDispatcher(r, id, cfg, i) ==
  /\ Makes(r, C("start", id, cfg), <<>>)
  /\ dispatchers[id] = None
  /\ i \in Fresh
  /\ dispatchers' = [dispatchers EXCEPT ![id] = i]
  /\ config' = [config EXCEPT ![i] = cfg]
  /\ IF cfg \in Topicless
     THEN UNCHANGED <<dispatcherSubs, open, place>>
     ELSE /\ dispatcherSubs' = [dispatcherSubs EXCEPT ![id] = i]
          /\ open' = open \cup {i}
          /\ place' = [place EXCEPT ![i] = "reading"]
  /\ UNCHANGED <<row, issued, overlapped, shut, depth>>

\* Mutant: the subscription outlives its dispatcher.
Stopped_KeepSubs(S) ==
  /\ shut' = shut \cup {dispatchers[id] : id \in {k \in S : dispatchers[k] # None}}
  /\ dispatchers' = [id \in Ids |-> IF id \in S THEN None ELSE dispatchers[id]]
  /\ UNCHANGED <<dispatcherSubs, open, row, issued, overlapped, config, depth, place>>

\* The dispatchers of S are closed and removed, then their subscriptions.
Stopped(S) ==
  /\ shut' = shut \cup {dispatchers[id] : id \in {k \in S : dispatchers[k] # None}}
  /\ dispatchers' = [id \in Ids |-> IF id \in S THEN None ELSE dispatchers[id]]
  /\ open' = open \ {dispatcherSubs[id] : id \in S}
  /\ dispatcherSubs' = [id \in Ids |-> IF id \in S THEN None ELSE dispatcherSubs[id]]
  /\ UNCHANGED <<row, issued, overlapped, config, depth, place>>

StopDispatcher(r, id) == Makes(r, C("stop", id, None), <<>>) /\ Stopped({id})

\* The part of Manager.StopAll that concerns the dispatchers.
StopAll(r) == Makes(r, C("stop_all", None, None), <<>>) /\ Stopped(Ids)

HasRoom(i) == depth[i] < Buffer

\* A message on a topic of the dispatcher; a full channel drops it.
Publish(i) ==
  /\ i \in open
  /\ HasRoom(i)
  /\ depth' = [depth EXCEPT ![i] = @ + 1]
  /\ UNCHANGED <<row, issued, todo, overlapped, dispatchers, dispatcherSubs, config, shut, open, place>>

\* `range ch`: the channel yields what it holds, also once it is closed.
Receive(i) ==
  /\ place[i] = "reading"
  /\ depth[i] > 0
  /\ depth' = [depth EXCEPT ![i] = @ - 1]
  /\ place' = [place EXCEPT ![i] = "pushing"]
  /\ UNCHANGED <<row, issued, todo, overlapped, dispatchers, dispatcherSubs, config, shut, open>>

\* Push returns; its error is only logged.
Pushed(i) ==
  /\ place[i] = "pushing"
  /\ place' = [place EXCEPT ![i] = "reading"]
  /\ UNCHANGED <<row, issued, todo, overlapped, dispatchers, dispatcherSubs, config, shut, open, depth>>

\* The channel is closed and drained.
Leave(i) ==
  /\ place[i] = "reading"
  /\ i \notin open
  /\ depth[i] = 0
  /\ place' = [place EXCEPT ![i] = "gone"]
  /\ UNCHANGED <<row, issued, todo, overlapped, dispatchers, dispatcherSubs, config, shut, open, depth>>

RequestStep(r) ==
  \/ \E id \in Ids : WriteEnable(r, id) \/ StopDispatcher(r, id)
  \/ \E id \in Ids, cfg \in Configs :
       SkipStart(r, id, cfg) \/ \E i \in Instances : StartDispatcher(r, id, cfg, i)
  \/ startDispatchers(r) \/ StopAll(r)

PusherStep(i) == Receive(i) \/ Pushed(i) \/ Leave(i)

Next ==
  \/ \E r \in Requests, id \in Ids :
       \/ \E enable \in BOOLEAN, cfg \in Configs :
            Create(r, id, enable, cfg) \/ Update(r, id, enable, cfg)
       \/ Enable(r, id) \/ Disable(r, id) \/ Delete(r, id) \/ ReloadDispatcher(r, id)
  \/ \E r \in Requests : ReloadAll(r) \/ RequestStep(r)
  \/ \E i \in Instances : Publish(i) \/ PusherStep(i)

Spec == Init /\ [][Next]_vars

\* The goroutine of a dispatcher runs on, and Push returns.
PusherFairness == \A i \in Instances : WF_vars(PusherStep(i))
-----------------------------------------------------------------------------
\* Every subscription the queue holds for a dispatcher is that of the dispatcher
\* the manager runs under its id, and is not closed: nothing leaks, nothing is
\* doubled, however requests interleave.
SubscriptionsAreThoseOfRunning ==
  /\ open = {dispatcherSubs[id] : id \in Ids} \ {None}
  /\ \A id \in Ids : dispatcherSubs[id] # None =>
       dispatcherSubs[id] = dispatchers[id] /\ dispatcherSubs[id] \notin shut

\* A running dispatcher with topics is subscribed: none runs deaf.
RunningIsSubscribed ==
  \A id \in Ids : dispatchers[id] # None /\ config[dispatchers[id]] \notin Topicless
                    => dispatchers[id] \in open

\* The manager and the queue agree about who is subscribed (manager.go:717).
SubscribedAsRunning == SubscriptionsAreThoseOfRunning /\ RunningIsSubscribed

\* A dispatcher that runs and has a row is enabled there, and runs with the row's
\* present configuration, once its requests are done and if no two of them were in
\* progress at once.  (Two at a time can leave a disabled dispatcher running, and an
\* update of a row that is gone starts a dispatcher without a row.)
RunningMatchesRow ==
  \A id \in Ids \ overlapped :
    /\ \A r \in Requests : id \notin Concerned(todo[r])
    /\ dispatchers[id] # None /\ row[id] # None
    => row[id] = [enable |-> TRUE, config |-> config[dispatchers[id]]]

\* The goroutine of a dispatcher that has been closed comes to its end.
ClosedPusherEnds ==
  \A i \in Instances : (i \in shut /\ place[i] # "none") ~> place[i] = "gone"
=============================================================================
