--------------------------- MODULE PluginRequests ---------------------------
(***************************************************************************)
(* The requests about plugins (app/api/plugin.go and hotreload.go), which  *)
(* call the registry and the manager of TaskPlugins step by step: nothing  *)
(* keeps two requests from interleaving between the calls.                 *)
(***************************************************************************)
EXTENDS TaskPlugins, Sequences

CONSTANTS
  Requests,    \* goroutines that serve a request at a time
  Boot,        \* main, before it serves requests
  MaxRequests  \* bound: requests made

ASSUME RequestsAssumption == Boot \notin Requests /\ MaxRequests \in Nat

VARIABLES
  todo,   \* calls that a goroutine has still to make
  made,   \* number of requests so far
  mixed   \* history: plugins about which two requests have overlapped

requestVars == <<todo, made, mixed>>
allVars == <<vars, requestVars>>

\* A call for each of the names, in any order.
Call == [call : {"running", "stop", "stop_all", "clear", "load", "reload", "loaded", "start"},
         names : SUBSET Names]

RequestsTypeOK ==
  /\ TypeOK
  /\ todo \in [Requests \cup {Boot} -> Seq(Call)]
  /\ made \in 0 .. MaxRequests
  /\ mixed \subseteq Names

C(name, names) == [call |-> name, names |-> names]

\* LoadAll has run; Start lists the plugins and starts them.
RequestsInit ==
  /\ Init
  /\ todo = [q \in Requests \cup {Boot} |-> IF q = Boot THEN <<C("loaded", Names)>> ELSE <<>>]
  /\ made = 0
  /\ mixed = {}

\* The plugins that calls are about.
Concerned(calls) == UNION {calls[k].names : k \in DOMAIN calls}

Begin(q, calls) ==
  /\ todo[q] = <<>>
  /\ todo[Boot] = <<>>
  /\ made < MaxRequests
  /\ made' = made + 1
  /\ todo' = [todo EXCEPT ![q] = calls]
  /\ mixed' = mixed \cup (Concerned(calls) \cap UNION {Concerned(todo[p]) : p \in Requests})
  /\ UNCHANGED vars

StartTask(q, n) == Begin(q, <<C("start", {n})>>)

StopTask(q, n) == Begin(q, <<C("stop", {n})>>)

\* Mutant: the plugin is not stopped before it is loaded again.
ReloadOne_NoStop(q, n) == Begin(q, <<C("reload", {n}), C("start", {n})>>)

ReloadOne(q, n) == Begin(q, <<C("stop", {n}), C("reload", {n}), C("start", {n})>>)

\* Of the tasks; the other types have neither runs nor starts.
ReloadType(q) == Begin(q, <<C("running", Names), C("load", Names), C("loaded", Names)>>)

ReloadAll(q) ==
  Begin(q, <<C("running", Names), C("clear", Names), C("load", Names), C("loaded", Names)>>)

\* The hot reload of hotreload.go.
HotReload(q) == Begin(q, <<C("stop_all", Names), C("loaded", Names)>>)

\* `call` is next in q, and is made for n.
Calls(q, call, n) ==
  /\ todo[q] # <<>>
  /\ Head(todo[q]).call = call
  /\ n \in Head(todo[q]).names

\* The call for n has returned.
Returned(q, n) ==
  /\ todo' = [todo EXCEPT ![q] = IF Head(@).names = {n} THEN Tail(@)
                                 ELSE <<C(Head(@).call, Head(@).names \ {n})>> \o Tail(@)]
  /\ UNCHANGED <<made, mixed>>

\* A call about all has returned: calls of `call` for each of the names take its place.
Becomes(q, call, names) ==
  /\ todo' = [todo EXCEPT ![q] =
                 (IF names = {} THEN <<>> ELSE <<C(call, names)>>) \o Tail(@)]
  /\ UNCHANGED <<made, mixed>>

IsNext(q, call) == todo[q] # <<>> /\ Head(todo[q]).call = call

RunningTaskPlugins(q) ==
  /\ IsNext(q, "running")
  /\ Becomes(q, "stop", {n \in Names : taskCancels[n] # None})
  /\ UNCHANGED vars

\* plugin.Default.List, for a reload or in startTaskPlugins.
List(q) ==
  /\ IsNext(q, "loaded")
  /\ Becomes(q, "start", {n \in Names : registry[n] # None})
  /\ UNCHANGED vars

ClearFailed(q) ==
  /\ IsNext(q, "clear")
  /\ Becomes(q, "clear", {})
  /\ clearFailed

StopEverything(q) ==
  /\ IsNext(q, "stop_all")
  /\ Becomes(q, "stop_all", {})
  /\ StopAll

Stop(q, n) ==
  /\ Calls(q, "stop", n)
  /\ Returned(q, n)
  /\ StopTaskPlugin(n)

\* loadType goes on with the next plugin whatever becomes of this one, which may
\* have gone from the disk.
Load(q, n) ==
  /\ Calls(q, "load", n)
  /\ Returned(q, n)
  /\ (\E src \in Sources : loadOne(n, src)) \/ markFailed(n) \/ UNCHANGED vars

Reload(q, n) ==
  /\ Calls(q, "reload", n)
  /\ Returned(q, n)
  /\ \E src \in Sources : loadOne(n, src)

\* The request fails: the plugin is not started again.
ReloadFails(q, n) ==
  /\ Calls(q, "reload", n)
  /\ todo' = [todo EXCEPT ![q] = <<>>]
  /\ markFailed(n) \/ UNCHANGED vars
  /\ UNCHANGED <<made, mixed>>

\* Any goroutine that has not been used is as good as another.
Fresh == CHOOSE r \in Runs : place[r] = "unused"

Start(q, n) ==
  /\ Calls(q, "start", n)
  /\ Returned(q, n)
  /\ \E r \in Runs : place[r] = "unused"
  /\ StartTaskPlugin(n, Fresh)

\* It runs already, or is not loaded.
StartFails(q, n) ==
  /\ Calls(q, "start", n)
  /\ Returned(q, n)
  /\ taskCancels[n] # None \/ registry[n] = None
  /\ UNCHANGED vars

RequestStep(q) ==
  \/ RunningTaskPlugins(q) \/ List(q) \/ ClearFailed(q) \/ StopEverything(q)
  \/ \E n \in Names : \/ Stop(q, n) \/ Load(q, n) \/ Reload(q, n) \/ ReloadFails(q, n)
                      \/ Start(q, n) \/ StartFails(q, n)

RunStep(r) == (RunTask(r) \/ Exit(r)) /\ UNCHANGED requestVars

RequestsNext ==
  \/ \E q \in Requests : ReloadType(q) \/ ReloadAll(q) \/ HotReload(q)
  \/ \E q \in Requests, n \in Names : StartTask(q, n) \/ StopTask(q, n) \/ ReloadOne(q, n)
  \/ \E q \in Requests \cup {Boot} : RequestStep(q)
  \/ \E r \in Runs : RunStep(r)

RequestsSpec == RequestsInit /\ [][RequestsNext]_allVars

\* As in TaskPlugins: the goroutine of a run gets the lock, and a cancelled plugin
\* returns.  Nothing is assumed of the requests.
FairRequestsSpec ==
  /\ RequestsSpec
  /\ \A r \in Runs : /\ WF_allVars(Exit(r) /\ UNCHANGED requestVars)
                      /\ WF_allVars(r \in cancelled /\ RunTask(r) /\ UNCHANGED requestVars)
-----------------------------------------------------------------------------
\* Reloads replace a plugin between a stop and a start (plugin.go 106-175): a task
\* that is reported as running runs what the registry holds, the old plugin never
\* goes on under the name of the new one, unless requests about it have overlapped.
RunsWhatIsRegistered ==
  \A n \in Names \ mixed :
    taskCancels[n] # None => source[taskCancels[n]] = registry[n]
=============================================================================
