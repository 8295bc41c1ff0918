------------------------- MODULE TaskPluginsProofs -------------------------
(***************************************************************************)
(* What the manager knows of the task plugins' goroutines, for any number  *)
(* of plugins, of starts and of requests.                                  *)
(***************************************************************************)
EXTENDS PluginRequests, TLAPS

\* Why LostOnlyByLateCleanUp is inductive: nothing is started while the map holds a
\* run, so whichever other goroutine cleans up was there before that run.
OthersWereThere ==
  \A n \in Names : taskCancels[n] # None => RunsOf(n) \ {taskCancels[n]} \subseteq late[taskCancels[n]]

\* A goroutine that was never started was never cancelled.
CancelledWasStarted == \A r \in cancelled : place[r] # "unused"

StartedHasPlugin == \A r \in Runs : place[r] # "unused" => plugin[r] \in Names

TaskInv ==
  /\ TypeOK
  /\ StartedHasPlugin
  /\ CancelledWasStarted
  /\ StoredRunIsWanted
  /\ OthersWereThere
  /\ LostOnlyByLateCleanUp

LEMMA InitTask == Init => TaskInv
BY NoneAssumption
   DEF Init, TaskInv, TypeOK, StartedHasPlugin, CancelledWasStarted, StoredRunIsWanted,
       OthersWereThere, LostOnlyByLateCleanUp, Wanted, RunsOf, Live

LEMMA StartKeepsInv ==
  ASSUME TaskInv, NEW n \in Names, NEW r \in Runs, StartTaskPlugin(n, r)
  PROVE  TaskInv'
<1> USE DEF TaskInv
<1>1. TypeOK' /\ StartedHasPlugin' /\ CancelledWasStarted'
  <2>1. late' \in [Runs -> SUBSET Runs]
    BY DEF StartTaskPlugin, TypeOK, RunsOf, Live
  <2>2. TypeOK'
    BY <2>1 DEF StartTaskPlugin, TypeOK, registryVars
  <2> QED
    BY <2>2 DEF StartTaskPlugin, TypeOK, StartedHasPlugin, CancelledWasStarted
<1>2. /\ RunsOf(n)' = RunsOf(n) \cup {r}
      /\ \A m \in Names \ {n} : RunsOf(m)' = RunsOf(m)
      /\ r \notin RunsOf(n)
  BY NoneAssumption DEF StartTaskPlugin, TypeOK, RunsOf, Live
<1>3. StoredRunIsWanted'
  BY <1>2 DEF StartTaskPlugin, TypeOK, CancelledWasStarted, StoredRunIsWanted, Wanted
<1>4. OthersWereThere'
  <2> SUFFICES ASSUME NEW m \in Names, taskCancels'[m] # None
               PROVE  RunsOf(m)' \ {taskCancels'[m]} \subseteq late'[taskCancels'[m]]
    BY DEF OthersWereThere
  <2>1. CASE m = n
    <3>1. taskCancels'[n] = r /\ late'[r] = RunsOf(n)
      BY DEF StartTaskPlugin, TypeOK
    <3> QED
      BY <1>2, <2>1, <3>1
  <2>2. CASE m # n
    <3>1. taskCancels'[m] = taskCancels[m] /\ taskCancels[m] # r
      BY <2>2 DEF StartTaskPlugin, TypeOK, StoredRunIsWanted, Wanted, RunsOf, Live
    <3>2. late'[taskCancels[m]] = late[taskCancels[m]]
      BY <3>1 DEF StartTaskPlugin, TypeOK
    <3> QED
      BY <1>2, <2>2, <3>1, <3>2 DEF OthersWereThere
  <2> QED
    BY <2>1, <2>2
<1>5. LostOnlyByLateCleanUp'
  <2> SUFFICES ASSUME NEW m \in Names, NEW s \in Wanted(m)'
               PROVE  taskCancels'[m] = s \/ Overtaken(s)'
    BY DEF LostOnlyByLateCleanUp
  <2>1. CASE s = r
    <3>1. m = n
      BY <1>2, <2>1 DEF Wanted, RunsOf, Live, StartTaskPlugin
    <3> QED
      BY <2>1, <3>1 DEF StartTaskPlugin, TypeOK
  <2>2. CASE s # r
    <3>1. s \in Wanted(m) /\ s \in Runs
      BY <1>2, <2>2 DEF Wanted, StartTaskPlugin, RunsOf, Live
    <3>2. CASE Overtaken(s)
      <4>1. PICK e \in late[s] : place[e] = "gone"
        BY <3>2 DEF Overtaken
      <4>2. e \in Runs /\ e # r
        BY <3>1, <4>1 DEF StartTaskPlugin, TypeOK
      <4>3. late'[s] = late[s] /\ place'[e] = place[e]
        BY <2>2, <3>1, <4>2 DEF StartTaskPlugin, TypeOK
      <4> QED
        BY <4>1, <4>3 DEF Overtaken
    <3>3. CASE taskCancels[m] = s
      BY <2>2, <3>1, <3>3, NoneAssumption DEF StartTaskPlugin, TypeOK
    <3> QED
      BY <3>1, <3>2, <3>3 DEF LostOnlyByLateCleanUp
  <2> QED
    BY <2>1, <2>2
<1> QED
  BY <1>1, <1>3, <1>4, <1>5

\* Cancelling runs and forgetting their entries, one plugin's or all of them.
LEMMA StopKeepsInv ==
  ASSUME TaskInv, (\E n \in Names : StopTaskPlugin(n)) \/ StopAll
  PROVE  TaskInv'
<1> USE DEF TaskInv
<1>1. UNCHANGED <<registryVars, plugin, source, place, late>>
  BY DEF StopTaskPlugin, StopAll
<1>2. \A m \in Names : RunsOf(m)' = RunsOf(m)
  BY <1>1 DEF RunsOf, Live
<1>3. ASSUME NEW n \in Names, StopTaskPlugin(n)
      PROVE  TypeOK' /\ CancelledWasStarted' /\ StoredRunIsWanted' /\ LostOnlyByLateCleanUp'
  <2>1. TypeOK'
    BY <1>3 DEF StopTaskPlugin, TypeOK, registryVars
  <2>2. CancelledWasStarted'
    BY <1>3 DEF StopTaskPlugin, TypeOK, CancelledWasStarted, StoredRunIsWanted, Wanted, RunsOf, Live
  <2>3. StoredRunIsWanted'
    BY <1>2, <1>3 DEF StopTaskPlugin, TypeOK, StoredRunIsWanted, Wanted, RunsOf
  <2>4. LostOnlyByLateCleanUp'
    <3>1. \A m \in Names : \A s \in Wanted(m)' : s \in Wanted(m) /\ (taskCancels[m] = s => m # n)
      BY <1>2, <1>3, NoneAssumption DEF StopTaskPlugin, Wanted, RunsOf, Live
    <3>2. \A m \in Names \ {n} : taskCancels'[m] = taskCancels[m]
      BY <1>3 DEF StopTaskPlugin, TypeOK
    <3>3. \A s : Overtaken(s) => Overtaken(s)'
      BY <1>1 DEF Overtaken
    <3> QED
      BY <3>1, <3>2, <3>3 DEF LostOnlyByLateCleanUp
  <2> QED
    BY <2>1, <2>2, <2>3, <2>4
<1>4. ASSUME StopAll
      PROVE  TypeOK' /\ CancelledWasStarted' /\ StoredRunIsWanted' /\ LostOnlyByLateCleanUp'
  <2>1. TypeOK'
    BY <1>4 DEF StopAll, TypeOK, registryVars
  <2>2. CancelledWasStarted'
    BY <1>4 DEF StopAll, TypeOK, CancelledWasStarted, StoredRunIsWanted, Wanted, RunsOf, Live
  <2>3. StoredRunIsWanted'
    BY <1>4 DEF StopAll, StoredRunIsWanted
  <2>4. LostOnlyByLateCleanUp'
    <3>1. \A m \in Names : \A s \in Wanted(m)' : s \in Wanted(m) /\ taskCancels[m] # s
      BY <1>2, <1>4, NoneAssumption DEF StopAll, Wanted, RunsOf, Live
    <3>2. \A s : Overtaken(s) => Overtaken(s)'
      BY <1>1 DEF Overtaken
    <3> QED
      BY <3>1, <3>2 DEF LostOnlyByLateCleanUp
  <2> QED
    BY <2>1, <2>2, <2>3, <2>4
<1>5. StartedHasPlugin' /\ OthersWereThere'
  <2>1. \A m \in Names : taskCancels'[m] # None => taskCancels'[m] = taskCancels[m]
    BY DEF StopTaskPlugin, StopAll, TypeOK
  <2>2. OthersWereThere'
    BY <1>1, <1>2, <2>1 DEF OthersWereThere
  <2> QED
    BY <1>1, <2>2 DEF StartedHasPlugin
<1> QED
  BY <1>3, <1>4, <1>5

LEMMA ReturnKeepsInv ==
  ASSUME TaskInv, NEW r \in Runs, RunTask(r)
  PROVE  TaskInv'
<1>1. \A m \in Names : RunsOf(m)' = RunsOf(m)
  BY DEF TaskInv, TypeOK, RunTask, RunsOf, Live
<1>2. LostOnlyByLateCleanUp'
  <2>1. \A m \in Names : Wanted(m)' = Wanted(m)
    BY <1>1 DEF RunTask, Wanted
  <2>2. \A s \in Runs : Overtaken(s) => Overtaken(s)'
    BY DEF TaskInv, TypeOK, RunTask, Overtaken
  <2> QED
    BY <2>1, <2>2 DEF TaskInv, RunTask, LostOnlyByLateCleanUp, Wanted, RunsOf, Live
<1> QED
  BY <1>1, <1>2 DEF TaskInv, TypeOK, registryVars, RunTask, StartedHasPlugin, CancelledWasStarted,
     StoredRunIsWanted, OthersWereThere, Wanted

LEMMA ExitKeepsInv ==
  ASSUME TaskInv, NEW r \in Runs, Exit(r)
  PROVE  TaskInv'
<1> USE DEF TaskInv
<1>1. plugin[r] \in Names
  BY DEF Exit, StartedHasPlugin
<1>2. TypeOK' /\ StartedHasPlugin' /\ CancelledWasStarted'
  <2>1. UNCHANGED <<registryVars, plugin, source, cancelled, late>>
    BY DEF Exit
  <2>2. taskErrors' \subseteq Names
    BY <1>1 DEF Exit, TypeOK
  <2>3. /\ taskCancels' \in [Names -> Runs \cup {None}]
        /\ place' \in [Runs -> {"unused", "running", "ok", "failed", "gone"}]
    BY DEF Exit, TypeOK
  <2>4. TypeOK'
    BY <2>1, <2>2, <2>3 DEF TypeOK, registryVars
  <2> QED
    BY <2>4 DEF Exit, TypeOK, StartedHasPlugin, CancelledWasStarted
<1>3. \A m \in Names : RunsOf(m)' = RunsOf(m) \ {r}
  BY DEF Exit, TypeOK, RunsOf, Live
<1>4. StoredRunIsWanted'
  BY <1>1, <1>3 DEF Exit, TypeOK, StoredRunIsWanted, Wanted, RunsOf
<1>5. OthersWereThere'
  BY <1>1, <1>3 DEF Exit, TypeOK, OthersWereThere
<1>6. LostOnlyByLateCleanUp'
  <2> SUFFICES ASSUME NEW m \in Names, NEW s \in Wanted(m)'
               PROVE  taskCancels'[m] = s \/ Overtaken(s)'
    BY DEF LostOnlyByLateCleanUp
  <2>1. s \in Wanted(m) /\ s # r /\ s \in Runs
    BY <1>3 DEF Exit, Wanted, RunsOf, Live
  <2>2. place'[r] = "gone" /\ late' = late /\ \A e \in Runs : place[e] = "gone" => place'[e] = "gone"
    BY DEF Exit, TypeOK
  <2>3. CASE Overtaken(s)
    BY <2>1, <2>2, <2>3 DEF Overtaken, TypeOK
  <2>4. CASE taskCancels[m] = s /\ m # plugin[r]
    BY <1>1, <2>4 DEF Exit, TypeOK
  <2>5. CASE taskCancels[m] = s /\ m = plugin[r]
    <3>1. r \in RunsOf(m)
      BY <2>5 DEF Exit, RunsOf, Live
    <3>2. r \in late[s]
      BY <2>1, <2>5, <3>1, NoneAssumption DEF OthersWereThere
    <3> QED
      BY <2>2, <3>2 DEF Overtaken
  <2> QED
    BY <2>1, <2>3, <2>4, <2>5 DEF LostOnlyByLateCleanUp
<1> QED
  BY <1>2, <1>4, <1>5, <1>6

LEMMA NextTask ==
  ASSUME TaskInv, [Next]_vars
  PROVE  TaskInv'
<1>1. ASSUME (\E n \in Names : markFailed(n) \/ \E src \in Sources : loadOne(n, src)) \/ clearFailed
      PROVE  TaskInv'
  BY <1>1 DEF markFailed, loadOne, clearFailed, managerVars, TaskInv, TypeOK, StartedHasPlugin,
     CancelledWasStarted, StoredRunIsWanted, OthersWereThere, LostOnlyByLateCleanUp,
     Overtaken, Wanted, RunsOf, Live
<1>2. CASE UNCHANGED vars
  BY <1>2 DEF vars, registryVars, managerVars, TaskInv, TypeOK, StartedHasPlugin,
     CancelledWasStarted, StoredRunIsWanted, OthersWereThere, LostOnlyByLateCleanUp,
     Overtaken, Wanted, RunsOf, Live
<1> QED
  BY <1>1, <1>2, StartKeepsInv, StopKeepsInv, ReturnKeepsInv, ExitKeepsInv DEF Next

\* The manager never stores the cancel function of a run that has ended or that
\* somebody has stopped.
THEOREM StoredRunsCorrect == Spec => []StoredRunIsWanted
<1>1. TaskInv => StoredRunIsWanted
  BY DEF TaskInv
<1> QED
  BY <1>1, InitTask, NextTask, PTL DEF Spec

\* A run that nobody has stopped is out of the manager's hold only when it was started
\* before an earlier run of its plugin had ended, and that one has cleaned up since.
THEOREM RunsLost == Spec => []LostOnlyByLateCleanUp
<1>1. TaskInv => LostOnlyByLateCleanUp
  BY DEF TaskInv
<1> QED
  BY <1>1, InitTask, NextTask, PTL DEF Spec

\* An entry of taskErrors outlives only runs that nobody can stop any more.
ErrorsInv == (\A n \in taskErrors : taskCancels[n] = None) /\ ErrorIsFromUnstoppedRun

LEMMA NextErrors ==
  ASSUME TaskInv, ErrorsInv, [Next]_vars
  PROVE  ErrorsInv'
<1> USE DEF TaskInv, ErrorsInv, ErrorIsFromUnstoppedRun
<1>1. ASSUME \/ UNCHANGED vars \/ clearFailed
             \/ \E n \in Names : markFailed(n) \/ \E src \in Sources : loadOne(n, src)
      PROVE  ErrorsInv'
  BY <1>1 DEF vars, markFailed, loadOne, clearFailed, managerVars
<1>2. ASSUME NEW n \in Names, NEW r \in Runs, StartTaskPlugin(n, r)
      PROVE  ErrorsInv'
  <2>1. \A m \in taskErrors' : m # n /\ m \in taskErrors /\ taskCancels'[m] = taskCancels[m]
    BY <1>2 DEF StartTaskPlugin, TypeOK
  <2>2. \A s \in Runs : place[s] = "gone" => place'[s] = "gone" /\ plugin'[s] = plugin[s]
    BY <1>2 DEF StartTaskPlugin, TypeOK
  <2>3. UNCHANGED cancelled
    BY <1>2 DEF StartTaskPlugin
  <2> QED
    BY <2>1, <2>2, <2>3
<1>3. ASSUME NEW n \in Names, StopTaskPlugin(n)
      PROVE  ErrorsInv'
  <2>1. \A s \in cancelled' : s \in cancelled \/ place[s] # "gone"
    BY <1>3 DEF StopTaskPlugin, StoredRunIsWanted, Wanted, RunsOf, Live
  <2>2. \A m \in taskErrors' : m \in taskErrors /\ taskCancels'[m] = None
    BY <1>3 DEF StopTaskPlugin, TypeOK
  <2> QED
    BY <1>3, <2>1, <2>2 DEF StopTaskPlugin
<1>4. ASSUME StopAll
      PROVE  ErrorsInv'
  BY <1>4 DEF StopAll
<1>5. ASSUME NEW r \in Runs, RunTask(r)
      PROVE  ErrorsInv'
  BY <1>5 DEF RunTask, TypeOK
<1>6. ASSUME NEW r \in Runs, Exit(r)
      PROVE  ErrorsInv'
  <2>1. /\ taskCancels' = [taskCancels EXCEPT ![plugin[r]] = None]
        /\ place' = [place EXCEPT ![r] = "gone"]
        /\ UNCHANGED <<plugin, cancelled>>
        /\ taskErrors' \subseteq taskErrors \cup {plugin[r]}
        /\ plugin[r] \in taskErrors' => plugin[r] \in taskErrors \/ r \notin cancelled
    BY <1>6 DEF Exit, Recorded
  <2>2. plugin[r] \in Names
    BY <1>6 DEF Exit, StartedHasPlugin
  <2>3. \A m \in taskErrors' : taskCancels'[m] = None
    BY <2>1, <2>2 DEF TypeOK
  <2>4. \A s \in Runs : place[s] = "gone" => place'[s] = "gone"
    BY <2>1 DEF TypeOK
  <2>5. place'[r] = "gone"
    BY <2>1 DEF TypeOK
  <2> QED
    BY <2>1, <2>3, <2>4, <2>5
<1> QED
  BY <1>1, <1>2, <1>3, <1>4, <1>5, <1>6 DEF Next

\* An error shown for a task is that of a run which nobody had stopped, and meanwhile
\* the manager holds no run of the task: what runs of it has been lost to a late clean-up.
THEOREM ErrorsCorrect == Spec => []ErrorsAreCurrent
<1>1. Init => ErrorsInv
  BY DEF Init, ErrorsInv, ErrorIsFromUnstoppedRun
<1>2. TaskInv /\ ErrorsInv => ErrorsAreCurrent
  <2>1. ASSUME TaskInv, ErrorsInv, NEW n \in taskErrors, NEW r \in Wanted(n) PROVE Overtaken(r)
    <3>1. n \in Names /\ r \in Runs /\ taskCancels[n] = None
      BY <2>1 DEF TaskInv, TypeOK, ErrorsInv, Wanted, RunsOf, Live
    <3> QED
      BY <2>1, <3>1, NoneAssumption DEF TaskInv, LostOnlyByLateCleanUp
  <2> QED
    BY <2>1 DEF ErrorsInv, ErrorsAreCurrent, FailedIsNotHeld
<1> QED
  BY <1>1, <1>2, InitTask, NextTask, NextErrors, PTL DEF Spec

LEMMA RequestIsTaskStep ==
  ASSUME [RequestsNext]_allVars
  PROVE  [Next]_vars
<1>1. ASSUME NEW q \in Requests,
             ReloadType(q) \/ ReloadAll(q) \/ HotReload(q)
               \/ \E n \in Names : StartTask(q, n) \/ StopTask(q, n) \/ ReloadOne(q, n)
      PROVE  UNCHANGED vars
  BY <1>1 DEF ReloadType, ReloadAll, HotReload, StartTask, StopTask, ReloadOne, Begin
<1>2. ASSUME NEW q, RunningTaskPlugins(q) \/ List(q) \/ ClearFailed(q) \/ StopEverything(q)
      PROVE  [Next]_vars
  BY <1>2 DEF RunningTaskPlugins, List, ClearFailed, StopEverything, Next
<1>3. ASSUME NEW q, NEW n \in Names,
             Stop(q, n) \/ Load(q, n) \/ Reload(q, n) \/ ReloadFails(q, n) \/ StartFails(q, n)
      PROVE  [Next]_vars
  BY <1>3 DEF Stop, Load, Reload, ReloadFails, StartFails, Next
<1>4. ASSUME NEW q, NEW n \in Names, Start(q, n)
      PROVE  Next
  <2>1. Fresh \in Runs
    BY <1>4 DEF Start, Fresh
  <2> QED
    BY <1>4, <2>1 DEF Start, Next
<1>5. ASSUME NEW r \in Runs, RunStep(r)
      PROVE  Next
  BY <1>5 DEF RunStep, Next
<1>6. CASE UNCHANGED allVars
  BY <1>6 DEF allVars
<1> QED
  BY <1>1, <1>2, <1>3, <1>4, <1>5, <1>6 DEF RequestsNext, RequestStep

\* Whatever requests do to the registry and the manager, and however they interleave,
\* is a behaviour of TaskPlugins: what is proved of it holds of the requests.
THEOREM RequestsAreTaskPlugins == RequestsSpec => Spec
<1>1. RequestsInit => Init
  BY DEF RequestsInit
<1> QED
  BY <1>1, RequestIsTaskStep, PTL DEF RequestsSpec, Spec

\* Under requests, too, the stored run is a live one that nobody has stopped.
THEOREM StoredRunsUnderRequests == RequestsSpec => []StoredRunIsWanted
BY RequestsAreTaskPlugins, StoredRunsCorrect, PTL
-----------------------------------------------------------------------------
\* Calls that load n, and calls that see to it that it does not run meanwhile.
Loads(call, n) == call.call \in {"load", "reload"} /\ n \in call.names
Stops(call, n) == call.call \in {"running", "stop"} /\ n \in call.names

\* Why RunsWhatIsRegistered is inductive: whatever a request has still to load does
\* not run, or the request has still to stop it,
StopsComeFirst ==
  \A q \in Requests : \A n \in Names \ mixed : \A k \in DOMAIN todo[q] :
    Loads(todo[q][k], n) =>
      taskCancels[n] = None \/ \E j \in 1 .. k - 1 : Stops(todo[q][j], n)

\* and it starts nothing before it has loaded everything;
StartsComeLast ==
  \A q \in Requests \cup {Boot} : \A j \in DOMAIN todo[q] :
    todo[q][j].call \in {"start", "loaded"} => j = Len(todo[q])

\* no other request is about a plugin that is not `mixed`;
OneRequestUnlessMixed ==
  \A p, q \in Requests : p # q => Concerned(todo[p]) \cap Concerned(todo[q]) \subseteq mixed

\* and the program makes its own calls, none of which loads, before all requests.
BootIsFirst ==
  /\ \A k \in DOMAIN todo[Boot] : todo[Boot][k].call \in {"start", "loaded"}
  /\ todo[Boot] # <<>> => \A q \in Requests : todo[q] = <<>>

\* Calls that look for their plugins have not narrowed them down yet.
WholeCalls ==
  \A q \in Requests \cup {Boot} : \A k \in DOMAIN todo[q] :
    todo[q][k].call \in {"running", "loaded"} => todo[q][k].names = Names

QueueTyped == todo \in [Requests \cup {Boot} -> Seq(Call)] /\ mixed \subseteq Names

QueueInv ==
  QueueTyped /\ WholeCalls /\ BootIsFirst /\ StartsComeLast /\ OneRequestUnlessMixed

RegistryInv == TaskInv /\ QueueInv /\ StopsComeFirst /\ RunsWhatIsRegistered

LEMMA InitRegistry == RequestsInit => RegistryInv
<1> SUFFICES ASSUME RequestsInit PROVE RegistryInv
  OBVIOUS
<1> DEFINE first == <<C("loaded", Names)>>
<1>1. /\ first \in Seq(Call) /\ Len(first) = 1 /\ DOMAIN first = {1}
      /\ first[1].call = "loaded" /\ first[1].names = Names
  BY DEF C, Call
<1>2. /\ todo[Boot] = first
      /\ \A q \in Requests : todo[q] = <<>>
  BY RequestsAssumption DEF RequestsInit
<1>3. todo \in [Requests \cup {Boot} -> Seq(Call)]
  BY <1>1 DEF RequestsInit
<1>4. QueueInv
  <2>1. QueueTyped
    BY <1>3 DEF QueueTyped, RequestsInit
  <2>2. \A q \in Requests \cup {Boot} : todo[q] = first \/ DOMAIN todo[q] = {}
    BY <1>2
  <2>3. BootIsFirst
    BY <1>1, <1>2 DEF BootIsFirst
  <2>4. WholeCalls /\ StartsComeLast
    BY <1>1, <2>2 DEF WholeCalls, StartsComeLast
  <2>5. OneRequestUnlessMixed
    BY <1>2 DEF OneRequestUnlessMixed, Concerned
  <2> QED
    BY <2>1, <2>3, <2>4, <2>5 DEF QueueInv
<1>5. StopsComeFirst
  BY <1>2 DEF StopsComeFirst
<1>6. RunsWhatIsRegistered
  BY DEF RunsWhatIsRegistered, RequestsInit, Init
<1>7. TaskInv
  BY InitTask DEF RequestsInit
<1> QED
  BY <1>4, <1>5, <1>6, <1>7 DEF RegistryInv

\* What a request may be.
Plan(calls) ==
  /\ calls \in Seq(Call)
  /\ \A k \in DOMAIN calls :
       /\ calls[k].call \in {"start", "loaded"} => k = Len(calls)
       /\ calls[k].call \in {"running", "loaded"} => calls[k].names = Names
       /\ \A n \in Names : Loads(calls[k], n) => \E j \in 1 .. k - 1 : Stops(calls[j], n)

LEMMA BeginsPlan ==
  ASSUME NEW q \in Requests,
         \/ ReloadType(q) \/ ReloadAll(q) \/ HotReload(q)
         \/ \E n \in Names : StartTask(q, n) \/ StopTask(q, n) \/ ReloadOne(q, n)
  PROVE  \E calls : Plan(calls) /\ Begin(q, calls)
<1> USE DEF C, Call, Plan, Loads, Stops
<1>1. ASSUME NEW n \in Names, StartTask(q, n) \/ StopTask(q, n)
      PROVE  \E calls : Plan(calls) /\ Begin(q, calls)
  <2>1. Plan(<<C("start", {n})>>) /\ Plan(<<C("stop", {n})>>)
    OBVIOUS
  <2> QED
    BY <1>1, <2>1 DEF StartTask, StopTask
<1>2. ASSUME NEW n \in Names, ReloadOne(q, n)
      PROVE  \E calls : Plan(calls) /\ Begin(q, calls)
  <2>1. Plan(<<C("stop", {n}), C("reload", {n}), C("start", {n})>>)
    <3> DEFINE s == <<C("stop", {n}), C("reload", {n}), C("start", {n})>>
    <3>1. s \in Seq(Call) /\ DOMAIN s = 1 .. 3 /\ Len(s) = 3
      OBVIOUS
    <3>2. /\ s[1] = C("stop", {n}) /\ s[2] = C("reload", {n}) /\ s[3] = C("start", {n})
      OBVIOUS
    <3> QED
      BY <3>1, <3>2
  <2> QED
    BY <1>2, <2>1 DEF ReloadOne
<1>3. Plan(<<C("running", Names), C("load", Names), C("loaded", Names)>>)
  <2> DEFINE s == <<C("running", Names), C("load", Names), C("loaded", Names)>>
  <2>1. s \in Seq(Call) /\ DOMAIN s = 1 .. 3 /\ Len(s) = 3
    OBVIOUS
  <2>2. s[1] = C("running", Names) /\ s[2] = C("load", Names) /\ s[3] = C("loaded", Names)
    OBVIOUS
  <2> QED
    BY <2>1, <2>2
<1>4. Plan(<<C("running", Names), C("clear", Names), C("load", Names), C("loaded", Names)>>)
  <2> DEFINE s == <<C("running", Names), C("clear", Names), C("load", Names), C("loaded", Names)>>
  <2>1. s \in Seq(Call) /\ DOMAIN s = 1 .. 4 /\ Len(s) = 4
    OBVIOUS
  <2>2. /\ s[1] = C("running", Names) /\ s[2] = C("clear", Names)
        /\ s[3] = C("load", Names) /\ s[4] = C("loaded", Names)
    OBVIOUS
  <2> QED
    BY <2>1, <2>2
<1>5. Plan(<<C("stop_all", Names), C("loaded", Names)>>)
  OBVIOUS
<1> QED
  BY <1>1, <1>2, <1>3, <1>4, <1>5 DEF ReloadType, ReloadAll, HotReload

LEMMA BeginKeeps ==
  ASSUME RegistryInv, NEW q \in Requests, NEW calls, Plan(calls), Begin(q, calls)
  PROVE  QueueInv' /\ StopsComeFirst' /\ RunsWhatIsRegistered'
<1> USE DEF RegistryInv, QueueInv, QueueTyped
<1>1. /\ todo'[q] = calls /\ todo[q] = <<>>
      /\ \A p \in (Requests \cup {Boot}) \ {q} : todo'[p] = todo[p]
      /\ todo[Boot] = <<>> /\ q # Boot
      /\ mixed \subseteq mixed'
      /\ \A n \in Concerned(calls) : \A p \in Requests : n \in Concerned(todo[p]) => n \in mixed'
  BY RequestsAssumption DEF Begin
<1>2. \A k \in DOMAIN calls : calls[k].names \subseteq Names
  <2>1. \A k \in DOMAIN calls : calls[k] \in Call
    BY DEF Plan
  <2> QED
    BY <2>1 DEF Call
<1>3. QueueTyped'
  BY <1>2 DEF Begin, Plan, Concerned
<1>4. WholeCalls'
  BY <1>1 DEF WholeCalls, Plan
<1>5. BootIsFirst'
  BY <1>1 DEF BootIsFirst
<1>6. StartsComeLast'
  BY <1>1 DEF StartsComeLast, Plan
<1>7. OneRequestUnlessMixed'
  <2> SUFFICES ASSUME NEW p \in Requests, NEW r \in Requests, p # r,
                      NEW n \in Concerned(todo'[p]) \cap Concerned(todo'[r])
               PROVE  n \in mixed'
    BY DEF OneRequestUnlessMixed, Concerned
  <2>1. CASE p = q \/ r = q
    BY <1>1, <2>1
  <2>2. CASE p # q /\ r # q
    BY <1>1, <2>2 DEF OneRequestUnlessMixed
  <2> QED
    BY <2>1, <2>2
<1>8. UNCHANGED <<taskCancels, registry, source>>
  BY DEF Begin, vars, registryVars, managerVars
<1>9. StopsComeFirst'
  <2> SUFFICES ASSUME NEW p \in Requests, NEW n \in Names \ mixed', NEW k \in DOMAIN todo'[p],
                      Loads(todo'[p][k], n)
               PROVE  taskCancels[n] = None \/ \E j \in 1 .. k - 1 : Stops(todo'[p][j], n)
    BY <1>8 DEF StopsComeFirst, Loads, Stops
  <2>1. CASE p = q
    BY <1>1, <2>1 DEF Plan
  <2>2. CASE p # q
    BY <1>1, <2>2 DEF StopsComeFirst
  <2> QED
    BY <2>1, <2>2
<1>10. RunsWhatIsRegistered'
  BY <1>1, <1>8 DEF RunsWhatIsRegistered
<1> QED
  BY <1>3, <1>4, <1>5, <1>6, <1>7, <1>9, <1>10

\* How a call changes the queue of its request: it is gone, or stands for fewer
\* plugins, or for those it has found; a request that fails has nothing left to do.
Gone(q) == todo'[q] = Tail(todo[q])

Left(q, call, names) == todo'[q] = <<C(call, names)>> \o Tail(todo[q])

LEMMA StepOfQueue ==
  ASSUME QueueTyped, WholeCalls, NEW q \in Requests \cup {Boot}, RequestStep(q)
  PROVE  /\ todo[q] # <<>> /\ mixed' = mixed
         /\ \A p \in (Requests \cup {Boot}) \ {q} : todo'[p] = todo[p]
         /\ DOMAIN todo' = Requests \cup {Boot}
         /\ \/ todo'[q] = <<>>
            \/ Gone(q)
            \/ \E names \in SUBSET Head(todo[q]).names :
                 \/ /\ Head(todo[q]).call \notin {"running", "loaded"}
                    /\ Left(q, Head(todo[q]).call, names)
                 \/ Head(todo[q]).call = "running" /\ Left(q, "stop", names)
                 \/ Head(todo[q]).call = "loaded" /\ Left(q, "start", names)
<1> USE DEF QueueTyped
<1>1. todo[q] # <<>> => Head(todo[q]) \in Call /\ Tail(todo[q]) \in Seq(Call)
  OBVIOUS
<1>2. todo[q] # <<>> /\ Head(todo[q]).call \in {"running", "loaded"} => Head(todo[q]).names = Names
  BY DEF WholeCalls
<1>3. <<>> \o Tail(todo[q]) = Tail(todo[q])
  BY <1>1
<1>4. ASSUME NEW n \in Names, NEW call, call \notin {"running", "loaded"},
             Calls(q, call, n) /\ Returned(q, n)
      PROVE  /\ todo[q] # <<>> /\ mixed' = mixed
             /\ \A p \in (Requests \cup {Boot}) \ {q} : todo'[p] = todo[p]
             /\ DOMAIN todo' = Requests \cup {Boot}
             /\ \/ Gone(q)
                \/ \E names \in SUBSET Head(todo[q]).names :
                     Left(q, Head(todo[q]).call, names)
             /\ Head(todo[q]).call = call
  BY <1>4 DEF Calls, Returned, Gone, Left
<1>5. ASSUME Becomes(q, Head(todo[q]).call, {}), todo[q] # <<>>
      PROVE  /\ mixed' = mixed /\ Gone(q)
             /\ \A p \in (Requests \cup {Boot}) \ {q} : todo'[p] = todo[p]
             /\ DOMAIN todo' = Requests \cup {Boot}
  BY <1>3, <1>5 DEF Becomes, Gone
<1>6. ASSUME NEW call, NEW names, Becomes(q, call, names), todo[q] # <<>>
      PROVE  /\ mixed' = mixed /\ (Gone(q) \/ Left(q, call, names))
             /\ \A p \in (Requests \cup {Boot}) \ {q} : todo'[p] = todo[p]
             /\ DOMAIN todo' = Requests \cup {Boot}
  BY <1>3, <1>6 DEF Becomes, Gone, Left
<1>7. CASE RunningTaskPlugins(q)
  BY <1>2, <1>6, <1>7 DEF RunningTaskPlugins, IsNext
<1>8. CASE List(q)
  BY <1>2, <1>6, <1>8 DEF List, IsNext
<1>9. CASE ClearFailed(q) \/ StopEverything(q)
  BY <1>5, <1>9 DEF ClearFailed, StopEverything, IsNext
<1>10. ASSUME NEW n \in Names, ReloadFails(q, n)
       PROVE  /\ todo[q] # <<>> /\ mixed' = mixed /\ todo'[q] = <<>>
              /\ \A p \in (Requests \cup {Boot}) \ {q} : todo'[p] = todo[p]
              /\ DOMAIN todo' = Requests \cup {Boot}
  BY <1>10 DEF ReloadFails, Calls
<1>11. ASSUME NEW n \in Names,
              Stop(q, n) \/ Load(q, n) \/ Reload(q, n) \/ Start(q, n) \/ StartFails(q, n)
       PROVE  \E call \in {"stop", "load", "reload", "start"} : Calls(q, call, n) /\ Returned(q, n)
  BY <1>11 DEF Stop, Load, Reload, Start, StartFails
<1> QED
  BY <1>4, <1>7, <1>8, <1>9, <1>10, <1>11 DEF RequestStep

LEMMA Shifted ==
  ASSUME QueueTyped, NEW q \in Requests \cup {Boot}, todo[q] # <<>>
  PROVE  /\ Head(todo[q]) = todo[q][1] /\ 1 \in DOMAIN todo[q]
         /\ Gone(q) =>
              /\ Len(todo'[q]) = Len(todo[q]) - 1
              /\ \A k \in DOMAIN todo'[q] :
                   k \in Nat \ {0} /\ k + 1 \in DOMAIN todo[q] /\ todo'[q][k] = todo[q][k + 1]
         /\ \A call, names : Left(q, call, names) =>
              /\ Len(todo'[q]) = Len(todo[q]) /\ DOMAIN todo'[q] = DOMAIN todo[q]
              /\ todo'[q][1].call = call /\ todo'[q][1].names = names
              /\ \A k \in DOMAIN todo'[q] \ {1} : todo'[q][k] = todo[q][k]
<1>1. todo[q] \in Seq(Call) /\ todo[q] # <<>>
  BY DEF QueueTyped
<1>2. /\ Tail(todo[q]) \in Seq(Call) /\ Len(Tail(todo[q])) = Len(todo[q]) - 1
      /\ DOMAIN todo[q] = 1 .. Len(todo[q]) /\ Len(todo[q]) \in Nat \ {0}
      /\ \A k \in 1 .. Len(todo[q]) - 1 : Tail(todo[q])[k] = todo[q][k + 1]
  BY <1>1
<1>3. Gone(q) => /\ Len(todo'[q]) = Len(todo[q]) - 1
                 /\ DOMAIN todo'[q] = 1 .. Len(todo[q]) - 1
                 /\ \A k \in 1 .. Len(todo[q]) - 1 : todo'[q][k] = todo[q][k + 1]
  BY <1>2 DEF Gone
<1>4. ASSUME NEW call, NEW names, Left(q, call, names)
      PROVE  /\ Len(todo'[q]) = Len(todo[q]) /\ DOMAIN todo'[q] = DOMAIN todo[q]
             /\ todo'[q][1] = C(call, names)
             /\ \A k \in DOMAIN todo'[q] \ {1} : todo'[q][k] = todo[q][k]
  <2> DEFINE c == C(call, names)
             t == Tail(todo[q])
  <2> HIDE DEF c, t
  <2>1. t \in Seq(Call) /\ Len(t) = Len(todo[q]) - 1
    BY <1>2 DEF t
  <2>2. /\ Len(<<c>> \o t) = Len(t) + 1 /\ DOMAIN (<<c>> \o t) = 1 .. Len(t) + 1
        /\ (<<c>> \o t)[1] = c
        /\ \A k \in 2 .. Len(t) + 1 : (<<c>> \o t)[k] = t[k - 1]
    <3>1. t \in Seq(Call \cup {c}) /\ <<c>> \in Seq(Call \cup {c}) /\ Len(<<c>>) = 1 /\ <<c>>[1] = c
      BY <2>1
    <3> QED
      BY <3>1
  <2>3. todo'[q] = <<c>> \o t
    BY <1>4 DEF Left, c, t
  <2>4. \A k \in 2 .. Len(todo[q]) : t[k - 1] = todo[q][k]
    BY <1>2 DEF t
  <2> QED
    BY <1>2, <2>1, <2>2, <2>3, <2>4 DEF c
<1>5. \A call, names : C(call, names).call = call /\ C(call, names).names = names
  BY DEF C
<1> QED
  BY <1>1, <1>2, <1>3, <1>4, <1>5

LEMMA StepKeepsQueue ==
  ASSUME QueueInv, NEW q \in Requests \cup {Boot}, RequestStep(q)
  PROVE  QueueInv'
<1> USE DEF QueueInv
<1> DEFINE head == Head(todo[q])
<1>1. /\ todo[q] # <<>> /\ mixed' = mixed
      /\ \A p \in (Requests \cup {Boot}) \ {q} : todo'[p] = todo[p]
      /\ DOMAIN todo' = Requests \cup {Boot}
  BY StepOfQueue
<1>2. \/ todo'[q] = <<>>
      \/ Gone(q)
      \/ \E call, names : /\ names \subseteq head.names
                          /\ Left(q, call, names)
                          /\ \/ head.call \notin {"running", "loaded"} /\ call = head.call
                             \/ head.call = "running" /\ call = "stop"
                             \/ head.call = "loaded" /\ call = "start"
  BY StepOfQueue
<1>3. todo[q] \in Seq(Call) /\ head \in Call /\ Tail(todo[q]) \in Seq(Call)
  BY <1>1 DEF QueueTyped
<1>4. QueueTyped'
  <2>1. todo'[q] \in Seq(Call)
    <3> HIDE DEF head
    <3>0. <<>> \in Seq(Call)
      OBVIOUS
    <3>1. ASSUME NEW call, NEW names, names \subseteq head.names, Left(q, call, names),
                 call = head.call \/ call \in {"stop", "start"}
          PROVE  todo'[q] \in Seq(Call)
      <4>1. C(call, names) \in Call
        BY <1>3, <3>1 DEF C, Call
      <4> QED
        BY <1>3, <3>1, <4>1 DEF Left
    <3> QED
      BY <1>2, <1>3, <3>0, <3>1 DEF Gone
  <2> QED
    <3>1. todo' = [p \in Requests \cup {Boot} |-> todo'[p]]
      BY StepOfQueue DEF RequestStep, QueueTyped, RunningTaskPlugins, List, ClearFailed,
         StopEverything, Stop, Load, Reload, ReloadFails, Start, StartFails, Becomes, Returned
    <3>2. \A p \in Requests \cup {Boot} : todo'[p] \in Seq(Call)
      BY <1>1, <2>1 DEF QueueTyped
    <3> QED
      BY <1>1, <3>1, <3>2 DEF QueueTyped
<1>5. WholeCalls'
  <2> SUFFICES ASSUME NEW k \in DOMAIN todo'[q], todo'[q][k].call \in {"running", "loaded"}
               PROVE  todo'[q][k].names = Names
    BY <1>1 DEF WholeCalls
  <2>1. ASSUME Gone(q) PROVE todo'[q][k].names = Names
    BY <1>1, <2>1, Shifted DEF WholeCalls
  <2>2. ASSUME NEW call, NEW names, Left(q, call, names), call \notin {"running", "loaded"}
        PROVE  todo'[q][k].names = Names
    <3>1. k = 1 => todo'[q][k].call = call
      BY <1>1, <2>2, Shifted
    <3>2. k # 1 => k \in DOMAIN todo[q] /\ todo'[q][k] = todo[q][k]
      BY <1>1, <2>2, Shifted
    <3> QED
      BY <2>2, <3>1, <3>2 DEF WholeCalls
  <2> QED
    BY <1>2, <2>1, <2>2
<1>6. BootIsFirst'
  <2>1. ASSUME q = Boot, NEW k \in DOMAIN todo'[q]
        PROVE  todo'[q][k].call \in {"start", "loaded"}
    <3>1. head.call \in {"start", "loaded"}
      BY <1>1, <2>1, Shifted DEF BootIsFirst
    <3>2. ASSUME NEW call, NEW names, Left(q, call, names), call = "start"
          PROVE  todo'[q][k].call \in {"start", "loaded"}
      <4>1. k = 1 => todo'[q][k].call = call
        BY <1>1, <3>2, Shifted
      <4>2. k # 1 => k \in DOMAIN todo[q] /\ todo'[q][k] = todo[q][k]
        BY <1>1, <2>1, <3>2, Shifted
      <4> QED
        BY <2>1, <3>2, <4>1, <4>2 DEF BootIsFirst
    <3>3. ASSUME Gone(q) PROVE todo'[q][k].call \in {"start", "loaded"}
      BY <1>1, <2>1, <3>3, Shifted DEF BootIsFirst
    <3> QED
      BY <1>2, <2>1, <3>1, <3>2, <3>3
  <2>2. q # Boot => todo'[Boot] = todo[Boot] /\ todo[Boot] = <<>>
    BY <1>1 DEF BootIsFirst
  <2>3. q = Boot => \A p \in Requests : todo'[p] = <<>>
    BY <1>1, RequestsAssumption DEF BootIsFirst
  <2> QED
    BY <2>1, <2>2, <2>3 DEF BootIsFirst
<1>7. StartsComeLast'
  <2> SUFFICES ASSUME NEW j \in DOMAIN todo'[q], todo'[q][j].call \in {"start", "loaded"}
               PROVE  j = Len(todo'[q])
    BY <1>1 DEF StartsComeLast
  <2>1. ASSUME Gone(q) PROVE j = Len(todo'[q])
    <3>1. j + 1 \in DOMAIN todo[q] /\ todo'[q][j] = todo[q][j + 1] /\ Len(todo'[q]) = Len(todo[q]) - 1
      BY <1>1, <2>1, Shifted
    <3>2. j + 1 = Len(todo[q])
      BY <3>1 DEF StartsComeLast
    <3>3. j \in Nat /\ Len(todo[q]) \in Nat
      BY <1>1, <1>3, <2>1, Shifted
    <3> QED
      BY <3>1, <3>2, <3>3
  <2>2. ASSUME NEW call, NEW names, Left(q, call, names),
               call \in {"start", "loaded"} => head.call \in {"start", "loaded"}
        PROVE  j = Len(todo'[q])
    <3>1. Len(todo'[q]) = Len(todo[q]) /\ 1 \in DOMAIN todo[q] /\ head = todo[q][1]
      BY <1>1, <2>2, Shifted
    <3>2. j = 1 => todo'[q][j].call = call
      BY <1>1, <2>2, Shifted
    <3>3. j # 1 => j \in DOMAIN todo[q] /\ todo'[q][j] = todo[q][j]
      BY <1>1, <2>2, Shifted
    <3> QED
      BY <2>2, <3>1, <3>2, <3>3 DEF StartsComeLast
  <2> QED
    BY <1>2, <2>1, <2>2
<1>8. OneRequestUnlessMixed'
  <2>1. Concerned(todo'[q]) \subseteq Concerned(todo[q])
    <3>1. CASE Gone(q)
      BY <1>1, <3>1, Shifted DEF Concerned
    <3>2. ASSUME NEW call, NEW names, names \subseteq head.names, Left(q, call, names)
          PROVE  Concerned(todo'[q]) \subseteq Concerned(todo[q])
      <4>1. /\ 1 \in DOMAIN todo[q] /\ head = todo[q][1]
            /\ DOMAIN todo'[q] = DOMAIN todo[q] /\ todo'[q][1].names = names
        BY <1>1, <3>2, Shifted
      <4>2. \A k \in DOMAIN todo'[q] \ {1} : todo'[q][k] = todo[q][k]
        BY <1>1, <3>2, Shifted
      <4>3. \A k \in DOMAIN todo'[q] : todo'[q][k].names \subseteq todo[q][k].names
        BY <3>2, <4>1, <4>2
      <4> QED
        BY <4>1, <4>3 DEF Concerned
    <3> QED
      BY <1>2, <3>1, <3>2 DEF Concerned
  <2>2. \A p \in Requests : Concerned(todo'[p]) \subseteq Concerned(todo[p])
    BY <1>1, <2>1
  <2>3. \A p \in Requests : Concerned(todo[p])' = Concerned(todo'[p])
    BY DEF Concerned
  <2> QED
    BY <1>1, <2>2, <2>3 DEF OneRequestUnlessMixed
<1> QED
  BY <1>4, <1>5, <1>6, <1>7, <1>8

\* What a call does to plugin n: an entry of taskCancels is only stored by a start,
\* of what is registered; what is registered only changes by a load; and a call that
\* is to stop n leaves it stopped or found to be running.
LEMMA CallOnPlugin ==
  ASSUME TaskInv, QueueTyped, WholeCalls, NEW q \in Requests \cup {Boot}, RequestStep(q),
         NEW n \in Names
  PROVE  /\ \/ taskCancels'[n] = None
            \/ /\ taskCancels'[n] = taskCancels[n]
               /\ taskCancels[n] # None => source'[taskCancels[n]] = source[taskCancels[n]]
               /\ registry'[n] = registry[n] \/ Loads(Head(todo[q]), n)
            \/ /\ Head(todo[q]).call = "start" /\ n \in Head(todo[q]).names
               /\ source'[taskCancels'[n]] = registry'[n]
         /\ Stops(Head(todo[q]), n) =>
              \/ taskCancels'[n] = None
              \/ \E names : n \in names /\ Left(q, "stop", names)
<1> DEFINE head == Head(todo[q])
<1> USE DEF TaskInv
<1>1. todo[q] # <<>>
  BY StepOfQueue
<1>2. CASE UNCHANGED vars /\ head.call \notin {"running", "stop"}
  BY <1>2 DEF vars, registryVars, managerVars, Stops
<1>3. CASE RunningTaskPlugins(q)
  <2> DEFINE found == {m \in Names : taskCancels[m] # None}
  <2>1. UNCHANGED vars /\ head.call = "running" /\ Becomes(q, "stop", found)
    BY <1>3 DEF RunningTaskPlugins, IsNext
  <2>2. found # {} => Left(q, "stop", found)
    BY <2>1 DEF Becomes, Left, QueueTyped
  <2> QED
    BY <2>1, <2>2 DEF vars, registryVars, managerVars
<1>4. CASE List(q)
  BY <1>2, <1>4 DEF List, IsNext
<1>5. CASE ClearFailed(q)
  BY <1>5 DEF ClearFailed, IsNext, clearFailed, managerVars, Stops
<1>6. CASE StopEverything(q)
  BY <1>6 DEF StopEverything, StopAll
<1>7. ASSUME NEW m \in Names, Stop(q, m)
      PROVE  /\ taskCancels'[n] \in {None, taskCancels[n]} /\ UNCHANGED <<registry, source>>
             /\ Stops(head, n) =>
                  taskCancels'[n] = None \/ \E names : n \in names /\ Left(q, "stop", names)
  <2>1. /\ head.call = "stop" /\ Returned(q, m) /\ UNCHANGED <<registry, source>>
        /\ taskCancels' = [taskCancels EXCEPT ![m] = None]
    BY <1>7 DEF Stop, Calls, StopTaskPlugin, registryVars
  <2>2. n # m /\ n \in head.names => n \in head.names \ {m} /\ head.names # {m}
    OBVIOUS
  <2>3. head.names # {m} => Left(q, "stop", head.names \ {m})
    BY <2>1 DEF Returned, Left, QueueTyped
  <2>4. n = m => taskCancels'[n] = None
    BY <2>1 DEF TypeOK
  <2>5. taskCancels'[n] \in {None, taskCancels[n]}
    BY <2>1 DEF TypeOK
  <2> QED
    BY <2>1, <2>2, <2>3, <2>4, <2>5 DEF Stops
<1>8. ASSUME NEW m \in Names, Load(q, m) \/ Reload(q, m) \/ ReloadFails(q, m)
      PROVE  /\ UNCHANGED <<taskCancels, source>>
             /\ registry'[n] = registry[n] \/ Loads(head, n)
             /\ ~Stops(head, n)
  <2>1. /\ head.call \in {"load", "reload"} /\ m \in head.names
        /\ \/ markFailed(m) \/ UNCHANGED vars
           \/ \E src \in Sources : loadOne(m, src)
    BY <1>8 DEF Load, Reload, ReloadFails, Calls
  <2>2. /\ UNCHANGED <<taskCancels, source>>
        /\ n # m => registry'[n] = registry[n]
    BY <2>1 DEF markFailed, vars, registryVars, managerVars, loadOne, TypeOK
  <2> QED
    BY <2>1, <2>2 DEF Loads, Stops
<1>9. ASSUME NEW m \in Names, StartFails(q, m)
      PROVE  UNCHANGED vars /\ head.call \notin {"running", "stop"}
  BY <1>9 DEF StartFails, Calls
<1>10. ASSUME NEW m \in Names, Start(q, m)
       PROVE  /\ \/ /\ taskCancels'[n] = taskCancels[n] /\ registry' = registry
                    /\ taskCancels[n] # None => source'[taskCancels[n]] = source[taskCancels[n]]
                 \/ /\ head.call = "start" /\ n \in head.names
                    /\ source'[taskCancels'[n]] = registry'[n]
              /\ ~Stops(head, n)
  <2> DEFINE r == Fresh
  <2>1. r \in Runs /\ place[r] = "unused"
    BY <1>10 DEF Start, Fresh
  <2> HIDE DEF r
  <2>2. /\ head.call = "start" /\ m \in head.names /\ registry' = registry
        /\ taskCancels' = [taskCancels EXCEPT ![m] = r]
        /\ source' = [source EXCEPT ![r] = registry[m]]
    BY <1>10 DEF Start, Calls, StartTaskPlugin, registryVars, r
  <2>3. taskCancels[n] # None => taskCancels[n] # r
    BY <2>1 DEF StoredRunIsWanted, Wanted, RunsOf, Live
  <2>4. n # m => /\ taskCancels'[n] = taskCancels[n]
                 /\ taskCancels[n] # None => source'[taskCancels[n]] = source[taskCancels[n]]
    BY <2>2, <2>3 DEF TypeOK
  <2>5. n = m => source'[taskCancels'[n]] = registry'[n]
    BY <2>1, <2>2 DEF TypeOK
  <2> QED
    BY <2>2, <2>4, <2>5 DEF Stops
<1> QED
  BY <1>2, <1>3, <1>4, <1>5, <1>6, <1>7, <1>8, <1>9, <1>10 DEF RequestStep, managerVars

LEMMA CallKeeps ==
  ASSUME RegistryInv, NEW q \in Requests \cup {Boot}, RequestStep(q)
  PROVE  StopsComeFirst' /\ RunsWhatIsRegistered'
<1> USE DEF RegistryInv, QueueInv
<1> DEFINE head == Head(todo[q])
<1>1. /\ todo[q] # <<>> /\ mixed' = mixed
      /\ \A p \in (Requests \cup {Boot}) \ {q} : todo'[p] = todo[p]
  BY StepOfQueue
<1>2. head = todo[q][1] /\ 1 \in DOMAIN todo[q]
  BY <1>1, Shifted
<1>3. todo[q] \in Seq(Call)
  BY DEF QueueTyped
\* a call that loads finds its plugin stopped
<1>4. \A n \in Names \ mixed : Loads(head, n) => taskCancels[n] = None
  <2>1. q = Boot => \A n : ~Loads(head, n)
    BY <1>2 DEF BootIsFirst, Loads
  <2> QED
    BY <1>2, <2>1 DEF StopsComeFirst
<1>5. RunsWhatIsRegistered'
  <2> SUFFICES ASSUME NEW n \in Names \ mixed, taskCancels'[n] # None
               PROVE  source'[taskCancels'[n]] = registry'[n]
    BY <1>1 DEF RunsWhatIsRegistered
  <2> QED
    BY <1>4, CallOnPlugin DEF RunsWhatIsRegistered
\* what has still to be loaded is started by no other request
<1>6. ASSUME NEW p \in Requests, p # q, NEW n \in Names \ mixed, NEW k \in DOMAIN todo[p],
             Loads(todo[p][k], n)
      PROVE  n \notin head.names
  <2>1. n \in Concerned(todo[p])
    BY <1>6 DEF Loads, Concerned
  <2>2. q \in Requests
    BY <1>1, <1>6 DEF BootIsFirst
  <2>3. n \in head.names => n \in Concerned(todo[q])
    BY <1>2 DEF Concerned
  <2> QED
    BY <1>6, <2>1, <2>2, <2>3 DEF OneRequestUnlessMixed
<1>7. StopsComeFirst'
  <2> SUFFICES ASSUME NEW p \in Requests, NEW n \in Names \ mixed, NEW k \in DOMAIN todo'[p],
                      Loads(todo'[p][k], n), taskCancels'[n] # None
               PROVE  \E j \in 1 .. k - 1 : Stops(todo'[p][j], n)
    BY <1>1 DEF StopsComeFirst, Loads, Stops
  <2>1. CASE p # q
    <3>1. todo'[p] = todo[p]
      BY <1>1, <2>1
    <3>2. n \notin head.names
      BY <1>6, <2>1, <3>1
    <3>3. taskCancels[n] # None
      BY <3>2, CallOnPlugin
    <3> QED
      BY <3>1, <3>3 DEF StopsComeFirst
  <2>2. CASE p = q
    <3>1. head.call # "start"
      <4> SUFFICES ASSUME head.call = "start" PROVE FALSE
        OBVIOUS
      <4>1. Len(todo[q]) = 1 /\ DOMAIN todo[q] = {1}
        <5>1. 1 = Len(todo[q])
          BY <1>2 DEF StartsComeLast
        <5> QED
          BY <1>3, <5>1
      <4>2. ~Gone(q)
        BY <1>1, <2>2, <4>1, Shifted
      <4>3. PICK names : Left(q, "start", names)
        BY <2>2, <4>2, StepOfQueue
      <4>4. k = 1 /\ todo'[q][k].call = "start"
        BY <1>1, <2>2, <4>1, <4>3, Shifted
      <4> QED
        BY <2>2, <4>4 DEF Loads
    <3>2. taskCancels[n] # None
      BY <3>1, CallOnPlugin
    <3>3. CASE Gone(q)
      <4>1. /\ k \in Nat \ {0} /\ k + 1 \in DOMAIN todo[q] /\ todo'[q][k] = todo[q][k + 1]
            /\ Len(todo'[q]) = Len(todo[q]) - 1
            /\ \A j \in DOMAIN todo'[q] : todo'[q][j] = todo[q][j + 1]
        BY <1>1, <2>2, <3>3, Shifted
      <4>2. PICK j \in 1 .. k : Stops(todo[q][j], n)
        <5>1. Loads(todo[q][k + 1], n)
          BY <2>2, <4>1
        <5>2. \E j \in 1 .. (k + 1) - 1 : Stops(todo[q][j], n)
          BY <2>2, <3>2, <4>1, <5>1 DEF StopsComeFirst
        <5>3. (k + 1) - 1 = k
          BY <4>1
        <5> QED
          BY <5>2, <5>3
      <4>3. j # 1
        <5> SUFFICES ASSUME j = 1 PROVE FALSE
          OBVIOUS
        <5>1. PICK names : Left(q, "stop", names)
          BY <1>2, <4>2, CallOnPlugin
        <5>2. Len(todo'[q]) = Len(todo[q])
          BY <1>1, <5>1, Shifted
        <5> QED
          BY <1>3, <4>1, <5>2
      <4>4. j - 1 \in 1 .. k - 1 /\ j - 1 \in DOMAIN todo'[q]
        <5>1. DOMAIN todo'[q] = 1 .. Len(todo'[q]) /\ Len(todo'[q]) \in Nat
          BY StepKeepsQueue DEF QueueTyped
        <5>2. k \in 1 .. Len(todo'[q])
          BY <2>2, <5>1
        <5> QED
          BY <4>1, <4>2, <4>3, <5>1, <5>2
      <4>5. todo'[q][j - 1] = todo[q][j]
        BY <4>1, <4>4, <4>2
      <4> QED
        BY <2>2, <4>2, <4>4, <4>5
    <3>4. ASSUME NEW call, NEW names, names \subseteq head.names, Left(q, call, names),
                 call = head.call \/ call \in {"stop", "start"}
          PROVE  \E j \in 1 .. k - 1 : Stops(todo'[p][j], n)
      <4>1. /\ DOMAIN todo'[q] = DOMAIN todo[q]
            /\ todo'[q][1].call = call /\ todo'[q][1].names = names
            /\ \A j \in DOMAIN todo'[q] \ {1} : todo'[q][j] = todo[q][j]
        BY <1>1, <3>4, Shifted
      <4>2. Loads(todo[q][k], n)
        BY <1>2, <2>2, <3>4, <4>1 DEF Loads
      <4>3. PICK j \in 1 .. k - 1 : Stops(todo[q][j], n)
        BY <2>2, <3>2, <4>1, <4>2 DEF StopsComeFirst
      <4>4. j \in DOMAIN todo'[q]
        BY <1>3, <2>2, <4>1, <4>3
      <4>5. CASE j = 1
        <5>1. PICK others : n \in others /\ Left(q, "stop", others)
          BY <1>2, <4>3, <4>5, CallOnPlugin
        <5>2. todo'[q][1].call = "stop" /\ todo'[q][1].names = others
          BY <1>1, <5>1, Shifted
        <5> QED
          BY <2>2, <4>3, <4>5, <5>1, <5>2 DEF Stops
      <4> QED
        BY <2>2, <4>1, <4>3, <4>4, <4>5
    <3> QED
      BY <2>2, <3>3, <3>4, StepOfQueue
  <2> QED
    BY <2>1, <2>2
<1> QED
  BY <1>5, <1>7

LEMMA NextRegistry ==
  ASSUME RegistryInv, [RequestsNext]_allVars
  PROVE  RegistryInv'
<1> USE DEF RegistryInv
<1>1. TaskInv'
  BY NextTask, RequestIsTaskStep
<1>2. CASE \E q \in Requests : \/ ReloadType(q) \/ ReloadAll(q) \/ HotReload(q)
                               \/ \E n \in Names : StartTask(q, n) \/ StopTask(q, n) \/ ReloadOne(q, n)
  BY <1>1, <1>2, BeginsPlan, BeginKeeps
<1>3. CASE \E q \in Requests \cup {Boot} : RequestStep(q)
  BY <1>1, <1>3, StepKeepsQueue, CallKeeps DEF QueueInv
<1>4. CASE UNCHANGED requestVars /\ ((\E r \in Runs : RunTask(r) \/ Exit(r)) \/ UNCHANGED vars)
  <2>1. /\ UNCHANGED <<registry, source, todo, mixed>>
        /\ \A n \in Names : taskCancels'[n] \in {None, taskCancels[n]}
    BY <1>4 DEF requestVars, RunTask, Exit, vars, registryVars, managerVars, TaskInv, TypeOK
  <2>2. QueueInv'
    BY <2>1, SMTT(40) DEF QueueInv, QueueTyped, WholeCalls, BootIsFirst, StartsComeLast,
       OneRequestUnlessMixed, Concerned
  <2>3. StopsComeFirst'
    BY <2>1 DEF StopsComeFirst, Loads, Stops
  <2>4. RunsWhatIsRegistered'
    BY <2>1 DEF RunsWhatIsRegistered
  <2> QED
    BY <1>1, <2>2, <2>3, <2>4
<1> QED
  BY <1>2, <1>3, <1>4 DEF RequestsNext, RunStep, allVars

\* Unless requests about a task plugin have overlapped, what runs under its name is
\* what the registry holds, however its reloads interleave with those of the others
\* and wherever they fail.
THEOREM RegisteredIsRun == RequestsSpec => []RunsWhatIsRegistered
<1>1. RegistryInv => RunsWhatIsRegistered
  BY DEF RegistryInv
<1> QED
  BY <1>1, InitRegistry, NextRegistry, PTL DEF RequestsSpec
=============================================================================
