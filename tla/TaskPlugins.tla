---------------------------- MODULE TaskPlugins ----------------------------
(***************************************************************************)
(* The task plugins of internal/plugin and internal/pipeline/manager.go.   *)
(* Each start launches a goroutine that runs the plugin with a context of  *)
(* its own; taskCancels holds one cancel function per NAME.  Every         *)
(* operation of the manager runs under m.mu, but a cancelled run goes on   *)
(* until its plugin notices, and its goroutine then cleans up whatever the *)
(* map holds for its name.                                                 *)
(***************************************************************************)
EXTENDS Integers, FiniteSets

CONSTANTS
  Names,    \* task plugins: the directories below tasks/
  Sources,  \* what plugin files may contain
  Runs,     \* goroutines StartTaskPlugin launches; one call takes a fresh one
  None      \* no run, no plugin, no source

ASSUME NoneAssumption == None \notin Runs /\ None \notin Names /\ None \notin Sources

VARIABLES
  registry,     \* plugin.Default.tasks: the source each plugin was loaded from
  failed,       \* plugin.Default.failed
  taskCancels,  \* m.taskCancels: the run whose cancel function is stored
  taskErrors,   \* names with an entry in m.taskErrors
  plugin,       \* name of the plugin a run executes
  source,       \* the source it was loaded from
  place,        \* where a run's goroutine is: "unused", "running" the plugin,
                \* "ok" or "failed" once it has returned, "gone" after the clean-up
  cancelled,    \* runs whose context is cancelled
  late          \* history: run -> the earlier runs of its plugin that had not cleaned
                \* up when it was started

registryVars == <<registry, failed>>
managerVars == <<taskCancels, taskErrors, plugin, source, place, cancelled, late>>
vars == <<registryVars, managerVars>>

TypeOK ==
  /\ registry \in [Names -> Sources \cup {None}]
  /\ failed \subseteq Names
  /\ taskCancels \in [Names -> Runs \cup {None}]
  /\ taskErrors \subseteq Names
  /\ plugin \in [Runs -> Names \cup {None}]
  /\ source \in [Runs -> Sources \cup {None}]
  /\ place \in [Runs -> {"unused", "running", "ok", "failed", "gone"}]
  /\ cancelled \subseteq Runs
  /\ late \in [Runs -> SUBSET Runs]

Init ==
  /\ registry \in [Names -> Sources \cup {None}]
  /\ failed = {n \in Names : registry[n] = None}
  /\ taskCancels = [n \in Names |-> None]
  /\ taskErrors = {}
  /\ plugin = [r \in Runs |-> None]
  /\ source = [r \in Runs |-> None]
  /\ place = [r \in Runs |-> "unused"]
  /\ cancelled = {}
  /\ late = [r \in Runs |-> {}]

\* Runs whose goroutine has not ended.
Live == {r \in Runs : place[r] \in {"running", "ok", "failed"}}

RunsOf(n) == {r \in Live : plugin[r] = n}

\* The files of n are loaded from the disk, where anything may be by now.
loadOne(n, src) ==
  /\ registry' = [registry EXCEPT ![n] = src]
  /\ UNCHANGED <<failed, managerVars>>

\* They cannot be loaded: the plugin stays registered as it was.
markFailed(n) ==
  /\ failed' = failed \cup {n}
  /\ UNCHANGED <<registry, managerVars>>

clearFailed ==
  /\ failed' = {}
  /\ UNCHANGED <<registry, managerVars>>

\* Mutant: a start does not look whether the plugin runs.
StartTaskPlugin_Again(n, r) ==
  /\ registry[n] # None
  /\ place[r] = "unused"
  /\ taskCancels' = [taskCancels EXCEPT ![n] = r]
  /\ taskErrors' = taskErrors \ {n}
  /\ plugin' = [plugin EXCEPT ![r] = n]
  /\ source' = [source EXCEPT ![r] = registry[n]]
  /\ place' = [place EXCEPT ![r] = "running"]
  /\ late' = [late EXCEPT ![r] = RunsOf(n)]
  /\ UNCHANGED <<registryVars, cancelled>>

StartTaskPlugin(n, r) ==
  /\ taskCancels[n] = None
  /\ registry[n] # None
  /\ place[r] = "unused"
  /\ taskCancels' = [taskCancels EXCEPT ![n] = r]
  /\ taskErrors' = taskErrors \ {n}
  /\ plugin' = [plugin EXCEPT ![r] = n]
  /\ source' = [source EXCEPT ![r] = registry[n]]
  /\ place' = [place EXCEPT ![r] = "running"]
  /\ late' = [late EXCEPT ![r] = RunsOf(n)]
  /\ UNCHANGED <<registryVars, cancelled>>

\* Mutant: the map entry is removed and the context is not cancelled.
StopTaskPlugin_NoCancel(n) ==
  /\ taskCancels' = [taskCancels EXCEPT ![n] = None]
  /\ taskErrors' = taskErrors \ {n}
  /\ UNCHANGED <<registryVars, plugin, source, place, cancelled, late>>

StopTaskPlugin(n) ==
  /\ cancelled' = cancelled \cup ({taskCancels[n]} \ {None})
  /\ taskCancels' = [taskCancels EXCEPT ![n] = None]
  /\ taskErrors' = taskErrors \ {n}
  /\ UNCHANGED <<registryVars, plugin, source, place, late>>

\* The part of Manager.StopAll that concerns the task plugins.
StopAll ==
  /\ cancelled' = cancelled \cup ({taskCancels[n] : n \in Names} \ {None})
  /\ taskCancels' = [n \in Names |-> None]
  /\ taskErrors' = {}
  /\ UNCHANGED <<registryVars, plugin, source, place, late>>

\* RunTask returns; a plugin may return at any time, cancelled or not.
RunTask(r) ==
  /\ place[r] = "running"
  /\ \E result \in {"ok", "failed"} : place' = [place EXCEPT ![r] = result]
  /\ UNCHANGED <<registryVars, taskCancels, taskErrors, plugin, source, cancelled, late>>

\* Mutant: an error is recorded whether or not the run was cancelled.
Recorded_Always(r) == place[r] = "failed"

\* The error test of the goroutine: `err != nil && ctx.Err() == nil`.
Recorded(r) == place[r] = "failed" /\ r \notin cancelled

\* Mutant: the goroutine leaves the map entry behind.
Exit_KeepEntry(r) ==
  /\ place[r] \in {"ok", "failed"}
  /\ taskErrors' = IF Recorded(r) THEN taskErrors \cup {plugin[r]} ELSE taskErrors
  /\ place' = [place EXCEPT ![r] = "gone"]
  /\ UNCHANGED <<registryVars, taskCancels, plugin, source, cancelled, late>>

\* The goroutine's clean-up: it deletes its NAME's entry, whoever stored it.
Exit(r) ==
  /\ place[r] \in {"ok", "failed"}
  /\ taskErrors' = IF Recorded(r) THEN taskErrors \cup {plugin[r]} ELSE taskErrors
  /\ taskCancels' = [taskCancels EXCEPT ![plugin[r]] = None]
  /\ place' = [place EXCEPT ![r] = "gone"]
  /\ UNCHANGED <<registryVars, plugin, source, cancelled, late>>

Next ==
  \/ \E n \in Names : markFailed(n) \/ StopTaskPlugin(n)
  \/ \E n \in Names, src \in Sources : loadOne(n, src)
  \/ \E n \in Names, r \in Runs : StartTaskPlugin(n, r)
  \/ clearFailed
  \/ StopAll
  \/ \E r \in Runs : RunTask(r) \/ Exit(r)

Spec == Init /\ [][Next]_vars

\* A goroutine whose plugin has returned gets m.mu in the end, and a plugin that
\* is cancelled returns (it is handed the context for that).
Fairness ==
  \A r \in Runs : WF_vars(Exit(r)) /\ WF_vars(r \in cancelled /\ RunTask(r))

FairSpec == Spec /\ Fairness
-----------------------------------------------------------------------------
\* Runs of plugin n that nobody has stopped.
Wanted(n) == RunsOf(n) \ cancelled

\* An earlier run of r's plugin was still there when r was started, and has cleaned up
\* since: it may have deleted the entry of r.
Overtaken(r) == \E e \in late[r] : place[e] = "gone"

\* A stored cancel function is that of a goroutine of this plugin which has not
\* ended and which nobody has stopped: StopTaskPlugin never cancels a ghost, and
\* a task whose plugin has returned by itself is not reported for ever.
StoredRunIsWanted ==
  \A n \in Names : taskCancels[n] # None => taskCancels[n] \in Wanted(n)

\* The late clean-ups (manager.go:797) are the only way to lose a run: one that nobody
\* has stopped and whose cancel function the manager does not hold was started before
\* an earlier run of the plugin had ended, and that one has cleaned up since.
LostOnlyByLateCleanUp ==
  \A n \in Names : \A r \in Wanted(n) : taskCancels[n] = r \/ Overtaken(r)

\* While a task is shown as failed the manager holds no run of it, and those that go
\* on all the same are lost ones, whichever of its goroutines cleans up last.
FailedIsNotHeld ==
  \A n \in taskErrors : taskCancels[n] = None /\ \A r \in Wanted(n) : Overtaken(r)

\* An error shown for a task is that of a run which nobody had stopped: stopping
\* a plugin that answers the cancellation with an error leaves no error behind.
ErrorIsFromUnstoppedRun ==
  \A n \in taskErrors : \E r \in Runs \ cancelled : plugin[r] = n /\ place[r] = "gone"

\* The error a list shows is one that still matters (manager.go:793).
ErrorsAreCurrent == FailedIsNotHeld /\ ErrorIsFromUnstoppedRun

\* A run the manager has let go of comes to its end, also one whose entry a late
\* clean-up deletes once it has been stopped.
DismissedRunEnds ==
  \A r \in Runs :
    (r \in Live /\ taskCancels[plugin[r]] # r /\ (Overtaken(r) => r \in cancelled))
      ~> place[r] = "gone"

\* IsTaskPluginRunning (manager.go:822): whether the task plugin is running.  A
\* plugin with a run that nobody has stopped is reported as running.
RunningIsReported ==
  \A n \in Names : (\E r \in Wanted(n) : place[r] = "running") => taskCancels[n] # None
=============================================================================
