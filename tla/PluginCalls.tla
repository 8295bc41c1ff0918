---------------------------- MODULE PluginCalls ----------------------------
(***************************************************************************)
(* Calls of user code by processors and dispatchers: internal/plugin's     *)
(* InvokeDecode, InvokeProcess and InvokePush, which lock the plugin, and  *)
(* the script calls of internal/script and internal/decode, which lock     *)
(* nothing but the compilation.  All but InvokePush hand the work to a     *)
(* goroutine and wait for its answer no longer than a timeout; nothing can *)
(* stop the goroutine, which goes on when the caller has left.             *)
(*                                                                         *)
(* There is one plugin and one script here: calls of different ones share  *)
(* nothing.  A panic of user code is an error like others.                 *)
(***************************************************************************)
CONSTANTS Invocations, NoCall

ASSUME CallsAssumption == NoCall \notin Invocations

VARIABLES
  kind,      \* what each call is: "timed" or "push" of the plugin, or of the "script"
  caller,    \* where its caller stands: "idle", at the "lock", in the "select", "inside"
             \* the plugin, "returned"
  worker,    \* its goroutine: "none", "inside" user code, "answered", "done"
  holder,    \* Plugin.Mu
  compiled,  \* ScriptProcessor.compiled
  answers    \* the calls whose channel (ch, errCh, resCh), of one slot, is full

callVars == <<kind, caller, worker, holder, compiled, answers>>

CallsTypeOK ==
  /\ kind \in [Invocations -> {"timed", "push", "script"}]
  /\ caller \in [Invocations -> {"idle", "lock", "select", "inside", "returned"}]
  /\ worker \in [Invocations -> {"none", "inside", "answered", "done"}]
  /\ holder \in Invocations \cup {NoCall}
  /\ compiled \in BOOLEAN
  /\ answers \subseteq Invocations

CallsInit ==
  /\ kind \in [Invocations -> {"timed", "push", "script"}]
  /\ caller = [c \in Invocations |-> "idle"]
  /\ worker = [c \in Invocations |-> "none"]
  /\ holder = NoCall
  /\ compiled = FALSE
  /\ answers = {}

Invoke(c) ==
  /\ caller[c] = "idle"
  /\ caller' = [caller EXCEPT ![c] = "lock"]
  /\ UNCHANGED <<kind, worker, holder, compiled, answers>>

\* p.Mu.Lock, outside of what the timeout covers.
InvokeProcess(c) ==
  /\ kind[c] = "timed" /\ caller[c] = "lock" /\ holder = NoCall
  /\ holder' = c
  /\ caller' = [caller EXCEPT ![c] = "select"]
  /\ worker' = [worker EXCEPT ![c] = "inside"]
  /\ UNCHANGED <<kind, compiled, answers>>

\* The caller itself is in the plugin; its timeout is a context the plugin may heed.
InvokePush(c) ==
  /\ kind[c] = "push" /\ caller[c] = "lock" /\ holder = NoCall
  /\ holder' = c
  /\ caller' = [caller EXCEPT ![c] = "inside"]
  /\ UNCHANGED <<kind, worker, compiled, answers>>

\* compile, under a lock that is not kept, and the goroutine; a script that does not
\* compile is an error each time.
CallScript(c) ==
  /\ kind[c] = "script" /\ caller[c] = "lock"
  /\ \/ /\ ~compiled
        /\ caller' = [caller EXCEPT ![c] = "returned"]
        /\ UNCHANGED <<worker, compiled>>
     \/ /\ compiled' = TRUE
        /\ caller' = [caller EXCEPT ![c] = "select"]
        /\ worker' = [worker EXCEPT ![c] = "inside"]
  /\ UNCHANGED <<kind, holder, answers>>

\* Mutant: the channel has no slot, so that an answer waits for the caller to take it.
Answer_Unbuffered(c) ==
  /\ worker[c] = "inside"
  /\ caller[c] = "select"
  /\ answers' = answers \cup {c}
  /\ worker' = [worker EXCEPT ![c] = "answered"]
  /\ UNCHANGED <<kind, caller, holder, compiled>>

\* User code returns and its answer is put into the slot.
Answer(c) ==
  /\ worker[c] = "inside"
  /\ c \notin answers
  /\ answers' = answers \cup {c}
  /\ worker' = [worker EXCEPT ![c] = "answered"]
  /\ UNCHANGED <<kind, caller, holder, compiled>>

\* The deferred Unlock of the goroutine.
GoroutineEnds(c) ==
  /\ worker[c] = "answered"
  /\ worker' = [worker EXCEPT ![c] = "done"]
  /\ holder' = IF kind[c] = "timed" THEN NoCall ELSE holder
  /\ UNCHANGED <<kind, caller, compiled, answers>>

Returns(c) == caller' = [caller EXCEPT ![c] = "returned"]

TakeAnswer(c) ==
  /\ caller[c] = "select" /\ c \in answers
  /\ Returns(c)
  /\ answers' = answers \ {c}
  /\ UNCHANGED <<kind, worker, holder, compiled>>

\* Mutant: the caller unlocks the plugin when it gives up.
TimesOut_Unlock(c) ==
  /\ caller[c] = "select"
  /\ Returns(c)
  /\ holder' = IF holder = c THEN NoCall ELSE holder
  /\ UNCHANGED <<kind, worker, compiled, answers>>

\* The timer, or the end of the caller's context.
TimesOut(c) ==
  /\ caller[c] = "select"
  /\ Returns(c)
  /\ UNCHANGED <<kind, worker, holder, compiled, answers>>

PushReturns(c) ==
  /\ caller[c] = "inside"
  /\ Returns(c)
  /\ holder' = NoCall
  /\ UNCHANGED <<kind, worker, compiled, answers>>

CallerStep(c) ==
  InvokeProcess(c) \/ InvokePush(c) \/ CallScript(c) \/ TakeAnswer(c) \/ TimesOut(c)

CallsNext ==
  \E c \in Invocations :
    Invoke(c) \/ CallerStep(c) \/ Answer(c) \/ GoroutineEnds(c) \/ PushReturns(c)

CallsSpec == CallsInit /\ [][CallsNext]_callVars

\* Callers and goroutines run on, and timers fire; user code may never return.
CallsFairness ==
  \A c \in Invocations : WF_callVars(CallerStep(c)) /\ WF_callVars(GoroutineEnds(c))
-----------------------------------------------------------------------------
\* Calls that are inside the plugin.
InPlugin == {c \in Invocations : (kind[c] = "timed" /\ worker[c] = "inside") \/ caller[c] = "inside"}

\* The plugin runs one call at a time, although the callers of earlier ones may have
\* given up while they ran.
PluginRunsOneCall == \A c, d \in InPlugin : c = d

\* A caller that waits for an answer gets one or gives up, whatever user code does;
\* and if user code returns in the end, late answers included, one that waits for the
\* plugin gets it: a call that has timed out blocks the plugin no longer than it runs.
CallsReturn ==
  /\ \A c \in Invocations : caller[c] = "select" ~> caller[c] = "returned"
  /\ (\A c \in Invocations : WF_callVars(Answer(c)) /\ WF_callVars(PushReturns(c)))
       => \A c \in Invocations : caller[c] = "lock" ~> caller[c] = "returned"
=============================================================================
