------------------------------ MODULE Mockers ------------------------------
(***************************************************************************)
(* The mockers of app/api/mocker.go: rows that ask for a message to be     *)
(* published at an interval, and a goroutine with a ticker for each that   *)
(* is enabled.  mockerMu guards the map of the running ones.  A handler    *)
(* reads or writes the row and starts or stops the timer afterwards,       *)
(* holding no lock in between, and a timer reads its row on each tick.     *)
(* Publishing is one step: MessageQueue shows that Publish returns.        *)
(***************************************************************************)
EXTENDS Naturals, Sequences

CONSTANTS
  Mockers,            \* ids of rows
  Timers,             \* goroutines of startMockerRunner; each call makes a fresh one
  Intervals,          \* values of a row's interval
  MockerRequests,     \* goroutines that serve a request at a time
  MaxMockerRequests,  \* bound: requests made
  NoMocker, NoTimer

ASSUME MockersAssumption ==
  /\ NoMocker \notin Mockers /\ NoTimer \notin Timers
  /\ Intervals \subseteq Nat /\ Intervals # {}
  /\ MaxMockerRequests \in Nat

VARIABLES
  mockerRows,     \* the table; the rows of "unissued" ids have not been inserted yet
  mockerRunners,  \* the map: id -> its timer
  timers,         \* what each was started for, its interval, and where it stands
  stopped,        \* timers whose stop channel is closed
  toLoad,         \* ids LoadMockers has still to start
  mockerTodo,     \* steps the handler of a request has still to make
  mockerMade,     \* number of requests so far
  clashed,        \* history: ids that two requests were about at once
  dbFailed        \* history: ids for which a statement has failed

runnerVars == <<mockerRunners, timers, stopped>>
handlerVars == <<toLoad, mockerTodo, mockerMade, clashed>>
mockerVars == <<mockerRows, runnerVars, handlerVars, dbFailed>>

MockerRow == [state : {"unissued", "present", "deleted"}, enable : BOOLEAN, interval : Intervals]

AnInterval == CHOOSE i \in Intervals : TRUE

NoRow == [state |-> "unissued", enable |-> FALSE, interval |-> AnInterval]

Timer == [of : Mockers \cup {NoMocker}, interval : Intervals,
          place : {"unused", "select", "publish", "returned"}]

\* A step of a handler, with the interval of the row it has parsed or read before.
MockerStep ==
  [call : {"enable", "disable", "start", "stop", "delete"}, id : Mockers, interval : Intervals]

MockersTypeOK ==
  /\ mockerRows \in [Mockers -> MockerRow]
  /\ mockerRunners \in [Mockers -> Timers \cup {NoTimer}]
  /\ timers \in [Timers -> Timer]
  /\ \A t \in Timers : timers[t].place # "unused" => timers[t].of # NoMocker
  /\ stopped \subseteq Timers
  /\ toLoad \subseteq Mockers /\ clashed \subseteq Mockers /\ dbFailed \subseteq Mockers
  /\ mockerTodo \in [MockerRequests -> Seq(MockerStep)]
  /\ mockerMade \in 0 .. MaxMockerRequests

Enabled(id) == mockerRows[id].state = "present" /\ mockerRows[id].enable

Alive(t) == timers[t].place \in {"select", "publish"}

MockersInit ==
  /\ mockerRows \in [Mockers -> {NoRow} \cup {r \in MockerRow : r.state = "present"}]
  /\ mockerRunners = [id \in Mockers |-> NoTimer]
  /\ timers = [t \in Timers |-> [of |-> NoMocker, interval |-> AnInterval, place |-> "unused"]]
  /\ stopped = {}
  /\ toLoad = {id \in Mockers : Enabled(id)}
  /\ mockerTodo = [q \in MockerRequests |-> <<>>]
  /\ mockerMade = 0
  /\ clashed = {} /\ dbFailed = {}
-----------------------------------------------------------------------------
\* Under mockerMu: the goroutine in the map, if any, is told to stop, and its entry
\* is removed.
stopMockerRunner(id) ==
  /\ stopped' = stopped \cup ({mockerRunners[id]} \ {NoTimer})
  /\ mockerRunners' = [mockerRunners EXCEPT ![id] = NoTimer]
  /\ UNCHANGED timers

\* Mutant: the timer that runs already is not stopped.
startMockerRunner_Keep(id, interval) ==
  \E t \in Timers :
    /\ timers[t].place = "unused"
    /\ mockerRunners' = [mockerRunners EXCEPT ![id] = t]
    /\ timers' = [timers EXCEPT ![t] = [of |-> id, interval |-> interval, place |-> "select"]]
    /\ UNCHANGED stopped

\* Under mockerMu: as stopMockerRunner, and a new one unless the interval is zero.
startMockerRunner(id, interval) ==
  \/ interval = 0 /\ stopMockerRunner(id)
  \/ /\ interval > 0
     /\ stopped' = stopped \cup ({mockerRunners[id]} \ {NoTimer})
     /\ \E t \in Timers :
          /\ timers[t].place = "unused"
          /\ mockerRunners' = [mockerRunners EXCEPT ![id] = t]
          /\ timers' = [timers EXCEPT ![t] = [of |-> id, interval |-> interval, place |-> "select"]]

\* LoadMockers, before requests are served.
LoadMocker(id) ==
  /\ id \in toLoad
  /\ startMockerRunner(id, mockerRows[id].interval)
  /\ toLoad' = toLoad \ {id}
  /\ UNCHANGED <<mockerRows, mockerTodo, mockerMade, clashed, dbFailed>>

\* The goroutine goes from one of its places to another.
Moves(t, from, to) ==
  /\ timers[t].place = from
  /\ timers' = [timers EXCEPT ![t].place = to]
  /\ UNCHANGED <<mockerRows, mockerRunners, stopped, handlerVars>>

\* Mutant: the goroutine looks for its entry in the map only.
TimerStops_Unmapped(t) ==
  /\ t \in stopped
  /\ \A id \in Mockers : mockerRunners[id] = NoTimer
  /\ Moves(t, "select", "returned")
  /\ UNCHANGED dbFailed

\* `case <-stop`.
TimerStops(t) == t \in stopped /\ Moves(t, "select", "returned") /\ UNCHANGED dbFailed

\* `case <-ticker.C`, which the select may prefer to a closed stop: the row is read
\* again, and one that is gone or disabled ends the goroutine, not its entry.
TimerTicks(t) ==
  /\ Moves(t, "select", IF Enabled(timers[t].of) THEN "publish" ELSE "returned")
  /\ UNCHANGED dbFailed

TimerReadFails(t) == Moves(t, "select", "returned") /\ dbFailed' = dbFailed \cup {timers[t].of}

publishMocker(t) == Moves(t, "publish", "select") /\ UNCHANGED dbFailed
-----------------------------------------------------------------------------
S(call, id, interval) == [call |-> call, id |-> id, interval |-> interval]

\* Requests that have still something to do about id.
About(id) == {q \in MockerRequests : \E i \in DOMAIN mockerTodo[q] : mockerTodo[q][i].id = id}

BeginMocker(q, id, steps) ==
  /\ toLoad = {} /\ mockerTodo[q] = <<>>
  /\ mockerMade < MaxMockerRequests
  /\ mockerMade' = mockerMade + 1
  /\ mockerTodo' = [mockerTodo EXCEPT ![q] = steps]
  /\ clashed' = IF About(id) = {} THEN clashed ELSE clashed \cup {id}
  /\ UNCHANGED <<runnerVars, toLoad, dbFailed>>

StartIf(enable, id, interval) == IF enable THEN <<S("start", id, interval)>> ELSE <<>>

\* The row is inserted before the timer is started.
CreateMocker(q, id, enable, interval) ==
  /\ mockerRows[id].state = "unissued"
  /\ BeginMocker(q, id, StartIf(enable, id, interval))
  /\ mockerRows' = [mockerRows EXCEPT ![id] =
                      [state |-> "present", enable |-> enable, interval |-> interval]]

\* All columns are written; without a row the statement changes nothing, and the
\* timer is started all the same.
UpdateMocker(q, id, enable, interval) ==
  /\ mockerRows[id].state # "unissued"
  /\ BeginMocker(q, id, <<S("stop", id, interval)>> \o StartIf(enable, id, interval))
  /\ mockerRows' = IF mockerRows[id].state = "deleted" THEN mockerRows
                   ELSE [mockerRows EXCEPT ![id].enable = enable, ![id].interval = interval]

\* The timer is stopped before the row is deleted.
DeleteMocker(q, id) ==
  /\ mockerRows[id].state # "unissued"
  /\ LET i == mockerRows[id].interval
     IN  BeginMocker(q, id, <<S("stop", id, i), S("delete", id, i)>>)
  /\ UNCHANGED mockerRows

\* The row is read first; its enable column is written and its timer started.
EnableMocker(q, id) ==
  /\ mockerRows[id].state = "present"
  /\ LET i == mockerRows[id].interval
     IN  BeginMocker(q, id, <<S("enable", id, i), S("start", id, i)>>)
  /\ UNCHANGED mockerRows

DisableMocker_RowOnly(q, id) ==   \* mutant: the timer finds out by itself
  /\ mockerRows[id].state = "present"
  /\ BeginMocker(q, id, <<S("disable", id, mockerRows[id].interval)>>)
  /\ UNCHANGED mockerRows

DisableMocker(q, id) ==
  /\ mockerRows[id].state = "present"
  /\ LET i == mockerRows[id].interval
     IN  BeginMocker(q, id, <<S("disable", id, i), S("stop", id, i)>>)
  /\ UNCHANGED mockerRows

\* The next step of q is `call` about id.
Does(q, call, id) ==
  /\ mockerTodo[q] # <<>>
  /\ Head(mockerTodo[q]).call = call /\ Head(mockerTodo[q]).id = id
  /\ mockerTodo' = [mockerTodo EXCEPT ![q] = Tail(@)]
  /\ UNCHANGED <<toLoad, mockerMade, clashed>>

WriteMockerEnable(q, id, enable) ==
  /\ Does(q, IF enable THEN "enable" ELSE "disable", id)
  /\ mockerRows' = [mockerRows EXCEPT ![id].enable = enable]
  /\ UNCHANGED <<runnerVars, dbFailed>>

DeleteRow(q, id) ==
  /\ Does(q, "delete", id)
  /\ mockerRows' = [mockerRows EXCEPT ![id].state = "deleted"]
  /\ UNCHANGED <<runnerVars, dbFailed>>

StartTimer(q, id) ==
  Does(q, "start", id) /\ startMockerRunner(id, Head(mockerTodo[q]).interval)
    /\ UNCHANGED <<mockerRows, dbFailed>>

StopTimer(q, id) ==
  Does(q, "stop", id) /\ stopMockerRunner(id) /\ UNCHANGED <<mockerRows, dbFailed>>

\* The statement fails, and the handler returns with the error.
StatementFails(q, id) ==
  /\ mockerTodo[q] # <<>>
  /\ Head(mockerTodo[q]).call \in {"enable", "disable", "delete"}
  /\ Head(mockerTodo[q]).id = id
  /\ mockerTodo' = [mockerTodo EXCEPT ![q] = <<>>]
  /\ dbFailed' = dbFailed \cup {id}
  /\ UNCHANGED <<mockerRows, runnerVars, toLoad, mockerMade, clashed>>

MockerRequest(q, id) ==
  \/ \E enable \in BOOLEAN, i \in Intervals :
       CreateMocker(q, id, enable, i) \/ UpdateMocker(q, id, enable, i)
  \/ DeleteMocker(q, id) \/ EnableMocker(q, id) \/ DisableMocker(q, id)
  \/ \E enable \in BOOLEAN : WriteMockerEnable(q, id, enable)
  \/ DeleteRow(q, id) \/ StartTimer(q, id) \/ StopTimer(q, id) \/ StatementFails(q, id)

TimerStep(t) == TimerStops(t) \/ TimerTicks(t) \/ TimerReadFails(t) \/ publishMocker(t)

MockersNext ==
  \/ \E id \in Mockers : LoadMocker(id) \/ \E q \in MockerRequests : MockerRequest(q, id)
  \/ \E t \in Timers : TimerStep(t)

MockersSpec == MockersInit /\ [][MockersNext]_mockerVars

\* Publish returns; a select that finds both its channels ready again and again
\* takes each of them some time, for it chooses at random.
TimerFairness ==
  \A t \in Timers : WF_mockerVars(publishMocker(t)) /\ SF_mockerVars(TimerStops(t))
-----------------------------------------------------------------------------
\* The stop channel of a goroutine that has not been told to stop is in the map
\* under its id: an id has one such goroutine at most, and a stop reaches it.  No
\* entry has a closed channel, for closing it again would panic (mocker.go:43, :77).
OneTimerPerMocker ==
  /\ \A t \in Timers : Alive(t) /\ t \notin stopped => mockerRunners[timers[t].of] = t
  /\ \A id \in Mockers : mockerRunners[id] \notin stopped

\* When no request is under way about an id, no two have clashed and no statement
\* has failed, an enabled mocker has a timer at the interval of its row, and one
\* that is disabled has none that another request could make tick again.
TimersMatchRows ==
  \A id \in Mockers \ (clashed \cup dbFailed \cup toLoad) :
    About(id) = {} =>
      IF Enabled(id) /\ mockerRows[id].interval > 0
      THEN \E t \in Timers \ stopped :
             mockerRunners[id] = t /\ Alive(t) /\ timers[t].interval = mockerRows[id].interval
      ELSE mockerRows[id].state = "present" => mockerRunners[id] = NoTimer

\* A timer that was stopped ends, although its row may be enabled again and its
\* ticker be ready whenever it looks (mocker.go:55).
StoppedTimerEnds == \A t \in Timers : t \in stopped ~> timers[t].place = "returned"
=============================================================================
