---------------------------- MODULE Connections ----------------------------
(***************************************************************************)
(* Connections and their parents: app/api/listener.go and hotreload.go     *)
(* write the tables listener_parent and listener_conn and then call the    *)
(* manager, which starts and stops under m.mu.  As in Dispatchers, a       *)
(* request is the sequence of steps it has still to take, and requests     *)
(* interleave.  A connection of its own has a listener and a goroutine     *)
(* that reads it; a child is registered with its parent (an HTTP server    *)
(* or an MQTT client), except for scripts, which read for themselves.      *)
(***************************************************************************)
EXTENDS Integers, Sequences, FiniteSets

CONSTANTS
  Conns,       \* primary keys of listener_conn
  Parents,     \* primary keys of listener_parent
  ParentType,  \* parent -> "http_server" or "mqtt_client"
  Configs,     \* contents of a row of listener_conn, the enable column apart:
               \* [type, parent (or None), out (whether there is an OutTopic)]
  Requests,    \* HTTP handlers that run at the same time
  Sessions,    \* successful calls of StartConn; each takes a fresh one
  MaxRequests, \* bound: handlers called in a behaviour
  Capacity,    \* of the listener's msgCh
  Blank,       \* a framing state made by a start that has failed
  None

ASSUME NoneAssumption ==
  /\ {None, Blank} \cap (Conns \cup Parents \cup Configs \cup Sessions) = {}
  /\ None \notin [conn : Conns, config : Configs] \cup [Conns -> Sessions \cup {None}]
  /\ None # Blank /\ Conns \cap Parents = {}
ASSUME KeysAssumption == IsFiniteSet(Conns) /\ IsFiniteSet(Parents)  \* 64-bit numbers
ASSUME ParentTypeAssumption == ParentType \in [Parents -> {"http_server", "mqtt_client"}]
ASSUME ConfigsAssumption ==
  \A cfg \in Configs : /\ cfg.parent \in Parents \cup {None}
                       /\ cfg.out \in BOOLEAN
ASSUME BoundsAssumption == Capacity \in Nat \ {0} /\ MaxRequests \in Nat

VARIABLES
  connRow,    \* conn -> [enable, config], or None
  parentRow,  \* parent -> "none", "enabled" or "disabled"
  issued,     \* keys handed out so far
  begun,      \* number of handlers called so far
  todo,       \* request -> its steps left, each [call, id, config]
  overlapped, \* history: conns that two requests were about at once
  moved,      \* history: conns whose row was given another parent
  parents,    \* m.parents: parent -> its routes and topics (conn -> session), or None
  listeners,  \* m.listeners: conn -> session
  cancels,    \* m.cancels: conn -> session whose context it cancels
  framing,    \* m.framing: conn -> the session it was made for
  connErrors, \* keys of m.connErrors
  started,    \* session -> [conn, config] it was started for, or None
  cancelled,  \* sessions whose context is cancelled
  closed,     \* sessions whose listener is closed
  inbox,      \* chunks a session's listener has read, in its msgCh or on their way to it
  reader,     \* read loop: "none", "reading", "holding" a chunk, "gone"
  writer      \* write loop of the OutTopic: "none", "selecting", "writing", "gone"

rowVars == <<connRow, parentRow, issued, moved>>
mapVars == <<parents, listeners, cancels, framing, connErrors>>
sessionVars == <<started, cancelled, closed, inbox, reader, writer>>
vars == <<rowVars, begun, todo, overlapped, mapVars, sessionVars>>

OrNone(S) == S \cup {None}
Row == [enable : BOOLEAN, config : Configs]
Call == [call : {"write_conn", "stop_conn", "start_conn", "delete_conn", "write_parent",
                 "stop_parent", "start_parent", "delete_children", "delete_parent",
                 "stop_all", "list_parents", "list_conns"},
         id : OrNone(Conns \cup Parents), config : OrNone(Configs)]

TypeOK ==
  /\ connRow \in [Conns -> OrNone(Row)]
  /\ parentRow \in [Parents -> {"none", "enabled", "disabled"}]
  /\ issued \subseteq Conns \cup Parents
  /\ begun \in 0 .. MaxRequests
  /\ todo \in [Requests -> Seq(Call)]
  /\ overlapped \subseteq Conns /\ moved \subseteq Conns
  /\ parents \in [Parents -> OrNone([Conns -> OrNone(Sessions)])]
  /\ listeners \in [Conns -> OrNone(Sessions)]
  /\ cancels \in [Conns -> OrNone(Sessions)]
  /\ framing \in [Conns -> OrNone(Sessions) \cup {Blank}]
  /\ connErrors \subseteq Conns
  /\ started \in [Sessions -> OrNone([conn : Conns, config : Configs])]
  /\ cancelled \subseteq Sessions /\ closed \subseteq Sessions
  /\ inbox \in [Sessions -> 0 .. Capacity]
  /\ reader \in [Sessions -> {"none", "reading", "holding", "gone"}]
  /\ writer \in [Sessions -> {"none", "selecting", "writing", "gone"}]

C(name, id, cfg) == [call |-> name, id |-> id, config |-> cfg]

\* The part of Manager.Start that concerns connections and parents.
Start == <<C("list_parents", None, None), C("list_conns", None, None)>>

\* The program comes up with the tables an earlier run has left.
Init ==
  /\ connRow \in [Conns -> OrNone(Row)]
  /\ parentRow \in [Parents -> {"none", "enabled", "disabled"}]
  /\ issued = {c \in Conns : connRow[c] # None} \cup {p \in Parents : parentRow[p] # "none"}
  /\ begun = 0
  /\ \E r \in Requests : /\ r = CHOOSE q \in Requests : TRUE
                       /\ todo = [q \in Requests |-> IF q = r THEN Start ELSE <<>>]
  /\ overlapped = {} /\ moved = {}
  /\ parents = [p \in Parents |-> None]
  /\ listeners = [c \in Conns |-> None]
  /\ cancels = [c \in Conns |-> None]
  /\ framing = [c \in Conns |-> None]
  /\ connErrors = {}
  /\ started = [s \in Sessions |-> None]
  /\ cancelled = {} /\ closed = {}
  /\ inbox = [s \in Sessions |-> 0]
  /\ reader = [s \in Sessions |-> "none"]
  /\ writer = [s \in Sessions |-> "none"]
-----------------------------------------------------------------------------
\* Requests

\* The connections that calls are about; a call about a parent may be about any.
Concerned(calls) ==
  {c \in Conns : \E k \in DOMAIN calls : calls[k].id \in {c, None} \cup Parents}

\* Requests are alike: which of the idle ones takes the call makes no difference.
Idle == {r \in Requests : todo[r] = <<>>}

Begin(r, calls) ==
  /\ Idle # {} /\ r = CHOOSE q \in Idle : TRUE
  /\ begun = 0 => Idle = Requests  \* main serves requests once Start has returned
  /\ begun < MaxRequests
  /\ begun' = begun + 1
  /\ overlapped' = overlapped \cup
       (Concerned(calls) \cap UNION {Concerned(todo[q]) : q \in Requests})
  /\ todo' = [todo EXCEPT ![r] = calls]
  /\ UNCHANGED <<mapVars, sessionVars>>

If(enable, call) == IF enable THEN <<call>> ELSE <<>>

CreateConn(r, c, enable, cfg) ==
  /\ c \notin issued
  /\ issued' = issued \cup {c}
  /\ connRow' = [connRow EXCEPT ![c] = [enable |-> enable, config |-> cfg]]
  /\ Begin(r, If(enable, C("start_conn", c, cfg)))
  /\ UNCHANGED <<parentRow, moved>>

\* The UPDATE touches no row when there is none; the manager is called all the same.
UpdateConn(r, c, enable, cfg) ==
  /\ c \in issued
  /\ connRow' = [connRow EXCEPT ![c] = IF @ = None THEN None ELSE [enable |-> enable, config |-> cfg]]
  /\ moved' = IF connRow[c] = None \/ connRow[c].config.parent = cfg.parent THEN moved
              ELSE moved \cup {c}
  /\ Begin(r, <<C("stop_conn", c, None)>> \o If(enable, C("start_conn", c, cfg)))
  /\ UNCHANGED <<parentRow, issued>>

\* The row is read first; its enable column is written and the connection started
\* from what was read.
EnableConn(r, c) ==
  /\ connRow[c] # None
  /\ Begin(r, <<C("write_conn", c, None), C("start_conn", c, connRow[c].config)>>)
  /\ UNCHANGED rowVars

DisableConn(r, c) ==
  /\ c \in issued
  /\ connRow' = [connRow EXCEPT ![c] = IF @ = None THEN None ELSE [@ EXCEPT !.enable = FALSE]]
  /\ Begin(r, <<C("stop_conn", c, None)>>)
  /\ UNCHANGED <<parentRow, issued, moved>>

DeleteConn(r, c) ==
  /\ c \in issued
  /\ Begin(r, <<C("stop_conn", c, None), C("delete_conn", c, None)>>)
  /\ UNCHANGED rowVars

ReloadConn(r, c) ==
  /\ connRow[c] # None
  /\ Begin(r, <<C("stop_conn", c, None)>>
                \o If(connRow[c].enable, C("start_conn", c, connRow[c].config)))
  /\ UNCHANGED rowVars

Column(enable) == IF enable THEN "enabled" ELSE "disabled"
WithColumn(p, enable) ==
  [parentRow EXCEPT ![p] = IF @ = "none" THEN "none" ELSE Column(enable)]

CreateParent(r, p, enable) ==
  /\ p \notin issued
  /\ issued' = issued \cup {p}
  /\ parentRow' = [parentRow EXCEPT ![p] = Column(enable)]
  /\ Begin(r, If(enable, C("start_parent", p, None)))
  /\ UNCHANGED <<connRow, moved>>

UpdateParent(r, p, enable) ==
  /\ p \in issued
  /\ parentRow' = WithColumn(p, enable)
  /\ Begin(r, <<C("stop_parent", p, None)>> \o If(enable, C("start_parent", p, None)))
  /\ UNCHANGED <<connRow, issued, moved>>

EnableParent(r, p) ==
  /\ parentRow[p] # "none"
  /\ Begin(r, <<C("write_parent", p, None), C("start_parent", p, None)>>)
  /\ UNCHANGED rowVars

DisableParent(r, p) ==
  /\ p \in issued
  /\ parentRow' = WithColumn(p, FALSE)
  /\ Begin(r, <<C("stop_parent", p, None)>>)
  /\ UNCHANGED <<connRow, issued, moved>>

DeleteParent(r, p) ==
  /\ p \in issued
  /\ Begin(r, <<C("stop_parent", p, None), C("delete_children", p, None),
                C("delete_parent", p, None)>>)
  /\ UNCHANGED rowVars

ReloadParent(r, p) ==
  /\ parentRow[p] # "none"
  /\ Begin(r, <<C("stop_parent", p, None)>>
                \o If(parentRow[p] = "enabled", C("start_parent", p, None)))
  /\ UNCHANGED rowVars

ReloadAll(r) ==
  /\ Begin(r, <<C("stop_all", None, None)>> \o Start)
  /\ UNCHANGED rowVars
-----------------------------------------------------------------------------
\* Steps of requests

\* `call` is next in request r and is made; `more` calls are put in its place.
Makes(r, call, more) ==
  /\ todo[r] # <<>>
  /\ Head(todo[r]) = call
  /\ todo' = [todo EXCEPT ![r] = more \o Tail(@)]
  /\ UNCHANGED <<begun, overlapped>>

Statement(r, call) == Makes(r, call, <<>>) /\ UNCHANGED <<issued, moved, mapVars, sessionVars>>

WriteConn(r, c) ==
  /\ Statement(r, C("write_conn", c, None))
  /\ connRow' = [connRow EXCEPT ![c] = IF @ = None THEN None ELSE [@ EXCEPT !.enable = TRUE]]
  /\ UNCHANGED parentRow

DeleteConnRow(r, c) ==
  /\ Statement(r, C("delete_conn", c, None))
  /\ connRow' = [connRow EXCEPT ![c] = None]
  /\ UNCHANGED parentRow

WriteParent(r, p) ==
  /\ Statement(r, C("write_parent", p, None))
  /\ parentRow' = WithColumn(p, TRUE)
  /\ UNCHANGED connRow

\* Conns whose row names parent p.
ChildRows(p) == {c \in Conns : connRow[c] # None /\ connRow[c].config.parent = p}

DeleteChildRows(r, p) ==
  /\ Statement(r, C("delete_children", p, None))
  /\ connRow' = [c \in Conns |-> IF c \in ChildRows(p) THEN None ELSE connRow[c]]
  /\ UNCHANGED parentRow

DeleteParentRow(r, p) ==
  /\ Statement(r, C("delete_parent", p, None))
  /\ parentRow' = [parentRow EXCEPT ![p] = "none"]
  /\ UNCHANGED connRow

\* All orders of the members of S.
Orders(S) == {order \in [1 .. Cardinality(S) -> S] : \A x \in S : \E k \in DOMAIN order : order[k] = x}

startParents(r) ==
  /\ \E order \in Orders({p \in Parents : parentRow[p] = "enabled"}) :
       Makes(r, C("list_parents", None, None),
             [k \in DOMAIN order |-> C("start_parent", order[k], None)])
  /\ UNCHANGED <<rowVars, mapVars, sessionVars>>

startConns(r) ==
  /\ \E order \in Orders({c \in Conns : connRow[c] # None /\ connRow[c].enable}) :
       Makes(r, C("list_conns", None, None),
             [k \in DOMAIN order |-> C("start_conn", order[k], connRow[order[k]].config)])
  /\ UNCHANGED <<rowVars, mapVars, sessionVars>>
-----------------------------------------------------------------------------
\* Manager

\* Nothing when the parent runs already, its port is taken or its broker away.
SkipParent(r, p) ==
  /\ Makes(r, C("start_parent", p, None), <<>>)
  /\ UNCHANGED <<rowVars, mapVars, sessionVars>>

StartParent(r, p) ==
  /\ Makes(r, C("start_parent", p, None), <<>>)
  /\ parents[p] = None
  /\ parents' = [parents EXCEPT ![p] = [c \in Conns |-> None]]
  /\ UNCHANGED <<rowVars, listeners, cancels, framing, connErrors, sessionVars>>

\* Mutant: the listener is closed and its context left as it is.
Release_CloseOnly(S) ==
  /\ closed' = closed \cup ({listeners[c] : c \in S} \ {None})
  /\ cancels' = [c \in Conns |-> IF c \in S THEN None ELSE cancels[c]]
  /\ listeners' = [c \in Conns |-> IF c \in S THEN None ELSE listeners[c]]
  /\ framing' = [c \in Conns |-> IF c \in S THEN None ELSE framing[c]]
  /\ UNCHANGED <<cancelled, started, inbox, reader, writer>>

\* Contexts are cancelled, listeners closed and map entries deleted for the conns of
\* S.  Nothing cancels their subscriptions.
Release(S) ==
  /\ cancelled' = cancelled \cup ({cancels[c] : c \in S} \ {None})
  /\ closed' = closed \cup ({listeners[c] : c \in S} \ {None})
  /\ cancels' = [c \in Conns |-> IF c \in S THEN None ELSE cancels[c]]
  /\ listeners' = [c \in Conns |-> IF c \in S THEN None ELSE listeners[c]]
  /\ framing' = [c \in Conns |-> IF c \in S THEN None ELSE framing[c]]
  /\ UNCHANGED <<started, inbox, reader, writer>>

\* Mutant: the children go on without their parent.
StopParent_Alone(r, p) ==
  /\ Makes(r, C("stop_parent", p, None), <<>>)
  /\ parents' = [parents EXCEPT ![p] = None]
  /\ UNCHANGED <<rowVars, listeners, cancels, framing, connErrors, sessionVars>>

\* The children are those the table names.
StopParent(r, p) ==
  /\ Makes(r, C("stop_parent", p, None), <<>>)
  /\ parents' = [parents EXCEPT ![p] = None]
  /\ Release(ChildRows(p))
  /\ UNCHANGED <<rowVars, connErrors>>

\* Mutant: the route or topic stays with the parent.
StopConn_KeepRoute(r, c) ==
  /\ Makes(r, C("stop_conn", c, None), <<>>)
  /\ Release({c})
  /\ connErrors' = connErrors \ {c}
  /\ UNCHANGED <<rowVars, parents>>

\* The route or topic is deleted from the parent the row names at this time.
StopConn(r, c) ==
  /\ Makes(r, C("stop_conn", c, None), <<>>)
  /\ parents' = [p \in Parents |-> IF parents[p] # None /\ c \in ChildRows(p)
                                   THEN [parents[p] EXCEPT ![c] = None] ELSE parents[p]]
  /\ Release({c})
  /\ connErrors' = connErrors \ {c}
  /\ UNCHANGED rowVars

\* The part of Manager.StopAll that concerns connections and parents.
StopAll(r) ==
  /\ Makes(r, C("stop_all", None, None), <<>>)
  /\ parents' = [p \in Parents |-> None]
  /\ Release(Conns)
  /\ UNCHANGED <<rowVars, connErrors>>

\* The early returns of StartConn.
RunsAlready(c, cfg) == listeners[c] # None \/ (cancels[c] # None /\ cfg.parent # None)

\* Mutant: the framing state is made before it is known whether the connection runs.
SkipConn_Reset(r, c, cfg) ==
  /\ Makes(r, C("start_conn", c, cfg), <<>>)
  /\ RunsAlready(c, cfg)
  /\ framing' = [framing EXCEPT ![c] = Blank]
  /\ UNCHANGED <<rowVars, parents, listeners, cancels, connErrors, sessionVars>>

SkipConn(r, c, cfg) ==
  /\ Makes(r, C("start_conn", c, cfg), <<>>)
  /\ RunsAlready(c, cfg)
  /\ UNCHANGED <<rowVars, mapVars, sessionVars>>

\* The types createConnListener knows, and those a parent takes; standing for the
\* listeners without a parent (TCP, UDP, serial, plugin) is tcp_conn.
Supported(cfg) ==
  \/ cfg.parent = None /\ cfg.type \in {"tcp_conn", "script_conn"}
  \/ /\ cfg.parent # None
     /\ parents[cfg.parent] # None
     /\ \/ cfg.type = "script_conn"
        \/ cfg.type = "http_route" /\ ParentType[cfg.parent] = "http_server"
        \/ cfg.type = "mqtt_subscription" /\ ParentType[cfg.parent] = "mqtt_client"

\* Starting fails when it is not supported, a port is taken, a script does not
\* compile or the broker refuses.  Failures under a running parent leave no error.
FailConn(r, c, cfg) ==
  /\ Makes(r, C("start_conn", c, cfg), <<>>)
  /\ ~RunsAlready(c, cfg)
  /\ Supported(cfg) => cfg.type # "http_route"
  /\ framing' = [framing EXCEPT ![c] = Blank]
  /\ connErrors' = IF cfg.parent # None /\ parents[cfg.parent] # None
                   THEN connErrors \ {c} ELSE connErrors \cup {c}
  /\ UNCHANGED <<rowVars, parents, listeners, cancels, sessionVars>>

HasListener(cfg) == cfg.type \in {"tcp_conn", "script_conn"}

Fresh == {s \in Sessions : started[s] = None}

StartConn(r, c, cfg, s) ==
  /\ Makes(r, C("start_conn", c, cfg), <<>>)
  /\ ~RunsAlready(c, cfg)
  /\ Supported(cfg)
  /\ Fresh # {} /\ s = CHOOSE t \in Fresh : TRUE
  /\ started' = [started EXCEPT ![s] = [conn |-> c, config |-> cfg]]
  /\ framing' = [framing EXCEPT ![c] = s]
  /\ connErrors' = connErrors \ {c}
  /\ cancels' = [cancels EXCEPT ![c] = s]
  /\ IF HasListener(cfg)
     THEN /\ listeners' = [listeners EXCEPT ![c] = s]
          /\ reader' = [reader EXCEPT ![s] = "reading"]
          /\ UNCHANGED parents
     ELSE /\ parents' = [parents EXCEPT ![cfg.parent][c] = s]
          /\ UNCHANGED <<listeners, reader>>
  /\ IF cfg.out /\ cfg.type # "http_route"
     THEN writer' = [writer EXCEPT ![s] = "selecting"]
     ELSE UNCHANGED writer
  /\ UNCHANGED <<rowVars, cancelled, closed, inbox>>
-----------------------------------------------------------------------------
\* Goroutines of a session

\* The listener puts a chunk on msgCh, if there is room.
Arrive(s) ==
  /\ reader[s] \notin {"none", "gone"} /\ s \notin closed
  /\ inbox[s] < Capacity
  /\ inbox' = [inbox EXCEPT ![s] = @ + 1]
  /\ UNCHANGED <<rowVars, begun, todo, overlapped, mapVars, started, cancelled, closed, reader, writer>>

\* ReadMessage gives a chunk, also one left in a listener that is closed.
ReadMessage(s) ==
  /\ reader[s] = "reading" /\ inbox[s] > 0
  /\ inbox' = [inbox EXCEPT ![s] = @ - 1]
  /\ reader' = [reader EXCEPT ![s] = "holding"]
  /\ UNCHANGED <<rowVars, begun, todo, overlapped, mapVars, started, cancelled, closed, writer>>

\* The chunk is framed and published, with no regard to m.mu.
processAndPublish(s) ==
  /\ reader[s] = "holding"
  /\ reader' = [reader EXCEPT ![s] = "reading"]
  /\ UNCHANGED <<rowVars, begun, todo, overlapped, mapVars, started, cancelled, closed, inbox, writer>>

\* The listener's context is done; the loop is left only if that of the session is
\* cancelled, and goes round otherwise.
LeaveReadLoop(s) ==
  /\ reader[s] = "reading" /\ s \in cancelled
  /\ reader' = [reader EXCEPT ![s] = "gone"]
  /\ inbox' = [inbox EXCEPT ![s] = 0]  \* nobody will read what is left
  /\ UNCHANGED <<rowVars, begun, todo, overlapped, mapVars, started, cancelled, closed, writer>>

Writer(s, from, to) ==
  /\ writer[s] = from
  /\ writer' = [writer EXCEPT ![s] = to]
  /\ UNCHANGED <<rowVars, begun, todo, overlapped, mapVars, started, cancelled, closed, inbox, reader>>

\* A message of the OutTopic is there, and is taken, also when the context is done too:
\* select takes either.
TakeOutgoing(s) == Writer(s, "selecting", "writing")

\* The listener's Write, or the broker's token, returns.
WriteReturns(s) == Writer(s, "writing", "selecting")

LeaveWriteLoop(s) == s \in cancelled /\ Writer(s, "selecting", "gone")

ReadLoop(s) == ReadMessage(s) \/ processAndPublish(s) \/ LeaveReadLoop(s)
writeToConn(s) == TakeOutgoing(s) \/ WriteReturns(s) \/ LeaveWriteLoop(s)
SessionStep(s) == ReadLoop(s) \/ writeToConn(s)

Handler(r) ==
  \/ \E c \in Conns :
       \/ \E enable \in BOOLEAN, cfg \in Configs :
            CreateConn(r, c, enable, cfg) \/ UpdateConn(r, c, enable, cfg)
       \/ EnableConn(r, c) \/ DisableConn(r, c) \/ DeleteConn(r, c) \/ ReloadConn(r, c)
  \/ \E p \in Parents :
       \/ \E enable \in BOOLEAN : CreateParent(r, p, enable) \/ UpdateParent(r, p, enable)
       \/ EnableParent(r, p) \/ DisableParent(r, p) \/ DeleteParent(r, p) \/ ReloadParent(r, p)
  \/ ReloadAll(r)

RequestStep(r) ==
  \/ \E c \in Conns :
       \/ WriteConn(r, c) \/ DeleteConnRow(r, c) \/ StopConn(r, c)
       \/ \E cfg \in Configs :
            \/ SkipConn(r, c, cfg) \/ FailConn(r, c, cfg)
            \/ \E s \in Sessions : StartConn(r, c, cfg, s)
  \/ \E p \in Parents :
       \/ WriteParent(r, p) \/ DeleteChildRows(r, p) \/ DeleteParentRow(r, p)
       \/ SkipParent(r, p) \/ StartParent(r, p) \/ StopParent(r, p)
  \/ startParents(r) \/ startConns(r) \/ StopAll(r)

Next ==
  \/ \E r \in Requests : Handler(r) \/ RequestStep(r)
  \/ \E s \in Sessions : Arrive(s) \/ SessionStep(s)

Spec == Init /\ [][Next]_vars

\* The read loop runs on, a write that is under way returns some time, and select does
\* not pass over a context that is done for ever, whatever messages come.
FairSpec ==
  Spec /\ \A s \in Sessions :
            WF_vars(ReadLoop(s)) /\ WF_vars(WriteReturns(s)) /\ SF_vars(LeaveWriteLoop(s))
-----------------------------------------------------------------------------
\* A read loop that nobody has told to end belongs to the listener the manager
\* holds for its connection, and a stop will reach it: a connection has one reader at
\* most, and none spins on a closed listener, however requests interleave.
NoOrphanReader ==
  \A s \in Sessions : reader[s] \in {"reading", "holding"} /\ s \notin cancelled
    => /\ listeners[started[s].conn] = s
       /\ cancels[started[s].conn] = s
       /\ s \notin closed

\* A connection with a listener has a framing state, the one made for it: no stop and
\* no start of the same key takes its buffer away in mid-stream.
RunningHasItsBuffer ==
  \A c \in Conns : listeners[c] # None => framing[c] = listeners[c]

\* Connections with a row that no request is about, nor two were at once.
Settled == {c \in Conns \ overlapped : connRow[c] # None
                                       /\ \A r \in Requests : c \notin Concerned(todo[r])}

\* What runs for c is for parent p to feed.
Served(c, p) ==
  /\ cancels[c] # None
  /\ started[cancels[c]].config.parent = p /\ ~HasListener(started[cancels[c]].config)

\* PROJECT_CONTEXT.md 4.1: stopping a parent stops its children, also those the
\* manager finds only through the table.
ChildrenStopWithParent ==
  \A c \in Settled : cancels[c] # None /\ started[cancels[c]].config.parent # None
    => parents[started[cancels[c]].config.parent] # None

\* manager.go:629: a parent has the route or topic of every child of it that runs
\* without a listener, and keeps an old one only of a connection that was moved away from
\* it and has not come back.
RoutesAreOfRunning ==
  \A c \in Settled, p \in Parents : parents[p] # None =>
    /\ Served(c, p) => parents[p][c] = cancels[c]
    /\ parents[p][c] \notin {None, cancels[c]} => c \in moved /\ connRow[c].config.parent # p

\* The goroutines of a session end once its listener is closed or its context cancelled.
ClosedSessionEnds ==
  \A s \in Sessions :
    s \in closed \cup cancelled ~> reader[s] \in {"none", "gone"} /\ writer[s] \in {"none", "gone"}
=============================================================================
