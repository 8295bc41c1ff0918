----------------------------- MODULE Listeners -----------------------------
(***************************************************************************)
(* The listeners of internal/listen other than TCP.  A connection that is  *)
(* stopped and started again has a listener for each of its sessions, and  *)
(* the goroutines of one may still be running when the next has started.   *)
(*                                                                         *)
(* What differs: a serial line is read by the manager's loop itself, the   *)
(* others feed a channel from a goroutine, of which UDP drops what there   *)
(* is no room for and scripts and plugins wait; and a socket, a line and a *)
(* script's variables belong to one session, whereas all sessions call the *)
(* functions of the same loaded plugin.                                    *)
(***************************************************************************)
EXTENDS Naturals, Sequences, FiniteSets

CONSTANTS
  MaxSessions,  \* bound: sessions
  ChannelSize,  \* of msgCh (100 in the code)
  MaxArrivals,  \* bound: messages that arrive
  NoData

ASSUME ListenersAssumption ==
  /\ MaxSessions \in Nat /\ MaxArrivals \in Nat
  /\ ChannelSize \in Nat \ {0} /\ NoData \notin Nat

Sessions == 1 .. MaxSessions

Origins == {"serial", "udp", "script", "plugin"}

VARIABLES
  origin,   \* the kind of connection
  session,  \* "unused", "open", "closed": Start and Close have been called
  readLoop, \* the goroutine that reads: "none" yet, at the "check" of its context, in
            \* "read", with data to "push", "returned" (a serial line has no such one)
  data,     \* what it has read and not pushed
  inbox,    \* msgCh of a session
  pump,     \* the read loop of the manager: "none", "running", "returned"
  waiting,  \* messages that have arrived and not been read, by number
  arrivals, \* number of messages so far
  stale,    \* history: messages a session has read since it was closed
  handed    \* history: session -> messages the manager got from it

listenerVars == <<origin, session, readLoop, data, inbox, pump, waiting, arrivals, stale, handed>>

ListenersTypeOK ==
  /\ origin \in Origins
  /\ session \in [Sessions -> {"unused", "open", "closed"}]
  /\ readLoop \in [Sessions -> {"none", "check", "read", "push", "returned"}]
  /\ data \in [Sessions -> (1 .. MaxArrivals) \cup {NoData}]
  /\ inbox \in [Sessions -> Seq(1 .. MaxArrivals)]
  /\ pump \in [Sessions -> {"none", "running", "returned"}]
  /\ waiting \in Seq(1 .. MaxArrivals)
  /\ arrivals \in 0 .. MaxArrivals
  /\ stale \in [Sessions -> Nat]
  /\ handed \in [Sessions -> Seq(1 .. MaxArrivals)]

ListenersInit ==
  /\ origin \in Origins
  /\ session = [s \in Sessions |-> "unused"]
  /\ readLoop = [s \in Sessions |-> "none"]
  /\ data = [s \in Sessions |-> NoData]
  /\ inbox = [s \in Sessions |-> <<>>]
  /\ pump = [s \in Sessions |-> "none"]
  /\ waiting = <<>>
  /\ arrivals = 0
  /\ stale = [s \in Sessions |-> 0]
  /\ handed = [s \in Sessions |-> <<>>]

Open == {s \in Sessions : session[s] = "open"}

\* Start and the read loop of runStandaloneConnLocked.  The manager starts a session
\* when the one before is closed; a Start that fails starts nothing.
StartListener(s) ==
  /\ session[s] = "unused" /\ Open = {}
  /\ \A r \in 1 .. s - 1 : session[r] # "unused"
  /\ session' = [session EXCEPT ![s] = "open"]
  /\ readLoop' = [readLoop EXCEPT ![s] = CASE origin = "serial" -> "returned"
                                                [] origin = "udp" -> "read"
                                                [] OTHER -> "check"]
  /\ pump' = [pump EXCEPT ![s] = "running"]
  /\ UNCHANGED <<origin, data, inbox, waiting, arrivals, stale, handed>>

\* What a line, a socket, or the variables of a script, still held goes with it.
CloseListener(s) ==
  /\ session[s] = "open"
  /\ session' = [session EXCEPT ![s] = "closed"]
  /\ waiting' = IF origin = "plugin" THEN waiting ELSE <<>>
  /\ UNCHANGED <<origin, readLoop, data, inbox, pump, arrivals, stale, handed>>

\* A message comes in; there is someone to take it while a session is open.
Arrive ==
  /\ Open # {}
  /\ arrivals < MaxArrivals
  /\ arrivals' = arrivals + 1
  /\ waiting' = Append(waiting, arrivals + 1)
  /\ UNCHANGED <<origin, session, readLoop, data, inbox, pump, stale, handed>>

\* A closed line, socket or script has nothing left to read; a plugin has.
CanRead(s) == waiting # <<>> /\ (session[s] = "open" \/ (origin = "plugin" /\ Open # {}))

Taken(s) ==
  /\ CanRead(s)
  /\ readLoop[s] = "read"
  /\ waiting' = Tail(waiting)
  /\ stale' = [stale EXCEPT ![s] = IF session[s] = "closed" THEN @ + 1 ELSE @]

\* UDP: one read, and the select with its default case.
ReadFromUDP(s) ==
  /\ origin = "udp"
  /\ Taken(s)
  /\ inbox' = [inbox EXCEPT ![s] =
                 IF Len(@) < ChannelSize THEN Append(@, Head(waiting)) ELSE @]
  /\ UNCHANGED <<origin, session, readLoop, data, pump, arrivals, handed>>

\* The read of a closed socket fails, and the context is done.
UDPReturns(s) ==
  /\ origin = "udp" /\ session[s] = "closed" /\ readLoop[s] = "read"
  /\ readLoop' = [readLoop EXCEPT ![s] = "returned"]
  /\ UNCHANGED <<origin, session, data, inbox, pump, waiting, arrivals, stale, handed>>

\* Mutant: the context is looked at when nothing can be pushed only.
CheckContext_Never(s) ==
  /\ readLoop[s] = "check"
  /\ readLoop' = [readLoop EXCEPT ![s] = "read"]
  /\ UNCHANGED <<origin, session, data, inbox, pump, waiting, arrivals, stale, handed>>

\* The top of readLoop of scripts and plugins.
CheckContext(s) ==
  /\ readLoop[s] = "check"
  /\ readLoop' = [readLoop EXCEPT ![s] = IF session[s] = "closed" THEN "returned" ELSE "read"]
  /\ UNCHANGED <<origin, session, data, inbox, pump, waiting, arrivals, stale, handed>>

\* Read returns a message,
ReadUser(s) ==
  /\ origin \in {"script", "plugin"}
  /\ Taken(s)
  /\ data' = [data EXCEPT ![s] = Head(waiting)]
  /\ readLoop' = [readLoop EXCEPT ![s] = "push"]
  /\ UNCHANGED <<origin, session, inbox, pump, arrivals, handed>>

\* or nothing, or an error, as it does when its resources are gone.
ReadNothing(s) ==
  /\ origin \in {"script", "plugin"} /\ readLoop[s] = "read"
  /\ readLoop' = [readLoop EXCEPT ![s] = "check"]
  /\ UNCHANGED <<origin, session, data, inbox, pump, waiting, arrivals, stale, handed>>

\* `case msgCh <- data`.
PushData(s) ==
  /\ readLoop[s] = "push"
  /\ Len(inbox[s]) < ChannelSize
  /\ inbox' = [inbox EXCEPT ![s] = Append(@, data[s])]
  /\ data' = [data EXCEPT ![s] = NoData]
  /\ readLoop' = [readLoop EXCEPT ![s] = "check"]
  /\ UNCHANGED <<origin, session, pump, waiting, arrivals, stale, handed>>

\* Mutant: a send without a select waits for room.
GiveUpPush_Never(s) == readLoop[s] = "push" /\ UNCHANGED listenerVars

\* `case <-ctx.Done()`: the data is lost.
GiveUpPush(s) ==
  /\ readLoop[s] = "push" /\ session[s] = "closed"
  /\ data' = [data EXCEPT ![s] = NoData]
  /\ readLoop' = [readLoop EXCEPT ![s] = "returned"]
  /\ UNCHANGED <<origin, session, inbox, pump, waiting, arrivals, stale, handed>>

\* ReadMessage of a serial line reads from the port.
ReadFromPort(s) ==
  /\ origin = "serial"
  /\ pump[s] = "running" /\ session[s] = "open" /\ waiting # <<>>
  /\ handed' = [handed EXCEPT ![s] = Append(@, Head(waiting))]
  /\ waiting' = Tail(waiting)
  /\ UNCHANGED <<origin, session, readLoop, data, inbox, pump, arrivals, stale>>

\* ReadMessage of the others gives the manager's loop a message,
ReadMessage(s) ==
  /\ pump[s] = "running" /\ inbox[s] # <<>>
  /\ handed' = [handed EXCEPT ![s] = Append(@, Head(inbox[s]))]
  /\ inbox' = [inbox EXCEPT ![s] = Tail(@)]
  /\ UNCHANGED <<origin, session, readLoop, data, pump, waiting, arrivals, stale>>

\* or EOF, as soon as the context is done, also while there are messages left; the
\* read of a closed port fails.
ReadEOF(s) ==
  /\ pump[s] = "running" /\ session[s] = "closed"
  /\ pump' = [pump EXCEPT ![s] = "returned"]
  /\ UNCHANGED <<origin, session, readLoop, data, inbox, waiting, arrivals, stale, handed>>

ReaderStep(s) ==
  \/ ReadFromUDP(s) \/ UDPReturns(s) \/ CheckContext(s) \/ ReadUser(s) \/ ReadNothing(s)
  \/ PushData(s) \/ GiveUpPush(s)

PumpStep(s) == ReadFromPort(s) \/ ReadMessage(s) \/ ReadEOF(s)

ListenersNext ==
  \/ Arrive
  \/ \E s \in Sessions : StartListener(s) \/ CloseListener(s) \/ ReaderStep(s) \/ PumpStep(s)

ListenersSpec == ListenersInit /\ [][ListenersNext]_listenerVars

\* Goroutines run on; the functions of scripts and plugins return.
ListenersFairness ==
  \A s \in Sessions : WF_listenerVars(ReaderStep(s)) /\ WF_listenerVars(PumpStep(s))
-----------------------------------------------------------------------------
\* What is waiting, held, queued or handed over, each message once and in the order
\* of arrival, within a session: nothing is read twice or overtaken.
SessionKeepsOrder ==
  \A s \in Sessions :
    LET got == handed[s] \o inbox[s] \o (IF data[s] = NoData THEN <<>> ELSE <<data[s]>>)
                 \o (IF session[s] = "open" THEN waiting ELSE <<>>)
    IN  \A i, j \in DOMAIN got : i < j => got[i] < got[j]

\* A session that has been closed takes at most one message more from the plugin,
\* which its successor then misses (listen_plugin.go:64); it takes none from a
\* line, a socket or a script.
StaleReaderTakesOneAtMost ==
  \A s \in Sessions : stale[s] <= (IF origin = "plugin" THEN 1 ELSE 0)

\* What stopping and restarting does to the messages of a connection (manager.go:623).
SessionsReadInOrder == SessionKeepsOrder /\ StaleReaderTakesOneAtMost

\* Both goroutines of a closed session end, although its channel may be full when
\* nobody reads it any more.
ClosedListenerEnds ==
  \A s \in Sessions :
    session[s] = "closed" ~> readLoop[s] = "returned" /\ pump[s] = "returned"
=============================================================================
