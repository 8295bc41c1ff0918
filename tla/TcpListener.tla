---------------------------- MODULE TcpListener ----------------------------
(***************************************************************************)
(* The connections of the TCP listener (internal/listen/listen_tcp.go):    *)
(* its acceptor, one goroutine for each client, the writer of outgoing     *)
(* messages, and the two that close everything when the manager stops it:  *)
(* its Close, and the goroutine that waits for the context.  What clients  *)
(* send is the subject of StreamFraming.                                   *)
(***************************************************************************)
EXTENDS Naturals, FiniteSets

CONSTANTS
  Clients,
  MaxWrites,   \* bound: messages written
  NoClient

ASSUME TcpListenerAssumption ==
  MaxWrites \in Nat /\ IsFiniteSet(Clients) /\ NoClient \notin Clients

\* Close runs in the request that stops the listener, OnDone in the goroutine of Start.
Closers == {"Close", "OnDone"}

VARIABLES
  listening,  \* the socket accepts connections
  client,     \* "away", "dialled", "connected", "hungUp"
  socket,     \* the server's end of it: "none", "open", "closed"
  inHand,     \* the connection Accept has returned and addConn has not been called for
  acceptor,   \* "accept", "returned"
  conns,      \* the registered connections
  handler,    \* goroutine of a client: "none", "read", "remove" still to call, "returned"
  toWrite,    \* connections the writer has not written its message to; it holds connMu
  writing,    \*   while `writing`
  writes,     \* number of messages written
  closing     \* closer -> "none", before closing the "socket", before closing the
              \* "conns", "done"

tcpVars == <<listening, client, socket, inHand, acceptor, conns, handler, toWrite,
             writing, writes, closing>>

TcpTypeOK ==
  /\ listening \in BOOLEAN /\ writing \in BOOLEAN
  /\ client \in [Clients -> {"away", "dialled", "connected", "hungUp"}]
  /\ socket \in [Clients -> {"none", "open", "closed"}]
  /\ inHand \in Clients \cup {NoClient}
  /\ acceptor \in {"accept", "returned"}
  /\ conns \in SUBSET Clients /\ toWrite \in SUBSET Clients
  /\ handler \in [Clients -> {"none", "read", "remove", "returned"}]
  /\ writes \in 0 .. MaxWrites
  /\ closing \in [Closers -> {"none", "socket", "conns", "done"}]

\* Start has returned.
TcpInit ==
  /\ listening = TRUE /\ writing = FALSE
  /\ client = [c \in Clients |-> "away"]
  /\ socket = [c \in Clients |-> "none"]
  /\ inHand = NoClient
  /\ acceptor = "accept"
  /\ conns = {} /\ toWrite = {}
  /\ handler = [c \in Clients |-> "none"]
  /\ writes = 0
  /\ closing = [w \in Closers |-> "none"]

Dial(c) ==
  /\ listening /\ client[c] = "away"
  /\ client' = [client EXCEPT ![c] = "dialled"]
  /\ UNCHANGED <<listening, socket, inHand, acceptor, conns, handler, toWrite, writing, writes, closing>>

HangUp(c) ==
  /\ client[c] = "connected"
  /\ client' = [client EXCEPT ![c] = "hungUp"]
  /\ UNCHANGED <<listening, socket, inHand, acceptor, conns, handler, toWrite, writing, writes, closing>>

Accept(c) ==
  /\ acceptor = "accept" /\ inHand = NoClient
  /\ listening /\ client[c] = "dialled"
  /\ client' = [client EXCEPT ![c] = "connected"]
  /\ socket' = [socket EXCEPT ![c] = "open"]
  /\ inHand' = c
  /\ UNCHANGED <<listening, acceptor, conns, handler, toWrite, writing, writes, closing>>

\* Accept fails once the socket is closed, after the context, so that the loop ends.
AcceptFails ==
  /\ acceptor = "accept" /\ inHand = NoClient /\ ~listening
  /\ acceptor' = "returned"
  /\ UNCHANGED <<listening, client, socket, inHand, conns, handler, toWrite, writing, writes, closing>>

\* addConn, which waits for connMu, and `go handleConn`.
addConn(c) ==
  /\ inHand = c /\ ~writing
  /\ conns' = conns \cup {c}
  /\ handler' = [handler EXCEPT ![c] = "read"]
  /\ inHand' = NoClient
  /\ UNCHANGED <<listening, client, socket, acceptor, toWrite, writing, writes, closing>>

\* Read fails when either end is closed; `defer conn.Close()`.
handleConn(c) ==
  /\ handler[c] = "read"
  /\ socket[c] = "closed" \/ client[c] = "hungUp"
  /\ socket' = [socket EXCEPT ![c] = "closed"]
  /\ handler' = [handler EXCEPT ![c] = "remove"]
  /\ UNCHANGED <<listening, client, inHand, acceptor, conns, toWrite, writing, writes, closing>>

\* Mutant: the goroutine returns without the deferred call.
removeConn_Missing(c) ==
  /\ handler[c] = "remove"
  /\ handler' = [handler EXCEPT ![c] = "returned"]
  /\ UNCHANGED <<listening, client, socket, inHand, acceptor, conns, toWrite, writing, writes, closing>>

removeConn(c) ==
  /\ handler[c] = "remove" /\ ~writing
  /\ conns' = conns \ {c}
  /\ handler' = [handler EXCEPT ![c] = "returned"]
  /\ UNCHANGED <<listening, client, socket, inHand, acceptor, toWrite, writing, writes, closing>>

\* A message for every registered connection, one after the other, under connMu.
Write ==
  /\ ~writing /\ writes < MaxWrites
  /\ writes' = writes + 1
  /\ toWrite' = conns
  /\ writing' = TRUE
  /\ UNCHANGED <<listening, client, socket, inHand, acceptor, conns, handler, closing>>

\* conn.Write returns: because the client reads, or with an error that nobody looks at.
WriteTo(c) ==
  /\ c \in toWrite
  /\ toWrite' = toWrite \ {c}
  /\ UNCHANGED <<listening, client, socket, inHand, acceptor, conns, handler, writing, writes, closing>>

WriteReturns ==
  /\ writing /\ toWrite = {}
  /\ writing' = FALSE
  /\ UNCHANGED <<listening, client, socket, inHand, acceptor, conns, handler, toWrite, writes, closing>>

\* StopConn: the context is cancelled and Close called.
Stop ==
  /\ closing["Close"] = "none"
  /\ closing' = [w \in Closers |-> "socket"]
  /\ UNCHANGED <<listening, client, socket, inHand, acceptor, conns, handler, toWrite, writing, writes>>

\* ln.Close; clients that have not been accepted are refused.
CloseSocket(w) ==
  /\ closing[w] = "socket"
  /\ listening' = FALSE
  /\ client' = [c \in Clients |-> IF client[c] = "dialled" THEN "hungUp" ELSE client[c]]
  /\ closing' = [closing EXCEPT ![w] = "conns"]
  /\ UNCHANGED <<socket, inHand, acceptor, conns, handler, toWrite, writing, writes>>

closeAllConns(w) ==
  /\ closing[w] = "conns" /\ ~writing
  /\ socket' = [c \in Clients |-> IF c \in conns THEN "closed" ELSE socket[c]]
  /\ closing' = [closing EXCEPT ![w] = "done"]
  /\ UNCHANGED <<listening, client, inHand, acceptor, conns, handler, toWrite, writing, writes>>

\* Mutant: the connections are closed before the socket.
CloseEverything_ConnsFirst(w) ==
  \/ /\ closing[w] = "socket" /\ ~writing
     /\ socket' = [c \in Clients |-> IF c \in conns THEN "closed" ELSE socket[c]]
     /\ closing' = [closing EXCEPT ![w] = "conns"]
     /\ UNCHANGED <<listening, client, inHand, acceptor, conns, handler, toWrite, writing, writes>>
  \/ /\ closing[w] = "conns"
     /\ listening' = FALSE
     /\ client' = [c \in Clients |-> IF client[c] = "dialled" THEN "hungUp" ELSE client[c]]
     /\ closing' = [closing EXCEPT ![w] = "done"]
     /\ UNCHANGED <<socket, inHand, acceptor, conns, handler, toWrite, writing, writes>>

CloseEverything(w) == CloseSocket(w) \/ closeAllConns(w)

TcpNext ==
  \/ \E c \in Clients :
       \/ Dial(c) \/ HangUp(c) \/ Accept(c) \/ addConn(c)
       \/ handleConn(c) \/ removeConn(c) \/ WriteTo(c)
  \/ AcceptFails \/ Write \/ WriteReturns \/ Stop
  \/ \E w \in Closers : CloseEverything(w)

TcpSpec == TcpInit /\ [][TcpNext]_tcpVars

\* Goroutines run on and waiters get the mutex; clients need neither read nor hang up.
TcpFairness ==
  /\ \A c \in Clients :
       WF_tcpVars(addConn(c)) /\ WF_tcpVars(handleConn(c)) /\ WF_tcpVars(removeConn(c))
  /\ WF_tcpVars(AcceptFails) /\ WF_tcpVars(WriteReturns)
  /\ \A w \in Closers : WF_tcpVars(CloseEverything(w))
-----------------------------------------------------------------------------
\* listen_tcp.go:126: of the connections of a listener that is closed, one can remain
\* open, the one its acceptor had in hand while the others were closed.
ClosedLeavesOneOpen ==
  (\A w \in Closers : closing[w] = "done") =>
    Cardinality({c \in Clients : socket[c] = "open"}) <= 1

\* A listener that is stopped is closed, its acceptor returns and every connection it
\* closed is forgotten, provided that clients take what is written to them: Write
\* holds connMu meanwhile (listen_tcp.go:101), and Close waits for it with the
\* manager's mutex held.
StoppedTcpEnds ==
  (\A c \in Clients : WF_tcpVars(WriteTo(c))) =>
    /\ closing["Close"] # "none" ~>
         acceptor = "returned" /\ \A w \in Closers : closing[w] = "done"
    /\ \A c \in Clients : c \in conns /\ socket[c] = "closed" ~> c \notin conns
=============================================================================
