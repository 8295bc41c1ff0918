------------------------- MODULE ConnectionsProofs -------------------------
(***************************************************************************)
(* The manager never loses a reader: for any number of connections,        *)
(* parents, requests and sessions.  What a stop has to reach is what the   *)
(* maps name, so the invariant ties the three maps of a connection         *)
(* together and each session to the connection it was started for.         *)
(***************************************************************************)
EXTENDS Connections, FiniteSetTheorems, TLAPS

coreVars == <<listeners, cancels, framing, started, cancelled, closed, reader>>

Types ==
  /\ listeners \in [Conns -> OrNone(Sessions)]
  /\ cancels \in [Conns -> OrNone(Sessions)]
  /\ framing \in [Conns -> OrNone(Sessions) \cup {Blank}]
  /\ started \in [Sessions -> OrNone([conn : Conns, config : Configs])]
  /\ reader \in [Sessions -> {"none", "reading", "holding", "gone"}]

\* Session s runs for conn c.
For(s, c) == s \in Sessions /\ started[s] # None /\ started[s].conn = c

OwnSessions == \A c \in Conns : cancels[c] # None => For(cancels[c], c)

OneSession ==
  \A c \in Conns : listeners[c] # None => cancels[c] = listeners[c] /\ framing[c] = listeners[c]

FreshSessions ==
  \A s \in Sessions : started[s] = None => reader[s] = "none" /\ s \notin closed

Reading(s) == reader[s] \in {"reading", "holding"} /\ s \notin cancelled

Reached == \A s \in Sessions : Reading(s) => listeners[started[s].conn] = s /\ s \notin closed

Inv == Types /\ OwnSessions /\ OneSession /\ FreshSessions /\ Reached

LEMMA Nobody == /\ None \notin Sessions /\ Blank \notin Sessions /\ None # Blank
                /\ None \notin [conn : Conns, config : Configs]
  BY NoneAssumption

\* The invariant is about seven variables.
LEMMA OthersKeepInv == Inv /\ UNCHANGED coreVars => Inv'
  BY ZenonT(40) DEF Inv, coreVars, Types, OwnSessions, For, OneSession, FreshSessions, Reading, Reached

LEMMA ReleaseKeepsInv ==
  ASSUME Inv, NEW S \in SUBSET Conns, Release(S)
  PROVE Inv'
<1>1. /\ cancelled' = cancelled \cup ({cancels[c] : c \in S} \ {None})
      /\ closed' = closed \cup ({listeners[c] : c \in S} \ {None})
      /\ started' = started /\ reader' = reader
  BY DEF Release
<1>2. Types'
  BY DEF Inv, Types, Release, OrNone
<1>3. \A c \in Conns : /\ c \in S => cancels'[c] = None /\ listeners'[c] = None
                       /\ c \notin S => /\ cancels'[c] = cancels[c]
                                        /\ listeners'[c] = listeners[c]
                                        /\ framing'[c] = framing[c]
  BY DEF Release
<1>4. OwnSessions'
  BY <1>1, <1>3 DEF Inv, OwnSessions, For
<1>5. OneSession'
  BY <1>3 DEF Inv, OneSession
<1>6. ASSUME NEW c \in Conns, listeners[c] # None
      PROVE  For(listeners[c], c) /\ cancels[c] = listeners[c]
  BY <1>6 DEF Inv, OneSession, OwnSessions
<1>7. FreshSessions'
  BY <1>1, <1>6 DEF Inv, FreshSessions, For
<1>8. Reached'
  <2> SUFFICES ASSUME NEW s \in Sessions, reader[s] \in {"reading", "holding"}, s \notin cancelled'
               PROVE  listeners'[started[s].conn] = s /\ s \notin closed'
    BY <1>1 DEF Reached, Reading
  <2> DEFINE d == started[s].conn
  <2>1. listeners[d] = s /\ s \notin closed
    BY <1>1 DEF Inv, Reached, Reading
  <2>2. d \in Conns
    BY DEF Inv, FreshSessions, Types, OrNone
  <2>3. cancels[d] = s /\ s # None
    BY <2>1, <2>2, <1>6, Nobody
  <2>4. d \notin S
    BY <2>3, <1>1
  <2>5. \A c \in S : listeners[c] # s
    BY <2>4, <1>6, <2>3 DEF For
  <2>6. QED
    BY <2>1, <2>2, <2>4, <2>5, <1>1, <1>3
<1>9. QED
  BY <1>2, <1>4, <1>5, <1>7, <1>8 DEF Inv

LEMMA StartConnKeepsInv ==
  ASSUME Inv, NEW r \in Requests, NEW c \in Conns, NEW cfg \in Configs, NEW s \in Sessions,
         StartConn(r, c, cfg, s)
  PROVE Inv'
<1>1. started[s] = None /\ listeners[c] = None
  BY DEF StartConn, Fresh, RunsAlready
<1>2. /\ started' = [started EXCEPT ![s] = [conn |-> c, config |-> cfg]]
      /\ framing' = [framing EXCEPT ![c] = s]
      /\ cancels' = [cancels EXCEPT ![c] = s]
      /\ cancelled' = cancelled /\ closed' = closed
  BY DEF StartConn
<1>3. \/ listeners' = [listeners EXCEPT ![c] = s] /\ reader' = [reader EXCEPT ![s] = "reading"]
      \/ listeners' = listeners /\ reader' = reader
  BY DEF StartConn
<1>4. Types'
  BY <1>2, <1>3 DEF Inv, Types, OrNone
<1>5. started'[s] # None /\ started'[s].conn = c
  BY <1>2, Nobody DEF Inv, Types
<1>6. \A t \in Sessions : t # s => started'[t] = started[t]
  BY <1>2 DEF Inv, Types
<1>7. OwnSessions'
  BY <1>1, <1>2, <1>5, <1>6 DEF Inv, Types, OwnSessions, For
<1>8. OneSession'
  BY <1>1, <1>2, <1>3 DEF Inv, Types, OneSession
<1>9. FreshSessions'
  BY <1>2, <1>3, <1>5, <1>6 DEF Inv, Types, FreshSessions
<1>10. ASSUME NEW t \in Sessions, Reading(t)'
       PROVE  listeners'[started'[t].conn] = t /\ t \notin closed'
  <2>1. CASE t = s
    <3>1. reader[s] = "none" /\ s \notin closed
      BY <1>1 DEF Inv, FreshSessions
    <3>2. reader' # reader
      BY <2>1, <3>1, <1>10 DEF Reading
    <3>3. listeners'[c] = s
      BY <3>2, <1>3 DEF Inv, Types
    <3>4. QED
      BY <2>1, <3>1, <3>3, <1>2, <1>5
  <2>2. CASE t # s
    <3>1. Reading(t)
      BY <2>2, <1>2, <1>3, <1>10 DEF Inv, Types, Reading
    <3>2. listeners[started[t].conn] = t /\ t \notin closed /\ started[t] # None
      BY <3>1 DEF Inv, Reached, FreshSessions, Reading
    <3>3. started[t].conn # c /\ started[t].conn \in Conns
      BY <3>2, <1>1, Nobody DEF Inv, Types, OrNone
    <3>4. listeners'[started[t].conn] = t
      BY <3>2, <3>3, <1>3 DEF Inv, Types
    <3>5. QED
      BY <3>2, <3>4, <2>2, <1>2, <1>6
  <2>3. QED
    BY <2>1, <2>2
<1>11. QED
  BY <1>4, <1>7, <1>8, <1>9, <1>10 DEF Inv, Reached

\* A start that fails has found no listener for the connection.
LEMMA FailConnKeepsInv ==
  ASSUME Inv, NEW r \in Requests, NEW c \in Conns, NEW cfg \in Configs, FailConn(r, c, cfg)
  PROVE Inv'
<1>1. /\ listeners[c] = None /\ framing' = [framing EXCEPT ![c] = Blank]
      /\ UNCHANGED <<listeners, cancels, started, cancelled, closed, reader>>
  BY DEF FailConn, RunsAlready, sessionVars
<1>2. Types' /\ OwnSessions' /\ FreshSessions' /\ Reached'
  BY <1>1 DEF Inv, Types, OrNone, OwnSessions, For, FreshSessions, Reading, Reached
<1>3. OneSession'
  BY <1>1 DEF Inv, Types, OneSession
<1>4. QED
  BY <1>2, <1>3 DEF Inv

LEMMA SessionKeepsInv ==
  ASSUME Inv, NEW s \in Sessions, SessionStep(s)
  PROVE Inv'
<1>1. UNCHANGED <<listeners, cancels, framing, started, cancelled, closed>>
  BY DEF SessionStep, ReadLoop, ReadMessage, processAndPublish, LeaveReadLoop, writeToConn,
         TakeOutgoing, WriteReturns, LeaveWriteLoop, Writer, mapVars
<1>2. \/ reader' = reader
      \/ /\ reader[s] \in {"reading", "holding"}
         /\ \E pc \in {"reading", "holding", "gone"} : reader' = [reader EXCEPT ![s] = pc]
  BY DEF SessionStep, ReadLoop, ReadMessage, processAndPublish, LeaveReadLoop, writeToConn,
         TakeOutgoing, WriteReturns, LeaveWriteLoop, Writer
<1>3. Types'
  BY <1>1, <1>2 DEF Inv, Types
<1>4. OwnSessions' /\ OneSession'
  BY <1>1 DEF Inv, OwnSessions, For, OneSession
<1>5. \A t \in Sessions : \/ reader'[t] = reader[t]
                          \/ reader'[t] = "gone" /\ reader[t] # "none"
                          \/ reader'[t] # "none" /\ reader[t] \in {"reading", "holding"}
  BY <1>2 DEF Inv, Types
<1>6. FreshSessions'
  BY <1>1, <1>5 DEF Inv, FreshSessions
<1>7. \A t \in Sessions : Reading(t)' => Reading(t)
  BY <1>1, <1>5 DEF Reading
<1>8. Reached'
  BY <1>1, <1>7 DEF Inv, Reached
<1>9. QED
  BY <1>3, <1>4, <1>6, <1>8 DEF Inv

\* Handlers, statements and listeners' own goroutines leave the maps alone.
LEMMA HandlerKeepsInv ==
  ASSUME Inv, NEW r \in Requests, Handler(r)
  PROVE Inv'
<1>1. ASSUME NEW calls, Begin(r, calls)
      PROVE  Inv'
  BY <1>1, OthersKeepInv DEF Begin, mapVars, sessionVars, coreVars
<1>2. ASSUME NEW c \in Conns, NEW enable \in BOOLEAN, NEW cfg \in Configs,
             CreateConn(r, c, enable, cfg) \/ UpdateConn(r, c, enable, cfg)
      PROVE  Inv'
  BY <1>2, <1>1 DEF CreateConn, UpdateConn
<1>3. ASSUME NEW c \in Conns,
             EnableConn(r, c) \/ DisableConn(r, c) \/ DeleteConn(r, c) \/ ReloadConn(r, c)
      PROVE  Inv'
  BY <1>3, <1>1 DEF EnableConn, DisableConn, DeleteConn, ReloadConn
<1>4. ASSUME NEW p \in Parents, NEW enable \in BOOLEAN,
             CreateParent(r, p, enable) \/ UpdateParent(r, p, enable)
      PROVE  Inv'
  BY <1>4, <1>1 DEF CreateParent, UpdateParent
<1>5. ASSUME NEW p \in Parents,
             EnableParent(r, p) \/ DisableParent(r, p) \/ DeleteParent(r, p) \/ ReloadParent(r, p)
      PROVE  Inv'
  BY <1>5, <1>1 DEF EnableParent, DisableParent, DeleteParent, ReloadParent
<1>6. ASSUME ReloadAll(r)
      PROVE  Inv'
  BY <1>6, <1>1 DEF ReloadAll
<1>7. QED
  BY <1>2, <1>3, <1>4, <1>5, <1>6 DEF Handler

LEMMA RequestStepKeepsInv ==
  ASSUME Inv, NEW r \in Requests, RequestStep(r)
  PROVE Inv'
<1>1. ASSUME NEW c \in Conns, StopConn(r, c)
      PROVE  Inv'
  BY <1>1, ReleaseKeepsInv DEF StopConn
<1>2. ASSUME NEW p \in Parents, StopParent(r, p)
      PROVE  Inv'
  BY <1>2, ReleaseKeepsInv DEF StopParent, ChildRows
<1>3. ASSUME StopAll(r)
      PROVE  Inv'
  BY <1>3, ReleaseKeepsInv DEF StopAll
<1>4. ASSUME NEW c \in Conns, NEW cfg \in Configs,
             FailConn(r, c, cfg) \/ \E s \in Sessions : StartConn(r, c, cfg, s)
      PROVE  Inv'
  BY <1>4, FailConnKeepsInv, StartConnKeepsInv
<1>5. ASSUME NEW c \in Conns, NEW cfg \in Configs, SkipConn(r, c, cfg)
      PROVE  Inv'
  BY <1>5, OthersKeepInv DEF SkipConn, mapVars, sessionVars, coreVars
<1>6. ASSUME NEW p \in Parents,
             \/ WriteParent(r, p) \/ DeleteChildRows(r, p) \/ DeleteParentRow(r, p)
             \/ SkipParent(r, p) \/ StartParent(r, p)
      PROVE  Inv'
  BY <1>6, OthersKeepInv
     DEF WriteParent, DeleteChildRows, DeleteParentRow, Statement, SkipParent, StartParent,
         mapVars, sessionVars, coreVars
<1>7. ASSUME startParents(r) \/ startConns(r)
      PROVE  Inv'
  BY <1>7, OthersKeepInv DEF startParents, startConns, mapVars, sessionVars, coreVars
<1>8. ASSUME NEW c \in Conns, WriteConn(r, c) \/ DeleteConnRow(r, c)
      PROVE  Inv'
  BY <1>8, OthersKeepInv
     DEF WriteConn, DeleteConnRow, Statement, mapVars, sessionVars, coreVars
<1>9. QED
  BY <1>1, <1>2, <1>3, <1>4, <1>5, <1>6, <1>7, <1>8 DEF RequestStep

LEMMA InitInv == Init => Inv
<1> SUFFICES ASSUME Init PROVE Inv
  OBVIOUS
<1>1. Types
  BY DEF Init, Types, OrNone
<1>2. OwnSessions /\ OneSession /\ FreshSessions /\ Reached
  BY DEF Init, OwnSessions, OneSession, FreshSessions, Reached, Reading
<1>3. QED
  BY <1>1, <1>2 DEF Inv

LEMMA NextKeepsInv == Inv /\ [Next]_vars => Inv'
<1> SUFFICES ASSUME Inv, [Next]_vars PROVE Inv'
  OBVIOUS
<1>1. ASSUME NEW r \in Requests, Handler(r) \/ RequestStep(r)
      PROVE  Inv'
  BY <1>1, HandlerKeepsInv, RequestStepKeepsInv
<1>2. ASSUME NEW s \in Sessions, Arrive(s)
      PROVE  Inv'
  BY <1>2, OthersKeepInv DEF Arrive, mapVars, coreVars
<1>3. ASSUME NEW s \in Sessions, SessionStep(s)
      PROVE  Inv'
  BY <1>3, SessionKeepsInv
<1>4. CASE UNCHANGED vars
  BY <1>4, OthersKeepInv DEF vars, mapVars, sessionVars, coreVars
<1>5. QED
  BY <1>1, <1>2, <1>3, <1>4 DEF Next

LEMMA InvAlways == Spec => []Inv
  BY InitInv, NextKeepsInv, PTL DEF Spec

\* A read loop that nobody has told to end belongs to the listener the manager holds
\* for its connection, however many requests call StartConn, StopConn, StopParent and
\* StopAll in any order: there is one reader to a connection, and a stop ends it.
THEOREM OneReader == Spec => []NoOrphanReader
<1>1. Inv => NoOrphanReader
  <2> SUFFICES ASSUME Inv, NEW s \in Sessions, Reading(s)
               PROVE  /\ listeners[started[s].conn] = s /\ s \notin closed
                      /\ cancels[started[s].conn] = s
    BY DEF NoOrphanReader, Reading
  <2>1. listeners[started[s].conn] = s /\ s \notin closed
    BY DEF Inv, Reached
  <2>2. started[s].conn \in Conns
    BY DEF Inv, FreshSessions, Reading, Types, OrNone
  <2>3. QED
    BY <2>1, <2>2, Nobody DEF Inv, OneSession
<1>2. QED
  BY <1>1, InvAlways, PTL

\* A connection with a listener keeps the framing state made for that listener.
THEOREM BufferStays == Spec => []RunningHasItsBuffer
<1>1. Inv => RunningHasItsBuffer
  BY DEF Inv, OneSession, RunningHasItsBuffer
<1>2. QED
  BY <1>1, InvAlways, PTL
-----------------------------------------------------------------------------
\* Parents and their children.  The calls request r has still to make.
Pending(r) == {todo[r][k] : k \in DOMAIN todo[r]}

StartsIt(call, c) == call.call = "start_conn" /\ call.id = c

StopIsNext(r, c) == todo[r] # <<>> /\ Head(todo[r]) = C("stop_conn", c, None)

\* Only one request is about a connection that is not `overlapped`;
OneRequestUnlessOverlapped ==
  \A p, q \in Requests : p # q => Concerned(todo[p]) \cap Concerned(todo[q]) \subseteq overlapped

\* nothing is known of a connection that has not been issued;
UnissuedIsUnknown ==
  \A c \in Conns \ issued :
    /\ connRow[c] = None /\ cancels[c] = None
    /\ \A p \in Parents : parents[p] # None => parents[p][c] = None
    /\ \A r \in Requests : \A call \in Pending(r) : ~StartsIt(call, c)

\* what is to be started is what the row says;
StartsAsWritten ==
  \A c \in Conns \ overlapped, r \in Requests : \A call \in Pending(r) :
    StartsIt(call, c) /\ connRow[c] # None => connRow[c].config = call.config

\* what runs is what the row says, so that StopParent finds it there, or the request
\* that has written the row stops it before it does anything else;
RunsAsWritten ==
  \A c \in Conns \ overlapped : connRow[c] # None /\ cancels[c] # None =>
    \/ started[cancels[c]].config = connRow[c].config
    \/ \E r \in Requests : StopIsNext(r, c)

\* and so a child runs only while its parent does,
ChildrenHaveParents ==
  \A c \in Conns \ overlapped : connRow[c] # None /\ cancels[c] # None =>
    LET p == started[cancels[c]].config.parent IN p # None => parents[p] # None

\* which has the route or topic that feeds it;
ServedByParents ==
  \A c \in Conns \ overlapped, p \in Parents :
    connRow[c] # None /\ parents[p] # None /\ Served(c, p) => parents[p][c] = cancels[c]

\* every route or topic a parent has was made for a session under it,
RoutesOfSessions ==
  \A c \in Conns, p \in Parents : parents[p] # None /\ parents[p][c] # None =>
    started[parents[p][c]] # None /\ started[parents[p][c]].config.parent = p

\* and an old one is left only with a parent the row does not name any more, or names
\* again just now, in which case a stop is next to be called.
RoutesAsWritten ==
  \A c \in Conns \ overlapped, p \in Parents :
    connRow[c] # None /\ parents[p] # None /\ parents[p][c] # None =>
      /\ connRow[c].config.parent = p \/ c \in moved
      /\ parents[p][c] # cancels[c] =>
           /\ c \in moved
           /\ connRow[c].config.parent = p => \E r \in Requests : StopIsNext(r, c)

TablesTyped ==
  /\ connRow \in [Conns -> OrNone(Row)]
  /\ todo \in [Requests -> Seq(Call)]
  /\ parents \in [Parents -> OrNone([Conns -> OrNone(Sessions)])]

CallsInv ==
  /\ TablesTyped
  /\ OneRequestUnlessOverlapped
  /\ UnissuedIsUnknown
  /\ StartsAsWritten
  /\ RunsAsWritten

ChildrenInv ==
  /\ Inv /\ CallsInv /\ ChildrenHaveParents
  /\ ServedByParents /\ RoutesOfSessions /\ RoutesAsWritten

LEMMA NoRoutes == None \notin [Conns -> OrNone(Sessions)] /\ None \notin Conns \cup Parents
  BY NoneAssumption DEF OrNone

LEMMA CallFields ==
  \A name, id, cfg : /\ C(name, id, cfg).call = name
                     /\ C(name, id, cfg).id = id
                     /\ C(name, id, cfg).config = cfg
BY DEF C

\* A request has begun: it has these calls to make, the others go on with theirs.
LEMMA BeginsWith ==
  ASSUME CallsInv, NEW r \in Requests, NEW calls \in Seq(Call), Begin(r, calls)
  PROVE  /\ todo[r] = <<>> /\ todo'[r] = calls
         /\ Pending(r)' = {calls[k] : k \in DOMAIN calls}
         /\ \A q \in Requests \ {r} : todo'[q] = todo[q] /\ Pending(q)' = Pending(q)
         /\ overlapped \subseteq overlapped'
         /\ \A c \in Concerned(calls) \ overlapped' :
              \A q \in Requests : c \notin Concerned(todo[q])
         /\ todo' \in [Requests -> Seq(Call)]
         /\ OneRequestUnlessOverlapped'
<1>0. todo[r] = <<>>
  <2>1. r \in Idle
    BY DEF Begin
  <2> QED
    BY <2>1 DEF Idle
<1>1. /\ todo'[r] = calls
      /\ \A q \in Requests \ {r} : todo'[q] = todo[q]
      /\ overlapped \subseteq overlapped'
      /\ \A c \in Concerned(calls) \ overlapped' :
           \A q \in Requests : c \notin Concerned(todo[q])
      /\ todo' \in [Requests -> Seq(Call)]
  BY DEF Begin, CallsInv, TablesTyped
<1>2. OneRequestUnlessOverlapped'
  <2> SUFFICES ASSUME NEW p \in Requests, NEW q \in Requests, p # q,
                      NEW c \in Concerned(todo'[p]) \cap Concerned(todo'[q])
               PROVE  c \in overlapped'
    BY DEF OneRequestUnlessOverlapped, Concerned
  <2>1. CASE p = r \/ q = r
    BY <1>1, <2>1
  <2>2. CASE p # r /\ q # r
    BY <1>1, <2>2 DEF CallsInv, OneRequestUnlessOverlapped
  <2> QED
    BY <2>1, <2>2
<1> QED
  BY <1>0, <1>1, <1>2 DEF Pending

\* A call has been made, and `more` are to be made in its place.
LEMMA MakesOne ==
  ASSUME CallsInv, NEW r \in Requests, NEW call, NEW more \in Seq(Call), Makes(r, call, more),
         \A k \in DOMAIN more : more[k].id = call.id \/ call.id = None
  PROVE  /\ call \in Pending(r) /\ Head(todo[r]) = call /\ todo[r] # <<>>
         /\ Pending(r)' \subseteq Pending(r) \cup {more[k] : k \in DOMAIN more}
         /\ \A q \in Requests \ {r} : todo'[q] = todo[q] /\ Pending(q)' = Pending(q)
         /\ todo' \in [Requests -> Seq(Call)]
         /\ OneRequestUnlessOverlapped'
<1> USE DEF CallsInv, TablesTyped
<1>1. /\ todo[r] \in Seq(Call) /\ todo[r] # <<>> /\ Head(todo[r]) = call
      /\ todo'[r] = more \o Tail(todo[r])
      /\ \A q \in Requests \ {r} : todo'[q] = todo[q]
      /\ overlapped' = overlapped
  BY DEF Makes
<1>2. /\ call \in Call /\ Tail(todo[r]) \in Seq(Call)
      /\ call = todo[r][1] /\ Len(todo[r]) \in Nat \ {0} /\ DOMAIN todo[r] = 1 .. Len(todo[r])
      /\ Len(Tail(todo[r])) = Len(todo[r]) - 1
      /\ \A k \in 1 .. Len(todo[r]) - 1 : Tail(todo[r])[k] = todo[r][k + 1]
  BY <1>1
<1>3. todo' \in [Requests -> Seq(Call)]
  <2>1. more \o Tail(todo[r]) \in Seq(Call)
    BY <1>2
  <2> QED
    BY <2>1 DEF Makes
<1> DEFINE t == Tail(todo[r])
           n == Len(more)
<1>4. /\ n \in Nat /\ DOMAIN more = 1 .. n
      /\ DOMAIN todo'[r] = 1 .. n + Len(t) /\ Len(t) \in Nat
      /\ \A k \in 1 .. n : todo'[r][k] = more[k]
      /\ \A k \in n + 1 .. n + Len(t) : todo'[r][k] = t[k - n]
  BY <1>1, <1>2
<1>5. Pending(r)' \subseteq Pending(r) \cup {more[k] : k \in DOMAIN more}
  <2> SUFFICES ASSUME NEW k \in DOMAIN todo'[r]
               PROVE  todo'[r][k] \in Pending(r) \cup {more[j] : j \in DOMAIN more}
    BY DEF Pending
  <2>1. CASE k \in 1 .. n
    BY <1>4, <2>1
  <2>2. CASE k \notin 1 .. n
    <3>1. k - n \in 1 .. Len(todo[r]) - 1 /\ k - n + 1 \in DOMAIN todo[r]
      BY <1>2, <1>4, <2>2
    <3>2. todo'[r][k] = todo[r][k - n + 1]
      <4>1. k \in n + 1 .. n + Len(t)
        BY <1>4, <2>2
      <4>2. todo'[r][k] = t[k - n]
        BY <1>4, <4>1
      <4> QED
        BY <1>2, <3>1, <4>2
    <3> QED
      BY <3>1, <3>2 DEF Pending
  <2> QED
    BY <2>1, <2>2
<1>6. call \in Pending(r)
  BY <1>2 DEF Pending
<1>7. \A q \in Requests \ {r} : Pending(q)' = Pending(q)
  BY <1>1 DEF Pending
<1>8. OneRequestUnlessOverlapped'
  <2> DEFINE Ids(c) == {c, None} \cup Parents
  <2>1. \A c \in Conns : \A d \in Pending(r)' :
          d.id \in Ids(c) => \E e \in Pending(r) : e.id \in Ids(c)
    BY <1>5, <1>6
  <2>2. \A q \in Requests : Concerned(todo'[q]) \subseteq Concerned(todo[q])
    <3>1. Concerned(todo'[r]) = {c \in Conns : \E d \in Pending(r)' : d.id \in Ids(c)}
      BY DEF Concerned, Pending
    <3>2. Concerned(todo[r]) = {c \in Conns : \E d \in Pending(r) : d.id \in Ids(c)}
      BY DEF Concerned, Pending
    <3>3. Concerned(todo'[r]) \subseteq Concerned(todo[r])
      BY <2>1, <3>1, <3>2
    <3> QED
      BY <1>1, <3>3
  <2>3. \A q \in Requests : Concerned(todo[q])' = Concerned(todo'[q])
    BY DEF Concerned
  <2> QED
    BY <1>1, <2>2, <2>3 DEF OneRequestUnlessOverlapped
<1> QED
  BY <1>1, <1>3, <1>5, <1>6, <1>7, <1>8

\* What a request may do to the tables as it begins: a row changes only if it is new
\* or the request stops the connection first, and a new parent is a move.
LEMMA BeginKeepsChildren ==
  ASSUME ChildrenInv, NEW r \in Requests, NEW calls \in Seq(Call), Begin(r, calls),
         connRow' \in [Conns -> OrNone(Row)], issued \subseteq issued', moved \subseteq moved',
         \A c \in Conns \ issued' :
           connRow'[c] = None /\ \A k \in DOMAIN calls : ~StartsIt(calls[k], c),
         \A c \in Conns : connRow'[c] # connRow[c] /\ connRow'[c] # None =>
           \/ c \notin issued
           \/ /\ calls # <<>> /\ Head(calls) = C("stop_conn", c, None)
              /\ connRow[c] # None
              /\ connRow'[c].config.parent = connRow[c].config.parent \/ c \in moved',
         \A c \in Conns, k \in DOMAIN calls : StartsIt(calls[k], c) /\ connRow'[c] # None =>
           connRow'[c].config = calls[k].config
  PROVE  ChildrenInv'
<1>1. /\ todo[r] = <<>> /\ todo'[r] = calls
      /\ Pending(r)' = {calls[k] : k \in DOMAIN calls}
      /\ \A q \in Requests \ {r} : todo'[q] = todo[q] /\ Pending(q)' = Pending(q)
      /\ overlapped \subseteq overlapped'
      /\ \A c \in Concerned(calls) \ overlapped' :
           \A q \in Requests : c \notin Concerned(todo[q])
      /\ todo' \in [Requests -> Seq(Call)]
      /\ OneRequestUnlessOverlapped'
  BY BeginsWith DEF ChildrenInv
<1>2. UNCHANGED <<parents, cancels, started>> /\ Inv'
  BY OthersKeepInv DEF Begin, ChildrenInv, mapVars, sessionVars, coreVars
<1>3. UnissuedIsUnknown'
  <2> SUFFICES ASSUME NEW c \in Conns \ issued'
               PROVE  /\ cancels[c] = None
                      /\ \A p \in Parents : parents[p] # None => parents[p][c] = None
                      /\ \A q \in Requests : \A call \in Pending(q)' : ~StartsIt(call, c)
    BY <1>2 DEF UnissuedIsUnknown, StartsIt
  <2>1. c \in Conns \ issued
    OBVIOUS
  <2> QED
    BY <1>1, <2>1 DEF ChildrenInv, CallsInv, UnissuedIsUnknown
<1>4. ASSUME NEW c \in Conns, connRow'[c] # connRow[c], connRow'[c] # None, c \in issued
      PROVE  c \in Concerned(calls) /\ StopIsNext(r, c)'
  <2>1. calls # <<>> /\ Head(calls) = C("stop_conn", c, None)
    BY <1>4
  <2>2. 1 \in DOMAIN calls /\ calls[1] = C("stop_conn", c, None)
    BY <2>1
  <2> QED
    BY <1>1, <2>1, <2>2, CallFields DEF Concerned, StopIsNext, C
<1>5. StartsAsWritten'
  <2> SUFFICES ASSUME NEW c \in Conns \ overlapped', NEW q \in Requests, NEW call \in Pending(q)',
                      StartsIt(call, c), connRow'[c] # None
               PROVE  connRow'[c].config = call.config
    BY DEF StartsAsWritten, StartsIt
  <2>1. CASE q = r
    BY <1>1, <2>1
  <2>2. CASE q # r
    <3>1. call \in Pending(q)
      BY <1>1, <2>2
    <3>2. c \in Concerned(todo[q])
      BY <3>1 DEF Pending, Concerned, StartsIt
    <3>3. c \in issued
      BY <3>1 DEF ChildrenInv, CallsInv, UnissuedIsUnknown
    <3>4. connRow'[c] = connRow[c]
      BY <1>1, <1>4, <3>2, <3>3
    <3> QED
      BY <1>1, <3>1, <3>4 DEF ChildrenInv, CallsInv, StartsAsWritten
  <2> QED
    BY <2>1, <2>2
<1>6. \A q \in Requests, c \in Conns : StopIsNext(q, c) => StopIsNext(q, c)'
  BY <1>1 DEF StopIsNext, C
<1>7. \A c \in Conns \ issued : cancels[c] = None
                                /\ \A p \in Parents : parents[p] # None => parents[p][c] = None
  BY DEF ChildrenInv, CallsInv, UnissuedIsUnknown
<1>8. RunsAsWritten'
  <2> SUFFICES ASSUME NEW c \in Conns \ overlapped', connRow'[c] # None, cancels[c] # None
               PROVE  \/ started[cancels[c]].config = connRow'[c].config
                      \/ \E q \in Requests : StopIsNext(q, c)'
    BY <1>2 DEF RunsAsWritten, StopIsNext, C
  <2>1. CASE connRow'[c] = connRow[c]
    BY <1>1, <1>6, <2>1 DEF ChildrenInv, CallsInv, RunsAsWritten
  <2>2. CASE connRow'[c] # connRow[c]
    BY <1>4, <1>7, <2>2
  <2> QED
    BY <2>1, <2>2
<1>9. ChildrenHaveParents'
  <2> SUFFICES ASSUME NEW c \in Conns \ overlapped', connRow'[c] # None, cancels[c] # None,
                      started[cancels[c]].config.parent # None
               PROVE  parents[started[cancels[c]].config.parent] # None
    BY <1>2 DEF ChildrenHaveParents
  <2>1. connRow[c] # None
    BY <1>7
  <2> QED
    BY <1>1, <2>1 DEF ChildrenInv, ChildrenHaveParents
<1>10. RoutesAsWritten'
  <2> SUFFICES ASSUME NEW c \in Conns \ overlapped', NEW p \in Parents,
                      connRow'[c] # None, parents[p] # None, parents[p][c] # None
               PROVE  /\ connRow'[c].config.parent = p \/ c \in moved'
                      /\ parents[p][c] # cancels[c] =>
                           /\ c \in moved'
                           /\ connRow'[c].config.parent = p =>
                                \E q \in Requests : StopIsNext(q, c)'
    BY <1>2 DEF RoutesAsWritten, StopIsNext, C
  <2>1. c \in issued
    BY <1>7
  <2>2. /\ connRow[c] # None
        /\ connRow'[c].config.parent = connRow[c].config.parent \/ c \in moved'
    BY <2>1
  <2>3. /\ connRow[c].config.parent = p \/ c \in moved
        /\ parents[p][c] # cancels[c] =>
             /\ c \in moved
             /\ connRow[c].config.parent = p => \E q \in Requests : StopIsNext(q, c)
    BY <1>1, <2>2 DEF ChildrenInv, RoutesAsWritten
  <2>4. CASE connRow'[c] = connRow[c]
    BY <1>6, <2>3, <2>4
  <2>5. CASE connRow'[c] # connRow[c]
    BY <1>4, <2>1, <2>2, <2>3, <2>5
  <2> QED
    BY <2>4, <2>5
<1>11. ServedByParents'
  <2> SUFFICES ASSUME NEW c \in Conns \ overlapped', NEW p \in Parents, connRow'[c] # None,
                      parents[p] # None, Served(c, p)
               PROVE  parents[p][c] = cancels[c]
    BY <1>2 DEF ServedByParents, Served, HasListener
  <2>1. connRow[c] # None
    BY <1>7 DEF Served
  <2> QED
    BY <1>1, <2>1 DEF ChildrenInv, ServedByParents
<1>12. RoutesOfSessions'
  BY <1>2 DEF ChildrenInv, RoutesOfSessions
<1> QED
  BY <1>1, <1>2, <1>3, <1>5, <1>8, <1>9, <1>10, <1>11, <1>12
  DEF ChildrenInv, CallsInv, TablesTyped, mapVars

\* A call leaves the stops that are next where they are, unless it is one of them,
LEMMA StopsStayNext ==
  ASSUME CallsInv, NEW r \in Requests, NEW call, NEW more \in Seq(Call), Makes(r, call, more),
         \A k \in DOMAIN more : more[k].id = call.id \/ call.id = None,
         NEW c \in Conns, call # C("stop_conn", c, None), NEW q \in Requests, StopIsNext(q, c)
  PROVE  StopIsNext(q, c)'
<1>1. /\ Head(todo[r]) = call
      /\ \A p \in Requests \ {r} : todo'[p] = todo[p]
  BY MakesOne
<1>2. q # r
  BY <1>1 DEF StopIsNext
<1> QED
  BY <1>1, <1>2 DEF StopIsNext, C

\* and is the only one about a connection two requests were not about at once.
LEMMA NoOtherStop ==
  ASSUME CallsInv, NEW r \in Requests, NEW c \in Conns \ overlapped,
         c \in Concerned(todo[r]), ~StopIsNext(r, c), NEW q \in Requests, StopIsNext(q, c)
  PROVE  FALSE
<1>1. q # r
  OBVIOUS
<1>2. todo[q] \in Seq(Call)
  BY DEF CallsInv, TablesTyped
<1>3. 1 \in DOMAIN todo[q] /\ todo[q][1].id = c
  BY <1>2, CallFields DEF StopIsNext
<1>4. c \in Concerned(todo[q])
  BY <1>3 DEF Concerned
<1> QED
  BY <1>1, <1>4 DEF CallsInv, OneRequestUnlessOverlapped

\* What a call may do: a row keeps its configuration, and what runs is what was
\* there, unless it was stopped, or has just been started.
LEMMA CallKeepsCalls ==
  ASSUME CallsInv, NEW r \in Requests, NEW call, NEW more \in Seq(Call),
         Makes(r, call, more), UNCHANGED issued,
         connRow' \in [Conns -> OrNone(Row)],
         parents' \in [Parents -> OrNone([Conns -> OrNone(Sessions)])],
         \A k \in DOMAIN more : more[k].id = call.id \/ call.id = None,
         \A c \in Conns : connRow'[c] # None =>
           connRow[c] # None /\ connRow'[c].config = connRow[c].config,
         \A c \in Conns, k \in DOMAIN more : StartsIt(more[k], c) =>
           connRow[c] # None /\ connRow[c].config = more[k].config,
         \A c \in Conns, p \in Parents : parents'[p] # None /\ parents'[p][c] # None =>
           \/ parents[p] # None /\ parents[p][c] # None
           \/ StartsIt(call, c),
         \A c \in Conns : cancels'[c] # None =>
           \/ /\ cancels'[c] = cancels[c] /\ call # C("stop_conn", c, None)
              /\ started'[cancels[c]] = started[cancels[c]]
           \/ StartsIt(call, c) /\ started'[cancels'[c]].config = call.config
  PROVE  CallsInv'
<1>1. /\ call \in Pending(r) /\ Head(todo[r]) = call /\ todo[r] # <<>>
      /\ Pending(r)' \subseteq Pending(r) \cup {more[k] : k \in DOMAIN more}
      /\ \A q \in Requests \ {r} : todo'[q] = todo[q] /\ Pending(q)' = Pending(q)
      /\ todo' \in [Requests -> Seq(Call)]
      /\ OneRequestUnlessOverlapped'
  BY MakesOne
<1>2. overlapped' = overlapped
  BY DEF Makes
<1>3. ASSUME NEW q \in Requests, NEW c \in Pending(q)'
      PROVE  c \in Pending(q) \/ (q = r /\ \E k \in DOMAIN more : c = more[k])
  <2>1. CASE q = r
    BY <1>1, <1>3, <2>1
  <2>2. CASE q # r
    BY <1>1, <1>3, <2>2
  <2> QED
    BY <2>1, <2>2
<1>4. UnissuedIsUnknown'
  <2> SUFFICES ASSUME NEW c \in Conns \ issued
               PROVE  /\ connRow'[c] = None /\ cancels'[c] = None
                      /\ \A p \in Parents : parents'[p] # None => parents'[p][c] = None
                      /\ \A q \in Requests : \A d \in Pending(q)' : ~StartsIt(d, c)
    BY DEF UnissuedIsUnknown, StartsIt
  <2>1. /\ connRow[c] = None /\ cancels[c] = None /\ ~StartsIt(call, c)
        /\ \A p \in Parents : parents[p] # None => parents[p][c] = None
        /\ \A q \in Requests : \A d \in Pending(q) : ~StartsIt(d, c)
    BY <1>1 DEF CallsInv, UnissuedIsUnknown
  <2>2. \A k \in DOMAIN more : ~StartsIt(more[k], c)
    BY <2>1
  <2>3. \A q \in Requests : \A d \in Pending(q)' : ~StartsIt(d, c)
    BY <1>3, <2>1, <2>2
  <2> QED
    BY <2>1, <2>3
<1>5. StartsAsWritten'
  <2> SUFFICES ASSUME NEW c \in Conns \ overlapped, NEW q \in Requests, NEW d \in Pending(q)',
                      StartsIt(d, c), connRow'[c] # None
               PROVE  connRow'[c].config = d.config
    BY <1>2 DEF StartsAsWritten, StartsIt
  <2>1. CASE d \in Pending(q)
    BY <2>1 DEF CallsInv, StartsAsWritten
  <2>2. CASE d \notin Pending(q)
    BY <1>3, <2>2
  <2> QED
    BY <2>1, <2>2
<1>6. RunsAsWritten'
  <2> SUFFICES ASSUME NEW c \in Conns \ overlapped, connRow'[c] # None, cancels'[c] # None
               PROVE  \/ started'[cancels'[c]].config = connRow'[c].config
                      \/ \E q \in Requests : StopIsNext(q, c)'
    BY <1>2 DEF RunsAsWritten, StopIsNext, C
  <2>1. CASE cancels'[c] = cancels[c] /\ call # C("stop_conn", c, None)
             /\ started'[cancels[c]] = started[cancels[c]]
    <3>1. CASE started[cancels[c]].config = connRow[c].config
      BY <2>1, <3>1
    <3>2. ASSUME NEW q \in Requests, StopIsNext(q, c)
          PROVE  StopIsNext(q, c)'
      BY <1>1, <2>1, <3>2 DEF StopIsNext, C
    <3> QED
      BY <2>1, <3>1, <3>2 DEF CallsInv, RunsAsWritten
  <2>2. CASE StartsIt(call, c) /\ started'[cancels'[c]].config = call.config
    BY <1>1, <2>2 DEF CallsInv, StartsAsWritten
  <2> QED
    BY <2>1, <2>2
<1> QED
  BY <1>1, <1>4, <1>5, <1>6 DEF CallsInv, TablesTyped

\* The same for the calls that write no row and are followed by what was to follow.
LEMMA ManagerCallKeepsCalls ==
  ASSUME CallsInv, NEW r \in Requests, NEW call, Makes(r, call, <<>>), UNCHANGED <<issued, connRow>>,
         parents' \in [Parents -> OrNone([Conns -> OrNone(Sessions)])],
         \A c \in Conns, p \in Parents : parents'[p] # None /\ parents'[p][c] # None =>
           \/ parents[p] # None /\ parents[p][c] # None
           \/ StartsIt(call, c),
         \A c \in Conns : cancels'[c] # None =>
           \/ /\ cancels'[c] = cancels[c] /\ call # C("stop_conn", c, None)
              /\ started'[cancels[c]] = started[cancels[c]]
           \/ StartsIt(call, c) /\ started'[cancels'[c]].config = call.config
  PROVE  CallsInv'
<1> DEFINE more == <<>>
<1>1. more \in Seq(Call) /\ DOMAIN more = {} /\ Makes(r, call, more)
  OBVIOUS
<1>2. connRow' \in [Conns -> OrNone(Row)]
  BY DEF CallsInv, TablesTyped
<1>3. \A c \in Conns : connRow'[c] = connRow[c]
  OBVIOUS
<1> HIDE DEF more
<1> QED
  BY <1>1, <1>2, <1>3, CallKeepsCalls

LEMMA CallsTyped ==
  /\ \A c \in Conns, cfg \in Configs, e \in BOOLEAN :
       /\ C("start_conn", c, cfg) \in Call
       /\ If(e, C("start_conn", c, cfg)) \in Seq(Call)
       /\ <<C("stop_conn", c, None)>> \o If(e, C("start_conn", c, cfg)) \in Seq(Call)
       /\ <<C("write_conn", c, None), C("start_conn", c, cfg)>> \in Seq(Call)
  /\ \A c \in Conns :
       /\ <<C("stop_conn", c, None)>> \in Seq(Call)
       /\ <<C("stop_conn", c, None), C("delete_conn", c, None)>> \in Seq(Call)
  /\ \A p \in Parents, e \in BOOLEAN :
       /\ C("start_parent", p, None) \in Call
       /\ If(e, C("start_parent", p, None)) \in Seq(Call)
       /\ <<C("stop_parent", p, None)>> \o If(e, C("start_parent", p, None)) \in Seq(Call)
       /\ <<C("write_parent", p, None), C("start_parent", p, None)>> \in Seq(Call)
       /\ <<C("stop_parent", p, None)>> \in Seq(Call)
       /\ <<C("stop_parent", p, None), C("delete_children", p, None),
            C("delete_parent", p, None)>> \in Seq(Call)
  /\ <<C("stop_all", None, None)>> \o Start \in Seq(Call) /\ Start \in Seq(Call)
<1>1. \A id \in OrNone(Conns \cup Parents), cfg \in OrNone(Configs) :
        \A name \in {"write_conn", "stop_conn", "start_conn", "delete_conn", "write_parent",
                     "stop_parent", "start_parent", "delete_children", "delete_parent",
                     "stop_all", "list_parents", "list_conns"} :
          C(name, id, cfg) \in Call
  BY DEF C, Call
<1>2. \A id \in Conns \cup Parents \cup {None}, cfg \in Configs \cup {None} :
        id \in OrNone(Conns \cup Parents) /\ cfg \in OrNone(Configs)
  BY DEF OrNone
<1>3. \A c \in Conns : /\ \A cfg \in Configs : C("start_conn", c, cfg) \in Call
                      /\ C("stop_conn", c, None) \in Call /\ C("delete_conn", c, None) \in Call
                      /\ C("write_conn", c, None) \in Call
  BY <1>1, <1>2
<1>4. \A p \in Parents : \A name \in {"write_parent", "stop_parent", "start_parent",
                                      "delete_children", "delete_parent"} :
        C(name, p, None) \in Call
  BY <1>1, <1>2
<1>5. \A name \in {"stop_all", "list_parents", "list_conns"} : C(name, None, None) \in Call
  BY <1>1, <1>2
<1> QED
  BY <1>3, <1>4, <1>5 DEF If, Start

\* The calls of a request that stops a connection, or a parent, and starts it again if
\* it is enabled.
LEMMA Restarts ==
  ASSUME NEW stop, NEW start, NEW e \in BOOLEAN
  PROVE  LET calls == <<stop>> \o If(e, start)
         IN  /\ calls # <<>> /\ Head(calls) = stop
             /\ \A k \in DOMAIN calls : calls[k] = stop \/ (e /\ calls[k] = start)
<1>1. CASE e
  BY <1>1 DEF If
<1>2. CASE ~e
  BY <1>2 DEF If
<1> QED
  BY <1>1, <1>2

LEMMA RowIsTyped ==
  ASSUME ChildrenInv, NEW c \in Conns, connRow[c] # None
  PROVE  /\ connRow[c] \in Row /\ connRow[c].config \in Configs /\ connRow[c].enable \in BOOLEAN
         /\ \A e \in BOOLEAN : /\ [connRow[c] EXCEPT !.enable = e] \in Row
                               /\ [connRow[c] EXCEPT !.enable = e].config = connRow[c].config
<1>1. connRow[c] \in Row
  BY DEF ChildrenInv, CallsInv, TablesTyped, OrNone
<1> QED
  BY <1>1 DEF Row

LEMMA WritesKeepChildren ==
  ASSUME ChildrenInv, NEW r \in Requests, NEW c \in Conns, NEW e \in BOOLEAN, NEW cfg \in Configs,
         CreateConn(r, c, e, cfg) \/ UpdateConn(r, c, e, cfg)
  PROVE  ChildrenInv'
<1> DEFINE new == [enable |-> e, config |-> cfg]
<1>0. new \in Row /\ new.config = cfg
  BY DEF Row
<1> HIDE DEF new
<1>1. /\ connRow \in [Conns -> OrNone(Row)]
      /\ \A d \in Conns \ issued : connRow[d] = None
  BY DEF ChildrenInv, CallsInv, TablesTyped, UnissuedIsUnknown
<1>2. CASE CreateConn(r, c, e, cfg)
  <2> DEFINE calls == If(e, C("start_conn", c, cfg))
  <2>1. calls \in Seq(Call) /\ \A k \in DOMAIN calls : calls[k] = C("start_conn", c, cfg)
    BY CallsTyped DEF If
  <2>2. /\ Begin(r, calls) /\ issued' = issued \cup {c} /\ c \notin issued
        /\ connRow' = [connRow EXCEPT ![c] = new] /\ moved' = moved
    BY <1>2 DEF CreateConn, new
  <2> HIDE DEF calls
  <2>3. connRow' \in [Conns -> OrNone(Row)]
    BY <1>0, <1>1, <2>2 DEF OrNone
  <2>4. connRow'[c] = new /\ \A d \in Conns \ {c} : connRow'[d] = connRow[d]
    BY <1>1, <2>2
  <2>5. \A d \in Conns, k \in DOMAIN calls : StartsIt(calls[k], d) => d = c /\ calls[k].config = cfg
    BY <2>1, CallFields DEF StartsIt
  <2>6. \A d \in Conns \ issued' : connRow'[d] = None /\ \A k \in DOMAIN calls : ~StartsIt(calls[k], d)
    BY <1>1, <2>2, <2>4, <2>5
  <2> QED
    BY <1>0, <2>1, <2>2, <2>3, <2>4, <2>5, <2>6, BeginKeepsChildren
<1>3. CASE UpdateConn(r, c, e, cfg)
  <2> DEFINE calls == <<C("stop_conn", c, None)>> \o If(e, C("start_conn", c, cfg))
  <2>1. /\ calls \in Seq(Call) /\ calls # <<>> /\ Head(calls) = C("stop_conn", c, None)
        /\ \A k \in DOMAIN calls :
             calls[k] = C("stop_conn", c, None) \/ (e /\ calls[k] = C("start_conn", c, cfg))
    BY CallsTyped, Restarts
  <2>2. /\ Begin(r, calls) /\ issued' = issued /\ c \in issued
        /\ connRow' = [connRow EXCEPT ![c] = IF @ = None THEN None ELSE new]
        /\ moved' = IF connRow[c] = None \/ connRow[c].config.parent = cfg.parent THEN moved
                    ELSE moved \cup {c}
    BY <1>3 DEF UpdateConn, new
  <2> HIDE DEF calls
  <2>3. connRow' \in [Conns -> OrNone(Row)]
    BY <1>0, <1>1, <2>2 DEF OrNone
  <2>4. /\ connRow'[c] # None => connRow[c] # None /\ connRow'[c] = new
        /\ \A d \in Conns \ {c} : connRow'[d] = connRow[d]
    BY <1>1, <2>2
  <2>5. \A d \in Conns, k \in DOMAIN calls : StartsIt(calls[k], d) => d = c /\ calls[k].config = cfg
    BY <2>1, CallFields DEF StartsIt
  <2>6. moved \subseteq moved' /\ (connRow[c] = None \/ connRow[c].config.parent = cfg.parent \/ c \in moved')
    BY <2>2
  <2>7. \A d \in Conns \ issued' : connRow'[d] = None /\ \A k \in DOMAIN calls : ~StartsIt(calls[k], d)
    BY <1>1, <2>2, <2>4, <2>5
  <2>8. \A d \in Conns : connRow'[d] # connRow[d] /\ connRow'[d] # None =>
          d = c /\ connRow[c] # None /\ (connRow'[c].config.parent = connRow[c].config.parent \/ c \in moved')
    BY <1>0, <2>4, <2>6
  <2>9. \A d \in Conns, k \in DOMAIN calls : StartsIt(calls[k], d) /\ connRow'[d] # None =>
          connRow'[d].config = calls[k].config
    BY <1>0, <2>4, <2>5
  <2> QED
    BY <2>1, <2>2, <2>3, <2>6, <2>7, <2>8, <2>9, BeginKeepsChildren
<1> QED
  BY <1>2, <1>3

\* Requests that leave the configurations alone.
LEMMA OtherRequestsKeepChildren ==
  ASSUME ChildrenInv, NEW r \in Requests, NEW c \in Conns,
         EnableConn(r, c) \/ DisableConn(r, c) \/ DeleteConn(r, c) \/ ReloadConn(r, c)
  PROVE  ChildrenInv'
<1>1. /\ connRow \in [Conns -> OrNone(Row)]
      /\ \A d \in Conns \ issued : connRow[d] = None
  BY DEF ChildrenInv, CallsInv, TablesTyped, UnissuedIsUnknown
<1>2. ASSUME NEW calls \in Seq(Call), Begin(r, calls), UNCHANGED <<connRow, issued, moved>>,
             \A k \in DOMAIN calls : \/ calls[k].call # "start_conn"
                                     \/ connRow[c] # None /\ calls[k] = C("start_conn", c, connRow[c].config)
      PROVE  ChildrenInv'
  <2>1. \A d \in Conns, k \in DOMAIN calls : StartsIt(calls[k], d) =>
          d = c /\ connRow[c] # None /\ calls[k].config = connRow[c].config
    BY <1>2, CallFields DEF StartsIt
  <2> QED
    BY <1>1, <1>2, <2>1, BeginKeepsChildren
<1>3. CASE EnableConn(r, c)
  <2> DEFINE calls == <<C("write_conn", c, None), C("start_conn", c, connRow[c].config)>>
  <2>1. Begin(r, calls) /\ UNCHANGED <<connRow, issued, moved>> /\ connRow[c] # None
    BY <1>3 DEF EnableConn, rowVars
  <2>2. calls \in Seq(Call)
    BY <2>1, CallsTyped, RowIsTyped
  <2>3. \A k \in DOMAIN calls :
          calls[k] = C("write_conn", c, None) \/ calls[k] = C("start_conn", c, connRow[c].config)
    OBVIOUS
  <2> HIDE DEF calls
  <2> QED
    BY <1>2, <2>1, <2>2, <2>3, CallFields
<1>4. CASE DisableConn(r, c)
  <2> DEFINE calls == <<C("stop_conn", c, None)>>
  <2>1. /\ Begin(r, calls) /\ UNCHANGED <<issued, moved>> /\ c \in issued
        /\ connRow' = [connRow EXCEPT ![c] = IF @ = None THEN None ELSE [@ EXCEPT !.enable = FALSE]]
    BY <1>4 DEF DisableConn
  <2>2. /\ calls # <<>> /\ Head(calls) = C("stop_conn", c, None)
        /\ \A k \in DOMAIN calls : calls[k] = C("stop_conn", c, None)
    OBVIOUS
  <2>7. calls \in Seq(Call)
    BY CallsTyped
  <2> HIDE DEF calls
  <2>3. connRow' \in [Conns -> OrNone(Row)]
    BY <1>1, <2>1, RowIsTyped DEF OrNone
  <2>4. /\ connRow'[c] # None => connRow[c] # None /\ connRow'[c].config = connRow[c].config
        /\ \A d \in Conns \ {c} : connRow'[d] = connRow[d]
    BY <1>1, <2>1, RowIsTyped
  <2>5. \A d \in Conns, k \in DOMAIN calls : ~StartsIt(calls[k], d)
    BY <2>2, CallFields DEF StartsIt
  <2>6. \A d \in Conns \ issued' : connRow'[d] = None
    BY <1>1, <2>1, <2>4
  <2> QED
    BY <2>1, <2>2, <2>3, <2>4, <2>5, <2>6, <2>7, BeginKeepsChildren, ZenonT(40)
<1>5. CASE DeleteConn(r, c)
  <2> DEFINE calls == <<C("stop_conn", c, None), C("delete_conn", c, None)>>
  <2>1. Begin(r, calls) /\ UNCHANGED <<connRow, issued, moved>>
    BY <1>5 DEF DeleteConn, rowVars
  <2>2. \A k \in DOMAIN calls : calls[k] = C("stop_conn", c, None) \/ calls[k] = C("delete_conn", c, None)
    OBVIOUS
  <2>3. calls \in Seq(Call)
    BY CallsTyped
  <2> HIDE DEF calls
  <2> QED
    BY <1>2, <2>1, <2>2, <2>3, CallFields
<1>6. CASE ReloadConn(r, c)
  <2> DEFINE e == connRow[c].enable
             cfg == connRow[c].config
             calls == <<C("stop_conn", c, None)>> \o If(e, C("start_conn", c, cfg))
  <2>1. /\ Begin(r, calls) /\ UNCHANGED <<connRow, issued, moved>> /\ connRow[c] # None
    BY <1>6 DEF ReloadConn, rowVars
  <2>2. e \in BOOLEAN /\ cfg \in Configs
    BY <2>1, RowIsTyped
  <2> HIDE DEF e, cfg
  <2>3. /\ calls \in Seq(Call)
        /\ \A k \in DOMAIN calls :
             calls[k] = C("stop_conn", c, None) \/ (e /\ calls[k] = C("start_conn", c, cfg))
    BY <2>2, CallsTyped, Restarts
  <2> HIDE DEF calls
  <2> QED
    BY <1>2, <2>1, <2>3, CallFields DEF cfg
<1> QED
  BY <1>3, <1>4, <1>5, <1>6

\* Requests about a parent, and the reload of everything, start no connection as they
\* begin and write no row of one.
LEMMA ParentRequestsKeepChildren ==
  ASSUME ChildrenInv, NEW r \in Requests,
         \/ ReloadAll(r)
         \/ \E p \in Parents :
              \/ \E e \in BOOLEAN : CreateParent(r, p, e) \/ UpdateParent(r, p, e)
              \/ EnableParent(r, p) \/ DisableParent(r, p) \/ DeleteParent(r, p) \/ ReloadParent(r, p)
  PROVE  ChildrenInv'
<1>1. ASSUME NEW calls \in Seq(Call), Begin(r, calls), UNCHANGED <<connRow, moved>>,
             issued \subseteq issued', \A k \in DOMAIN calls : calls[k].call # "start_conn"
      PROVE  ChildrenInv'
  <2>1. \A d \in Conns, k \in DOMAIN calls : ~StartsIt(calls[k], d)
    BY <1>1 DEF StartsIt
  <2>2. /\ connRow' \in [Conns -> OrNone(Row)]
        /\ \A d \in Conns \ issued' : connRow'[d] = None
    BY <1>1 DEF ChildrenInv, CallsInv, TablesTyped, UnissuedIsUnknown
  <2> QED
    BY <1>1, <2>1, <2>2, BeginKeepsChildren
<1>2. ASSUME ReloadAll(r)
      PROVE  ChildrenInv'
  <2> DEFINE calls == <<C("stop_all", None, None)>> \o Start
  <2>1. calls \in Seq(Call) /\ Begin(r, calls) /\ UNCHANGED <<connRow, issued, moved>>
    BY <1>2, CallsTyped DEF ReloadAll, rowVars
  <2>2. \A k \in DOMAIN calls : \E name \in {"stop_all", "list_parents", "list_conns"} :
          calls[k] = C(name, None, None)
    BY DEF Start
  <2> HIDE DEF calls
  <2> QED
    BY <1>1, <2>1, <2>2, CallFields
<1>3. ASSUME NEW p \in Parents, NEW e \in BOOLEAN, CreateParent(r, p, e)
      PROVE  ChildrenInv'
  <2> DEFINE calls == If(e, C("start_parent", p, None))
  <2>1. calls \in Seq(Call) /\ Begin(r, calls) /\ UNCHANGED <<connRow, moved>> /\ issued \subseteq issued'
    BY <1>3, CallsTyped DEF CreateParent
  <2>2. \A k \in DOMAIN calls : calls[k] = C("start_parent", p, None)
    BY DEF If
  <2> HIDE DEF calls
  <2> QED
    BY <1>1, <2>1, <2>2, CallFields
<1>4. ASSUME NEW p \in Parents, NEW e \in BOOLEAN,
             LET calls == <<C("stop_parent", p, None)>> \o If(e, C("start_parent", p, None))
             IN  Begin(r, calls) /\ UNCHANGED <<connRow, issued, moved>>
      PROVE  ChildrenInv'
  <2> DEFINE calls == <<C("stop_parent", p, None)>> \o If(e, C("start_parent", p, None))
  <2>1. /\ calls \in Seq(Call) /\ Begin(r, calls) /\ UNCHANGED <<connRow, issued, moved>>
        /\ \A k \in DOMAIN calls :
             calls[k] = C("stop_parent", p, None) \/ calls[k] = C("start_parent", p, None)
    BY <1>4, CallsTyped, Restarts
  <2> HIDE DEF calls
  <2> QED
    BY <1>1, <2>1, CallFields
<1>5. ASSUME NEW p \in Parents, NEW e \in BOOLEAN, UpdateParent(r, p, e)
      PROVE  ChildrenInv'
  BY <1>4, <1>5 DEF UpdateParent
<1>6. ASSUME NEW p \in Parents, ReloadParent(r, p)
      PROVE  ChildrenInv'
  BY <1>4, <1>6 DEF ReloadParent, rowVars
<1>7. ASSUME NEW p \in Parents, EnableParent(r, p)
      PROVE  ChildrenInv'
  <2> DEFINE calls == <<C("write_parent", p, None), C("start_parent", p, None)>>
  <2>1. calls \in Seq(Call) /\ Begin(r, calls) /\ UNCHANGED <<connRow, issued, moved>>
    BY <1>7, CallsTyped DEF EnableParent, rowVars
  <2>2. \A k \in DOMAIN calls :
          calls[k] = C("write_parent", p, None) \/ calls[k] = C("start_parent", p, None)
    OBVIOUS
  <2> HIDE DEF calls
  <2> QED
    BY <1>1, <2>1, <2>2, CallFields
<1>8. ASSUME NEW p \in Parents, DisableParent(r, p)
      PROVE  ChildrenInv'
  <2> DEFINE calls == <<C("stop_parent", p, None)>>
  <2>1. calls \in Seq(Call) /\ Begin(r, calls) /\ UNCHANGED <<connRow, issued, moved>>
    BY <1>8, CallsTyped DEF DisableParent
  <2>2. \A k \in DOMAIN calls : calls[k] = C("stop_parent", p, None)
    OBVIOUS
  <2> HIDE DEF calls
  <2> QED
    BY <1>1, <2>1, <2>2, CallFields
<1>9. ASSUME NEW p \in Parents, DeleteParent(r, p)
      PROVE  ChildrenInv'
  <2> DEFINE calls == <<C("stop_parent", p, None), C("delete_children", p, None),
                        C("delete_parent", p, None)>>
  <2>1. calls \in Seq(Call) /\ Begin(r, calls) /\ UNCHANGED <<connRow, issued, moved>>
    BY <1>9, CallsTyped DEF DeleteParent, rowVars
  <2>2. \A k \in DOMAIN calls : \E name \in {"stop_parent", "delete_children", "delete_parent"} :
          calls[k] = C(name, p, None)
    OBVIOUS
  <2> HIDE DEF calls
  <2> QED
    BY <1>1, <2>1, <2>2, CallFields
<1> QED
  BY <1>2, <1>3, <1>5, <1>6, <1>7, <1>8, <1>9

-----------------------------------------------------------------------------
\* A call that touches neither sessions nor routes, and gives no row another
\* configuration, leaves parents and children as they are.
LEMMA QuietCall ==
  ASSUME ChildrenInv, Inv', NEW r \in Requests, NEW call, NEW more \in Seq(Call),
         Makes(r, call, more), UNCHANGED <<issued, moved, parents, cancels, started>>,
         connRow' \in [Conns -> OrNone(Row)],
         \A k \in DOMAIN more : more[k].id = call.id \/ call.id = None,
         \A c \in Conns : connRow'[c] # None =>
           connRow[c] # None /\ connRow'[c].config = connRow[c].config,
         \A c \in Conns, k \in DOMAIN more : StartsIt(more[k], c) =>
           connRow[c] # None /\ connRow[c].config = more[k].config,
         call.call # "stop_conn"
  PROVE  ChildrenInv'
<1>1. overlapped' = overlapped
  BY DEF Makes
<1>2. CallsInv'
  <2>1. parents' \in [Parents -> OrNone([Conns -> OrNone(Sessions)])]
    BY DEF ChildrenInv, CallsInv, TablesTyped
  <2>2. \A c \in Conns : call # C("stop_conn", c, None)
    BY CallFields
  <2> QED
    BY <2>1, <2>2, CallKeepsCalls, ZenonT(40) DEF ChildrenInv
<1>3. ChildrenHaveParents'
  BY <1>1 DEF ChildrenInv, ChildrenHaveParents
<1>4. RoutesAsWritten'
  <2>1. \A c \in Conns, q \in Requests : StopIsNext(q, c) => StopIsNext(q, c)'
    BY CallFields, StopsStayNext DEF ChildrenInv
  <2> SUFFICES ASSUME NEW c \in Conns \ overlapped, NEW p \in Parents,
                      connRow'[c] # None, parents[p] # None, parents[p][c] # None
               PROVE  /\ connRow[c].config.parent = p \/ c \in moved
                      /\ parents[p][c] # cancels[c] =>
                           /\ c \in moved
                           /\ connRow[c].config.parent = p =>
                                \E q \in Requests : StopIsNext(q, c)'
    BY <1>1 DEF RoutesAsWritten, StopIsNext, C
  <2> QED
    BY <2>1 DEF ChildrenInv, RoutesAsWritten
<1>5. ServedByParents' /\ RoutesOfSessions'
  BY <1>1 DEF ChildrenInv, ServedByParents, RoutesOfSessions, Served, HasListener
<1> QED
  BY <1>2, <1>3, <1>4, <1>5 DEF ChildrenInv

LEMMA StatementsKeepChildren ==
  ASSUME ChildrenInv, NEW r \in Requests,
         \/ \E c \in Conns : WriteConn(r, c) \/ DeleteConnRow(r, c)
         \/ \E p \in Parents : WriteParent(r, p) \/ DeleteChildRows(r, p) \/ DeleteParentRow(r, p)
  PROVE  ChildrenInv'
<1>1. Inv'
  BY RequestStepKeepsInv DEF RequestStep, ChildrenInv
<1>2. connRow \in [Conns -> OrNone(Row)]
  BY DEF ChildrenInv, CallsInv, TablesTyped
<1>3. ASSUME NEW name, name # "stop_conn", NEW id, Statement(r, C(name, id, None)),
             connRow' \in [Conns -> OrNone(Row)],
             \A c \in Conns : connRow'[c] # None =>
               connRow[c] # None /\ connRow'[c].config = connRow[c].config
      PROVE  ChildrenInv'
  <2> DEFINE call == C(name, id, None)
  <2>1. Makes(r, call, <<>>) /\ UNCHANGED <<issued, moved, parents, cancels, started>>
    BY <1>3 DEF Statement, mapVars, sessionVars
  <2>2. call.call # "stop_conn"
    BY <1>3, CallFields
  <2>3. <<>> \in Seq(Call) /\ DOMAIN <<>> = {}
    OBVIOUS
  <2> HIDE DEF call
  <2> QED
    BY <1>1, <1>3, <2>1, <2>2, <2>3, QuietCall
<1>4. ASSUME NEW c \in Conns, WriteConn(r, c)
      PROVE  ChildrenInv'
  <2>1. connRow' = [connRow EXCEPT ![c] = IF @ = None THEN None ELSE [@ EXCEPT !.enable = TRUE]]
    BY <1>4 DEF WriteConn
  <2>2. connRow' \in [Conns -> OrNone(Row)]
    BY <1>2, <2>1, RowIsTyped DEF OrNone
  <2>3. \A d \in Conns : connRow'[d] # None =>
          connRow[d] # None /\ connRow'[d].config = connRow[d].config
    BY <1>2, <2>1, RowIsTyped
  <2> QED
    BY <1>3, <1>4, <2>2, <2>3 DEF WriteConn
<1>5. ASSUME NEW c \in Conns, DeleteConnRow(r, c)
      PROVE  ChildrenInv'
  <2>1. connRow' = [connRow EXCEPT ![c] = None]
    BY <1>5 DEF DeleteConnRow
  <2> QED
    BY <1>2, <1>3, <1>5, <2>1 DEF DeleteConnRow, OrNone
<1>6. ASSUME NEW p \in Parents, DeleteChildRows(r, p)
      PROVE  ChildrenInv'
  <2>1. connRow' = [c \in Conns |-> IF c \in ChildRows(p) THEN None ELSE connRow[c]]
    BY <1>6 DEF DeleteChildRows
  <2> QED
    BY <1>2, <1>3, <1>6, <2>1 DEF DeleteChildRows, OrNone
<1>7. ASSUME NEW p \in Parents, WriteParent(r, p) \/ DeleteParentRow(r, p)
      PROVE  ChildrenInv'
  BY <1>2, <1>3, <1>7 DEF WriteParent, DeleteParentRow
<1> QED
  BY <1>4, <1>5, <1>6, <1>7

LEMMA SkipsKeepChildren ==
  ASSUME ChildrenInv, NEW r \in Requests,
         \/ \E c \in Conns, cfg \in Configs : SkipConn(r, c, cfg) \/ FailConn(r, c, cfg)
         \/ \E p \in Parents : SkipParent(r, p)
  PROVE  ChildrenInv'
<1>1. Inv'
  BY RequestStepKeepsInv DEF RequestStep, ChildrenInv
<1>2. PICK call : /\ Makes(r, call, <<>>) /\ call.call # "stop_conn"
                  /\ UNCHANGED <<connRow, issued, moved, parents, cancels, started>>
  BY CallFields DEF SkipConn, FailConn, SkipParent, rowVars, mapVars, sessionVars
<1>3. <<>> \in Seq(Call) /\ DOMAIN <<>> = {}
  OBVIOUS
<1>4. connRow' \in [Conns -> OrNone(Row)]
  BY <1>2 DEF ChildrenInv, CallsInv, TablesTyped
<1> QED
  BY <1>1, <1>2, <1>3, <1>4, QuietCall

LEMMA OrdersAreSequences ==
  ASSUME NEW S, IsFiniteSet(S), NEW order \in Orders(S), NEW T, NEW f,
         DOMAIN f = DOMAIN order, \A k \in DOMAIN order : f[k] \in T,
         f = [k \in DOMAIN f |-> f[k]]
  PROVE  f \in Seq(T) /\ \A k \in DOMAIN order : order[k] \in S
<1>1. order \in [1 .. Cardinality(S) -> S]
  BY DEF Orders
<1>2. Cardinality(S) \in Nat
  BY FS_CardinalityType
<1> QED
  BY <1>1, <1>2

\* The lists read the tables and put the starts in place of the call.
LEMMA ListsKeepChildren ==
  ASSUME ChildrenInv, NEW r \in Requests, startParents(r) \/ startConns(r)
  PROVE  ChildrenInv'
<1>1. Inv'
  BY RequestStepKeepsInv DEF RequestStep, ChildrenInv
<1>2. connRow \in [Conns -> OrNone(Row)]
  BY DEF ChildrenInv, CallsInv, TablesTyped
<1>3. ASSUME NEW call, call.id = None, call.call # "stop_conn", NEW more \in Seq(Call),
             Makes(r, call, more), UNCHANGED <<rowVars, mapVars, sessionVars>>,
             \A c \in Conns, k \in DOMAIN more : StartsIt(more[k], c) =>
               connRow[c] # None /\ connRow[c].config = more[k].config
      PROVE  ChildrenInv'
  BY <1>1, <1>2, <1>3, QuietCall DEF rowVars, mapVars, sessionVars
<1>4. ASSUME startParents(r)
      PROVE  ChildrenInv'
  <2> DEFINE S == {p \in Parents : parentRow[p] = "enabled"}
             call == C("list_parents", None, None)
  <2>1. PICK order \in Orders(S) :
          Makes(r, call, [k \in DOMAIN order |-> C("start_parent", order[k], None)])
    BY <1>4 DEF startParents
  <2> DEFINE more == [k \in DOMAIN order |-> C("start_parent", order[k], None)]
  <2>2. UNCHANGED <<rowVars, mapVars, sessionVars>>
    BY <1>4 DEF startParents
  <2>3. \A k \in DOMAIN order : order[k] \in Parents
    BY DEF Orders
  <2>4. more \in Seq(Call)
    <3>1. IsFiniteSet(S)
      BY KeysAssumption, FS_Subset
    <3>2. \A k \in DOMAIN order : more[k] \in Call
      BY <2>3, CallsTyped
    <3> QED
      BY <3>1, <3>2, OrdersAreSequences
  <2>5. \A k \in DOMAIN more : more[k].call = "start_parent"
    BY CallFields
  <2>6. Makes(r, call, more)
    BY <2>1
  <2>7. call.id = None /\ call.call # "stop_conn"
    BY CallFields
  <2> HIDE DEF more, call
  <2> QED
    BY <1>3, <2>2, <2>4, <2>5, <2>6, <2>7 DEF StartsIt
<1>5. ASSUME startConns(r)
      PROVE  ChildrenInv'
  <2> DEFINE S == {c \in Conns : connRow[c] # None /\ connRow[c].enable}
             call == C("list_conns", None, None)
  <2>1. PICK order \in Orders(S) :
          Makes(r, call, [k \in DOMAIN order |-> C("start_conn", order[k], connRow[order[k]].config)])
    BY <1>5 DEF startConns
  <2> DEFINE more == [k \in DOMAIN order |-> C("start_conn", order[k], connRow[order[k]].config)]
  <2>2. UNCHANGED <<rowVars, mapVars, sessionVars>>
    BY <1>5 DEF startConns
  <2>3. \A k \in DOMAIN order : order[k] \in S
    BY DEF Orders
  <2>4. more \in Seq(Call)
    <3>1. IsFiniteSet(S)
      BY KeysAssumption, FS_Subset
    <3>2. \A k \in DOMAIN order : more[k] \in Call
      BY <2>3, CallsTyped, RowIsTyped
    <3> QED
      BY <3>1, <3>2, OrdersAreSequences
  <2>5. \A k \in DOMAIN more : \E c \in Conns :
          connRow[c] # None /\ more[k] = C("start_conn", c, connRow[c].config)
    BY <2>3
  <2>6. Makes(r, call, more)
    BY <2>1
  <2>7. call.id = None /\ call.call # "stop_conn"
    BY CallFields
  <2> HIDE DEF more, call
  <2>8. \A c \in Conns, k \in DOMAIN more : StartsIt(more[k], c) =>
          connRow[c] # None /\ connRow[c].config = more[k].config
    BY <2>5, CallFields DEF StartsIt
  <2> QED
    BY <1>3, <2>2, <2>4, <2>6, <2>7, <2>8
<1> QED
  BY <1>4, <1>5

\* A parent that starts has no routes yet.
LEMMA StartParentKeepsChildren ==
  ASSUME ChildrenInv, NEW r \in Requests, NEW p \in Parents, StartParent(r, p)
  PROVE  ChildrenInv'
<1>1. Inv'
  BY RequestStepKeepsInv DEF RequestStep, ChildrenInv
<1> DEFINE call == C("start_parent", p, None)
           none == [c \in Conns |-> None]
<1>2. /\ Makes(r, call, <<>>) /\ parents' = [parents EXCEPT ![p] = none]
      /\ UNCHANGED <<connRow, issued, moved, cancels, started, overlapped>>
      /\ call.call = "start_parent"
  BY CallFields DEF StartParent, rowVars, sessionVars, Makes
<1>3. none \in [Conns -> OrNone(Sessions)] /\ \A c \in Conns : none[c] = None
  BY DEF OrNone
<1> HIDE DEF call, none
<1>4. /\ parents' \in [Parents -> OrNone([Conns -> OrNone(Sessions)])]
      /\ parents'[p] = none /\ \A q \in Parents \ {p} : parents'[q] = parents[q]
  BY <1>2, <1>3 DEF ChildrenInv, CallsInv, TablesTyped, OrNone
<1>5. CallsInv'
  <2>1. \A c \in Conns, q \in Parents : parents'[q] # None /\ parents'[q][c] # None =>
          \/ parents[q] # None /\ parents[q][c] # None
          \/ StartsIt(call, c)
    BY <1>3, <1>4
  <2>2. \A c \in Conns : cancels'[c] # None =>
          \/ /\ cancels'[c] = cancels[c] /\ call # C("stop_conn", c, None)
             /\ started'[cancels[c]] = started[cancels[c]]
          \/ StartsIt(call, c) /\ started'[cancels'[c]].config = call.config
    BY <1>2, CallFields
  <2>3. CallsInv /\ UNCHANGED <<issued, connRow>>
    BY <1>2 DEF ChildrenInv
  <2>4. Makes(r, call, <<>>) /\ parents' \in [Parents -> OrNone([Conns -> OrNone(Sessions)])]
    BY <1>2, <1>4
  <2> QED
    BY <2>1, <2>2, <2>3, <2>4, ManagerCallKeepsCalls
<1>6. ChildrenHaveParents'
  <2>1. \A q : q # p => parents'[q] = parents[q]
    BY <1>2 DEF ChildrenInv, CallsInv, TablesTyped
  <2>2. none # None
    BY <1>3, NoRoutes
  <2> QED
    BY <1>2, <1>4, <2>1, <2>2 DEF ChildrenInv, ChildrenHaveParents
<1>7. RoutesAsWritten'
  <2>1. \A c \in Conns, q \in Requests : StopIsNext(q, c) => StopIsNext(q, c)'
    <3>1. <<>> \in Seq(Call) /\ DOMAIN <<>> = {} /\ \A c \in Conns : call # C("stop_conn", c, None)
      BY <1>2, CallFields
    <3> QED
      BY <1>2, <3>1, StopsStayNext DEF ChildrenInv
  <2> SUFFICES ASSUME NEW c \in Conns \ overlapped, NEW q \in Parents,
                      connRow[c] # None, parents'[q] # None, parents'[q][c] # None
               PROVE  /\ connRow[c].config.parent = q \/ c \in moved
                      /\ parents'[q][c] # cancels[c] =>
                           /\ c \in moved
                           /\ connRow[c].config.parent = q =>
                                \E t \in Requests : StopIsNext(t, c)'
    BY <1>2 DEF RoutesAsWritten, StopIsNext, C
  <2>2. parents'[q] = parents[q]
    BY <1>3, <1>4
  <2> QED
    BY <2>1, <2>2 DEF ChildrenInv, RoutesAsWritten
<1>8. ServedByParents'
  <2> SUFFICES ASSUME NEW c \in Conns \ overlapped, NEW q \in Parents, connRow[c] # None,
                      parents'[q] # None, Served(c, q)
               PROVE  parents'[q][c] = cancels[c]
    BY <1>2 DEF ServedByParents, Served, HasListener
  <2>1. parents[q] # None
    BY NoRoutes DEF ChildrenInv, ChildrenHaveParents, Served
  <2>2. q # p
    BY <2>1 DEF StartParent
  <2> QED
    BY <1>4, <2>1, <2>2 DEF ChildrenInv, ServedByParents
<1>9. RoutesOfSessions'
  BY <1>2, <1>3, <1>4 DEF ChildrenInv, RoutesOfSessions
<1> QED
  BY <1>1, <1>5, <1>6, <1>7, <1>8, <1>9 DEF ChildrenInv

\* What runs is of a configuration that names a parent, or none.
LEMMA ParentsAreParents ==
  ASSUME ChildrenInv, NEW c \in Conns, cancels[c] # None
  PROVE  started[cancels[c]].config.parent \in Parents \cup {None}
<1>1. started[cancels[c]] \in [conn : Conns, config : Configs]
  BY DEF ChildrenInv, Inv, Types, OwnSessions, For, OrNone
<1> QED
  BY <1>1, ConfigsAssumption

\* A stop releases connections and takes parents, or routes of a connection, away.
\* Nothing it leaves running loses its parent or its route, and where the row names a
\* parent, no route is left there of what it has released.
CleanStop(call) ==
  /\ \A p \in Parents : parents'[p] # None =>
       /\ parents[p] # None
       /\ \A c \in Conns : /\ parents'[p][c] \in {None, parents[p][c]}
                           /\ cancels'[c] # None => parents'[p][c] = parents[p][c]
  /\ \A c \in Conns : cancels'[c] # None =>
       cancels'[c] = cancels[c] /\ call # C("stop_conn", c, None)
  /\ \A c \in Conns \ overlapped, p \in Parents :
       /\ connRow[c] # None /\ cancels'[c] # None
       /\ started[cancels[c]].config.parent = p /\ parents[p] # None
       => parents'[p] # None
  /\ \A c \in Conns, p \in Parents :
       /\ connRow[c] # None /\ cancels'[c] = None
       /\ cancels[c] # None \/ call = C("stop_conn", c, None)
       /\ connRow[c].config.parent = p
       => parents'[p] = None \/ parents'[p][c] = None

LEMMA StopKeepsChildren ==
  ASSUME ChildrenInv, Inv', NEW r \in Requests, NEW call, Makes(r, call, <<>>),
         UNCHANGED <<rowVars, started>>,
         parents' \in [Parents -> OrNone([Conns -> OrNone(Sessions)])],
         CleanStop(call)
  PROVE  ChildrenInv'
<1> USE DEF CleanStop
<1>1. UNCHANGED <<connRow, issued, moved, started>> /\ overlapped' = overlapped
  BY DEF rowVars, Makes
<1>2. CallsInv'
  <2>1. \A c \in Conns, p \in Parents : parents'[p] # None /\ parents'[p][c] # None =>
          \/ parents[p] # None /\ parents[p][c] # None
          \/ StartsIt(call, c)
    OBVIOUS
  <2>2. \A c \in Conns : cancels'[c] # None =>
          \/ /\ cancels'[c] = cancels[c] /\ call # C("stop_conn", c, None)
             /\ started'[cancels[c]] = started[cancels[c]]
          \/ StartsIt(call, c) /\ started'[cancels'[c]].config = call.config
    BY <1>1
  <2>3. CallsInv /\ UNCHANGED <<issued, connRow>>
    BY <1>1 DEF ChildrenInv
  <2> QED
    BY <2>1, <2>2, <2>3, ManagerCallKeepsCalls
<1>3. ChildrenHaveParents'
  BY <1>1, ParentsAreParents DEF ChildrenInv, ChildrenHaveParents
<1>4. RoutesAsWritten'
  <2>1. \A c \in Conns, q \in Requests :
          call # C("stop_conn", c, None) /\ StopIsNext(q, c) => StopIsNext(q, c)'
    <3>1. <<>> \in Seq(Call) /\ DOMAIN <<>> = {}
      OBVIOUS
    <3> QED
      BY <3>1, StopsStayNext DEF ChildrenInv
  <2> SUFFICES ASSUME NEW c \in Conns \ overlapped, NEW p \in Parents,
                      connRow[c] # None, parents'[p] # None, parents'[p][c] # None
               PROVE  /\ connRow[c].config.parent = p \/ c \in moved
                      /\ parents'[p][c] # cancels'[c] =>
                           /\ c \in moved
                           /\ connRow[c].config.parent = p =>
                                \E q \in Requests : StopIsNext(q, c)'
    BY <1>1 DEF RoutesAsWritten, StopIsNext, C
  <2>2. parents[p] # None /\ parents[p][c] # None /\ parents'[p][c] = parents[p][c]
    OBVIOUS
  <2>3. /\ connRow[c].config.parent = p \/ c \in moved
        /\ parents[p][c] # cancels[c] =>
             /\ c \in moved
             /\ connRow[c].config.parent = p => \E q \in Requests : StopIsNext(q, c)
    BY <2>2 DEF ChildrenInv, RoutesAsWritten
  <2>4. CASE cancels'[c] # None
    BY <2>1, <2>2, <2>3, <2>4
  <2>5. CASE cancels'[c] = None /\ (cancels[c] # None \/ call = C("stop_conn", c, None))
    BY <2>2, <2>3, <2>5
  <2>6. CASE cancels'[c] = None /\ cancels[c] = None /\ call # C("stop_conn", c, None)
    BY <2>1, <2>2, <2>3, <2>6
  <2> QED
    BY <2>4, <2>5, <2>6
<1>5. ServedByParents'
  <2> SUFFICES ASSUME NEW c \in Conns \ overlapped, NEW p \in Parents, connRow[c] # None,
                      parents'[p] # None, Served(c, p)'
               PROVE  parents'[p][c] = cancels'[c]
    BY <1>1 DEF ServedByParents
  <2>1. cancels'[c] # None /\ cancels'[c] = cancels[c] /\ Served(c, p)
    BY <1>1 DEF Served, HasListener
  <2> QED
    BY <2>1 DEF ChildrenInv, ServedByParents
<1>6. RoutesOfSessions'
  BY <1>1 DEF ChildrenInv, RoutesOfSessions
<1> QED
  BY <1>2, <1>3, <1>4, <1>5, <1>6 DEF ChildrenInv

\* The children StopParent finds by their rows are those that run under the parent: a
\* child that does not run as its row says is about to be stopped by the one request
\* that is about it, and that is not the one that stops the parent now.
LEMMA StopParentKeepsChildren ==
  ASSUME ChildrenInv, NEW r \in Requests, NEW p \in Parents, StopParent(r, p)
  PROVE  ChildrenInv'
<1>1. Inv'
  BY RequestStepKeepsInv DEF RequestStep, ChildrenInv
<1> DEFINE call == C("stop_parent", p, None)
<1>2. /\ Makes(r, call, <<>>) /\ UNCHANGED <<rowVars, started>>
      /\ parents' = [parents EXCEPT ![p] = None]
      /\ \A c \in Conns : cancels'[c] = IF c \in ChildRows(p) THEN None ELSE cancels[c]
      /\ call.call = "stop_parent" /\ call.id = p
  BY CallFields DEF StopParent, Release
<1>3. /\ parents' \in [Parents -> OrNone([Conns -> OrNone(Sessions)])]
      /\ parents'[p] = None /\ \A q \in Parents \ {p} : parents'[q] = parents[q]
  BY <1>2 DEF ChildrenInv, CallsInv, TablesTyped, OrNone
<1>4. \A c \in Conns : cancels'[c] # None =>
        /\ cancels'[c] = cancels[c]
        /\ connRow[c] = None \/ connRow[c].config.parent # p
  BY <1>2 DEF ChildRows
<1> HIDE DEF call
<1>5. \A c \in Conns : c \in Concerned(todo[r]) /\ ~StopIsNext(r, c)
  <2>1. todo[r] # <<>> /\ Head(todo[r]) = call
    BY <1>2 DEF Makes
  <2>2. todo[r] \in Seq(Call)
    BY DEF ChildrenInv, CallsInv, TablesTyped
  <2>3. 1 \in DOMAIN todo[r] /\ todo[r][1] = call
    BY <2>1, <2>2
  <2> QED
    BY <1>2, <2>1, <2>3, CallFields DEF Concerned, StopIsNext
<1>6. ASSUME NEW c \in Conns \ overlapped, connRow[c] # None, cancels'[c] # None
      PROVE  started[cancels[c]].config.parent # p
  <2>1. \A q \in Requests : ~StopIsNext(q, c)
    BY <1>5, NoOtherStop DEF ChildrenInv
  <2>2. started[cancels[c]].config = connRow[c].config
    BY <1>4, <1>6, <2>1 DEF ChildrenInv, CallsInv, RunsAsWritten
  <2> QED
    BY <1>4, <1>6, <2>2
<1>7. \A c \in Conns : cancels'[c] # None =>
        cancels'[c] = cancels[c] /\ call # C("stop_conn", c, None)
  BY <1>2, <1>4, CallFields
<1>8. \A c \in Conns \ overlapped, q \in Parents :
        /\ connRow[c] # None /\ cancels'[c] # None
        /\ started[cancels[c]].config.parent = q /\ parents[q] # None
        => parents'[q] # None
  BY <1>3, <1>6
<1>9. \A q \in Parents : parents'[q] # None => /\ parents[q] # None
                                              /\ \A c \in Conns : parents'[q][c] \in {None, parents[q][c]}
  BY <1>3
<1>10. \A c \in Conns, q \in Parents :
         /\ connRow[c] # None /\ cancels'[c] = None
         /\ cancels[c] # None \/ call = C("stop_conn", c, None)
         /\ connRow[c].config.parent = q
         => parents'[q] = None \/ parents'[q][c] = None
  <2> SUFFICES ASSUME NEW c \in Conns, NEW q \in Parents, connRow[c] # None, cancels'[c] = None,
                      cancels[c] # None, connRow[c].config.parent = q, parents'[q] # None
               PROVE  parents'[q][c] = None
    BY <1>2, CallFields
  <2> QED
    BY <1>2, <1>3 DEF ChildRows
<1>11. Makes(r, call, <<>>) /\ UNCHANGED <<rowVars, started>>
       /\ parents' \in [Parents -> OrNone([Conns -> OrNone(Sessions)])]
  BY <1>2, <1>3
<1>12. \A c \in Conns, q \in Parents :
         cancels'[c] # None /\ parents'[q] # None => parents'[q][c] = parents[q][c]
  BY <1>3
<1> QED
  <2>1. CleanStop(call)
    BY <1>7, <1>8, <1>9, <1>10, <1>12 DEF CleanStop
  <2> QED
    BY <1>1, <1>11, <2>1, StopKeepsChildren

LEMMA StopConnKeepsChildren ==
  ASSUME ChildrenInv, NEW r \in Requests, NEW c \in Conns, StopConn(r, c)
  PROVE  ChildrenInv'
<1>1. Inv'
  BY RequestStepKeepsInv DEF RequestStep, ChildrenInv
<1> DEFINE call == C("stop_conn", c, None)
           without(p) == [parents[p] EXCEPT ![c] = None]
<1>2. /\ Makes(r, call, <<>>) /\ UNCHANGED <<rowVars, started>> /\ call.id = c
      /\ \A d \in Conns : cancels'[d] = IF d = c THEN None ELSE cancels[d]
      /\ parents' = [p \in Parents |-> IF parents[p] # None /\ c \in ChildRows(p)
                                       THEN without(p) ELSE parents[p]]
  BY CallFields DEF StopConn, Release
<1>3. ASSUME NEW p \in Parents, parents[p] # None
      PROVE  /\ without(p) \in [Conns -> OrNone(Sessions)] /\ without(p)[c] = None
             /\ \A d \in Conns : without(p)[d] \in {None, parents[p][d]}
  <2>1. parents[p] \in [Conns -> OrNone(Sessions)]
    BY <1>3 DEF ChildrenInv, CallsInv, TablesTyped, OrNone
  <2> QED
    BY <2>1 DEF OrNone
<1> HIDE DEF call, without
<1>4. \A p \in Parents : \/ parents'[p] = parents[p]
                         \/ parents[p] # None /\ c \in ChildRows(p) /\ parents'[p] = without(p)
  BY <1>2
<1>5. \A p \in Parents : c \in ChildRows(p) /\ parents[p] # None => parents'[p] = without(p)
  BY <1>2
<1>6. parents' \in [Parents -> OrNone([Conns -> OrNone(Sessions)])]
  <2>1. \A p \in Parents : parents'[p] \in OrNone([Conns -> OrNone(Sessions)])
    BY <1>3, <1>4 DEF ChildrenInv, CallsInv, TablesTyped, OrNone
  <2> QED
    BY <1>2, <2>1
<1>7. \A p \in Parents : parents'[p] # None =>
        /\ parents[p] # None
        /\ \A d \in Conns : parents'[p][d] \in {None, parents[p][d]}
  BY <1>3, <1>4
<1>8. \A p \in Parents : parents[p] # None => parents'[p] # None
  BY <1>3, <1>4, NoRoutes
<1>9. \A p \in Parents : connRow[c] # None /\ connRow[c].config.parent = p =>
        parents'[p] = None \/ parents'[p][c] = None
  BY <1>3, <1>4, <1>5 DEF ChildRows
<1>10. \A d \in Conns : cancels'[d] # None =>
         cancels'[d] = cancels[d] /\ call # C("stop_conn", d, None)
  BY <1>2, CallFields
<1>11. \A d \in Conns \ overlapped, p \in Parents :
         /\ connRow[d] # None /\ cancels'[d] # None
         /\ started[cancels[d]].config.parent = p /\ parents[p] # None
         => parents'[p] # None
  BY <1>8
<1>12. \A d \in Conns, p \in Parents :
         /\ connRow[d] # None /\ cancels'[d] = None
         /\ cancels[d] # None \/ call = C("stop_conn", d, None)
         /\ connRow[d].config.parent = p
         => parents'[p] = None \/ parents'[p][d] = None
  BY <1>2, <1>9, CallFields
<1>13. Makes(r, call, <<>>) /\ UNCHANGED <<rowVars, started>>
  BY <1>2
<1>14. \A d \in Conns, p \in Parents :
         cancels'[d] # None /\ parents'[p] # None => parents'[p][d] = parents[p][d]
  <2> SUFFICES ASSUME NEW d \in Conns \ {c}, NEW p \in Parents
               PROVE  parents'[p][d] = parents[p][d]
    BY <1>2
  <2>1. parents[p] # None => without(p)[d] = parents[p][d]
    BY DEF ChildrenInv, CallsInv, TablesTyped, OrNone, without
  <2> QED
    BY <1>4, <2>1
<1> QED
  <2>1. CleanStop(call)
    BY <1>7, <1>10, <1>11, <1>12, <1>14 DEF CleanStop
  <2> QED
    BY <1>1, <1>6, <1>13, <2>1, StopKeepsChildren

LEMMA StopAllKeepsChildren ==
  ASSUME ChildrenInv, NEW r \in Requests, StopAll(r)
  PROVE  ChildrenInv'
<1>1. Inv'
  BY RequestStepKeepsInv DEF RequestStep, ChildrenInv
<1>2. /\ Makes(r, C("stop_all", None, None), <<>>) /\ UNCHANGED <<rowVars, started>>
      /\ \A p \in Parents : parents'[p] = None
      /\ \A c \in Conns : cancels'[c] = None
      /\ parents' = [p \in Parents |-> None]
  BY DEF StopAll, Release
<1>3. parents' \in [Parents -> OrNone([Conns -> OrNone(Sessions)])]
  BY <1>2 DEF OrNone
<1> QED
  <2>1. CleanStop(C("stop_all", None, None))
    BY <1>2 DEF CleanStop
  <2> QED
    BY <1>1, <1>2, <1>3, <2>1, StopKeepsChildren

\* A child is started under a parent that runs, and is registered where its row says.
LEMMA StartConnKeepsChildren ==
  ASSUME ChildrenInv, NEW r \in Requests, NEW c \in Conns, NEW cfg \in Configs,
         NEW s \in Sessions, StartConn(r, c, cfg, s)
  PROVE  ChildrenInv'
<1>1. Inv'
  BY RequestStepKeepsInv DEF RequestStep, ChildrenInv
<1> DEFINE call == C("start_conn", c, cfg)
           with == [parents[cfg.parent] EXCEPT ![c] = s]
<1>2. /\ Makes(r, call, <<>>) /\ ~RunsAlready(c, cfg) /\ Supported(cfg) /\ s \in Fresh
      /\ started' = [started EXCEPT ![s] = [conn |-> c, config |-> cfg]]
      /\ cancels' = [cancels EXCEPT ![c] = s]
      /\ UNCHANGED rowVars
      /\ call.id = c /\ call.config = cfg /\ call.call = "start_conn"
  BY CallFields DEF StartConn, Fresh
<1>3. /\ UNCHANGED <<connRow, issued, moved>> /\ overlapped' = overlapped
  BY <1>2 DEF rowVars, Makes
<1>4. \/ HasListener(cfg) /\ parents' = parents
      \/ ~HasListener(cfg) /\ parents' = [parents EXCEPT ![cfg.parent] = with]
  BY DEF StartConn
<1>5. HasListener(cfg) \/ cfg.parent # None
  BY <1>2 DEF Supported, HasListener
<1>6. cfg.parent \in Parents \cup {None} /\ (cfg.parent # None => parents[cfg.parent] # None)
  BY <1>2, ConfigsAssumption DEF Supported
<1>7. cfg.parent # None => cancels[c] = None
  BY <1>2 DEF RunsAlready
<1>8. started' [s].config = cfg /\ \A t \in Sessions \ {s} : started'[t] = started[t]
  BY <1>2 DEF ChildrenInv, Inv, Types
<1>9. cancels'[c] = s /\ \A d \in Conns \ {c} : cancels'[d] = cancels[d]
  BY <1>2 DEF ChildrenInv, Inv, Types
<1>10. \A d \in Conns : cancels[d] # None => cancels[d] \in Sessions \ {s}
  BY <1>2 DEF ChildrenInv, Inv, OwnSessions, For, Fresh
<1>11. cfg.parent # None => /\ with \in [Conns -> OrNone(Sessions)] /\ with # None
                            /\ with[c] = s /\ \A d \in Conns \ {c} : with[d] = parents[cfg.parent][d]
  <2> SUFFICES ASSUME cfg.parent # None
               PROVE  /\ with \in [Conns -> OrNone(Sessions)] /\ with # None
                      /\ with[c] = s /\ \A d \in Conns \ {c} : with[d] = parents[cfg.parent][d]
    OBVIOUS
  <2>1. parents[cfg.parent] \in [Conns -> OrNone(Sessions)]
    BY <1>6 DEF ChildrenInv, CallsInv, TablesTyped, OrNone
  <2>2. with \in [Conns -> OrNone(Sessions)]
    BY <2>1 DEF OrNone
  <2> QED
    BY <2>1, <2>2, NoRoutes
<1>12. call \in Pending(r)
  <2>1. <<>> \in Seq(Call) /\ DOMAIN <<>> = {}
    OBVIOUS
  <2> QED
    BY <1>2, <2>1, MakesOne DEF ChildrenInv
<1> HIDE DEF call, with
<1>13. c \notin overlapped /\ connRow[c] # None => connRow[c].config = cfg
  BY <1>2, <1>12 DEF ChildrenInv, CallsInv, StartsAsWritten, StartsIt
<1>14. \A p \in Parents : \/ parents'[p] = parents[p]
                          \/ ~HasListener(cfg) /\ p = cfg.parent /\ parents'[p] = with
  BY <1>4 DEF ChildrenInv, CallsInv, TablesTyped
<1>15. parents' \in [Parents -> OrNone([Conns -> OrNone(Sessions)])]
  <2>1. parents \in [Parents -> OrNone([Conns -> OrNone(Sessions)])]
    BY DEF ChildrenInv, CallsInv, TablesTyped
  <2>2. CASE HasListener(cfg) /\ parents' = parents
    BY <2>1, <2>2
  <2>3. CASE ~HasListener(cfg) /\ parents' = [parents EXCEPT ![cfg.parent] = with]
    BY <1>5, <1>11, <2>1, <2>3 DEF OrNone
  <2> QED
    BY <1>4, <2>2, <2>3
<1>16. CallsInv'
  <2>1. CallsInv
    BY DEF ChildrenInv
  <2>3. \A d \in Conns, p \in Parents : parents'[p] # None /\ parents'[p][d] # None =>
          \/ parents[p] # None /\ parents[p][d] # None
          \/ StartsIt(call, d)
    BY <1>2, <1>5, <1>6, <1>11, <1>14 DEF StartsIt
  <2>4. \A d \in Conns : cancels'[d] # None =>
          \/ /\ cancels'[d] = cancels[d] /\ call # C("stop_conn", d, None)
             /\ started'[cancels[d]] = started[cancels[d]]
          \/ StartsIt(call, d) /\ started'[cancels'[d]].config = call.config
    BY <1>2, <1>8, <1>9, <1>10, CallFields DEF StartsIt
  <2> QED
    BY <1>2, <1>3, <1>15, <2>1, <2>3, <2>4, ManagerCallKeepsCalls
<1>17. ChildrenHaveParents'
  <2> SUFFICES ASSUME NEW d \in Conns \ overlapped, connRow[d] # None, cancels'[d] # None,
                      started'[cancels'[d]].config.parent # None
               PROVE  parents'[started'[cancels'[d]].config.parent] # None
    BY <1>3 DEF ChildrenHaveParents
  <2> DEFINE p == started'[cancels'[d]].config.parent
  <2>1. p \in Parents /\ parents[p] # None
    <3>1. CASE d = c
      BY <1>6, <1>8, <1>9, <3>1
    <3>2. CASE d # c
      <4>1. cancels'[d] = cancels[d] /\ started'[cancels[d]] = started[cancels[d]]
        BY <1>8, <1>9, <1>10, <3>2
      <4> QED
        BY <4>1, ParentsAreParents DEF ChildrenInv, ChildrenHaveParents
    <3> QED
      BY <3>1, <3>2
  <2>2. p = cfg.parent => with # None
    BY <1>11
  <2> QED
    BY <1>14, <2>1, <2>2
<1>18. \A d \in Conns, q \in Requests : StopIsNext(q, d) => StopIsNext(q, d)'
  <2>1. <<>> \in Seq(Call) /\ DOMAIN <<>> = {} /\ \A d \in Conns : call # C("stop_conn", d, None)
    BY <1>2, CallFields
  <2> QED
    BY <1>2, <2>1, StopsStayNext DEF ChildrenInv
<1>19. ASSUME c \notin overlapped, NEW q \in Requests, StopIsNext(q, c)
       PROVE  FALSE
  <2>1. c \in Concerned(todo[r])
    BY <1>2, <1>12 DEF Concerned, Pending
  <2>2. ~StopIsNext(r, c)
    BY <1>2, CallFields DEF Makes, StopIsNext
  <2> QED
    BY <1>19, <2>1, <2>2, NoOtherStop DEF ChildrenInv
<1>20. \A d \in Conns, p \in Parents : parents'[p] # None /\ parents'[p][d] # None =>
         \/ parents[p] # None /\ parents[p][d] # None /\ parents'[p][d] = parents[p][d]
         \/ d = c /\ p = cfg.parent /\ parents'[p][d] = s
  <2> SUFFICES ASSUME NEW d \in Conns, NEW p \in Parents, parents'[p] # None, parents'[p][d] # None
               PROVE  \/ parents[p] # None /\ parents[p][d] # None /\ parents'[p][d] = parents[p][d]
                      \/ d = c /\ p = cfg.parent /\ parents'[p][d] = s
    OBVIOUS
  <2>1. CASE parents'[p] = parents[p]
    BY <2>1
  <2>2. CASE p = cfg.parent /\ parents'[p] = with
    <3>1. cfg.parent # None
      BY <2>2, NoRoutes
    <3> QED
      BY <1>6, <1>11, <2>2, <3>1
  <2> QED
    BY <1>14, <2>1, <2>2
<1>21. \A d \in Conns, p \in Parents : parents[p] # None /\ parents[p][d] # None =>
         /\ parents[p][d] # s /\ started'[parents[p][d]] = started[parents[p][d]]
  <2> SUFFICES ASSUME NEW d \in Conns, NEW p \in Parents, parents[p] # None, parents[p][d] # None
               PROVE  parents[p][d] # s /\ started'[parents[p][d]] = started[parents[p][d]]
    OBVIOUS
  <2>1. parents[p][d] \in Sessions /\ started[parents[p][d]] # None
    BY DEF ChildrenInv, CallsInv, TablesTyped, OrNone, RoutesOfSessions
  <2>2. started[s] = None
    BY <1>2 DEF Fresh
  <2> QED
    BY <1>8, <2>1, <2>2
<1>22. RoutesOfSessions'
  <2> SUFFICES ASSUME NEW d \in Conns, NEW p \in Parents, parents'[p] # None, parents'[p][d] # None
               PROVE  /\ started'[parents'[p][d]] # None
                      /\ started'[parents'[p][d]].config.parent = p
    BY DEF RoutesOfSessions
  <2>1. started'[s] # None
    BY <1>2, Nobody DEF ChildrenInv, Inv, Types
  <2> QED
    BY <1>8, <1>20, <1>21, <2>1 DEF ChildrenInv, RoutesOfSessions
<1>23. ServedByParents'
  <2> SUFFICES ASSUME NEW d \in Conns \ overlapped, NEW p \in Parents, connRow[d] # None,
                      parents'[p] # None, Served(d, p)'
               PROVE  parents'[p][d] = cancels'[d]
    BY <1>3 DEF ServedByParents
  <2>1. CASE d = c
    <3>1. cfg.parent = p /\ ~HasListener(cfg)
      BY <1>8, <1>9, <2>1 DEF Served, HasListener
    <3>2. p # None /\ parents' = [parents EXCEPT ![p] = with]
      BY <1>4, <3>1, NoRoutes
    <3>3. parents'[p] = with
      BY <3>2 DEF ChildrenInv, CallsInv, TablesTyped
    <3> QED
      BY <1>9, <1>11, <2>1, <3>1, <3>2, <3>3
  <2>2. CASE d # c
    <3>1. cancels'[d] = cancels[d] /\ cancels[d] # None /\ started'[cancels[d]] = started[cancels[d]]
      BY <1>8, <1>9, <1>10, <2>2 DEF Served
    <3>2. Served(d, p)
      BY <3>1 DEF Served, HasListener
    <3>3. parents[p] # None
      BY <3>2, NoRoutes DEF ChildrenInv, ChildrenHaveParents, Served
    <3>4. parents[p][d] = cancels[d]
      BY <3>2, <3>3 DEF ChildrenInv, ServedByParents
    <3>5. parents'[p] # parents[p] => p = cfg.parent /\ cfg.parent # None /\ parents'[p] = with
      BY <1>14, NoRoutes
    <3> QED
      BY <1>11, <2>2, <3>1, <3>4, <3>5
  <2> QED
    BY <2>1, <2>2
<1>24. RoutesAsWritten'
  <2> SUFFICES ASSUME NEW d \in Conns \ overlapped, NEW p \in Parents,
                      connRow[d] # None, parents'[p] # None, parents'[p][d] # None
               PROVE  /\ connRow[d].config.parent = p \/ d \in moved
                      /\ parents'[p][d] # cancels'[d] =>
                           /\ d \in moved
                           /\ connRow[d].config.parent = p =>
                                \E q \in Requests : StopIsNext(q, d)'
    BY <1>3 DEF RoutesAsWritten, StopIsNext, C
  <2>1. CASE d = c /\ p = cfg.parent /\ parents'[p][d] = s
    BY <1>9, <1>13, <2>1
  <2>2. CASE parents[p] # None /\ parents[p][d] # None /\ parents'[p][d] = parents[p][d]
    <3>1. /\ connRow[d].config.parent = p \/ d \in moved
          /\ parents[p][d] # cancels[d] =>
               /\ d \in moved
               /\ connRow[d].config.parent = p => \E q \in Requests : StopIsNext(q, d)
      BY <2>2 DEF ChildrenInv, RoutesAsWritten
    <3>2. CASE d # c
      BY <1>9, <1>18, <2>2, <3>1, <3>2
    <3>3. CASE d = c
      <4>1. ASSUME parents[p][c] = cancels[c]
            PROVE  FALSE
        <5>1. cancels[c] # None /\ cfg.parent = None
          BY <1>7, <2>2, <3>3, <4>1
        <5>2. started[cancels[c]].config = connRow[c].config
          BY <1>19, <3>3, <5>1 DEF ChildrenInv, CallsInv, RunsAsWritten
        <5>3. started[cancels[c]].config.parent = p
          BY <2>2, <3>3, <4>1 DEF ChildrenInv, RoutesOfSessions
        <5> QED
          BY <1>13, <3>3, <5>1, <5>2, <5>3, NoRoutes
      <4>2. c \in moved /\ connRow[c].config.parent # p
        BY <1>19, <3>1, <3>3, <4>1
      <4> QED
        BY <3>3, <4>2
    <3> QED
      BY <3>2, <3>3
  <2> QED
    BY <1>20, <2>1, <2>2
<1> QED
  BY <1>1, <1>16, <1>17, <1>22, <1>23, <1>24 DEF ChildrenInv

LEMMA NextKeepsChildren == ChildrenInv /\ [Next]_vars => ChildrenInv'
<1> SUFFICES ASSUME ChildrenInv, [Next]_vars PROVE ChildrenInv'
  OBVIOUS
<1>1. ASSUME NEW r \in Requests, Handler(r)
      PROVE  ChildrenInv'
  BY <1>1, WritesKeepChildren, OtherRequestsKeepChildren, ParentRequestsKeepChildren DEF Handler
<1>2. ASSUME NEW r \in Requests, RequestStep(r)
      PROVE  ChildrenInv'
  BY <1>2, StatementsKeepChildren, SkipsKeepChildren, ListsKeepChildren, StartParentKeepsChildren,
     StopParentKeepsChildren, StopConnKeepsChildren, StopAllKeepsChildren, StartConnKeepsChildren
     DEF RequestStep
<1>3. CASE UNCHANGED vars \/ \E s \in Sessions : Arrive(s) \/ SessionStep(s)
  <2>1. UNCHANGED <<connRow, issued, moved, todo, overlapped, parents, cancels, started>>
    BY <1>3 DEF vars, rowVars, mapVars, sessionVars, Arrive, SessionStep, ReadLoop,
       ReadMessage, processAndPublish, LeaveReadLoop, writeToConn, TakeOutgoing, WriteReturns,
       LeaveWriteLoop, Writer
  <2>2. Inv'
    BY NextKeepsInv DEF ChildrenInv
  <2>3. TablesTyped'
    BY <2>1 DEF ChildrenInv, CallsInv, TablesTyped
  <2>7. OneRequestUnlessOverlapped'
    <3>1. \A r \in Requests : Concerned(todo[r])' = Concerned(todo[r])
      BY <2>1 DEF Concerned
    <3> QED
      BY <2>1, <3>1 DEF ChildrenInv, CallsInv, OneRequestUnlessOverlapped
  <2>4. (UnissuedIsUnknown /\ StartsAsWritten)'
    BY <2>1 DEF ChildrenInv, CallsInv, UnissuedIsUnknown, StartsAsWritten, Pending, StartsIt
  <2>5. RunsAsWritten'
    BY <2>1 DEF ChildrenInv, CallsInv, RunsAsWritten, StopIsNext, C
  <2>6. (ChildrenHaveParents /\ ServedByParents /\ RoutesOfSessions)'
    BY <2>1 DEF ChildrenInv, ChildrenHaveParents, ServedByParents, RoutesOfSessions, Served, HasListener
  <2>8. RoutesAsWritten'
    BY <2>1 DEF ChildrenInv, RoutesAsWritten, StopIsNext, C
  <2> QED
    BY <2>2, <2>3, <2>4, <2>5, <2>6, <2>7, <2>8 DEF ChildrenInv, CallsInv
<1> QED
  BY <1>1, <1>2, <1>3 DEF Next

LEMMA InitChildren == Init => ChildrenInv
<1> SUFFICES ASSUME Init PROVE ChildrenInv
  OBVIOUS
<1>1. Inv
  BY InitInv
<1>2. /\ todo \in [Requests -> Seq(Call)]
      /\ \E r \in Requests : \A q \in Requests \ {r} : todo[q] = <<>>
      /\ \A q \in Requests : todo[q] = Start \/ todo[q] = <<>>
  <2>1. Start \in Seq(Call) /\ <<>> \in Seq(Call)
    BY CallsTyped
  <2>2. PICK r \in Requests : todo = [q \in Requests |-> IF q = r THEN Start ELSE <<>>]
    BY DEF Init
  <2> QED
    BY <2>1, <2>2
<1>3. OneRequestUnlessOverlapped
  <2>1. Concerned(<<>>) = {}
    BY DEF Concerned
  <2> QED
    BY <1>2, <2>1 DEF OneRequestUnlessOverlapped
<1>4. \A r \in Requests, c \in Conns : \A call \in Pending(r) : ~StartsIt(call, c)
  <2>1. \A k \in DOMAIN Start : Start[k].call # "start_conn"
    BY CallFields DEF Start
  <2>2. DOMAIN <<>> = {}
    OBVIOUS
  <2> QED
    BY <1>2, <2>1, <2>2 DEF Pending, StartsIt
<1>5. TablesTyped
  BY <1>2 DEF Init, TablesTyped, OrNone
<1>6. \A c \in Conns : cancels[c] = None /\ (c \notin issued => connRow[c] = None)
  BY DEF Init
<1>7. \A p \in Parents : parents[p] = None
  BY DEF Init
<1>8. CallsInv
  BY <1>3, <1>4, <1>5, <1>6, <1>7 DEF CallsInv, UnissuedIsUnknown, StartsAsWritten, RunsAsWritten
<1> QED
  BY <1>1, <1>6, <1>7, <1>8
  DEF ChildrenInv, ChildrenHaveParents, ServedByParents, RoutesOfSessions, RoutesAsWritten

LEMMA ChildrenAlways == Spec => []ChildrenInv
  BY InitChildren, NextKeepsChildren, PTL DEF Spec

\* Stopping a parent stops its children, also those the manager finds only through the
\* table: as long as no two requests were about a child at once, it runs only while
\* its parent does, whatever updates, deletions and reloads of both came before.
THEOREM ChildrenStop == Spec => []ChildrenStopWithParent
<1>1. ChildrenInv => ChildrenStopWithParent
  BY DEF ChildrenInv, ChildrenHaveParents, ChildrenStopWithParent, Settled
<1> QED
  BY <1>1, ChildrenAlways, PTL

\* A connection with a row that no two requests were about at once, and that none is
\* about now, has the route or topic it needs with the parent it runs under, and an old
\* one only with parents it was moved away from: one that comes back, or is stopped where
\* its row is, leaves none behind.
THEOREM RoutesCorrect == Spec => []RoutesAreOfRunning
<1>1. ChildrenInv => RoutesAreOfRunning
  <2> SUFFICES ASSUME ChildrenInv, NEW c \in Settled, NEW p \in Parents, parents[p] # None
               PROVE  /\ Served(c, p) => parents[p][c] = cancels[c]
                      /\ parents[p][c] \notin {None, cancels[c]} =>
                           c \in moved /\ connRow[c].config.parent # p
    BY DEF RoutesAreOfRunning
  <2>1. /\ c \in Conns \ overlapped /\ connRow[c] # None
        /\ \A r \in Requests : c \notin Concerned(todo[r])
    BY DEF Settled
  <2>2. \A r \in Requests : ~StopIsNext(r, c)
    <3> SUFFICES ASSUME NEW r \in Requests, StopIsNext(r, c) PROVE FALSE
      OBVIOUS
    <3>1. todo[r] \in Seq(Call)
      BY DEF ChildrenInv, CallsInv, TablesTyped
    <3>2. 1 \in DOMAIN todo[r] /\ todo[r][1].id = c
      BY <3>1, CallFields DEF StopIsNext
    <3> QED
      BY <2>1, <3>2 DEF Concerned
  <2>3. Served(c, p) => parents[p][c] = cancels[c]
    BY <2>1 DEF ChildrenInv, ServedByParents
  <2>4. parents[p][c] \notin {None, cancels[c]} => c \in moved /\ connRow[c].config.parent # p
    BY <2>1, <2>2 DEF ChildrenInv, RoutesAsWritten
  <2> QED
    BY <2>3, <2>4
<1> QED
  BY <1>1, ChildrenAlways, PTL
=============================================================================
