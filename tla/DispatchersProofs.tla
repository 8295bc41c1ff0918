------------------------- MODULE DispatchersProofs -------------------------
(***************************************************************************)
(* The subscriptions of the dispatchers and the goroutines of the mockers, *)
(* for any number of dispatchers and mockers, of concurrent requests and   *)
(* of restarts.                                                            *)
(***************************************************************************)
EXTENDS Dispatchers, Mockers, FiniteSetTheorems, SequenceTheorems, TLAPS

MapsTyped ==
  /\ dispatchers \in [Ids -> Instances \cup {None}]
  /\ dispatcherSubs \in [Ids -> Instances \cup {None}]
  /\ config \in [Instances -> Configs \cup {None}]

\* A dispatcher runs under one id only, and one that was never built is neither
\* running nor closed: without this a stop could take a subscription from another.
OneIdEach ==
  /\ \A a, b \in Ids : dispatchers[a] # None /\ dispatchers[a] = dispatchers[b] => a = b
  /\ \A id \in Ids : dispatchers[id] # None =>
       dispatchers[id] \notin Fresh /\ dispatchers[id] \notin shut
  /\ \A i \in shut : i \notin Fresh

SubsInv == MapsTyped /\ OneIdEach /\ SubscriptionsAreThoseOfRunning /\ RunningIsSubscribed

LEMMA InitSubs == Init => SubsInv
BY NoneAssumption
   DEF Init, SubsInv, MapsTyped, OneIdEach, Fresh, SubscriptionsAreThoseOfRunning,
       RunningIsSubscribed

\* What the invariant speaks about is left alone by most actions.
LEMMA Untouched ==
  ASSUME SubsInv, UNCHANGED <<dispatchers, dispatcherSubs, config, shut, open>>
  PROVE  SubsInv'
BY DEF SubsInv, MapsTyped, OneIdEach, Fresh, SubscriptionsAreThoseOfRunning,
       RunningIsSubscribed

LEMMA StartSubs ==
  ASSUME SubsInv, NEW r \in Requests, NEW id \in Ids, NEW cfg \in Configs, NEW i \in Instances,
         StartDispatcher(r, id, cfg, i)
  PROVE  SubsInv'
<1> USE DEF SubsInv
<1>1. i # None /\ cfg # None /\ dispatcherSubs[id] = None
  BY NoneAssumption
     DEF StartDispatcher, MapsTyped, SubscriptionsAreThoseOfRunning
<1>2. MapsTyped' /\ OneIdEach'
  BY <1>1 DEF StartDispatcher, MapsTyped, OneIdEach, Fresh
<1>3. CASE cfg \in Topicless
  BY <1>1, <1>2, <1>3 DEF StartDispatcher, MapsTyped, OneIdEach, Fresh,
     SubscriptionsAreThoseOfRunning, RunningIsSubscribed
<1>4. CASE cfg \notin Topicless
  <2>1. /\ dispatcherSubs' = [dispatcherSubs EXCEPT ![id] = i]
        /\ open' = open \cup {i}
        /\ dispatchers' = [dispatchers EXCEPT ![id] = i]
        /\ config' = [config EXCEPT ![i] = cfg]
        /\ shut' = shut
    BY <1>4 DEF StartDispatcher
  <2>2. open' = {dispatcherSubs'[k] : k \in Ids} \ {None}
    BY <1>1, <2>1 DEF MapsTyped, SubscriptionsAreThoseOfRunning
  <2>3. \A k \in Ids : dispatcherSubs'[k] # None =>
          dispatcherSubs'[k] = dispatchers'[k] /\ dispatcherSubs'[k] \notin shut'
    BY <2>1 DEF StartDispatcher, MapsTyped, OneIdEach, SubscriptionsAreThoseOfRunning
  <2>4. RunningIsSubscribed'
    BY <2>1 DEF StartDispatcher, MapsTyped, OneIdEach, Fresh, RunningIsSubscribed
  <2> QED
    BY <1>2, <2>2, <2>3, <2>4 DEF SubscriptionsAreThoseOfRunning
<1> QED
  BY <1>3, <1>4

LEMMA StopSubs ==
  ASSUME SubsInv, NEW gone \in SUBSET Ids, Stopped(gone)
  PROVE  SubsInv'
<1> USE DEF SubsInv
<1>1. /\ \A id \in Ids : dispatchers'[id] = IF id \in gone THEN None ELSE dispatchers[id]
      /\ \A id \in Ids : dispatcherSubs'[id] = IF id \in gone THEN None ELSE dispatcherSubs[id]
      /\ \A i : i \in shut' <=> i \in shut \/ \E id \in gone : i = dispatchers[id] /\ i # None
      /\ \A i : i \in open' <=> i \in open /\ \A id \in gone : i # dispatcherSubs[id]
      /\ config' = config
  BY DEF Stopped
<1>2. MapsTyped'
  BY DEF Stopped, MapsTyped
<1>3. OneIdEach'
  BY <1>1 DEF OneIdEach, Fresh
<1>4. ASSUME NEW i
      PROVE  i \in open' <=> i # None /\ \E id \in Ids : i = dispatcherSubs'[id]
  BY <1>1 DEF OneIdEach, SubscriptionsAreThoseOfRunning
<1>5. SubscriptionsAreThoseOfRunning'
  BY <1>1, <1>4 DEF OneIdEach, SubscriptionsAreThoseOfRunning
<1>6. RunningIsSubscribed'
  <2> SUFFICES ASSUME NEW id \in Ids \ gone, dispatchers[id] # None,
                      config[dispatchers[id]] \notin Topicless
               PROVE  dispatchers[id] \in open'
    BY <1>1 DEF RunningIsSubscribed
  <2>1. dispatchers[id] \in open
    BY DEF RunningIsSubscribed
  <2>2. \A k \in gone : dispatchers[id] # dispatcherSubs[k]
    BY DEF OneIdEach, SubscriptionsAreThoseOfRunning
  <2> QED
    BY <1>1, <2>1, <2>2
<1> QED
  BY <1>2, <1>3, <1>5, <1>6

LEMMA NextSubs ==
  ASSUME SubsInv, [Next]_vars
  PROVE  SubsInv'
<1>1. CASE UNCHANGED vars
  BY <1>1, Untouched DEF vars, managerVars
<1>2. ASSUME NEW r \in Requests, NEW id \in Ids, NEW enable \in BOOLEAN, NEW cfg \in Configs,
             Create(r, id, enable, cfg) \/ Update(r, id, enable, cfg)
      PROVE  SubsInv'
  BY <1>2, Untouched DEF Create, Update, managerVars
<1>6. ASSUME NEW r \in Requests, NEW id \in Ids,
             Enable(r, id) \/ Disable(r, id) \/ Delete(r, id) \/ ReloadDispatcher(r, id)
      PROVE  SubsInv'
  BY <1>6, Untouched DEF Enable, Disable, Delete, ReloadDispatcher, managerVars
<1>3. ASSUME NEW r \in Requests, ReloadAll(r)
      PROVE  SubsInv'
  BY <1>3, Untouched DEF ReloadAll, managerVars
<1>4. ASSUME NEW r \in Requests, RequestStep(r)
      PROVE  SubsInv'
  <2>1. ASSUME NEW id \in Ids, WriteEnable(r, id)
        PROVE  SubsInv'
    BY <2>1, Untouched DEF WriteEnable, managerVars
  <2>2. ASSUME NEW id \in Ids, NEW cfg \in Configs, SkipStart(r, id, cfg)
        PROVE  SubsInv'
    BY <2>2, Untouched DEF SkipStart, managerVars
  <2>3. ASSUME startDispatchers(r)
        PROVE  SubsInv'
    BY <2>3, Untouched DEF startDispatchers, managerVars
  <2>4. ASSUME NEW id \in Ids, StopDispatcher(r, id)
        PROVE  SubsInv'
    BY <2>4, StopSubs DEF StopDispatcher
  <2>5. ASSUME StopAll(r)
        PROVE  SubsInv'
    BY <2>5, StopSubs DEF StopAll
  <2> QED
    BY <1>4, <2>1, <2>2, <2>3, <2>4, <2>5, StartSubs DEF RequestStep
<1>5. ASSUME NEW i \in Instances, Publish(i) \/ PusherStep(i)
      PROVE  SubsInv'
  BY <1>5, Untouched DEF Publish, PusherStep, Receive, Pushed, Leave
<1> QED
  BY <1>1, <1>2, <1>3, <1>4, <1>5, <1>6 DEF Next

\* However requests interleave, the queue holds for the dispatchers exactly the
\* subscriptions of those that run, so that stopping one leaves none behind, and no
\* dispatcher with topics runs without its subscription.
THEOREM SubscriptionsCorrect == Spec => []SubscribedAsRunning
<1>1. SubsInv => SubscribedAsRunning
  BY DEF SubsInv, SubscribedAsRunning
<1> QED
  BY <1>1, InitSubs, NextSubs, PTL DEF Spec
-----------------------------------------------------------------------------
\* The calls request r has still to make.
Pending(r) == {todo[r][k] : k \in DOMAIN todo[r]}

StartsIt(call, id) == call.call = "start" /\ call.id = id

StopsIt(call, id) == call.call \in {"stop", "stop_all"} /\ call.id \in {id, None}

\* Why RunningMatchesRow is inductive: what is to be started is what the row says, and
\* the row is enabled unless that is what the request does next;
StartsAsWritten ==
  \A id \in Ids \ overlapped, r \in Requests : \A call \in Pending(r) :
    StartsIt(call, id) /\ row[id] # None =>
      /\ row[id].config = call.config
      /\ row[id].enable \/ Head(todo[r]) = C("write_enable", id, None)

\* a dispatcher that does not match its row is to be stopped;
MatchesUnlessStopped ==
  \A id \in Ids \ overlapped :
    dispatchers[id] # None /\ row[id] # None =>
      \/ row[id] = [enable |-> TRUE, config |-> config[dispatchers[id]]]
      \/ \E r \in Requests : \E call \in Pending(r) : StopsIt(call, id)

\* only one request is about an id that is not `overlapped`;
OneRequestUnlessOverlapped ==
  \A p, q \in Requests : p # q => Concerned(todo[p]) \cap Concerned(todo[q]) \subseteq overlapped

\* and nothing is known of an id that has not been issued.
UnissuedIsUnknown ==
  \A id \in Ids \ issued :
    /\ row[id] = None /\ dispatchers[id] = None
    /\ \A r \in Requests : \A call \in Pending(r) : ~StartsIt(call, id)

TablesTyped ==
  /\ row \in [Ids -> Row \cup {None}]
  /\ todo \in [Requests -> Seq(Call)]
  /\ IsFiniteSet(issued)

RowsInv ==
  /\ SubsInv
  /\ TablesTyped
  /\ OneRequestUnlessOverlapped
  /\ UnissuedIsUnknown
  /\ StartsAsWritten
  /\ MatchesUnlessStopped

LEMMA InitRows == Init => RowsInv
<1> SUFFICES ASSUME Init PROVE RowsInv
  OBVIOUS
<1>1. SubsInv
  BY InitSubs
<1>2. \A r \in Requests : Pending(r) = {} /\ Concerned(todo[r]) = {}
  BY DEF Init, Pending, Concerned
<1>3. <<>> \in Seq(Call)
  OBVIOUS
<1> QED
  BY <1>1, <1>2, <1>3, FS_EmptySet DEF Init, RowsInv, TablesTyped, OneRequestUnlessOverlapped,
     UnissuedIsUnknown, StartsAsWritten, MatchesUnlessStopped

LEMMA RowsInvImplies == RowsInv => RunningMatchesRow
<1>1. ASSUME NEW id \in Ids, NEW r \in Requests, NEW call \in Pending(r), StopsIt(call, id)
      PROVE  id \in Concerned(todo[r])
  BY <1>1 DEF Pending, StopsIt, Concerned
<1> QED
  BY <1>1 DEF RowsInv, MatchesUnlessStopped, RunningMatchesRow

\* A request has begun: it has these calls to make, the others go on with theirs.
LEMMA BeginsWith ==
  ASSUME RowsInv, NEW r \in Requests, NEW calls \in Seq(Call), Begin(r, calls)
  PROVE  /\ Pending(r) = {} /\ todo[r] = <<>> /\ todo'[r] = calls
         /\ Pending(r)' = {calls[k] : k \in DOMAIN calls}
         /\ \A q \in Requests \ {r} : todo'[q] = todo[q] /\ Pending(q)' = Pending(q)
         /\ overlapped \subseteq overlapped'
         /\ \A id \in Concerned(calls) \ overlapped' :
              \A q \in Requests : id \notin Concerned(todo[q])
         /\ todo' \in [Requests -> Seq(Call)]
         /\ OneRequestUnlessOverlapped'
<1>1. /\ todo[r] = <<>> /\ todo'[r] = calls
      /\ \A q \in Requests \ {r} : todo'[q] = todo[q]
      /\ overlapped \subseteq overlapped'
      /\ \A id \in Concerned(calls) \ overlapped' :
           \A q \in Requests : id \notin Concerned(todo[q])
      /\ todo' \in [Requests -> Seq(Call)]
  BY DEF Begin, RowsInv, TablesTyped
<1>2. OneRequestUnlessOverlapped'
  <2> SUFFICES ASSUME NEW p \in Requests, NEW q \in Requests, p # q,
                      NEW id \in Concerned(todo'[p]) \cap Concerned(todo'[q])
               PROVE  id \in overlapped'
    BY DEF OneRequestUnlessOverlapped, Concerned
  <2>1. CASE p = r \/ q = r
    BY <1>1, <2>1
  <2>2. CASE p # r /\ q # r
    BY <1>1, <2>2 DEF RowsInv, OneRequestUnlessOverlapped
  <2> QED
    BY <2>1, <2>2
<1> QED
  BY <1>1, <1>2 DEF Pending

\* A call has been made, and `more` are to be made in its place.
LEMMA MakesOne ==
  ASSUME RowsInv, NEW r \in Requests, NEW call, NEW more \in Seq(Call), Makes(r, call, more),
         UNCHANGED overlapped,
         \A k \in DOMAIN more : more[k].id = call.id \/ call.id = None
  PROVE  /\ call \in Pending(r) /\ Head(todo[r]) = call /\ call \in Call
         /\ Pending(r)' \subseteq Pending(r) \cup {more[k] : k \in DOMAIN more}
         /\ \A c \in Pending(r) : c = call \/ c \in Pending(r)'
         /\ \A q \in Requests \ {r} : todo'[q] = todo[q] /\ Pending(q)' = Pending(q)
         /\ todo' \in [Requests -> Seq(Call)]
         /\ OneRequestUnlessOverlapped'
<1> USE DEF RowsInv, TablesTyped
<1>1. /\ todo[r] \in Seq(Call) /\ todo[r] # <<>> /\ Head(todo[r]) = call
      /\ todo'[r] = more \o Tail(todo[r])
      /\ \A q \in Requests \ {r} : todo'[q] = todo[q]
  BY DEF Makes
<1>2. /\ call \in Call /\ Tail(todo[r]) \in Seq(Call)
      /\ call = todo[r][1] /\ Len(todo[r]) \in Nat \ {0} /\ DOMAIN todo[r] = 1 .. Len(todo[r])
      /\ Len(Tail(todo[r])) = Len(todo[r]) - 1
      /\ \A k \in 1 .. Len(todo[r]) - 1 : Tail(todo[r])[k] = todo[r][k + 1]
  BY <1>1
<1>3. todo' \in [Requests -> Seq(Call)]
  <2>1. more \o Tail(todo[r]) \in Seq(Call)
    BY <1>2
  <2> QED
    BY <2>1 DEF Makes
<1> DEFINE t == Tail(todo[r])
           n == Len(more)
<1>4. /\ n \in Nat /\ DOMAIN more = 1 .. n
      /\ DOMAIN todo'[r] = 1 .. n + Len(t) /\ Len(t) \in Nat
      /\ \A k \in 1 .. n : todo'[r][k] = more[k]
      /\ \A k \in n + 1 .. n + Len(t) : todo'[r][k] = t[k - n]
  BY <1>1, <1>2
<1>5. Pending(r)' \subseteq Pending(r) \cup {more[k] : k \in DOMAIN more}
  <2> SUFFICES ASSUME NEW k \in DOMAIN todo'[r]
               PROVE  todo'[r][k] \in Pending(r) \cup {more[j] : j \in DOMAIN more}
    BY DEF Pending
  <2>1. CASE k \in 1 .. n
    BY <1>4, <2>1
  <2>2. CASE k \notin 1 .. n
    <3>1. k - n \in 1 .. Len(todo[r]) - 1 /\ k - n + 1 \in DOMAIN todo[r]
      BY <1>2, <1>4, <2>2
    <3>2. todo'[r][k] = todo[r][k - n + 1]
      <4>1. k \in n + 1 .. n + Len(t)
        BY <1>4, <2>2
      <4>2. todo'[r][k] = t[k - n]
        BY <1>4, <4>1
      <4> QED
        BY <1>2, <3>1, <4>2
    <3> QED
      BY <3>1, <3>2 DEF Pending
  <2> QED
    BY <2>1, <2>2
<1>6. \A c \in Pending(r) : c = call \/ c \in Pending(r)'
  <2> SUFFICES ASSUME NEW k \in DOMAIN todo[r], k # 1
               PROVE  \E j \in DOMAIN todo'[r] : todo'[r][j] = todo[r][k]
    BY <1>2 DEF Pending
  <2>1. k - 1 \in 1 .. Len(t) /\ t[k - 1] = todo[r][k]
    BY <1>2
  <2>2. n + (k - 1) \in n + 1 .. n + Len(t) /\ (n + (k - 1)) - n = k - 1
    BY <1>2, <1>4, <2>1
  <2>3. todo'[r][n + (k - 1)] = todo[r][k] /\ n + (k - 1) \in DOMAIN todo'[r]
    BY <1>4, <2>1, <2>2, SMTT(40)
  <2> QED
    BY <2>3
<1>7. call \in Pending(r)
  BY <1>2 DEF Pending
<1>8. \A q \in Requests \ {r} : Pending(q)' = Pending(q)
  BY <1>1 DEF Pending
<1>9. OneRequestUnlessOverlapped'
  <2>1. \A c \in Pending(r)' : \A id \in Ids :
          c.id \in {id, None} => \E d \in Pending(r) : d.id \in {id, None}
    BY <1>5, <1>7
  <2>2. \A q \in Requests : Concerned(todo'[q]) \subseteq Concerned(todo[q])
    <3>1. Concerned(todo'[r]) = {id \in Ids : \E c \in Pending(r)' : c.id \in {id, None}}
      BY DEF Concerned, Pending
    <3>2. Concerned(todo[r]) = {id \in Ids : \E c \in Pending(r) : c.id \in {id, None}}
      BY DEF Concerned, Pending
    <3>3. Concerned(todo'[r]) \subseteq Concerned(todo[r])
      BY <2>1, <3>1, <3>2
    <3> QED
      BY <1>1, <3>3
  <2>3. \A q \in Requests : Concerned(todo[q])' = Concerned(todo'[q])
    BY DEF Concerned
  <2> QED
    BY <2>2, <2>3 DEF OneRequestUnlessOverlapped
<1> QED
  BY <1>1, <1>2, <1>3, <1>5, <1>6, <1>7, <1>8, <1>9

\* What a request may do to the tables as it begins.
LEMMA BeginKeepsRows ==
  ASSUME RowsInv, NEW r \in Requests, NEW calls \in Seq(Call), Begin(r, calls),
         UNCHANGED managerVars, row' \in [Ids -> Row \cup {None}],
         issued \subseteq issued', IsFiniteSet(issued'),
         \A id \in Ids \ issued' :
           row'[id] = None /\ \A k \in DOMAIN calls : ~StartsIt(calls[k], id),
         \A id \in Ids : row'[id] # row[id] =>
           /\ id \in Concerned(calls) \/ id \notin issued
           /\ \/ dispatchers[id] = None \/ row'[id] = None
              \/ \E k \in DOMAIN calls : StopsIt(calls[k], id),
         \A id \in Ids, k \in DOMAIN calls : StartsIt(calls[k], id) /\ row'[id] # None =>
           /\ row'[id].config = calls[k].config
           /\ row'[id].enable \/ Head(calls) = C("write_enable", id, None)
  PROVE  RowsInv'
<1>1. /\ Pending(r) = {} /\ todo'[r] = calls
      /\ Pending(r)' = {calls[k] : k \in DOMAIN calls}
      /\ \A q \in Requests \ {r} : todo'[q] = todo[q] /\ Pending(q)' = Pending(q)
      /\ overlapped \subseteq overlapped'
      /\ \A id \in Concerned(calls) \ overlapped' :
           \A q \in Requests : id \notin Concerned(todo[q])
      /\ todo' \in [Requests -> Seq(Call)]
      /\ OneRequestUnlessOverlapped'
  BY BeginsWith
<1>2. SubsInv'
  BY Untouched DEF RowsInv, managerVars
<1>3. UNCHANGED <<dispatchers, config>>
  BY DEF managerVars
<1>4. UnissuedIsUnknown'
  <2> SUFFICES ASSUME NEW id \in Ids \ issued', NEW q \in Requests, NEW call \in Pending(q)'
               PROVE  row'[id] = None /\ dispatchers'[id] = None /\ ~StartsIt(call, id)
    BY <1>3 DEF RowsInv, UnissuedIsUnknown, StartsIt
  <2> QED
    BY <1>1, <1>3 DEF RowsInv, UnissuedIsUnknown
<1>5. StartsAsWritten'
  <2> SUFFICES ASSUME NEW id \in Ids \ overlapped', NEW q \in Requests, NEW call \in Pending(q)',
                      StartsIt(call, id), row'[id] # None
               PROVE  /\ row'[id].config = call.config
                      /\ row'[id].enable \/ Head(todo'[q]) = C("write_enable", id, None)
    BY DEF StartsAsWritten, StartsIt, C
  <2>1. CASE q = r
    BY <1>1, <2>1
  <2>2. CASE q # r
    <3>1. call \in Pending(q) /\ todo'[q] = todo[q]
      BY <1>1, <2>2
    <3>2. id \in Concerned(todo[q])
      BY <3>1 DEF Pending, Concerned, StartsIt
    <3>3. id \in issued
      BY <3>1 DEF RowsInv, UnissuedIsUnknown
    <3>4. row'[id] = row[id]
      BY <1>1, <3>2, <3>3
    <3> QED
      BY <1>1, <3>1, <3>4 DEF RowsInv, StartsAsWritten
  <2> QED
    BY <2>1, <2>2
<1>6. MatchesUnlessStopped'
  <2> SUFFICES ASSUME NEW id \in Ids \ overlapped', dispatchers[id] # None, row'[id] # None
               PROVE  \/ row'[id] = [enable |-> TRUE, config |-> config[dispatchers[id]]]
                      \/ \E q \in Requests : \E call \in Pending(q)' : StopsIt(call, id)
    BY <1>3 DEF MatchesUnlessStopped, StopsIt
  <2>1. CASE row'[id] # row[id]
    BY <1>1, <2>1
  <2>2. CASE row'[id] = row[id]
    BY <1>1, <2>2 DEF RowsInv, MatchesUnlessStopped
  <2> QED
    BY <2>1, <2>2
<1> QED
  BY <1>1, <1>2, <1>4, <1>5, <1>6 DEF RowsInv, TablesTyped

\* What a call may do: a row loses neither its configuration nor its being enabled,
\* and a dispatcher is the one that was there or has just been started.
LEMMA CallKeepsRows ==
  ASSUME RowsInv, SubsInv', NEW r \in Requests, NEW call, NEW more \in Seq(Call),
         Makes(r, call, more), UNCHANGED <<issued, overlapped>>,
         row' \in [Ids -> Row \cup {None}],
         \A k \in DOMAIN more : more[k].id = call.id \/ call.id = None,
         \A id \in Ids : row'[id] # None =>
           /\ row[id] # None /\ row'[id].config = row[id].config
           /\ row[id].enable => row'[id] = row[id]
           /\ call = C("write_enable", id, None) => row'[id].enable,
         \A id \in Ids, k \in DOMAIN more : StartsIt(more[k], id) =>
           row[id] # None /\ row'[id] = row[id] /\ row[id].enable /\ row[id].config = more[k].config,
         \A id \in Ids : dispatchers'[id] # None =>
           \/ /\ dispatchers'[id] = dispatchers[id] /\ ~StopsIt(call, id)
              /\ config'[dispatchers[id]] = config[dispatchers[id]]
           \/ StartsIt(call, id) /\ config'[dispatchers'[id]] = call.config
  PROVE  RowsInv'
<1>1. /\ call \in Pending(r) /\ Head(todo[r]) = call /\ call \in Call
      /\ Pending(r)' \subseteq Pending(r) \cup {more[k] : k \in DOMAIN more}
      /\ \A c \in Pending(r) : c = call \/ c \in Pending(r)'
      /\ \A q \in Requests \ {r} : todo'[q] = todo[q] /\ Pending(q)' = Pending(q)
      /\ todo' \in [Requests -> Seq(Call)]
      /\ OneRequestUnlessOverlapped'
  BY MakesOne
<1>2. ASSUME NEW q \in Requests, NEW c \in Pending(q)'
      PROVE  c \in Pending(q) \/ (q = r /\ \E k \in DOMAIN more : c = more[k])
  <2>1. CASE q = r
    BY <1>1, <1>2, <2>1
  <2>2. CASE q # r
    BY <1>1, <1>2, <2>2
  <2> QED
    BY <2>1, <2>2
<1>3. UnissuedIsUnknown'
  <2> SUFFICES ASSUME NEW id \in Ids \ issued, NEW q \in Requests, NEW c \in Pending(q)'
               PROVE  row'[id] = None /\ dispatchers'[id] = None /\ ~StartsIt(c, id)
    <3>1. \A id \in Ids \ issued : row'[id] = None /\ dispatchers'[id] = None
      BY <1>1 DEF RowsInv, UnissuedIsUnknown
    <3> QED
      BY <3>1 DEF UnissuedIsUnknown, StartsIt
  <2>1. row'[id] = None /\ dispatchers'[id] = None
    BY <1>1 DEF RowsInv, UnissuedIsUnknown
  <2> QED
    BY <1>2, <2>1 DEF RowsInv, UnissuedIsUnknown
<1>4. StartsAsWritten'
  <2> SUFFICES ASSUME NEW id \in Ids \ overlapped, NEW q \in Requests, NEW c \in Pending(q)',
                      StartsIt(c, id), row'[id] # None
               PROVE  /\ row'[id].config = c.config
                      /\ row'[id].enable \/ Head(todo'[q]) = C("write_enable", id, None)
    BY DEF StartsAsWritten, StartsIt, C
  <2>1. CASE c \in Pending(q)
    BY <1>1, <2>1 DEF RowsInv, StartsAsWritten
  <2>2. CASE c \notin Pending(q)
    BY <1>2, <2>2
  <2> QED
    BY <2>1, <2>2
<1>5. MatchesUnlessStopped'
  <2> SUFFICES ASSUME NEW id \in Ids \ overlapped, dispatchers'[id] # None, row'[id] # None
               PROVE  \/ row'[id] = [enable |-> TRUE, config |-> config'[dispatchers'[id]]]
                      \/ \E q \in Requests : \E c \in Pending(q)' : StopsIt(c, id)
    BY DEF MatchesUnlessStopped, StopsIt
  <2>1. CASE dispatchers'[id] = dispatchers[id] /\ ~StopsIt(call, id)
             /\ config'[dispatchers[id]] = config[dispatchers[id]]
    <3>1. CASE row[id] = [enable |-> TRUE, config |-> config[dispatchers[id]]]
      BY <2>1, <3>1
    <3>2. ASSUME NEW q \in Requests, NEW c \in Pending(q), StopsIt(c, id)
          PROVE  c \in Pending(q)'
      BY <1>1, <2>1, <3>2
    <3> QED
      BY <2>1, <3>1, <3>2 DEF RowsInv, MatchesUnlessStopped
  <2>2. CASE StartsIt(call, id) /\ config'[dispatchers'[id]] = call.config
    <3>1. row[id].config = call.config
      BY <1>1, <2>2 DEF RowsInv, StartsAsWritten
    <3>2. row[id].enable
      <4>1. call # C("write_enable", id, None)
        BY <2>2 DEF StartsIt, C
      <4> QED
        BY <1>1, <2>2, <4>1 DEF RowsInv, StartsAsWritten
    <3>3. row'[id] = row[id] /\ row[id] \in Row
      BY <3>2 DEF RowsInv, TablesTyped
    <3> QED
      BY <2>2, <3>1, <3>2, <3>3 DEF Row
  <2> QED
    BY <2>1, <2>2
<1> QED
  BY <1>1, <1>3, <1>4, <1>5 DEF RowsInv, TablesTyped

LEMMA CallsTyped ==
  /\ \A id \in Ids, cfg \in Configs \cup {None}, e \in BOOLEAN :
       /\ C("start", id, cfg) \in Call /\ C("stop", id, None) \in Call
       /\ C("write_enable", id, None) \in Call
       /\ IfEnabled(e, C("start", id, cfg)) \in Seq(Call)
       /\ <<C("stop", id, None)>> \o IfEnabled(e, C("start", id, cfg)) \in Seq(Call)
       /\ <<C("write_enable", id, None), C("start", id, cfg)>> \in Seq(Call)
       /\ <<C("stop", id, None)>> \in Seq(Call)
  /\ <<C("stop_all", None, None), C("list", None, None)>> \in Seq(Call)
<1>1. \A id \in Ids \cup {None}, cfg \in Configs \cup {None} :
        \A name \in {"write_enable", "stop", "start", "stop_all", "list"} :
          C(name, id, cfg) \in Call
  BY DEF C, Call
<1> QED
  BY <1>1 DEF IfEnabled

\* The calls of a request that stops a dispatcher and starts it again if it is enabled.
LEMMA Restarts ==
  ASSUME NEW id \in Ids, NEW cfg, NEW e \in BOOLEAN
  PROVE  LET calls == <<C("stop", id, None)>> \o IfEnabled(e, C("start", id, cfg))
         IN  /\ 1 \in DOMAIN calls /\ calls[1] = C("stop", id, None)
             /\ \A k \in DOMAIN calls : calls[k] = C("stop", id, None) \/ (e /\ calls[k] = C("start", id, cfg))
<1>1. CASE e
  BY <1>1 DEF IfEnabled
<1>2. CASE ~e
  BY <1>2 DEF IfEnabled
<1> QED
  BY <1>1, <1>2

LEMMA CallFields ==
  \A name, id, cfg : /\ C(name, id, cfg).call = name
                     /\ C(name, id, cfg).id = id
                     /\ C(name, id, cfg).config = cfg
BY DEF C

LEMMA RowIsTyped ==
  ASSUME RowsInv, NEW id \in Ids, row[id] # None
  PROVE  /\ row[id] \in Row /\ row[id].config \in Configs /\ row[id].enable \in BOOLEAN
         /\ \A e \in BOOLEAN : /\ [row[id] EXCEPT !.enable = e] \in Row
                               /\ [row[id] EXCEPT !.enable = e].enable = e
                               /\ [row[id] EXCEPT !.enable = e].config = row[id].config
                               /\ row[id].enable = e => [row[id] EXCEPT !.enable = e] = row[id]
<1>1. row[id] \in Row
  BY DEF RowsInv, TablesTyped
<1> QED
  BY <1>1 DEF Row

LEMMA WritesKeepRows ==
  ASSUME RowsInv, NEW r \in Requests, NEW id \in Ids, NEW e \in BOOLEAN, NEW cfg \in Configs,
         Create(r, id, e, cfg) \/ Update(r, id, e, cfg)
  PROVE  RowsInv'
<1> DEFINE new == [enable |-> e, config |-> cfg]
<1>0. new \in Row /\ new.config = cfg /\ new.enable = e
  BY DEF Row
<1> HIDE DEF new
<1>1. CASE Create(r, id, e, cfg)
  <2> DEFINE calls == IfEnabled(e, C("start", id, cfg))
  <2>1. /\ calls \in Seq(Call)
        /\ \A k \in DOMAIN calls : e /\ calls[k] = C("start", id, cfg)
    BY CallsTyped DEF IfEnabled
  <2>2. /\ Begin(r, calls) /\ issued' = issued \cup {id} /\ id \notin issued
        /\ row' = [row EXCEPT ![id] = new] /\ UNCHANGED managerVars
    BY <1>1 DEF Create, new
  <2> HIDE DEF calls
  <2>3. row' \in [Ids -> Row \cup {None}]
    BY <1>0, <2>2 DEF RowsInv, TablesTyped
  <2>4. row'[id] = new /\ \A i \in Ids \ {id} : row'[i] = row[i]
    BY <2>2 DEF RowsInv, TablesTyped
  <2>5. \A i \in Ids \ issued : row[i] = None /\ dispatchers[i] = None
    BY DEF RowsInv, UnissuedIsUnknown
  <2>6. \A i \in Ids, k \in DOMAIN calls : StartsIt(calls[k], i) => i = id /\ e
    BY <2>1, CallFields DEF StartsIt
  <2>7. \A k \in DOMAIN calls : calls[k].config = cfg
    BY <2>1, CallFields
  <2>8. IsFiniteSet(issued')
    BY <2>2, FS_AddElement DEF RowsInv, TablesTyped
  <2>9. \A i \in Ids \ issued' : row'[i] = None /\ \A k \in DOMAIN calls : ~StartsIt(calls[k], i)
    BY <2>2, <2>4, <2>5, <2>6
  <2>10. \A i \in Ids : row'[i] # row[i] => i \notin issued /\ dispatchers[i] = None
    BY <2>2, <2>4, <2>5
  <2>11. \A i \in Ids, k \in DOMAIN calls : StartsIt(calls[k], i) =>
           row'[i].config = calls[k].config /\ row'[i].enable
    BY <1>0, <2>4, <2>6, <2>7
  <2>12. issued \subseteq issued'
    BY <2>2
  <2> QED
    BY <2>1, <2>2, <2>3, <2>8, <2>9, <2>10, <2>11, <2>12, BeginKeepsRows
<1>2. CASE Update(r, id, e, cfg)
  <2> DEFINE calls == <<C("stop", id, None)>> \o IfEnabled(e, C("start", id, cfg))
  <2>1. calls \in Seq(Call)
    BY CallsTyped
  <2>2. /\ 1 \in DOMAIN calls /\ calls[1] = C("stop", id, None)
        /\ \A k \in DOMAIN calls :
             calls[k] = C("stop", id, None) \/ (e /\ calls[k] = C("start", id, cfg))
    BY Restarts
  <2>3. /\ Begin(r, calls) /\ issued' = issued /\ id \in issued
        /\ row' = [row EXCEPT ![id] = IF @ = None THEN None ELSE new] /\ UNCHANGED managerVars
    BY <1>2 DEF Update, new
  <2> HIDE DEF calls
  <2>4. row' \in [Ids -> Row \cup {None}]
    BY <1>0, <2>3 DEF RowsInv, TablesTyped
  <2>5. row'[id] \in {None, new} /\ \A i \in Ids \ {id} : row'[i] = row[i]
    BY <2>3 DEF RowsInv, TablesTyped
  <2>6. \A i \in Ids \ issued : row[i] = None /\ i # id
    BY <2>3 DEF RowsInv, UnissuedIsUnknown
  <2>7. \A i \in Ids, k \in DOMAIN calls : StartsIt(calls[k], i) => i = id /\ e /\ calls[k].config = cfg
    BY <2>2, CallFields DEF StartsIt
  <2>8. StopsIt(calls[1], id) /\ id \in Concerned(calls)
    BY <2>2, CallFields DEF StopsIt, Concerned
  <2>9. IsFiniteSet(issued')
    BY <2>3 DEF RowsInv, TablesTyped
  <2> QED
    BY <1>0, <2>1, <2>2, <2>3, <2>4, <2>5, <2>6, <2>7, <2>8, <2>9, BeginKeepsRows
<1> QED
  BY <1>1, <1>2

LEMMA OtherRequestsKeepRows ==
  ASSUME RowsInv, NEW r \in Requests, NEW id \in Ids,
         Enable(r, id) \/ Disable(r, id) \/ Delete(r, id) \/ ReloadDispatcher(r, id)
  PROVE  RowsInv'
<1>1. row \in [Ids -> Row \cup {None}] /\ IsFiniteSet(issued)
  BY DEF RowsInv, TablesTyped
<1>2. \A i \in Ids \ issued : row[i] = None
  BY DEF RowsInv, UnissuedIsUnknown
<1>3. CASE Enable(r, id)
  <2> DEFINE calls == <<C("write_enable", id, None), C("start", id, row[id].config)>>
  <2>1. /\ Begin(r, calls) /\ UNCHANGED <<row, issued, managerVars>> /\ row[id] # None
    BY <1>3 DEF Enable
  <2>2. calls \in Seq(Call) /\ Head(calls) = C("write_enable", id, None)
    BY <2>1, CallsTyped, RowIsTyped
  <2>3. \A k \in DOMAIN calls :
          calls[k] = C("write_enable", id, None) \/ calls[k] = C("start", id, row[id].config)
    OBVIOUS
  <2> HIDE DEF calls
  <2>4. \A i \in Ids, k \in DOMAIN calls :
          StartsIt(calls[k], i) => i = id /\ calls[k].config = row[id].config
    BY <2>3, CallFields DEF StartsIt
  <2> QED
    BY <1>1, <1>2, <2>1, <2>2, <2>4, BeginKeepsRows
<1>4. CASE Disable(r, id) \/ Delete(r, id)
  <2> DEFINE calls == <<C("stop", id, None)>>
  <2>1. /\ Begin(r, calls) /\ UNCHANGED <<issued, managerVars>> /\ id \in issued
        /\ \/ row' = [row EXCEPT ![id] = IF @ = None THEN None ELSE [@ EXCEPT !.enable = FALSE]]
           \/ row' = [row EXCEPT ![id] = None]
    BY <1>4 DEF Disable, Delete
  <2>2. calls \in Seq(Call)
    BY CallsTyped
  <2>3. \A k \in DOMAIN calls : calls[k] = C("stop", id, None)
    OBVIOUS
  <2>4. 1 \in DOMAIN calls
    OBVIOUS
  <2> HIDE DEF calls
  <2>5. row' \in [Ids -> Row \cup {None}]
    BY <1>1, <2>1, RowIsTyped
  <2>6. \A i \in Ids \ {id} : row'[i] = row[i]
    BY <1>1, <2>1
  <2>7. \A i \in Ids, k \in DOMAIN calls : ~StartsIt(calls[k], i)
    BY <2>3, CallFields DEF StartsIt
  <2>8. StopsIt(calls[1], id) /\ id \in Concerned(calls)
    BY <2>3, <2>4, CallFields DEF StopsIt, Concerned
  <2> QED
    BY <1>1, <1>2, <2>1, <2>2, <2>4, <2>5, <2>6, <2>7, <2>8, BeginKeepsRows
<1>5. CASE ReloadDispatcher(r, id)
  <2> DEFINE e == row[id].enable
             cfg == row[id].config
             calls == <<C("stop", id, None)>> \o IfEnabled(e, C("start", id, cfg))
  <2>1. /\ Begin(r, calls) /\ UNCHANGED <<row, issued, managerVars>> /\ row[id] # None
    BY <1>5 DEF ReloadDispatcher
  <2>2. e \in BOOLEAN /\ cfg \in Configs
    BY <2>1, RowIsTyped
  <2> HIDE DEF e, cfg
  <2>3. /\ calls \in Seq(Call)
        /\ \A k \in DOMAIN calls :
             calls[k] = C("stop", id, None) \/ (e /\ calls[k] = C("start", id, cfg))
    BY <2>2, CallsTyped, Restarts
  <2> HIDE DEF calls
  <2>4. \A i \in Ids, k \in DOMAIN calls :
          StartsIt(calls[k], i) => i = id /\ calls[k].config = cfg /\ e
    BY <2>3, CallFields DEF StartsIt
  <2> QED
    BY <1>1, <1>2, <2>1, <2>3, <2>4, BeginKeepsRows DEF e, cfg
<1> QED
  BY <1>3, <1>4, <1>5

LEMMA ReloadAllKeepsRows ==
  ASSUME RowsInv, NEW r \in Requests, ReloadAll(r)
  PROVE  RowsInv'
<1> DEFINE calls == <<C("stop_all", None, None), C("list", None, None)>>
<1>1. Begin(r, calls) /\ UNCHANGED <<row, issued, managerVars>> /\ calls \in Seq(Call)
  BY CallsTyped DEF ReloadAll
<1>2. \A k \in DOMAIN calls : calls[k] = C("stop_all", None, None) \/ calls[k] = C("list", None, None)
  OBVIOUS
<1> HIDE DEF calls
<1>3. \A i \in Ids, k \in DOMAIN calls : ~StartsIt(calls[k], i)
  BY <1>2, CallFields DEF StartsIt
<1>4. \A i \in Ids \ issued : row[i] = None
  BY DEF RowsInv, UnissuedIsUnknown
<1> QED
  BY <1>1, <1>3, <1>4, BeginKeepsRows DEF RowsInv, TablesTyped

LEMMA StepKeepsRows ==
  ASSUME RowsInv, NEW r \in Requests, RequestStep(r)
  PROVE  RowsInv'
<1>1. row \in [Ids -> Row \cup {None}] /\ SubsInv
  BY DEF RowsInv, TablesTyped
<1>2. SubsInv'
  BY <1>1, NextSubs DEF Next
<1>3. <<>> \in Seq(Call) /\ DOMAIN <<>> = {}
  OBVIOUS
<1>4. ASSUME NEW id \in Ids, WriteEnable(r, id)
      PROVE  RowsInv'
  <2> DEFINE call == C("write_enable", id, None)
  <2>1. /\ Makes(r, call, <<>>)
        /\ row' = [row EXCEPT ![id] = IF @ = None THEN None ELSE [@ EXCEPT !.enable = TRUE]]
        /\ UNCHANGED <<issued, overlapped, dispatchers, config>>
    BY <1>4 DEF WriteEnable, managerVars
  <2>2. row' \in [Ids -> Row \cup {None}]
    BY <1>1, <2>1, RowIsTyped
  <2>3. ASSUME NEW i \in Ids, row'[i] # None
        PROVE  /\ row[i] # None /\ row'[i].config = row[i].config
               /\ row[i].enable => row'[i] = row[i]
               /\ call = C("write_enable", i, None) => row'[i].enable
    <3>1. CASE i = id
      <4>1. row[i] # None /\ row'[i] = [row[i] EXCEPT !.enable = TRUE]
        BY <1>1, <2>1, <2>3, <3>1
      <4>2. /\ row'[i].config = row[i].config /\ row'[i].enable = TRUE
            /\ row[i].enable = TRUE => row'[i] = row[i]
        BY <4>1, RowIsTyped
      <4> QED
        BY <4>1, <4>2, RowIsTyped
    <3>2. CASE i # id
      <4>1. call # C("write_enable", i, None)
        BY <3>2, CallFields
      <4> QED
        BY <1>1, <2>1, <2>3, <3>2, <4>1
    <3> QED
      BY <3>1, <3>2
  <2>4. \A i \in Ids : ~StopsIt(call, i)
    BY CallFields DEF StopsIt
  <2> HIDE DEF call
  <2> QED
    BY <1>2, <1>3, <2>1, <2>2, <2>3, <2>4, CallKeepsRows
<1>5. ASSUME NEW id \in Ids, NEW cfg \in Configs, SkipStart(r, id, cfg)
      PROVE  RowsInv'
  <2> DEFINE call == C("start", id, cfg)
  <2>1. Makes(r, call, <<>>) /\ UNCHANGED <<row, issued, overlapped, dispatchers, config>>
    BY <1>5 DEF SkipStart, managerVars
  <2>2. \A i \in Ids : ~StopsIt(call, i) /\ call # C("write_enable", i, None)
    BY CallFields DEF StopsIt
  <2> HIDE DEF call
  <2> QED
    BY <1>1, <1>2, <1>3, <2>1, <2>2, CallKeepsRows
<1>6. ASSUME NEW id \in Ids, NEW cfg \in Configs, NEW i \in Instances, StartDispatcher(r, id, cfg, i)
      PROVE  RowsInv'
  <2> DEFINE call == C("start", id, cfg)
  <2>1. /\ Makes(r, call, <<>>) /\ UNCHANGED <<row, issued, overlapped>>
        /\ i \in Fresh /\ dispatchers' = [dispatchers EXCEPT ![id] = i]
        /\ config' = [config EXCEPT ![i] = cfg]
    BY <1>6 DEF StartDispatcher
  <2>2. /\ \A k \in Ids : ~StopsIt(call, k) /\ call # C("write_enable", k, None)
        /\ StartsIt(call, id) /\ call.config = cfg
    BY CallFields DEF StopsIt, StartsIt
  <2> HIDE DEF call
  <2>3. \A k \in Ids : dispatchers[k] # None => dispatchers[k] # i
    BY <1>1, <2>1 DEF SubsInv, OneIdEach
  <2>4. ASSUME NEW k \in Ids, dispatchers'[k] # None
        PROVE  \/ /\ dispatchers'[k] = dispatchers[k]
                  /\ config'[dispatchers[k]] = config[dispatchers[k]]
               \/ k = id /\ config'[dispatchers'[k]] = cfg
    BY <1>1, <2>1, <2>3, <2>4 DEF SubsInv, MapsTyped
  <2> QED
    BY <1>1, <1>2, <1>3, <2>1, <2>2, <2>4, CallKeepsRows
<1>7. ASSUME NEW gone \in SUBSET Ids, Stopped(gone), NEW call, Makes(r, call, <<>>),
             call.call \in {"stop", "stop_all"}, \A id \in Ids : StopsIt(call, id) => id \in gone
      PROVE  RowsInv'
  <2>1. /\ UNCHANGED <<row, issued, overlapped, config>>
        /\ \A id \in Ids : dispatchers'[id] # None => id \notin gone /\ dispatchers'[id] = dispatchers[id]
    BY <1>7 DEF Stopped
  <2>2. \A id \in Ids : call # C("write_enable", id, None)
    BY <1>7, CallFields
  <2> QED
    BY <1>1, <1>2, <1>3, <1>7, <2>1, <2>2, CallKeepsRows
<1>8. ASSUME NEW id \in Ids, StopDispatcher(r, id)
      PROVE  RowsInv'
  <2> DEFINE call == C("stop", id, None)
  <2>1. Stopped({id}) /\ Makes(r, call, <<>>)
    BY <1>8 DEF StopDispatcher
  <2>2. call.call = "stop" /\ \A i \in Ids : StopsIt(call, i) => i = id
    BY CallFields, NoneAssumption DEF StopsIt
  <2> HIDE DEF call
  <2> QED
    BY <1>7, <2>1, <2>2
<1>9. ASSUME StopAll(r)
      PROVE  RowsInv'
  <2>1. Stopped(Ids) /\ Makes(r, C("stop_all", None, None), <<>>)
    BY <1>9 DEF StopAll
  <2> QED
    BY <1>7, <2>1, CallFields
<1>10. ASSUME startDispatchers(r)
       PROVE  RowsInv'
  <2> DEFINE enabled == {id \in Ids : row[id] # None /\ row[id].enable}
             call == C("list", None, None)
  <2>1. PICK order \in [1 .. Cardinality(enabled) -> enabled] :
          /\ \A id \in enabled : \E k \in DOMAIN order : order[k] = id
          /\ Makes(r, call, [k \in DOMAIN order |-> C("start", order[k], row[order[k]].config)])
          /\ UNCHANGED <<row, issued, overlapped, managerVars>>
    BY <1>10 DEF startDispatchers
  <2> DEFINE more == [k \in DOMAIN order |-> C("start", order[k], row[order[k]].config)]
  <2>2. \A k \in DOMAIN order : order[k] \in enabled
    OBVIOUS
  <2>3. \A k \in DOMAIN more : \E id \in Ids : /\ row[id] # None /\ row[id].enable
                                               /\ more[k] = C("start", id, row[id].config)
    BY <2>2
  <2>4. more \in Seq(Call)
    <3>1. enabled \subseteq issued
      BY DEF RowsInv, UnissuedIsUnknown
    <3>2. Cardinality(enabled) \in Nat
      BY <3>1, FS_Subset, FS_CardinalityType DEF RowsInv, TablesTyped
    <3>3. \A k \in 1 .. Cardinality(enabled) : more[k] \in Call
      BY <2>3, CallsTyped, RowIsTyped
    <3> QED
      BY <3>2, <3>3
  <2>5. Makes(r, call, more) /\ UNCHANGED <<row, issued, overlapped, dispatchers, config>>
    BY <2>1 DEF managerVars
  <2>6. call.id = None /\ \A id \in Ids : ~StopsIt(call, id) /\ call # C("write_enable", id, None)
    BY CallFields DEF StopsIt
  <2> HIDE DEF more, call
  <2>7. \A id \in Ids, k \in DOMAIN more : StartsIt(more[k], id) =>
          row[id] # None /\ row[id].enable /\ row[id].config = more[k].config
    BY <2>3, CallFields DEF StartsIt
  <2> QED
    BY <1>1, <1>2, <2>4, <2>5, <2>6, <2>7, CallKeepsRows
<1> QED
  BY <1>4, <1>5, <1>6, <1>8, <1>9, <1>10 DEF RequestStep

LEMMA NextRows ==
  ASSUME RowsInv, [Next]_vars
  PROVE  RowsInv'
<1>1. SubsInv'
  BY NextSubs DEF RowsInv
<1>2. CASE UNCHANGED vars \/ \E i \in Instances : Publish(i) \/ PusherStep(i)
  <2>1. UNCHANGED <<row, issued, todo, overlapped, dispatchers, config>>
    BY <1>2 DEF vars, managerVars, Publish, PusherStep, Receive, Pushed, Leave
  <2> QED
    BY <1>1, <2>1 DEF RowsInv, TablesTyped, OneRequestUnlessOverlapped, UnissuedIsUnknown,
       StartsAsWritten, MatchesUnlessStopped, Concerned, Pending, StartsIt, StopsIt, C
<1>3. ASSUME NEW r \in Requests, NEW id \in Ids,
             \/ \E enable \in BOOLEAN, cfg \in Configs :
                  Create(r, id, enable, cfg) \/ Update(r, id, enable, cfg)
             \/ Enable(r, id) \/ Disable(r, id) \/ Delete(r, id) \/ ReloadDispatcher(r, id)
      PROVE  RowsInv'
  BY <1>3, WritesKeepRows, OtherRequestsKeepRows
<1>4. ASSUME NEW r \in Requests, ReloadAll(r)
      PROVE  RowsInv'
  BY <1>4, ReloadAllKeepsRows
<1> QED
  BY <1>2, <1>3, <1>4, StepKeepsRows DEF Next

\* Requests that do not overlap leave a dispatcher running with its row's present
\* configuration, and enabled there, whatever the requests about others do meanwhile.
THEOREM RowsCorrect == Spec => []RunningMatchesRow
BY InitRows, NextRows, RowsInvImplies, PTL DEF Spec
-----------------------------------------------------------------------------
\* The goroutines of the mockers and the map of their stop channels.

\* Why OneTimerPerMocker is inductive: the entry of an id is a goroutine that was
\* started for this id, so that no two ids share one, and a goroutine that has not
\* been started has not been stopped.
EntriesAreOfTheirIds ==
  /\ \A id \in Mockers : mockerRunners[id] # NoTimer =>
       timers[mockerRunners[id]].of = id /\ timers[mockerRunners[id]].place # "unused"
  /\ \A t \in stopped : timers[t].place # "unused"

MockersInv == MockersTypeOK /\ EntriesAreOfTheirIds /\ OneTimerPerMocker

\* The part of it that is about the goroutines.
RunnersTyped ==
  /\ mockerRunners \in [Mockers -> Timers \cup {NoTimer}]
  /\ timers \in [Timers -> Timer]
  /\ \A t \in Timers : timers[t].place # "unused" => timers[t].of # NoMocker
  /\ stopped \subseteq Timers

RunnersInv == RunnersTyped /\ EntriesAreOfTheirIds /\ OneTimerPerMocker

HandlersTyped ==
  /\ mockerRows \in [Mockers -> MockerRow]
  /\ toLoad \subseteq Mockers /\ clashed \subseteq Mockers /\ dbFailed \subseteq Mockers
  /\ mockerTodo \in [MockerRequests -> Seq(MockerStep)]
  /\ mockerMade \in 0 .. MaxMockerRequests

LEMMA MockersInvParts == MockersInv <=> RunnersInv /\ HandlersTyped
BY DEF MockersInv, RunnersInv, MockersTypeOK, RunnersTyped, HandlersTyped

LEMMA InitMockers == MockersInit => MockersInv
<1> SUFFICES ASSUME MockersInit PROVE MockersInv
  OBVIOUS
<1>1. AnInterval \in Intervals
  BY MockersAssumption DEF AnInterval
<1>2. HandlersTyped
  <2>1. NoRow \in MockerRow
    BY <1>1 DEF NoRow, MockerRow
  <2>2. mockerRows \in [Mockers -> MockerRow]
    BY <2>1 DEF MockersInit
  <2>3. mockerTodo \in [MockerRequests -> Seq(MockerStep)]
    BY DEF MockersInit
  <2> QED
    BY <2>2, <2>3, MockersAssumption DEF MockersInit, HandlersTyped
<1>3. RunnersInv
  BY <1>1, MockersAssumption
     DEF MockersInit, RunnersInv, RunnersTyped, EntriesAreOfTheirIds, OneTimerPerMocker,
         Timer, Alive
<1> QED
  BY <1>2, <1>3, MockersInvParts
-----------------------------------------------------------------------------
LEMMA StopKeeps ==
  ASSUME RunnersInv, NEW id \in Mockers, stopMockerRunner(id)
  PROVE  RunnersInv'
<1> USE DEF RunnersInv
<1>1. RunnersTyped'
  BY DEF stopMockerRunner, RunnersTyped
<1>2. EntriesAreOfTheirIds'
  BY DEF stopMockerRunner, RunnersTyped, EntriesAreOfTheirIds
<1>3. OneTimerPerMocker'
  <2>1. ASSUME NEW t \in Timers, Alive(t)', t \notin stopped'
        PROVE  mockerRunners'[timers'[t].of] = t
    <3>1. Alive(t) /\ t \notin stopped /\ t # mockerRunners[id] /\ timers' = timers
      BY <2>1, MockersAssumption DEF stopMockerRunner, Alive
    <3>2. timers[t].of \in Mockers
      BY <3>1 DEF RunnersTyped, Timer, Alive
    <3>3. mockerRunners[timers[t].of] = t
      BY <3>1 DEF OneTimerPerMocker
    <3> QED
      BY <3>1, <3>2, <3>3 DEF stopMockerRunner, RunnersTyped
  <2>2. ASSUME NEW k \in Mockers
        PROVE  mockerRunners'[k] \notin stopped'
    <3>1. CASE k = id
      BY <3>1, MockersAssumption DEF stopMockerRunner, RunnersTyped
    <3>2. CASE k # id
      <4>1. mockerRunners'[k] = mockerRunners[k] /\ mockerRunners[k] \notin stopped
        BY <3>2 DEF stopMockerRunner, RunnersTyped, OneTimerPerMocker
      <4>2. mockerRunners[k] = mockerRunners[id] => mockerRunners[k] = NoTimer
        BY <3>2 DEF EntriesAreOfTheirIds
      <4> QED
        BY <4>1, <4>2 DEF stopMockerRunner
    <3> QED
      BY <3>1, <3>2
  <2> QED
    BY <2>1, <2>2 DEF OneTimerPerMocker
<1> QED
  BY <1>1, <1>2, <1>3

LEMMA StartKeeps ==
  ASSUME RunnersInv, NEW id \in Mockers, NEW interval \in Intervals, startMockerRunner(id, interval)
  PROVE  RunnersInv'
<1> USE DEF RunnersInv
<1>1. CASE interval = 0 /\ stopMockerRunner(id)
  BY <1>1, StopKeeps
<1>2. CASE ~(interval = 0 /\ stopMockerRunner(id))
  <2>1. PICK r \in Timers :
          /\ timers[r].place = "unused"
          /\ stopped' = stopped \cup ({mockerRunners[id]} \ {NoTimer})
          /\ mockerRunners' = [mockerRunners EXCEPT ![id] = r]
          /\ timers' = [timers EXCEPT ![r] = [of |-> id, interval |-> interval, place |-> "select"]]
    BY <1>2 DEF startMockerRunner
  <2>2. /\ r \notin stopped /\ r # NoTimer
        /\ \A k \in Mockers : mockerRunners[k] # r
        /\ \A t \in Timers : timers'[t] = IF t = r
             THEN [of |-> id, interval |-> interval, place |-> "select"] ELSE timers[t]
        /\ \A k \in Mockers : mockerRunners'[k] = IF k = id THEN r ELSE mockerRunners[k]
    BY <2>1, MockersAssumption DEF EntriesAreOfTheirIds, RunnersTyped
  <2>3. r \notin stopped' /\ stopped \subseteq stopped'
    BY <2>1, <2>2
  <2>4. RunnersTyped'
    <3>1. [of |-> id, interval |-> interval, place |-> "select"] \in Timer
      BY DEF Timer
    <3>2. timers' \in [Timers -> Timer] /\ mockerRunners' \in [Mockers -> Timers \cup {NoTimer}]
      BY <2>1, <3>1 DEF RunnersTyped
    <3>3. stopped' \subseteq Timers
      BY <2>1 DEF RunnersTyped
    <3>4. \A t \in Timers : timers'[t].place # "unused" => timers'[t].of # NoMocker
      BY <2>2, MockersAssumption DEF RunnersTyped
    <3> QED
      BY <3>2, <3>3, <3>4 DEF RunnersTyped
  <2>5. EntriesAreOfTheirIds'
    <3>1. ASSUME NEW k \in Mockers, mockerRunners'[k] # NoTimer
          PROVE  timers'[mockerRunners'[k]].of = k /\ timers'[mockerRunners'[k]].place # "unused"
      <4>1. CASE k = id
        BY <2>2, <4>1
      <4>2. CASE k # id
        <5>1. mockerRunners'[k] = mockerRunners[k] /\ mockerRunners[k] # r
              /\ mockerRunners[k] \in Timers
          BY <2>2, <3>1, <4>2 DEF RunnersTyped
        <5> QED
          BY <2>2, <3>1, <5>1 DEF EntriesAreOfTheirIds
      <4> QED
        BY <4>1, <4>2
    <3>2. ASSUME NEW t \in stopped'
          PROVE  timers'[t].place # "unused"
      <4>1. t # r /\ t \in Timers /\ timers[t].place # "unused"
        BY <2>1, <2>3, <3>2 DEF EntriesAreOfTheirIds, RunnersTyped
      <4> QED
        BY <2>2, <4>1
    <3> QED
      BY <3>1, <3>2 DEF EntriesAreOfTheirIds
  <2>6. OneTimerPerMocker'
    <3>1. ASSUME NEW t \in Timers, Alive(t)', t \notin stopped'
          PROVE  mockerRunners'[timers'[t].of] = t
      <4>1. CASE t = r
        BY <2>2, <4>1
      <4>2. CASE t # r
        <5>1. timers'[t] = timers[t] /\ Alive(t) /\ t \notin stopped /\ t # mockerRunners[id]
          BY <2>1, <2>2, <2>3, <3>1, <4>2, MockersAssumption DEF Alive
        <5>2. timers[t].of \in Mockers
          BY <5>1 DEF RunnersTyped, Timer, Alive
        <5>3. mockerRunners[timers[t].of] = t
          BY <5>1 DEF OneTimerPerMocker
        <5> QED
          BY <2>2, <5>1, <5>2, <5>3
      <4> QED
        BY <4>1, <4>2
    <3>2. ASSUME NEW k \in Mockers
          PROVE  mockerRunners'[k] \notin stopped'
      <4>1. CASE k = id
        BY <2>2, <2>3, <4>1
      <4>2. CASE k # id
        <5>1. mockerRunners'[k] = mockerRunners[k] /\ mockerRunners[k] \notin stopped
          BY <2>2, <4>2 DEF OneTimerPerMocker
        <5>2. mockerRunners[k] = mockerRunners[id] => mockerRunners[k] = NoTimer
          BY <4>2 DEF EntriesAreOfTheirIds
        <5> QED
          BY <2>1, <5>1, <5>2
      <4> QED
        BY <4>1, <4>2
    <3> QED
      BY <3>1, <3>2 DEF OneTimerPerMocker
  <2> QED
    BY <2>4, <2>5, <2>6
<1> QED
  BY <1>1, <1>2

\* The goroutine of a timer goes from one place to another, and is alive only where
\* it was.
LEMMA MoveKeeps ==
  ASSUME RunnersInv, NEW t \in Timers, NEW from \in {"select", "publish"},
         NEW to \in {"select", "publish", "returned"}, Moves(t, from, to)
  PROVE  RunnersInv'
<1>1. /\ UNCHANGED <<mockerRunners, stopped>>
      /\ timers[t].place = from
      /\ timers' = [timers EXCEPT ![t].place = to]
  BY DEF Moves
<1>2. timers \in [Timers -> Timer]
  BY DEF RunnersInv, RunnersTyped
<1>3. timers[t] \in Timer /\ [timers[t] EXCEPT !.place = to] \in Timer
  BY <1>2 DEF Timer
<1>4. timers' \in [Timers -> Timer]
  BY <1>1, <1>2, <1>3
<1>5. /\ \A s \in Timers : timers'[s].of = timers[s].of
      /\ \A s \in Timers : timers'[s].place = IF s = t THEN to ELSE timers[s].place
  BY <1>1, <1>2, <1>3 DEF Timer
<1>6. RunnersTyped'
  BY <1>1, <1>4, <1>5 DEF RunnersInv, RunnersTyped
<1>7. EntriesAreOfTheirIds'
  BY <1>1, <1>5 DEF RunnersInv, RunnersTyped, EntriesAreOfTheirIds
<1>8. OneTimerPerMocker'
  BY <1>1, <1>5 DEF RunnersInv, OneTimerPerMocker, Alive
<1> QED
  BY <1>6, <1>7, <1>8 DEF RunnersInv

\* Steps that leave the goroutines alone.
LEMMA RunnersUntouched == RunnersInv /\ UNCHANGED runnerVars => RunnersInv'
BY DEF runnerVars, RunnersInv, RunnersTyped, EntriesAreOfTheirIds, OneTimerPerMocker, Alive
-----------------------------------------------------------------------------
LEMMA MockerRowIsTyped ==
  ASSUME HandlersTyped, NEW id \in Mockers
  PROVE  /\ mockerRows[id] \in MockerRow /\ mockerRows[id].interval \in Intervals
         /\ \A e \in BOOLEAN, i \in Intervals :
              /\ [state |-> "present", enable |-> e, interval |-> i] \in MockerRow
              /\ [mockerRows[id] EXCEPT !.enable = e] \in MockerRow
              /\ [mockerRows[id] EXCEPT !.enable = e, !.interval = i] \in MockerRow
         /\ [mockerRows[id] EXCEPT !.state = "deleted"] \in MockerRow
<1>1. mockerRows[id] \in MockerRow
  BY DEF HandlersTyped
<1> QED
  BY <1>1 DEF MockerRow

LEMMA BeginTyped ==
  ASSUME HandlersTyped, NEW q \in MockerRequests, NEW id \in Mockers,
         NEW steps \in Seq(MockerStep), BeginMocker(q, id, steps)
  PROVE  /\ clashed' \subseteq Mockers /\ dbFailed' = dbFailed /\ toLoad' = toLoad
         /\ mockerTodo' \in [MockerRequests -> Seq(MockerStep)]
         /\ mockerMade' \in 0 .. MaxMockerRequests
         /\ UNCHANGED runnerVars
<1>1. mockerTodo' \in [MockerRequests -> Seq(MockerStep)]
  BY DEF HandlersTyped, BeginMocker
<1>2. mockerMade' \in 0 .. MaxMockerRequests
  BY MockersAssumption DEF HandlersTyped, BeginMocker
<1> QED
  BY <1>1, <1>2 DEF HandlersTyped, BeginMocker

LEMMA StepsTyped ==
  ASSUME NEW id \in Mockers, NEW i \in Intervals
  PROVE  /\ \A c \in {"enable", "disable", "start", "stop", "delete"} :
              /\ S(c, id, i) \in MockerStep
              /\ <<S(c, id, i)>> \in Seq(MockerStep)
              /\ \A d \in {"enable", "disable", "start", "stop", "delete"} :
                   <<S(c, id, i), S(d, id, i)>> \in Seq(MockerStep)
         /\ \A e \in BOOLEAN : /\ StartIf(e, id, i) \in Seq(MockerStep)
                               /\ <<S("stop", id, i)>> \o StartIf(e, id, i) \in Seq(MockerStep)
<1>1. \A c \in {"enable", "disable", "start", "stop", "delete"} : S(c, id, i) \in MockerStep
  BY DEF S, MockerStep
<1>2. \A c \in {"enable", "disable", "start", "stop", "delete"} : <<S(c, id, i)>> \in Seq(MockerStep)
  BY <1>1
<1>3. \A c, d \in {"enable", "disable", "start", "stop", "delete"} :
        <<S(c, id, i), S(d, id, i)>> \in Seq(MockerStep)
  BY <1>1
<1>4. \A e \in BOOLEAN : StartIf(e, id, i) \in Seq(MockerStep)
  BY <1>2 DEF StartIf
<1> QED
  BY <1>1, <1>2, <1>3, <1>4

LEMMA DoesTyped ==
  ASSUME HandlersTyped, NEW q \in MockerRequests, mockerTodo[q] # <<>>
  PROVE  /\ Head(mockerTodo[q]) \in MockerStep
         /\ [mockerTodo EXCEPT ![q] = Tail(@)] \in [MockerRequests -> Seq(MockerStep)]
<1>1. mockerTodo \in [MockerRequests -> Seq(MockerStep)]
  BY DEF HandlersTyped
<1> QED
  BY <1>1

LEMMA RequestKeeps ==
  ASSUME RunnersInv, HandlersTyped, NEW q \in MockerRequests, NEW id \in Mockers, MockerRequest(q, id)
  PROVE  RunnersInv' /\ HandlersTyped'
<1>1. ASSUME NEW e \in BOOLEAN, NEW i \in Intervals, CreateMocker(q, id, e, i)
      PROVE  RunnersInv' /\ HandlersTyped'
  <2>1. mockerRows' \in [Mockers -> MockerRow]
    BY <1>1, MockerRowIsTyped DEF CreateMocker, HandlersTyped
  <2>2. BeginMocker(q, id, StartIf(e, id, i)) /\ StartIf(e, id, i) \in Seq(MockerStep)
    BY <1>1, StepsTyped DEF CreateMocker
  <2> QED
    BY <2>1, <2>2, BeginTyped, RunnersUntouched DEF HandlersTyped
<1>2. ASSUME NEW e \in BOOLEAN, NEW i \in Intervals, UpdateMocker(q, id, e, i)
      PROVE  RunnersInv' /\ HandlersTyped'
  <2>0. mockerRows \in [Mockers -> MockerRow]
    BY DEF HandlersTyped
  <2>1. mockerRows' \in [Mockers -> MockerRow]
    <3> DEFINE enabled == [mockerRows EXCEPT ![id].enable = e]
    <3>1. enabled \in [Mockers -> MockerRow]
      BY <2>0, MockerRowIsTyped
    <3> HIDE DEF enabled
    <3>2. [enabled[id] EXCEPT !.interval = i] \in MockerRow
      BY <3>1 DEF MockerRow
    <3>3. [enabled EXCEPT ![id].interval = i] \in [Mockers -> MockerRow]
      BY <3>1, <3>2
    <3> QED
      BY <1>2, <2>0, <3>3 DEF UpdateMocker, enabled
  <2>2. /\ BeginMocker(q, id, <<S("stop", id, i)>> \o StartIf(e, id, i))
        /\ <<S("stop", id, i)>> \o StartIf(e, id, i) \in Seq(MockerStep)
    BY <1>2, StepsTyped DEF UpdateMocker
  <2> QED
    BY <2>1, <2>2, BeginTyped, RunnersUntouched DEF HandlersTyped
<1>3. ASSUME DeleteMocker(q, id) \/ EnableMocker(q, id) \/ DisableMocker(q, id)
      PROVE  RunnersInv' /\ HandlersTyped'
  <2>1. PICK c \in {"stop", "enable", "disable"}, d \in {"delete", "start", "stop"} :
          /\ BeginMocker(q, id, <<S(c, id, mockerRows[id].interval), S(d, id, mockerRows[id].interval)>>)
          /\ UNCHANGED mockerRows
    BY <1>3 DEF DeleteMocker, EnableMocker, DisableMocker
  <2>2. <<S(c, id, mockerRows[id].interval), S(d, id, mockerRows[id].interval)>> \in Seq(MockerStep)
    BY MockerRowIsTyped, StepsTyped
  <2> QED
    BY <2>1, <2>2, BeginTyped, RunnersUntouched DEF HandlersTyped
<1>4. ASSUME NEW e \in BOOLEAN, WriteMockerEnable(q, id, e)
      PROVE  RunnersInv' /\ HandlersTyped'
  <2>1. mockerRows' \in [Mockers -> MockerRow]
    <3>1. [mockerRows[id] EXCEPT !.enable = e] \in MockerRow
      BY MockerRowIsTyped, MockersAssumption
    <3> QED
      BY <1>4, <3>1 DEF WriteMockerEnable, HandlersTyped
  <2>2. mockerTodo' \in [MockerRequests -> Seq(MockerStep)]
    BY <1>4, DoesTyped DEF WriteMockerEnable, Does
  <2> QED
    BY <1>4, <2>1, <2>2, RunnersUntouched DEF WriteMockerEnable, Does, HandlersTyped
<1>5. ASSUME DeleteRow(q, id)
      PROVE  RunnersInv' /\ HandlersTyped'
  <2>1. mockerRows' \in [Mockers -> MockerRow]
    BY <1>5, MockerRowIsTyped DEF DeleteRow, HandlersTyped
  <2>2. mockerTodo' \in [MockerRequests -> Seq(MockerStep)]
    BY <1>5, DoesTyped DEF DeleteRow, Does
  <2> QED
    BY <1>5, <2>1, <2>2, RunnersUntouched DEF DeleteRow, Does, HandlersTyped
<1>6. ASSUME StartTimer(q, id)
      PROVE  RunnersInv' /\ HandlersTyped'
  <2>1. Head(mockerTodo[q]) \in MockerStep /\ mockerTodo' \in [MockerRequests -> Seq(MockerStep)]
    BY <1>6, DoesTyped DEF StartTimer, Does
  <2>2. Head(mockerTodo[q]).interval \in Intervals
    BY <2>1 DEF MockerStep
  <2>3. RunnersInv'
    BY <1>6, <2>2, StartKeeps DEF StartTimer
  <2> QED
    BY <1>6, <2>1, <2>3 DEF StartTimer, Does, HandlersTyped
<1>7. ASSUME StopTimer(q, id)
      PROVE  RunnersInv' /\ HandlersTyped'
  <2>1. mockerTodo' \in [MockerRequests -> Seq(MockerStep)]
    BY <1>7, DoesTyped DEF StopTimer, Does
  <2>2. RunnersInv'
    BY <1>7, StopKeeps DEF StopTimer
  <2> QED
    BY <1>7, <2>1, <2>2 DEF StopTimer, Does, HandlersTyped
<1>8. ASSUME StatementFails(q, id)
      PROVE  RunnersInv' /\ HandlersTyped'
  <2>1. mockerTodo' \in [MockerRequests -> Seq(MockerStep)]
    BY <1>8 DEF StatementFails, HandlersTyped
  <2> QED
    BY <1>8, <2>1, RunnersUntouched DEF StatementFails, HandlersTyped
<1> QED
  BY <1>1, <1>2, <1>3, <1>4, <1>5, <1>6, <1>7, <1>8 DEF MockerRequest

LEMMA NextMockers ==
  ASSUME RunnersInv, HandlersTyped, [MockersNext]_mockerVars
  PROVE  RunnersInv' /\ HandlersTyped'
<1>1. ASSUME NEW id \in Mockers, LoadMocker(id)
      PROVE  RunnersInv' /\ HandlersTyped'
  <2>1. RunnersInv'
    BY <1>1, MockerRowIsTyped, StartKeeps DEF LoadMocker
  <2> QED
    BY <1>1, <2>1 DEF LoadMocker, HandlersTyped
<1>2. ASSUME NEW t \in Timers, TimerStep(t)
      PROVE  RunnersInv' /\ HandlersTyped'
  <2>1. PICK from \in {"select", "publish"}, to \in {"select", "publish", "returned"} :
          Moves(t, from, to)
    BY <1>2 DEF TimerStep, TimerStops, TimerTicks, TimerReadFails, publishMocker
  <2>2. RunnersInv'
    BY <2>1, MoveKeeps
  <2>3. dbFailed' \subseteq Mockers
    <3>1. timers[t] \in Timer /\ (timers[t].place # "unused" => timers[t].of # NoMocker)
      BY DEF RunnersInv, RunnersTyped
    <3>2. timers[t].place # "unused"
      BY <2>1 DEF Moves
    <3>3. timers[t].of \in Mockers
      BY <3>1, <3>2 DEF Timer
    <3> QED
      BY <1>2, <3>3 DEF TimerStep, TimerStops, TimerTicks, TimerReadFails, publishMocker,
         HandlersTyped
  <2>4. UNCHANGED <<mockerRows, handlerVars>>
    BY <2>1 DEF Moves
  <2> QED
    BY <2>2, <2>3, <2>4 DEF handlerVars, HandlersTyped
<1>3. CASE UNCHANGED mockerVars
  <2>1. UNCHANGED runnerVars
    BY <1>3 DEF mockerVars
  <2> QED
    BY <1>3, <2>1, RunnersUntouched DEF mockerVars, handlerVars, HandlersTyped
<1> QED
  BY <1>1, <1>2, <1>3, RequestKeeps DEF MockersNext

LEMMA MockersInvariant == MockersSpec => []MockersInv
<1>1. MockersInv /\ [MockersNext]_mockerVars => MockersInv'
  <2>1. MockersInv' <=> RunnersInv' /\ HandlersTyped'
    BY DEF MockersInv, RunnersInv, MockersTypeOK, RunnersTyped, HandlersTyped
  <2> QED
    BY <2>1, MockersInvParts, NextMockers
<1> QED
  BY <1>1, InitMockers, PTL DEF MockersSpec

\* However requests about mockers interleave, a mocker has one goroutine at most that
\* nobody has told to stop, the map holds its stop channel, and none is closed twice.
THEOREM OneTimer == MockersSpec => []OneTimerPerMocker
<1>1. MockersInv => OneTimerPerMocker
  BY DEF MockersInv
<1> QED
  BY <1>1, MockersInvariant, PTL
-----------------------------------------------------------------------------
\* What the handler of a request about mocker id may have left to do.
HandlerSteps(id, i) ==
  {<<>>, <<S("start", id, i)>>, <<S("stop", id, i)>>, <<S("delete", id, i)>>,
   <<S("stop", id, i), S("start", id, i)>>, <<S("stop", id, i), S("delete", id, i)>>,
   <<S("enable", id, i), S("start", id, i)>>, <<S("disable", id, i), S("stop", id, i)>>}

HandlersAreShort ==
  \A q \in MockerRequests :
    mockerTodo[q] # <<>> => \E id \in Mockers, i \in Intervals : mockerTodo[q] \in HandlerSteps(id, i)

OneRequestUnlessClashed == \A id \in Mockers \ clashed : \A p, q \in About(id) : p = q

\* Requests wait for LoadMockers, and what it has still to start is enabled.
LoadedFirst ==
  /\ \A id \in toLoad : Enabled(id)
  /\ toLoad # {} => \A q \in MockerRequests : mockerTodo[q] = <<>>

NewMockersAreUnknown ==
  \A id \in Mockers : mockerRows[id].state = "unissued" => mockerRunners[id] = NoTimer /\ About(id) = {}

\* The steps of a handler agree with the row as it has been or will be written: a
\* timer is started at the row's interval, and stopped for good when it is disabled.
AsWritten(steps, mrow) ==
  mrow.state = "present" =>
    /\ \A k \in DOMAIN steps : steps[k].call = "start" =>
         steps[k].interval = mrow.interval /\ (mrow.enable \/ Head(steps).call = "enable")
    /\ steps # <<>> /\ Tail(steps) = <<>> /\ Head(steps).call = "stop" => ~mrow.enable

StepsAreAsWritten ==
  \A id \in Mockers \ clashed : \A q \in About(id) : AsWritten(mockerTodo[q], mockerRows[id])

\* The body of TimersMatchRows.
Matched(id) ==
  IF Enabled(id) /\ mockerRows[id].interval > 0
  THEN \E t \in Timers \ stopped :
         mockerRunners[id] = t /\ Alive(t) /\ timers[t].interval = mockerRows[id].interval
  ELSE mockerRows[id].state = "present" => mockerRunners[id] = NoTimer

HandlersInv ==
  /\ HandlersTyped
  /\ HandlersAreShort
  /\ OneRequestUnlessClashed
  /\ LoadedFirst
  /\ NewMockersAreUnknown
  /\ StepsAreAsWritten

TimersInv == RunnersInv /\ HandlersInv /\ TimersMatchRows

LEMMA MatchedIsMatch ==
  TimersMatchRows <=>
    \A id \in Mockers \ (clashed \cup dbFailed \cup toLoad) : About(id) = {} => Matched(id)
BY DEF TimersMatchRows, Matched

LEMMA InitTimers == MockersInit => TimersInv
<1> SUFFICES ASSUME MockersInit PROVE TimersInv
  OBVIOUS
<1>1. RunnersInv /\ HandlersTyped
  BY InitMockers, MockersInvParts
<1>2. \A q \in MockerRequests : mockerTodo[q] = <<>>
  BY DEF MockersInit
<1>3. \A id \in Mockers : About(id) = {}
  BY <1>2 DEF About
<1>4. HandlersAreShort
  BY <1>2 DEF HandlersAreShort
<1> QED
  BY <1>1, <1>2, <1>3, <1>4 DEF MockersInit, TimersInv, HandlersInv, OneRequestUnlessClashed,
     LoadedFirst, NewMockersAreUnknown, StepsAreAsWritten, TimersMatchRows, NoRow, Enabled

LEMMA StepFields ==
  \A call, id, i : S(call, id, i).call = call /\ S(call, id, i).id = id /\ S(call, id, i).interval = i
BY DEF S

\* How the steps of a handler follow each other.
LEMMA ShapeOfSteps ==
  ASSUME NEW id \in Mockers, NEW i \in Intervals, NEW steps \in HandlerSteps(id, i), steps # <<>>
  PROVE  /\ 1 \in DOMAIN steps /\ Head(steps) = steps[1] /\ steps \in Seq(MockerStep)
         /\ \A k \in DOMAIN steps : steps[k].id = id /\ steps[k].interval = i
         /\ Tail(steps) \in HandlerSteps(id, i)
         /\ \A k \in DOMAIN Tail(steps) : \E j \in DOMAIN steps : Tail(steps)[k] = steps[j]
         /\ Head(steps).call = "enable" => Tail(steps) = <<S("start", id, i)>>
         /\ Head(steps).call = "disable" => Tail(steps) = <<S("stop", id, i)>>
         /\ Head(steps).call = "stop" =>
              Tail(steps) \in {<<>>, <<S("start", id, i)>>, <<S("delete", id, i)>>}
         /\ Head(steps).call \in {"start", "delete"} => Tail(steps) = <<>>
<1> DEFINE calls == {"enable", "disable", "start", "stop", "delete"}
<1>1. ASSUME NEW c \in calls, steps = <<S(c, id, i)>>
      PROVE  /\ 1 \in DOMAIN steps /\ Head(steps) = S(c, id, i) /\ Tail(steps) = <<>>
             /\ steps \in Seq(MockerStep)
             /\ DOMAIN steps = {1} /\ steps[1] = S(c, id, i) /\ DOMAIN Tail(steps) = {}
  BY <1>1, StepsTyped
<1>2. ASSUME NEW c \in calls, NEW d \in calls, steps = <<S(c, id, i), S(d, id, i)>>
      PROVE  /\ 1 \in DOMAIN steps /\ Head(steps) = S(c, id, i) /\ Tail(steps) = <<S(d, id, i)>>
             /\ steps \in Seq(MockerStep)
             /\ DOMAIN steps = {1, 2} /\ steps[1] = S(c, id, i) /\ steps[2] = S(d, id, i)
             /\ DOMAIN Tail(steps) = {1} /\ Tail(steps)[1] = S(d, id, i)
  BY <1>2, StepsTyped
<1>3. ASSUME NEW c \in {"start", "stop", "delete"}, steps = <<S(c, id, i)>>
      PROVE  /\ \A k \in DOMAIN steps : steps[k].id = id /\ steps[k].interval = i
             /\ Tail(steps) = <<>> /\ Head(steps) = steps[1] /\ Head(steps).call = c
  BY <1>1, <1>3, StepFields
<1>4. ASSUME NEW c \in calls, NEW d \in calls, steps = <<S(c, id, i), S(d, id, i)>>
      PROVE  /\ \A k \in DOMAIN steps : steps[k].id = id /\ steps[k].interval = i
             /\ Head(steps) = steps[1] /\ Head(steps).call = c
             /\ \A k \in DOMAIN Tail(steps) : Tail(steps)[k] = steps[2] /\ 2 \in DOMAIN steps
  BY <1>2, <1>4, StepFields
<1>5. CASE \E c \in {"start", "stop", "delete"} : steps = <<S(c, id, i)>>
  BY <1>1, <1>3, <1>5 DEF HandlerSteps
<1>6. CASE \E d \in {"start", "delete"} : steps = <<S("stop", id, i), S(d, id, i)>>
  BY <1>2, <1>4, <1>6 DEF HandlerSteps
<1>7. CASE steps = <<S("enable", id, i), S("start", id, i)>>
  BY <1>2, <1>4, <1>7 DEF HandlerSteps
<1>8. CASE steps = <<S("disable", id, i), S("stop", id, i)>>
  BY <1>2, <1>4, <1>8 DEF HandlerSteps
<1> QED
  BY <1>5, <1>6, <1>7, <1>8 DEF HandlerSteps

\* A request has begun with these steps.
LEMMA BeginAbout ==
  ASSUME HandlersInv, NEW q \in MockerRequests, NEW id \in Mockers, NEW i \in Intervals,
         NEW steps \in HandlerSteps(id, i), BeginMocker(q, id, steps)
  PROVE  /\ HandlersAreShort' /\ OneRequestUnlessClashed'
         /\ toLoad = {} /\ mockerTodo'[q] = steps /\ mockerTodo[q] = <<>>
         /\ \A p \in MockerRequests \ {q} : mockerTodo'[p] = mockerTodo[p]
         /\ \A k \in Mockers \ {id} : About(k)' = About(k)
         /\ About(id)' = IF steps = <<>> THEN About(id) ELSE About(id) \cup {q}
         /\ clashed' = clashed \cup (IF About(id) = {} THEN {} ELSE {id})
<1> USE DEF HandlersInv
<1>1. /\ toLoad = {} /\ mockerTodo'[q] = steps /\ mockerTodo[q] = <<>>
      /\ \A p \in MockerRequests \ {q} : mockerTodo'[p] = mockerTodo[p]
      /\ clashed' = clashed \cup (IF About(id) = {} THEN {} ELSE {id})
  BY DEF BeginMocker, HandlersTyped
<1>2. HandlersAreShort'
  BY <1>1 DEF HandlersAreShort
<1>3. /\ \A j \in DOMAIN steps : steps[j].id = id
      /\ steps # <<>> => 1 \in DOMAIN steps
      /\ steps = <<>> => DOMAIN steps = {}
  BY ShapeOfSteps
<1>4. \A k \in Mockers \ {id} : About(k)' = About(k)
  BY <1>1, <1>3 DEF About
<1>5. About(id)' = IF steps = <<>> THEN About(id) ELSE About(id) \cup {q}
  BY <1>1, <1>3 DEF About
<1>6. OneRequestUnlessClashed'
  BY <1>1, <1>4, <1>5 DEF OneRequestUnlessClashed
<1> QED
  BY <1>1, <1>2, <1>4, <1>5, <1>6

LEMMA BeginKeepsTimers ==
  ASSUME TimersInv, NEW q \in MockerRequests, NEW id \in Mockers, NEW i \in Intervals,
         NEW steps \in HandlerSteps(id, i), BeginMocker(q, id, steps), HandlersTyped',
         \A k \in Mockers \ {id} : mockerRows'[k] = mockerRows[k],
         mockerRows'[id].state # "unissued",
         AsWritten(steps, mockerRows'[id]),
         steps = <<>> => mockerRows[id].state = "unissued" /\ ~mockerRows'[id].enable
  PROVE  TimersInv'
<1> USE DEF TimersInv, HandlersInv
<1>1. /\ HandlersAreShort' /\ OneRequestUnlessClashed'
      /\ toLoad = {} /\ mockerTodo'[q] = steps
      /\ \A p \in MockerRequests \ {q} : mockerTodo'[p] = mockerTodo[p]
      /\ \A k \in Mockers \ {id} : About(k)' = About(k)
      /\ About(id)' = IF steps = <<>> THEN About(id) ELSE About(id) \cup {q}
      /\ clashed' = clashed \cup (IF About(id) = {} THEN {} ELSE {id})
      /\ q \notin About(id)
  BY BeginAbout DEF About
<1>2. UNCHANGED <<runnerVars, toLoad, dbFailed>>
  BY DEF BeginMocker
<1>3. LoadedFirst'
  BY <1>1, <1>2 DEF LoadedFirst
<1>4. NewMockersAreUnknown'
  BY <1>1, <1>2 DEF NewMockersAreUnknown, runnerVars
<1>5. StepsAreAsWritten'
  <2> SUFFICES ASSUME NEW k \in Mockers \ clashed', NEW p \in About(k)'
               PROVE  AsWritten(mockerTodo'[p], mockerRows'[k])
    BY DEF StepsAreAsWritten, AsWritten
  <2>1. CASE k # id
    <3>1. p \in About(k) /\ p # q
      BY <1>1, <2>1, BeginAbout DEF About
    <3> QED
      BY <1>1, <2>1, <3>1 DEF StepsAreAsWritten, About
  <2>2. CASE k = id
    BY <1>1, <2>2 DEF NewMockersAreUnknown
  <2> QED
    BY <2>1, <2>2
<1>6. TimersMatchRows'
  <2> SUFFICES ASSUME NEW k \in Mockers \ (clashed' \cup dbFailed' \cup toLoad'), About(k)' = {}
               PROVE  Matched(k)'
    BY DEF TimersMatchRows, Matched
  <2>1. CASE k # id
    <3>1. Matched(k)
      BY <1>1, <1>2, <2>1, MatchedIsMatch
    <3> QED
      BY <1>2, <2>1, <3>1 DEF Matched, Enabled, Alive, runnerVars
  <2>2. CASE k = id
    <3>1. steps = <<>>
      BY <1>1, <2>2
    <3>2. mockerRunners[id] = NoTimer
      BY <3>1 DEF NewMockersAreUnknown
    <3> QED
      BY <1>2, <2>2, <3>1, <3>2 DEF Matched, Enabled, runnerVars
  <2> QED
    BY <2>1, <2>2
<1>7. RunnersInv'
  BY <1>2, RunnersUntouched
<1> QED
  BY <1>1, <1>3, <1>4, <1>5, <1>6, <1>7

\* A handler has made its next step.
LEMMA DoesAbout ==
  ASSUME HandlersInv, NEW q \in MockerRequests, NEW id \in Mockers, mockerTodo[q] # <<>>,
         Head(mockerTodo[q]).id = id, mockerTodo' = [mockerTodo EXCEPT ![q] = Tail(@)],
         UNCHANGED <<toLoad, clashed>>
  PROVE  /\ HandlersAreShort' /\ OneRequestUnlessClashed'
         /\ toLoad = {} /\ q \in About(id) /\ mockerTodo'[q] = Tail(mockerTodo[q])
         /\ \E i \in Intervals : mockerTodo[q] \in HandlerSteps(id, i)
         /\ \A p \in MockerRequests \ {q} : mockerTodo'[p] = mockerTodo[p]
         /\ \A k \in Mockers \ {id} : q \notin About(k) /\ About(k)' = About(k)
         /\ About(id)' \subseteq About(id)
         /\ Tail(mockerTodo[q]) # <<>> => q \in About(id)'
<1> USE DEF HandlersInv
<1>1. PICK k \in Mockers, i \in Intervals : mockerTodo[q] \in HandlerSteps(k, i)
  BY DEF HandlersAreShort
<1>2. k = id
  BY <1>1, ShapeOfSteps
<1>3. /\ 1 \in DOMAIN mockerTodo[q]
      /\ \A j \in DOMAIN mockerTodo[q] : mockerTodo[q][j].id = id
      /\ Tail(mockerTodo[q]) \in HandlerSteps(id, i)
  BY <1>1, <1>2, ShapeOfSteps
<1>4. /\ \A j \in DOMAIN Tail(mockerTodo[q]) : Tail(mockerTodo[q])[j].id = id
      /\ Tail(mockerTodo[q]) # <<>> => 1 \in DOMAIN Tail(mockerTodo[q])
  BY <1>3, ShapeOfSteps
<1>5. /\ mockerTodo'[q] = Tail(mockerTodo[q])
      /\ \A p \in MockerRequests \ {q} : mockerTodo'[p] = mockerTodo[p]
  BY DEF HandlersTyped
<1>6. q \in About(id) /\ toLoad = {}
  BY <1>3 DEF About, LoadedFirst
<1>7. /\ \A m \in Mockers \ {id} : q \notin About(m) /\ About(m)' = About(m)
      /\ About(id)' \subseteq About(id)
      /\ Tail(mockerTodo[q]) # <<>> => q \in About(id)'
  BY <1>3, <1>4, <1>5, <1>6 DEF About
<1>8. HandlersAreShort'
  BY <1>3, <1>5 DEF HandlersAreShort
<1>9. OneRequestUnlessClashed'
  BY <1>7 DEF OneRequestUnlessClashed
<1> QED
  BY <1>1, <1>2, <1>5, <1>6, <1>7, <1>8, <1>9

LEMMA DoesKeepsTimers ==
  ASSUME TimersInv, NEW q \in MockerRequests, NEW id \in Mockers, NEW call, Does(q, call, id),
         RunnersInv', HandlersTyped', UNCHANGED dbFailed,
         \A k \in Mockers \ {id} : /\ mockerRows'[k] = mockerRows[k]
                                   /\ mockerRunners'[k] = mockerRunners[k]
                                   /\ Matched(k) => Matched(k)',
         mockerRows'[id].state # "unissued" \/ mockerRows'[id].state = mockerRows[id].state,
         AsWritten(mockerTodo[q], mockerRows[id]) =>
           /\ AsWritten(Tail(mockerTodo[q]), mockerRows'[id])
           /\ Tail(mockerTodo[q]) = <<>> => Matched(id)'
  PROVE  TimersInv'
<1> USE DEF TimersInv, HandlersInv
<1>0. /\ mockerTodo[q] # <<>> /\ Head(mockerTodo[q]).id = id
      /\ mockerTodo' = [mockerTodo EXCEPT ![q] = Tail(@)] /\ UNCHANGED <<toLoad, clashed>>
  BY DEF Does
<1>1. /\ HandlersAreShort' /\ OneRequestUnlessClashed'
      /\ toLoad = {} /\ q \in About(id) /\ mockerTodo'[q] = Tail(mockerTodo[q])
      /\ \A p \in MockerRequests \ {q} : mockerTodo'[p] = mockerTodo[p]
      /\ \A k \in Mockers \ {id} : q \notin About(k) /\ About(k)' = About(k)
      /\ About(id)' \subseteq About(id)
      /\ Tail(mockerTodo[q]) # <<>> => q \in About(id)'
  BY <1>0, DoesAbout, ZenonT(40)
<1>2. id \notin clashed => AsWritten(mockerTodo[q], mockerRows[id])
  BY <1>1 DEF StepsAreAsWritten
<1>3. LoadedFirst'
  BY <1>0, <1>1 DEF LoadedFirst
<1>4. NewMockersAreUnknown'
  BY <1>1 DEF NewMockersAreUnknown
<1>5. StepsAreAsWritten'
  <2> SUFFICES ASSUME NEW k \in Mockers \ clashed, NEW p \in About(k)'
               PROVE  AsWritten(mockerTodo'[p], mockerRows'[k])
    BY <1>0 DEF StepsAreAsWritten, AsWritten
  <2>1. CASE k # id
    BY <1>1, <2>1 DEF StepsAreAsWritten, About
  <2>2. CASE k = id
    <3>1. p = q
      BY <1>1, <2>2 DEF OneRequestUnlessClashed
    <3> QED
      BY <1>1, <1>2, <2>2, <3>1
  <2> QED
    BY <2>1, <2>2
<1>6. TimersMatchRows'
  <2> SUFFICES ASSUME NEW k \in Mockers \ (clashed \cup dbFailed), About(k)' = {}
               PROVE  Matched(k)'
    BY <1>0 DEF TimersMatchRows, Matched
  <2>1. CASE k # id
    BY <1>1, <2>1, MatchedIsMatch
  <2>2. CASE k = id
    BY <1>1, <1>2, <2>2
  <2> QED
    BY <2>1, <2>2
<1> QED
  BY <1>1, <1>3, <1>4, <1>5, <1>6

\* Starting or stopping the timer of a mocker leaves those of the others alone.
LEMMA StopMatches ==
  ASSUME RunnersInv, NEW id \in Mockers, stopMockerRunner(id)
  PROVE  /\ mockerRunners'[id] = NoTimer
         /\ \A k \in Mockers \ {id} :
              /\ mockerRunners'[k] = mockerRunners[k]
              /\ \A t \in Timers \ stopped : mockerRunners[k] = t =>
                   t \notin stopped' /\ timers'[t] = timers[t]
<1>1. \A k \in Mockers \ {id} : mockerRunners[k] # NoTimer => mockerRunners[k] # mockerRunners[id]
  BY DEF RunnersInv, EntriesAreOfTheirIds
<1> QED
  BY <1>1, MockersAssumption DEF stopMockerRunner, RunnersInv, RunnersTyped

LEMMA StartMatches ==
  ASSUME RunnersInv, RunnersInv', NEW id \in Mockers, NEW interval \in Intervals,
         startMockerRunner(id, interval)
  PROVE  /\ interval = 0 => mockerRunners'[id] = NoTimer
         /\ interval > 0 => \E t \in Timers \ stopped' :
              mockerRunners'[id] = t /\ Alive(t)' /\ timers'[t].interval = interval
         /\ \A k \in Mockers \ {id} :
              /\ mockerRunners'[k] = mockerRunners[k]
              /\ \A t \in Timers \ stopped : mockerRunners[k] = t =>
                   t \notin stopped' /\ timers'[t] = timers[t]
<1>1. CASE interval = 0 /\ stopMockerRunner(id)
  BY <1>1, StopMatches
<1>2. CASE ~(interval = 0 /\ stopMockerRunner(id))
  <2>1. PICK r \in Timers :
          /\ interval > 0
          /\ timers[r].place = "unused"
          /\ stopped' = stopped \cup ({mockerRunners[id]} \ {NoTimer})
          /\ mockerRunners' = [mockerRunners EXCEPT ![id] = r]
          /\ timers' = [timers EXCEPT ![r] = [of |-> id, interval |-> interval, place |-> "select"]]
    BY <1>2 DEF startMockerRunner
  <2>2. mockerRunners'[id] = r /\ timers'[r] = [of |-> id, interval |-> interval, place |-> "select"]
    BY <2>1 DEF RunnersInv, RunnersTyped
  <2>3. r \notin stopped'
    BY <2>2 DEF RunnersInv, OneTimerPerMocker
  <2>4. \A k \in Mockers \ {id} : mockerRunners[k] # NoTimer =>
          mockerRunners[k] # mockerRunners[id] /\ mockerRunners[k] # r
    BY <2>1 DEF RunnersInv, EntriesAreOfTheirIds
  <2>5. \A k \in Mockers \ {id} :
          /\ mockerRunners'[k] = mockerRunners[k]
          /\ \A t \in Timers \ stopped : mockerRunners[k] = t =>
               t \notin stopped' /\ timers'[t] = timers[t]
    BY <2>1, <2>4, MockersAssumption DEF RunnersInv, RunnersTyped
  <2>6. interval # 0
    BY <2>1, MockersAssumption
  <2> QED
    BY <2>2, <2>3, <2>5, <2>6 DEF Alive
<1> QED
  BY <1>1, <1>2

LEMMA OthersStayMatched ==
  ASSUME RunnersInv, NEW k \in Mockers, mockerRows'[k] = mockerRows[k],
         mockerRunners'[k] = mockerRunners[k],
         \A t \in Timers \ stopped : mockerRunners[k] = t => t \notin stopped' /\ timers'[t] = timers[t],
         Matched(k)
  PROVE  Matched(k)'
BY DEF Matched, Enabled, Alive

\* What a new timer has to do with a row that is enabled and has its interval.
LEMMA StartedIsMatched ==
  ASSUME HandlersTyped, RunnersInv, RunnersInv', NEW id \in Mockers, NEW interval \in Intervals,
         startMockerRunner(id, interval), mockerRows'[id] = mockerRows[id],
         mockerRows[id].state = "present" =>
           mockerRows[id].enable /\ mockerRows[id].interval = interval
  PROVE  Matched(id)'
<1>1. /\ interval = 0 => mockerRunners'[id] = NoTimer
      /\ interval > 0 => \E t \in Timers \ stopped' :
           mockerRunners'[id] = t /\ Alive(t)' /\ timers'[t].interval = interval
  BY StartMatches
<1>2. interval = 0 \/ interval > 0
  BY MockersAssumption
<1> QED
  BY <1>1, <1>2, MockersAssumption DEF Matched, Enabled, Alive

LEMMA BegunAsWritten ==
  ASSUME NEW id \in Mockers, NEW i \in Intervals, NEW mrow
  PROVE  /\ AsWritten(<<>>, mrow)
         /\ mrow.interval = i /\ mrow.enable => AsWritten(<<S("start", id, i)>>, mrow)
         /\ ~mrow.enable => AsWritten(<<S("stop", id, i)>>, mrow)
         /\ mrow.interval = i /\ mrow.enable => AsWritten(<<S("stop", id, i), S("start", id, i)>>, mrow)
         /\ AsWritten(<<S("stop", id, i), S("delete", id, i)>>, mrow)
         /\ mrow.interval = i => AsWritten(<<S("enable", id, i), S("start", id, i)>>, mrow)
         /\ AsWritten(<<S("disable", id, i), S("stop", id, i)>>, mrow)
<1> DEFINE calls == {"enable", "disable", "start", "stop", "delete"}
<1>1. ASSUME NEW c \in calls
      PROVE  LET s == <<S(c, id, i)>>
             IN  /\ DOMAIN s = {1} /\ s[1].call = c /\ s[1].interval = i
                 /\ Head(s).call = c
  BY StepFields
<1>2. ASSUME NEW c \in calls, NEW d \in calls
      PROVE  LET s == <<S(c, id, i), S(d, id, i)>>
             IN  /\ DOMAIN s = {1, 2} /\ s[1].call = c /\ s[2].call = d
                 /\ s[1].interval = i /\ s[2].interval = i
                 /\ Head(s).call = c /\ Tail(s) = <<S(d, id, i)>> /\ Tail(s) # <<>>
  BY StepFields
<1>3. AsWritten(<<>>, mrow)
  BY DEF AsWritten
<1>4. /\ mrow.interval = i /\ mrow.enable => AsWritten(<<S("start", id, i)>>, mrow)
      /\ ~mrow.enable => AsWritten(<<S("stop", id, i)>>, mrow)
  BY <1>1 DEF AsWritten
<1>5. /\ mrow.interval = i /\ mrow.enable => AsWritten(<<S("stop", id, i), S("start", id, i)>>, mrow)
      /\ AsWritten(<<S("stop", id, i), S("delete", id, i)>>, mrow)
      /\ mrow.interval = i => AsWritten(<<S("enable", id, i), S("start", id, i)>>, mrow)
      /\ AsWritten(<<S("disable", id, i), S("stop", id, i)>>, mrow)
  BY <1>2 DEF AsWritten
<1> QED
  BY <1>3, <1>4, <1>5

LEMMA PairOfSteps ==
  ASSUME NEW a \in MockerStep, NEW b \in MockerStep
  PROVE  <<a>> \o <<b>> = <<a, b>> /\ <<a>> \o <<>> = <<a>>
<1> DEFINE s == <<a>> \o <<b>>
           u == <<a, b>>
<1>1. s \in Seq(MockerStep) /\ u \in Seq(MockerStep) /\ Len(s) = 2 /\ Len(u) = 2
  OBVIOUS
<1>2. s[1] = a /\ s[2] = b /\ u[1] = a /\ u[2] = b
  OBVIOUS
<1>3. s = u
  <2> HIDE DEF s, u
  <2>1. \A i \in 1 .. Len(s) : s[i] = u[i]
    BY <1>1, <1>2
  <2>2. Len(s) = Len(u)
    BY <1>1
  <2> QED
    BY <1>1, <2>1, <2>2, SeqEqual
<1> QED
  BY <1>3

LEMMA RequestKeepsTimers ==
  ASSUME TimersInv, NEW q \in MockerRequests, NEW id \in Mockers, MockerRequest(q, id)
  PROVE  TimersInv'
<1> USE DEF TimersInv, HandlersInv
<1>1. RunnersInv' /\ HandlersTyped'
  BY RequestKeeps
<1>2. mockerRows \in [Mockers -> MockerRow] /\ mockerRows[id] \in MockerRow
  BY DEF HandlersTyped
<1>3. ASSUME NEW e \in BOOLEAN, NEW i \in Intervals, CreateMocker(q, id, e, i)
      PROVE  TimersInv'
  <2> DEFINE steps == StartIf(e, id, i)
  <2>1. steps \in HandlerSteps(id, i) /\ (steps = <<>> => ~e)
    BY DEF HandlerSteps, StartIf
  <2>2. /\ BeginMocker(q, id, steps) /\ mockerRows[id].state = "unissued"
        /\ mockerRows' = [mockerRows EXCEPT ![id] =
                            [state |-> "present", enable |-> e, interval |-> i]]
    BY <1>3 DEF CreateMocker
  <2>3. /\ mockerRows'[id] = [state |-> "present", enable |-> e, interval |-> i]
        /\ \A k \in Mockers \ {id} : mockerRows'[k] = mockerRows[k]
    BY <1>2, <2>2
  <2>4. AsWritten(steps, mockerRows'[id])
    BY <2>3, BegunAsWritten DEF StartIf
  <2> HIDE DEF steps
  <2> QED
    BY <1>1, <2>1, <2>2, <2>3, <2>4, BeginKeepsTimers
<1>4. ASSUME NEW e \in BOOLEAN, NEW i \in Intervals, UpdateMocker(q, id, e, i)
      PROVE  TimersInv'
  <2> DEFINE steps == <<S("stop", id, i)>> \o StartIf(e, id, i)
  <2>1. steps = IF e THEN <<S("stop", id, i), S("start", id, i)>> ELSE <<S("stop", id, i)>>
    <3>0. S("stop", id, i) \in MockerStep /\ S("start", id, i) \in MockerStep
      BY StepsTyped
    <3>1. \A a, b \in MockerStep : <<a>> \o <<b>> = <<a, b>> /\ <<a>> \o <<>> = <<a>>
      BY PairOfSteps
    <3>2. CASE e
      BY <3>0, <3>1, <3>2 DEF StartIf
    <3>3. CASE ~e
      BY <3>0, <3>1, <3>3 DEF StartIf
    <3> QED
      BY <3>2, <3>3
  <2>2. /\ BeginMocker(q, id, steps) /\ mockerRows[id].state # "unissued"
        /\ mockerRows' = IF mockerRows[id].state = "deleted" THEN mockerRows
                         ELSE [mockerRows EXCEPT ![id].enable = e, ![id].interval = i]
    BY <1>4 DEF UpdateMocker
  <2> HIDE DEF steps
  <2>3. /\ mockerRows'[id].state # "unissued"
        /\ mockerRows'[id].state = "present" =>
             mockerRows'[id].enable = e /\ mockerRows'[id].interval = i
        /\ \A k \in Mockers \ {id} : mockerRows'[k] = mockerRows[k]
    BY <1>2, <2>2 DEF MockerRow
  <2>4. AsWritten(steps, mockerRows'[id])
    <3>1. CASE mockerRows'[id].state = "present"
      BY <2>1, <2>3, <3>1, BegunAsWritten
    <3>2. CASE mockerRows'[id].state # "present"
      BY <3>2 DEF AsWritten
    <3> QED
      BY <3>1, <3>2
  <2>5. steps \in HandlerSteps(id, i) /\ steps # <<>>
    BY <2>1 DEF HandlerSteps
  <2> QED
    BY <1>1, <2>2, <2>3, <2>4, <2>5, BeginKeepsTimers
<1>5. ASSUME DeleteMocker(q, id) \/ EnableMocker(q, id) \/ DisableMocker(q, id)
      PROVE  TimersInv'
  <2> DEFINE i == mockerRows[id].interval
  <2>1. i \in Intervals
    BY <1>2 DEF MockerRow
  <2>2. PICK steps \in {<<S("stop", id, i), S("delete", id, i)>>,
                        <<S("enable", id, i), S("start", id, i)>>,
                        <<S("disable", id, i), S("stop", id, i)>>} :
          BeginMocker(q, id, steps) /\ UNCHANGED mockerRows /\ mockerRows[id].state # "unissued"
    BY <1>5 DEF DeleteMocker, EnableMocker, DisableMocker
  <2>3. AsWritten(steps, mockerRows[id])
    BY <2>1, <2>2, BegunAsWritten
  <2>4. steps \in HandlerSteps(id, i) /\ steps # <<>>
    BY <2>2 DEF HandlerSteps
  <2> HIDE DEF i
  <2> QED
    BY <1>1, <2>1, <2>2, <2>3, <2>4, BeginKeepsTimers
<1> DEFINE rest == Tail(mockerTodo[q])
\* the remaining steps of a handler whose next step is `call` about id
<1>6. ASSUME NEW call, Does(q, call, id)
      PROVE  \E i \in Intervals :
               /\ mockerTodo[q] \in HandlerSteps(id, i) /\ mockerTodo[q] # <<>>
               /\ Head(mockerTodo[q]) = mockerTodo[q][1] /\ 1 \in DOMAIN mockerTodo[q]
               /\ Head(mockerTodo[q]).call = call /\ Head(mockerTodo[q]).interval = i
               /\ call = "enable" => rest = <<S("start", id, i)>>
               /\ call = "disable" => rest = <<S("stop", id, i)>>
               /\ call = "stop" => rest \in {<<>>, <<S("start", id, i)>>, <<S("delete", id, i)>>}
               /\ call \in {"start", "delete"} => rest = <<>>
               /\ \A k \in DOMAIN rest : \E j \in DOMAIN mockerTodo[q] : rest[k] = mockerTodo[q][j]
  <2>1. PICK i \in Intervals : mockerTodo[q] \in HandlerSteps(id, i)
    BY <1>6, DoesAbout, ZenonT(40) DEF Does
  <2> QED
    BY <1>6, <2>1, ShapeOfSteps DEF Does
<1>7. ASSUME NEW e \in BOOLEAN, WriteMockerEnable(q, id, e)
      PROVE  TimersInv'
  <2> DEFINE call == IF e THEN "enable" ELSE "disable"
  <2>1. /\ Does(q, call, id) /\ UNCHANGED <<runnerVars, dbFailed>>
        /\ mockerRows' = [mockerRows EXCEPT ![id].enable = e]
    BY <1>7 DEF WriteMockerEnable
  <2>2. PICK i \in Intervals :
          /\ Head(mockerTodo[q]).call = call
          /\ call = "enable" => rest = <<S("start", id, i)>>
          /\ call = "disable" => rest = <<S("stop", id, i)>>
          /\ \A k \in DOMAIN rest : \E j \in DOMAIN mockerTodo[q] : rest[k] = mockerTodo[q][j]
    BY <1>6, <2>1
  <2>3. /\ mockerRows'[id].state = mockerRows[id].state /\ mockerRows'[id].enable = e
        /\ mockerRows'[id].interval = mockerRows[id].interval
        /\ \A k \in Mockers \ {id} : mockerRows'[k] = mockerRows[k]
    BY <1>2, <2>1 DEF MockerRow
  <2>4. rest # <<>>
    BY <2>2
  <2>5. ASSUME AsWritten(mockerTodo[q], mockerRows[id])
        PROVE  AsWritten(rest, mockerRows'[id])
    <3>1. CASE e
      <4>1. /\ rest = <<S("start", id, i)>>
            /\ 1 \in DOMAIN rest /\ rest[1].call = "start" /\ rest[1].interval = i
        <5>1. rest = <<S("start", id, i)>>
          BY <2>2, <3>1
        <5>2. \A s : s = <<S("start", id, i)>> =>
                1 \in DOMAIN s /\ s[1].call = "start" /\ s[1].interval = i
          BY StepFields
        <5> HIDE DEF rest
        <5> QED
          BY <5>1, <5>2
      <4>2. mockerRows[id].state = "present" => mockerRows[id].interval = i
        BY <2>2, <2>5, <4>1 DEF AsWritten
      <4>3. CASE mockerRows[id].state = "present"
        BY <2>3, <3>1, <4>1, <4>2, <4>3, BegunAsWritten
      <4>4. CASE mockerRows[id].state # "present"
        BY <2>3, <4>4 DEF AsWritten
      <4> QED
        BY <4>3, <4>4
    <3>2. CASE ~e
      BY <2>2, <2>3, <3>2, BegunAsWritten
    <3> QED
      BY <3>1, <3>2
  <2>6. \A k \in Mockers \ {id} : mockerRunners'[k] = mockerRunners[k] /\ (Matched(k) => Matched(k)')
    BY <2>1, <2>3, OthersStayMatched DEF runnerVars
  <2> HIDE DEF call
  <2> QED
    BY <1>1, <2>1, <2>3, <2>4, <2>5, <2>6, DoesKeepsTimers
<1>8. ASSUME DeleteRow(q, id)
      PROVE  TimersInv'
  <2>1. /\ Does(q, "delete", id) /\ UNCHANGED <<runnerVars, dbFailed>>
        /\ mockerRows' = [mockerRows EXCEPT ![id].state = "deleted"]
    BY <1>8 DEF DeleteRow
  <2>2. mockerRows'[id].state = "deleted" /\ \A k \in Mockers \ {id} : mockerRows'[k] = mockerRows[k]
    BY <1>2, <2>1 DEF MockerRow
  <2>3. AsWritten(rest, mockerRows'[id]) /\ Matched(id)'
    BY <2>2 DEF AsWritten, Matched, Enabled
  <2>4. \A k \in Mockers \ {id} : mockerRunners'[k] = mockerRunners[k] /\ (Matched(k) => Matched(k)')
    BY <2>1, <2>2, OthersStayMatched DEF runnerVars
  <2> QED
    BY <1>1, <2>1, <2>2, <2>3, <2>4, DoesKeepsTimers
<1>9. ASSUME StartTimer(q, id)
      PROVE  TimersInv'
  <2>1. Does(q, "start", id) /\ UNCHANGED <<mockerRows, dbFailed>>
    BY <1>9 DEF StartTimer
  <2>2. PICK i \in Intervals :
          /\ 1 \in DOMAIN mockerTodo[q] /\ mockerTodo[q][1].call = "start"
          /\ mockerTodo[q][1].interval = i /\ Head(mockerTodo[q]) = mockerTodo[q][1]
          /\ rest = <<>>
    BY <1>6, <2>1
  <2>3. startMockerRunner(id, i)
    BY <1>9, <2>2 DEF StartTimer
  <2>4. \A k \in Mockers \ {id} : mockerRunners'[k] = mockerRunners[k] /\ (Matched(k) => Matched(k)')
    BY <1>1, <2>1, <2>3, StartMatches, OthersStayMatched
  <2>5. ASSUME AsWritten(mockerTodo[q], mockerRows[id])
        PROVE  AsWritten(rest, mockerRows'[id]) /\ Matched(id)'
    <3>1. mockerRows[id].state = "present" =>
            mockerRows[id].enable /\ mockerRows[id].interval = i
      BY <2>2, <2>5 DEF AsWritten
    <3> QED
      BY <1>1, <2>1, <2>2, <2>3, <3>1, StartedIsMatched, BegunAsWritten
  <2> QED
    BY <1>1, <2>1, <2>4, <2>5, DoesKeepsTimers
<1>10. ASSUME StopTimer(q, id)
       PROVE  TimersInv'
  <2>1. Does(q, "stop", id) /\ stopMockerRunner(id) /\ UNCHANGED <<mockerRows, dbFailed>>
    BY <1>10 DEF StopTimer
  <2>2. PICK i \in Intervals :
          /\ mockerTodo[q] # <<>> /\ Head(mockerTodo[q]).call = "stop"
          /\ rest \in {<<>>, <<S("start", id, i)>>, <<S("delete", id, i)>>}
          /\ \A k \in DOMAIN rest : \E j \in DOMAIN mockerTodo[q] : rest[k] = mockerTodo[q][j]
    BY <1>6, <2>1
  <2>3. \A k \in Mockers \ {id} : mockerRunners'[k] = mockerRunners[k] /\ (Matched(k) => Matched(k)')
    BY <2>1, StopMatches, OthersStayMatched
  <2>4. mockerRunners'[id] = NoTimer
    BY <2>1, StopMatches
  <2>5. ASSUME AsWritten(mockerTodo[q], mockerRows[id])
        PROVE  /\ AsWritten(rest, mockerRows'[id])
               /\ rest = <<>> => Matched(id)'
    <3>1. rest # <<>> => Head(rest).call # "stop"
      <4>1. \A d \in {"start", "delete"} : Head(<<S(d, id, i)>>).call = d
        BY StepFields
      <4> QED
        BY <2>2, <4>1
    <3>2. AsWritten(rest, mockerRows[id])
      BY <2>2, <2>5, <3>1 DEF AsWritten
    <3>3. rest = <<>> /\ mockerRows[id].state = "present" => ~mockerRows[id].enable
      BY <2>2, <2>5 DEF AsWritten
    <3>4. rest = <<>> => Matched(id)'
      BY <2>1, <2>4, <3>3 DEF Matched, Enabled
    <3> QED
      BY <2>1, <3>2, <3>4
  <2> QED
    BY <1>1, <2>1, <2>3, <2>5, DoesKeepsTimers
<1>11. ASSUME StatementFails(q, id)
       PROVE  TimersInv'
  <2>1. /\ mockerTodo[q] # <<>> /\ mockerTodo' = [mockerTodo EXCEPT ![q] = <<>>]
        /\ Head(mockerTodo[q]).id = id
        /\ dbFailed' = dbFailed \cup {id}
        /\ UNCHANGED <<mockerRows, runnerVars, toLoad, clashed>>
    BY <1>11 DEF StatementFails
  <2>2. /\ mockerTodo'[q] = <<>> /\ \A p \in MockerRequests \ {q} : mockerTodo'[p] = mockerTodo[p]
    BY <2>1 DEF HandlersTyped
  <2>3. \A k \in Mockers \ {id} : q \notin About(k)
    <3>1. PICK k \in Mockers, i \in Intervals : mockerTodo[q] \in HandlerSteps(k, i)
      BY <2>1 DEF HandlersAreShort
    <3> QED
      BY <2>1, <3>1, ShapeOfSteps DEF About
  <2>4. /\ \A k \in Mockers : About(k)' = About(k) \ {q}
        /\ \A k \in Mockers \ {id} : About(k)' = About(k)
    BY <2>2, <2>3 DEF About
  <2>5. HandlersAreShort' /\ OneRequestUnlessClashed' /\ LoadedFirst' /\ NewMockersAreUnknown'
    BY <2>1, <2>2, <2>4 DEF HandlersAreShort, OneRequestUnlessClashed, LoadedFirst, Enabled,
       NewMockersAreUnknown, runnerVars
  <2>6. StepsAreAsWritten'
    BY <2>1, <2>2, <2>4 DEF StepsAreAsWritten, About, AsWritten
  <2>7. TimersMatchRows'
    BY <2>1, <2>4 DEF TimersMatchRows, runnerVars, Enabled, Alive
  <2> QED
    BY <1>1, <2>5, <2>6, <2>7
<1> QED
  BY <1>3, <1>4, <1>5, <1>7, <1>8, <1>9, <1>10, <1>11 DEF MockerRequest

LEMMA NextTimers ==
  ASSUME TimersInv, [MockersNext]_mockerVars
  PROVE  TimersInv'
<1> USE DEF TimersInv, HandlersInv
<1>1. RunnersInv' /\ HandlersTyped'
  BY NextMockers
<1>2. ASSUME NEW id \in Mockers, LoadMocker(id)
      PROVE  TimersInv'
  <2>1. /\ id \in toLoad /\ toLoad' = toLoad \ {id}
        /\ UNCHANGED <<mockerRows, mockerTodo, clashed, dbFailed>>
        /\ startMockerRunner(id, mockerRows[id].interval)
    BY <1>2 DEF LoadMocker
  <2>2. mockerRows[id].interval \in Intervals /\ Enabled(id)
    BY <2>1, MockerRowIsTyped DEF LoadedFirst
  <2>3. \A k \in Mockers \ {id} : mockerRunners'[k] = mockerRunners[k] /\ (Matched(k) => Matched(k)')
    BY <1>1, <2>1, <2>2, StartMatches, OthersStayMatched
  <2>4. Matched(id)'
    BY <1>1, <2>1, <2>2, StartedIsMatched DEF Enabled
  <2>5. \A k \in Mockers : About(k)' = About(k)
    BY <2>1 DEF About
  <2>6. HandlersAreShort' /\ OneRequestUnlessClashed' /\ LoadedFirst' /\ StepsAreAsWritten'
    BY <2>1, <2>5 DEF HandlersAreShort, OneRequestUnlessClashed, LoadedFirst, Enabled,
       StepsAreAsWritten, AsWritten
  <2>7. NewMockersAreUnknown'
    BY <2>1, <2>2, <2>3, <2>5 DEF NewMockersAreUnknown, Enabled
  <2>8. TimersMatchRows'
    <3> SUFFICES ASSUME NEW k \in Mockers \ (clashed \cup dbFailed \cup toLoad'), About(k)' = {}
                 PROVE  Matched(k)'
      BY <2>1 DEF TimersMatchRows, Matched
    <3> QED
      BY <2>1, <2>3, <2>4, <2>5, MatchedIsMatch
  <2> QED
    BY <1>1, <2>6, <2>7, <2>8
<1>3. ASSUME NEW t \in Timers, TimerStep(t)
      PROVE  TimersInv'
  <2>1. PICK from \in {"select", "publish"}, to \in {"select", "publish", "returned"} :
          Moves(t, from, to)
    BY <1>3 DEF TimerStep, TimerStops, TimerTicks, TimerReadFails, publishMocker
  <2>2. /\ UNCHANGED <<mockerRows, mockerRunners, stopped, toLoad, mockerTodo, clashed>>
        /\ timers' = [timers EXCEPT ![t].place = to]
    BY <2>1 DEF Moves, handlerVars
  <2>3. /\ \A s \in Timers \ {t} : timers'[s] = timers[s]
        /\ timers'[t].place = to /\ timers'[t].interval = timers[t].interval
    BY <2>2 DEF RunnersInv, RunnersTyped, Timer
  <2>4. \A k \in Mockers : About(k)' = About(k)
    BY <2>2 DEF About
  <2>5. /\ HandlersAreShort' /\ OneRequestUnlessClashed' /\ LoadedFirst' /\ StepsAreAsWritten'
        /\ NewMockersAreUnknown'
    BY <2>2, <2>4 DEF HandlersAreShort, OneRequestUnlessClashed, LoadedFirst, Enabled,
       StepsAreAsWritten, AsWritten, NewMockersAreUnknown
  <2>6. ASSUME NEW k \in Mockers \ dbFailed', Matched(k)
        PROVE  Matched(k)'
    <3>1. CASE mockerRunners[k] = t /\ Enabled(k)
      <4>1. timers[t].of = k
        BY <3>1, MockersAssumption DEF RunnersInv, EntriesAreOfTheirIds
      <4>2. t \notin stopped
        BY <3>1 DEF RunnersInv, OneTimerPerMocker
      <4>3. to \in {"select", "publish"}
        BY <1>3, <2>2, <2>3, <2>6, <3>1, <4>1, <4>2
           DEF TimerStep, TimerStops, TimerTicks, TimerReadFails, publishMocker, Moves,
               RunnersInv, RunnersTyped, Timer
      <4> QED
        BY <2>2, <2>3, <2>6, <3>1, <4>2, <4>3 DEF Matched, Enabled, Alive
    <3>2. CASE mockerRunners[k] # t \/ ~Enabled(k)
      BY <2>2, <2>3, <2>6, <3>2 DEF Matched, Enabled, Alive
    <3> QED
      BY <3>1, <3>2
  <2>7. dbFailed \subseteq dbFailed'
    BY <1>3 DEF TimerStep, TimerStops, TimerTicks, TimerReadFails, publishMocker
  <2>8. TimersMatchRows'
    <3> SUFFICES ASSUME NEW k \in Mockers \ (clashed \cup dbFailed' \cup toLoad), About(k)' = {}
                 PROVE  Matched(k)'
      BY <2>2 DEF TimersMatchRows, Matched
    <3> QED
      BY <2>4, <2>6, <2>7, MatchedIsMatch
  <2> QED
    BY <1>1, <2>5, <2>8
<1>4. CASE UNCHANGED mockerVars
  <2>1. UNCHANGED <<mockerRows, mockerRunners, timers, stopped, toLoad, mockerTodo, clashed, dbFailed>>
    BY <1>4 DEF mockerVars, runnerVars, handlerVars
  <2>2. \A k \in Mockers : About(k)' = About(k)
    BY <2>1 DEF About
  <2> QED
    BY <1>1, <2>1, <2>2 DEF HandlersAreShort, OneRequestUnlessClashed, LoadedFirst, Enabled,
       StepsAreAsWritten, AsWritten, NewMockersAreUnknown, TimersMatchRows, Alive
<1> QED
  BY <1>2, <1>3, <1>4, RequestKeepsTimers DEF MockersNext

\* Once its requests are done, and unless two clashed or a statement failed, an enabled
\* mocker has a live timer at the interval of its row and a disabled one has none.
THEOREM RowsHaveTheirTimers == MockersSpec => []TimersMatchRows
<1>1. TimersInv => TimersMatchRows
  BY DEF TimersInv
<1> QED
  BY <1>1, InitTimers, NextTimers, PTL DEF MockersSpec
=============================================================================
