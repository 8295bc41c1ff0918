-------------------------- MODULE ListenersProofs --------------------------
(***************************************************************************)
(* What is promised of the messages and connections of the listeners, for  *)
(* any number of sessions, messages and clients: the sessions of serial    *)
(* lines, UDP, scripts and plugins hand over what they read in order; and  *)
(* of a TCP listener that has been stopped one connection stays open at    *)
(* most.                                                                   *)
(***************************************************************************)
EXTENDS Listeners, TcpListener, SequenceTheorems, FiniteSetTheorems, TLAPS

Increasing(q) == \A i, j \in DOMAIN q : i < j => q[i] < q[j]

Elements(q) == {q[i] : i \in DOMAIN q}

Below(S, T) == \A x \in S, y \in T : x < y

Held(s) == IF data[s] = NoData THEN {} ELSE {data[s]}

\* What a session has read is in order wherever it is, and older than what waits.
OrderOf(s) ==
  /\ Increasing(handed[s]) /\ Increasing(inbox[s])
  /\ Below(Elements(handed[s]), Elements(inbox[s]))
  /\ Below(Elements(handed[s]) \cup Elements(inbox[s]), Held(s))
  /\ Below(Elements(handed[s]) \cup Elements(inbox[s]) \cup Held(s), Elements(waiting))

InOrder == Increasing(waiting) /\ \A s \in Sessions : OrderOf(s)

NothingFromTheFuture ==
  /\ Elements(waiting) \subseteq 1 .. arrivals
  /\ \A s \in Sessions : Elements(handed[s]) \cup Elements(inbox[s]) \cup Held(s) \subseteq 1 .. arrivals

\* Data is held while it is pushed, and the manager reads a serial line itself.
HeldToPush ==
  /\ \A s \in Sessions : /\ readLoop[s] = "push" <=> data[s] # NoData
                         /\ session[s] = "unused" => readLoop[s] = "none"
  /\ origin = "serial" => \A s \in Sessions : /\ readLoop[s] \in {"none", "returned"}
                                              /\ inbox[s] = <<>>

\* A reader of a plugin looks at its context before it reads again.
StaleOnce ==
  \A s \in Sessions :
    /\ stale[s] \in {0, 1}
    /\ stale[s] = 1 => origin = "plugin" /\ session[s] = "closed" /\ readLoop[s] # "read"

ListenersInv == ListenersTypeOK /\ InOrder /\ NothingFromTheFuture /\ HeldToPush /\ StaleOnce

LEMMA OfEmpty == Elements(<<>>) = {} /\ Increasing(<<>>)
  BY DEF Elements, Increasing

LEMMA OfAppend ==
  ASSUME NEW q \in Seq(Nat), NEW v \in Nat
  PROVE  /\ Elements(Append(q, v)) = Elements(q) \cup {v}
         /\ Increasing(q) /\ Below(Elements(q), {v}) => Increasing(Append(q, v))
<1>1. /\ Len(q) \in Nat /\ DOMAIN q = 1 .. Len(q)
      /\ DOMAIN Append(q, v) = 1 .. Len(q) + 1
      /\ \A i \in 1 .. Len(q) : Append(q, v)[i] = q[i]
      /\ Append(q, v)[Len(q) + 1] = v
  OBVIOUS
<1> DEFINE a == Append(q, v)
<1> HIDE DEF a
<1>2. \A i \in DOMAIN a : i \in DOMAIN q \/ i = Len(q) + 1
  BY <1>1 DEF a
<1>3. Elements(a) = Elements(q) \cup {v}
  <2>1. \A i \in DOMAIN q : i \in DOMAIN a /\ a[i] = q[i]
    BY <1>1 DEF a
  <2>2. Len(q) + 1 \in DOMAIN a /\ a[Len(q) + 1] = v
    BY <1>1 DEF a
  <2> QED
    BY <1>2, <2>1, <2>2 DEF Elements
<1>4. ASSUME Increasing(q), Below(Elements(q), {v}), NEW i \in DOMAIN a, NEW j \in DOMAIN a, i < j
      PROVE  a[i] < a[j]
  <2>1. i \in DOMAIN q /\ a[i] = q[i]
    BY <1>1, <1>4 DEF a
  <2>2. CASE j \in DOMAIN q
    BY <1>1, <1>4, <2>1, <2>2 DEF a, Increasing
  <2>3. CASE j \notin DOMAIN q
    BY <1>1, <1>2, <1>4, <2>1, <2>3 DEF a, Below, Elements
  <2> QED
    BY <2>2, <2>3
<1> QED
  BY <1>3, <1>4 DEF a, Increasing

LEMMA OfTail ==
  ASSUME NEW q \in Seq(Nat), q # <<>>
  PROVE  /\ Head(q) \in Elements(q) /\ Head(q) \in Nat
         /\ Tail(q) \in Seq(Nat) /\ Elements(Tail(q)) \subseteq Elements(q)
         /\ Increasing(q) => Increasing(Tail(q)) /\ Below({Head(q)}, Elements(Tail(q)))
<1>1. /\ Len(q) \in Nat \ {0} /\ DOMAIN q = 1 .. Len(q) /\ Head(q) = q[1] /\ q[1] \in Nat
      /\ Tail(q) \in Seq(Nat) /\ DOMAIN Tail(q) = 1 .. Len(q) - 1
      /\ \A i \in 1 .. Len(q) - 1 : Tail(q)[i] = q[i + 1]
  OBVIOUS
<1> DEFINE t == Tail(q)
<1> HIDE DEF t
<1>2. \A i \in DOMAIN t : i + 1 \in DOMAIN q /\ t[i] = q[i + 1] /\ 1 < i + 1 /\ i \in Nat
  BY <1>1 DEF t
<1>3. 1 \in DOMAIN q
  BY <1>1
<1>4. Elements(t) \subseteq Elements(q) /\ Head(q) \in Elements(q)
  BY <1>1, <1>2, <1>3 DEF Elements
<1>5. Increasing(q) => Increasing(t)
  BY <1>1, <1>2 DEF Increasing
<1>6. Increasing(q) => Below({Head(q)}, Elements(t))
  BY <1>1, <1>2, <1>3 DEF Increasing, Below, Elements
<1> QED
  BY <1>1, <1>4, <1>5, <1>6 DEF t

LEMMA OfConcat ==
  ASSUME NEW a \in Seq(Nat), NEW b \in Seq(Nat)
  PROVE  /\ a \o b \in Seq(Nat) /\ Elements(a \o b) = Elements(a) \cup Elements(b)
         /\ Increasing(a) /\ Increasing(b) /\ Below(Elements(a), Elements(b)) => Increasing(a \o b)
<1>1. /\ Len(a) \in Nat /\ DOMAIN a = 1 .. Len(a) /\ Len(b) \in Nat /\ DOMAIN b = 1 .. Len(b)
      /\ a \o b \in Seq(Nat) /\ DOMAIN (a \o b) = 1 .. Len(a) + Len(b)
      /\ \A i \in 1 .. Len(a) : (a \o b)[i] = a[i]
      /\ \A i \in Len(a) + 1 .. Len(a) + Len(b) : (a \o b)[i] = b[i - Len(a)]
  OBVIOUS
<1> DEFINE c == a \o b
           n == Len(a)
<1> HIDE DEF c, n
<1>2. \A i \in DOMAIN c : i \in Nat /\ \/ i \in DOMAIN a /\ c[i] = a[i]
                                       \/ i > n /\ i - n \in DOMAIN b /\ c[i] = b[i - n]
  BY <1>1 DEF c, n
<1>3. \A i \in DOMAIN a : i \in DOMAIN c /\ c[i] = a[i] /\ i <= n /\ i \in Nat
  BY <1>1 DEF c, n
<1>4. \A i \in DOMAIN b : i + n \in DOMAIN c /\ c[i + n] = b[i] /\ i \in Nat
  <2> SUFFICES ASSUME NEW i \in DOMAIN b
               PROVE  i + n \in DOMAIN c /\ c[i + n] = b[i] /\ i \in Nat
    OBVIOUS
  <2>1. i + n \in Len(a) + 1 .. Len(a) + Len(b) /\ (i + n) - Len(a) = i /\ i + n \in DOMAIN c
    BY <1>1 DEF c, n
  <2> QED
    BY <1>1, <2>1 DEF c
<1>5. Elements(c) = Elements(a) \cup Elements(b)
  <2>1. Elements(c) \subseteq Elements(a) \cup Elements(b)
    BY <1>2 DEF Elements
  <2>2. Elements(a) \subseteq Elements(c) /\ Elements(b) \subseteq Elements(c)
    BY <1>3, <1>4 DEF Elements
  <2> QED
    BY <2>1, <2>2
<1>6. ASSUME Increasing(a), Increasing(b), Below(Elements(a), Elements(b)),
             NEW i \in DOMAIN c, NEW j \in DOMAIN c, i < j
      PROVE  c[i] < c[j]
  <2>1. CASE j \in DOMAIN a /\ c[j] = a[j]
    <3>1. i \in DOMAIN a /\ c[i] = a[i]
      BY <1>1, <1>2, <1>3, <1>6, <2>1 DEF n
    <3> QED
      BY <1>6, <2>1, <3>1 DEF Increasing
  <2>2. CASE j > n /\ j - n \in DOMAIN b /\ c[j] = b[j - n]
    <3>1. CASE i \in DOMAIN a /\ c[i] = a[i]
      BY <1>6, <2>2, <3>1 DEF Below, Elements
    <3>2. CASE i > n /\ i - n \in DOMAIN b /\ c[i] = b[i - n]
      <4>1. i - n < j - n
        BY <1>1, <1>2, <1>6 DEF n
      <4> QED
        BY <1>6, <2>2, <3>2, <4>1 DEF Increasing
    <3> QED
      BY <1>2, <3>1, <3>2
  <2> QED
    BY <1>2, <2>1, <2>2
<1> QED
  BY <1>1, <1>5, <1>6 DEF c, Increasing
LEMMA OfTypes ==
  ASSUME ListenersTypeOK
  PROVE  /\ waiting \in Seq(Nat) /\ arrivals \in Nat /\ Elements(waiting) \subseteq Nat
         /\ \A s \in Sessions : /\ handed[s] \in Seq(Nat) /\ inbox[s] \in Seq(Nat)
                                /\ Elements(handed[s]) \subseteq Nat
                                /\ Elements(inbox[s]) \subseteq Nat /\ Held(s) \subseteq Nat
<1> USE ListenersAssumption DEF ListenersTypeOK
<1>1. Seq(1 .. MaxArrivals) \subseteq Seq(Nat)
  OBVIOUS
<1>2. \A q \in Seq(Nat) : Elements(q) \subseteq Nat
  BY DEF Elements
<1> QED
  BY <1>1, <1>2 DEF Held

LEMMA InitListeners == ListenersInit => ListenersInv
<1> SUFFICES ASSUME ListenersInit PROVE ListenersInv
  OBVIOUS
<1> USE ListenersAssumption DEF ListenersInit
<1>1. <<>> \in Seq(1 .. MaxArrivals)
  OBVIOUS
<1>2. ListenersTypeOK
  BY <1>1 DEF ListenersTypeOK
<1>3. \A s \in Sessions : Held(s) = {} /\ handed[s] = <<>> /\ inbox[s] = <<>>
  BY DEF Held
<1>4. InOrder
  BY <1>3, OfEmpty DEF InOrder, OrderOf, Below
<1>5. NothingFromTheFuture
  BY <1>3, OfEmpty DEF NothingFromTheFuture
<1>6. HeldToPush /\ StaleOnce
  BY DEF HeldToPush, StaleOnce
<1> QED
  BY <1>2, <1>4, <1>5, <1>6 DEF ListenersInv

\* A step that moves nothing, or loses what waits, disturbs no order;
LEMMA NothingMoved ==
  ASSUME InOrder, NothingFromTheFuture, UNCHANGED <<data, inbox, handed, arrivals>>,
         waiting' = waiting \/ waiting' = <<>>
  PROVE  InOrder' /\ NothingFromTheFuture'
<1>1. Increasing(waiting') /\ Elements(waiting') \subseteq Elements(waiting)
  BY OfEmpty DEF InOrder
<1>2. \A s \in Sessions : Held(s)' = Held(s)
  BY DEF Held
<1>3. \A s \in Sessions : OrderOf(s)'
  BY <1>1, <1>2 DEF InOrder, OrderOf, Below
<1> QED
  BY <1>1, <1>2, <1>3 DEF InOrder, NothingFromTheFuture

\* and one that moves messages of s disturbs no other session.
LEMMA OnlyMoved ==
  ASSUME InOrder, NothingFromTheFuture, arrivals' = arrivals, NEW s \in Sessions,
         \A r \in Sessions \ {s} : /\ data'[r] = data[r] /\ inbox'[r] = inbox[r]
                                   /\ handed'[r] = handed[r],
         Increasing(waiting'), Elements(waiting') \subseteq Elements(waiting),
         OrderOf(s)',
         Elements(handed'[s]) \cup Elements(inbox'[s]) \cup Held(s)'
           \subseteq Elements(handed[s]) \cup Elements(inbox[s]) \cup Held(s) \cup Elements(waiting)
  PROVE  InOrder' /\ NothingFromTheFuture'
<1>1. \A r \in Sessions \ {s} : Held(r)' = Held(r)
  BY DEF Held
<1>2. \A r \in Sessions \ {s} : OrderOf(r)'
  BY <1>1 DEF InOrder, OrderOf, Below
<1>3. InOrder'
  BY <1>2 DEF InOrder
<1>4. Elements(waiting') \subseteq 1 .. arrivals'
  BY DEF NothingFromTheFuture
<1>5. \A r \in Sessions : Elements(handed'[r]) \cup Elements(inbox'[r]) \cup Held(r)' \subseteq 1 .. arrivals'
  <2> TAKE r \in Sessions
  <2>1. CASE r = s
    BY <2>1 DEF NothingFromTheFuture
  <2>2. CASE r # s
    BY <1>1, <2>2 DEF NothingFromTheFuture
  <2> QED
    BY <2>1, <2>2
<1> QED
  BY <1>3, <1>4, <1>5 DEF NothingFromTheFuture

LEMMA NextListeners ==
  ASSUME ListenersInv, [ListenersNext]_listenerVars
  PROVE  ListenersInv'
<1> USE ListenersAssumption DEF ListenersInv
<1>0. /\ waiting \in Seq(Nat) /\ arrivals \in Nat /\ Elements(waiting) \subseteq Nat
      /\ \A s \in Sessions : /\ handed[s] \in Seq(Nat) /\ inbox[s] \in Seq(Nat)
                             /\ Elements(handed[s]) \subseteq Nat
                             /\ Elements(inbox[s]) \subseteq Nat /\ Held(s) \subseteq Nat
  BY OfTypes
<1>a. waiting # <<>> =>
        /\ Head(waiting) \in 1 .. MaxArrivals /\ Tail(waiting) \in Seq(1 .. MaxArrivals)
        /\ Head(waiting) \in Elements(waiting)
        /\ Increasing(Tail(waiting)) /\ Elements(Tail(waiting)) \subseteq Elements(waiting)
        /\ Below({Head(waiting)}, Elements(Tail(waiting)))
  <2>1. waiting # <<>> => Head(waiting) \in 1 .. MaxArrivals /\ Tail(waiting) \in Seq(1 .. MaxArrivals)
    BY DEF ListenersTypeOK
  <2> QED
    BY <1>0, <2>1, OfTail DEF InOrder
<1>1. ASSUME Arrive
      PROVE  ListenersInv'
  <2> USE <1>1 DEF Arrive
  <2>1. ListenersTypeOK'
    <3>1. arrivals + 1 \in 1 .. MaxArrivals
      BY DEF ListenersTypeOK
    <3>2. waiting' \in Seq(1 .. MaxArrivals)
      BY <3>1 DEF ListenersTypeOK
    <3> QED
      BY <3>1, <3>2 DEF ListenersTypeOK
  <2>0. arrivals + 1 \in Nat
    BY <1>0
  <2>2. /\ Elements(waiting') = Elements(waiting) \cup {arrivals + 1}
        /\ Increasing(waiting) /\ Below(Elements(waiting), {arrivals + 1}) => Increasing(waiting')
    BY <1>0, <2>0, OfAppend
  <2>3. /\ Below(Elements(waiting), {arrivals + 1})
        /\ \A s \in Sessions : Below(Elements(handed[s]) \cup Elements(inbox[s]) \cup Held(s), {arrivals + 1})
    <3>1. \A x \in 1 .. arrivals : x < arrivals + 1
      BY <1>0
    <3> QED
      BY <3>1 DEF Below, NothingFromTheFuture
  <2>4. Increasing(waiting')
    BY <2>2, <2>3 DEF InOrder
  <2>5. \A s \in Sessions : Held(s)' = Held(s)
    BY DEF Held
  <2>6. \A s \in Sessions : OrderOf(s)'
    BY <2>2, <2>3, <2>5 DEF InOrder, OrderOf, Below
  <2>7. NothingFromTheFuture'
    <3>1. 1 .. arrivals \subseteq 1 .. arrivals' /\ arrivals + 1 \in 1 .. arrivals'
      BY <1>0
    <3>2. Elements(waiting') \subseteq 1 .. arrivals'
      BY <2>2, <3>1 DEF NothingFromTheFuture
    <3>3. \A s \in Sessions : Elements(handed'[s]) \cup Elements(inbox'[s]) \cup Held(s)' \subseteq 1 .. arrivals'
      BY <2>5, <3>1 DEF NothingFromTheFuture
    <3> QED
      BY <3>2, <3>3 DEF NothingFromTheFuture
  <2>8. HeldToPush' /\ StaleOnce'
    BY DEF HeldToPush, StaleOnce
  <2> QED
    BY <2>1, <2>4, <2>6, <2>7, <2>8 DEF InOrder
<1>2. ASSUME NEW s \in Sessions, StartListener(s)
      PROVE  ListenersInv'
  <2> USE <1>2 DEF StartListener
  <2>1. ListenersTypeOK'
    BY DEF ListenersTypeOK
  <2>2. InOrder' /\ NothingFromTheFuture'
    BY NothingMoved
  <2>3. data[s] = NoData
    BY DEF HeldToPush
  <2>4. HeldToPush'
    BY <2>3 DEF HeldToPush, ListenersTypeOK
  <2>5. StaleOnce'
    BY DEF StaleOnce, ListenersTypeOK
  <2> QED
    BY <2>1, <2>2, <2>4, <2>5
<1>3. ASSUME NEW s \in Sessions, CloseListener(s)
      PROVE  ListenersInv'
  <2> USE <1>3 DEF CloseListener
  <2>1. ListenersTypeOK'
    <3>1. waiting' \in Seq(1 .. MaxArrivals)
      <4>1. <<>> \in Seq(1 .. MaxArrivals) /\ waiting \in Seq(1 .. MaxArrivals)
        BY DEF ListenersTypeOK
      <4> QED
        BY <4>1, Zenon
    <3> QED
      BY <3>1 DEF ListenersTypeOK
  <2>2. InOrder' /\ NothingFromTheFuture'
    BY NothingMoved
  <2>3. HeldToPush' /\ StaleOnce'
    BY DEF HeldToPush, StaleOnce, ListenersTypeOK
  <2> QED
    BY <2>1, <2>2, <2>3
<1>4. ASSUME NEW s \in Sessions, ReadFromUDP(s)
      PROVE  ListenersInv'
  <2> USE <1>4 DEF ReadFromUDP, Taken, CanRead
  <2> DEFINE v == Head(waiting)
  <2>1. ListenersTypeOK'
    <3>1. Append(inbox[s], v) \in Seq(1 .. MaxArrivals)
      BY <1>a DEF ListenersTypeOK
    <3> QED
      BY <1>a, <3>1 DEF ListenersTypeOK
  <2>2. /\ handed'[s] = handed[s] /\ Held(s)' = Held(s) /\ Held(s) = {}
        /\ inbox'[s] = inbox[s] \/ inbox'[s] = Append(inbox[s], v)
    BY DEF Held, HeldToPush, ListenersTypeOK
  <2>3. /\ Elements(Append(inbox[s], v)) = Elements(inbox[s]) \cup {v}
        /\ Below(Elements(inbox[s]), {v}) => Increasing(Append(inbox[s], v))
    BY <1>0, <1>a, OfAppend DEF InOrder, OrderOf
  <2>4. Below(Elements(handed[s]), {v}) /\ Below(Elements(inbox[s]), {v})
    BY <1>a DEF InOrder, OrderOf, Below
  <2>5. OrderOf(s)'
    <3>1. OrderOf(s) /\ Elements(waiting') \subseteq Elements(waiting) /\ Below({v}, Elements(waiting'))
      BY <1>a DEF InOrder
    <3>2. CASE inbox'[s] = inbox[s]
      BY <2>2, <3>1, <3>2 DEF OrderOf, Below
    <3>3. CASE inbox'[s] = Append(inbox[s], v)
      <4>1. Increasing(inbox'[s]) /\ Elements(inbox'[s]) = Elements(inbox[s]) \cup {v}
        BY <2>3, <2>4, <3>3
      <4> QED
        BY <2>2, <2>4, <3>1, <4>1 DEF OrderOf, Below
    <3> QED
      BY <2>2, <3>2, <3>3
  <2>6. InOrder' /\ NothingFromTheFuture'
    <3>1. \A r \in Sessions \ {s} : data'[r] = data[r] /\ inbox'[r] = inbox[r] /\ handed'[r] = handed[r]
      BY DEF ListenersTypeOK
    <3>2. Elements(handed'[s]) \cup Elements(inbox'[s]) \cup Held(s)'
            \subseteq Elements(handed[s]) \cup Elements(inbox[s]) \cup Held(s) \cup Elements(waiting)
      BY <1>a, <2>2, <2>3
    <3> QED
      BY <1>a, <2>5, <3>1, <3>2, OnlyMoved
  <2>7. HeldToPush' /\ StaleOnce'
    BY DEF HeldToPush, StaleOnce, ListenersTypeOK
  <2> QED
    BY <2>1, <2>6, <2>7
<1>5. ASSUME NEW s \in Sessions, UDPReturns(s) \/ CheckContext(s) \/ ReadNothing(s)
      PROVE  ListenersInv'
  <2> USE <1>5 DEF UDPReturns, CheckContext, ReadNothing
  <2>1. ListenersTypeOK'
    BY DEF ListenersTypeOK
  <2>2. InOrder' /\ NothingFromTheFuture'
    BY NothingMoved
  <2>3. HeldToPush' /\ StaleOnce'
    BY DEF HeldToPush, StaleOnce, ListenersTypeOK
  <2> QED
    BY <2>1, <2>2, <2>3
<1>6. ASSUME NEW s \in Sessions, ReadUser(s)
      PROVE  ListenersInv'
  <2> USE <1>6 DEF ReadUser, Taken, CanRead
  <2> DEFINE v == Head(waiting)
  <2>1. ListenersTypeOK'
    BY <1>a, SMTT(40) DEF ListenersTypeOK
  <2>2. /\ handed'[s] = handed[s] /\ inbox'[s] = inbox[s]
        /\ Held(s)' = {v} /\ Held(s) = {}
    BY <1>a DEF Held, HeldToPush, ListenersTypeOK
  <2>3. Below(Elements(handed[s]) \cup Elements(inbox[s]), {v})
    BY <1>a DEF InOrder, OrderOf, Below
  <2>4. OrderOf(s)'
    BY <1>a, <2>2, <2>3 DEF InOrder, OrderOf, Below
  <2>5. InOrder' /\ NothingFromTheFuture'
    <3>1. \A r \in Sessions \ {s} : data'[r] = data[r] /\ inbox'[r] = inbox[r] /\ handed'[r] = handed[r]
      BY DEF ListenersTypeOK
    <3>2. Elements(handed'[s]) \cup Elements(inbox'[s]) \cup Held(s)'
            \subseteq Elements(handed[s]) \cup Elements(inbox[s]) \cup Held(s) \cup Elements(waiting)
      BY <1>a, <2>2
    <3> QED
      BY <1>a, <2>4, <3>1, <3>2, OnlyMoved
  <2>6. HeldToPush'
    <3>1. v # NoData
      BY <1>a
    <3> QED
      BY <3>1 DEF HeldToPush, ListenersTypeOK
  <2>7. StaleOnce'
    BY DEF StaleOnce, ListenersTypeOK
  <2> QED
    BY <2>1, <2>5, <2>6, <2>7
<1>7. ASSUME NEW s \in Sessions, PushData(s)
      PROVE  ListenersInv'
  <2> USE <1>7 DEF PushData
  <2> DEFINE v == data[s]
  <2>0. v \in 1 .. MaxArrivals /\ Held(s) = {v}
    BY DEF HeldToPush, ListenersTypeOK, Held
  <2>1. ListenersTypeOK'
    <3>1. Append(inbox[s], v) \in Seq(1 .. MaxArrivals)
      BY <2>0 DEF ListenersTypeOK
    <3> QED
      BY <3>1 DEF ListenersTypeOK
  <2>2. handed'[s] = handed[s] /\ Held(s)' = {} /\ inbox'[s] = Append(inbox[s], v)
    BY DEF Held, ListenersTypeOK
  <2>3. /\ Elements(Append(inbox[s], v)) = Elements(inbox[s]) \cup {v}
        /\ Below(Elements(inbox[s]), {v}) => Increasing(Append(inbox[s], v))
    BY <1>0, <2>0, OfAppend DEF InOrder, OrderOf
  <2>4. Below(Elements(handed[s]), {v}) /\ Below(Elements(inbox[s]), {v})
    BY <2>0 DEF InOrder, OrderOf, Below
  <2>5. OrderOf(s)'
    BY <2>0, <2>2, <2>3, <2>4 DEF InOrder, OrderOf, Below
  <2>6. InOrder' /\ NothingFromTheFuture'
    <3>1. \A r \in Sessions \ {s} : data'[r] = data[r] /\ inbox'[r] = inbox[r] /\ handed'[r] = handed[r]
      BY DEF ListenersTypeOK
    <3>2. Elements(handed'[s]) \cup Elements(inbox'[s]) \cup Held(s)'
            \subseteq Elements(handed[s]) \cup Elements(inbox[s]) \cup Held(s) \cup Elements(waiting)
      BY <2>0, <2>2, <2>3
    <3>3. Increasing(waiting') /\ Elements(waiting') \subseteq Elements(waiting)
      BY DEF InOrder
    <3> QED
      BY <2>5, <3>1, <3>2, <3>3, OnlyMoved
  <2>7. HeldToPush' /\ StaleOnce'
    BY DEF HeldToPush, StaleOnce, ListenersTypeOK
  <2> QED
    BY <2>1, <2>6, <2>7
<1>8. ASSUME NEW s \in Sessions, GiveUpPush(s)
      PROVE  ListenersInv'
  <2> USE <1>8 DEF GiveUpPush
  <2>1. ListenersTypeOK'
    BY DEF ListenersTypeOK
  <2>2. handed'[s] = handed[s] /\ Held(s)' = {} /\ inbox'[s] = inbox[s]
    BY DEF Held, ListenersTypeOK
  <2>3. OrderOf(s)'
    BY <2>2 DEF InOrder, OrderOf, Below
  <2>4. InOrder' /\ NothingFromTheFuture'
    <3>1. \A r \in Sessions \ {s} : data'[r] = data[r] /\ inbox'[r] = inbox[r] /\ handed'[r] = handed[r]
      BY DEF ListenersTypeOK
    <3>2. Elements(handed'[s]) \cup Elements(inbox'[s]) \cup Held(s)'
            \subseteq Elements(handed[s]) \cup Elements(inbox[s]) \cup Held(s) \cup Elements(waiting)
      BY <2>2
    <3>3. Increasing(waiting') /\ Elements(waiting') \subseteq Elements(waiting)
      BY DEF InOrder
    <3> QED
      BY <2>3, <3>1, <3>2, <3>3, OnlyMoved
  <2>5. HeldToPush' /\ StaleOnce'
    BY DEF HeldToPush, StaleOnce, ListenersTypeOK
  <2> QED
    BY <2>1, <2>4, <2>5
<1>9. ASSUME NEW s \in Sessions, ReadFromPort(s)
      PROVE  ListenersInv'
  <2> USE <1>9 DEF ReadFromPort
  <2> DEFINE v == Head(waiting)
  <2>1. ListenersTypeOK'
    <3>1. Append(handed[s], v) \in Seq(1 .. MaxArrivals)
      BY <1>a DEF ListenersTypeOK
    <3> QED
      BY <1>a, <3>1 DEF ListenersTypeOK
  <2>2. /\ handed'[s] = Append(handed[s], v) /\ inbox'[s] = <<>> /\ inbox[s] = <<>>
        /\ Held(s)' = {} /\ Held(s) = {}
    BY DEF Held, HeldToPush, ListenersTypeOK
  <2>3. /\ Elements(Append(handed[s], v)) = Elements(handed[s]) \cup {v}
        /\ Below(Elements(handed[s]), {v}) => Increasing(Append(handed[s], v))
    BY <1>0, <1>a, OfAppend DEF InOrder, OrderOf
  <2>4. Below(Elements(handed[s]), {v})
    BY <1>a DEF InOrder, OrderOf, Below
  <2>5. OrderOf(s)'
    <3>1. OrderOf(s) /\ Elements(waiting') \subseteq Elements(waiting) /\ Below({v}, Elements(waiting'))
      BY <1>a DEF InOrder
    <3>2. Increasing(handed'[s]) /\ Elements(handed'[s]) = Elements(handed[s]) \cup {v}
      BY <2>2, <2>3, <2>4
    <3>3. Increasing(inbox'[s]) /\ Elements(inbox'[s]) = {}
      BY <2>2, OfEmpty
    <3> QED
      BY <2>2, <3>1, <3>2, <3>3 DEF OrderOf, Below
  <2>6. InOrder' /\ NothingFromTheFuture'
    <3>1. \A r \in Sessions \ {s} : data'[r] = data[r] /\ inbox'[r] = inbox[r] /\ handed'[r] = handed[r]
      BY DEF ListenersTypeOK
    <3>2. Elements(handed'[s]) \cup Elements(inbox'[s]) \cup Held(s)'
            \subseteq Elements(handed[s]) \cup Elements(inbox[s]) \cup Held(s) \cup Elements(waiting)
      BY <1>a, <2>2, <2>3
    <3> QED
      BY <1>a, <2>5, <3>1, <3>2, OnlyMoved
  <2>7. HeldToPush' /\ StaleOnce'
    BY DEF HeldToPush, StaleOnce
  <2> QED
    BY <2>1, <2>6, <2>7
<1>10. ASSUME NEW s \in Sessions, ReadMessage(s)
       PROVE  ListenersInv'
  <2> USE <1>10 DEF ReadMessage
  <2> DEFINE v == Head(inbox[s])
  <2>0. /\ v \in 1 .. MaxArrivals /\ Tail(inbox[s]) \in Seq(1 .. MaxArrivals)
        /\ v \in Elements(inbox[s]) /\ Elements(Tail(inbox[s])) \subseteq Elements(inbox[s])
        /\ Increasing(Tail(inbox[s])) /\ Below({v}, Elements(Tail(inbox[s])))
    <3>1. inbox[s] \in Seq(1 .. MaxArrivals) /\ inbox[s] # <<>>
      BY DEF ListenersTypeOK
    <3>2. v \in 1 .. MaxArrivals /\ Tail(inbox[s]) \in Seq(1 .. MaxArrivals)
      <4>1. \A q \in Seq(1 .. MaxArrivals) : q # <<>> => Head(q) \in 1 .. MaxArrivals /\ Tail(q) \in Seq(1 .. MaxArrivals)
        OBVIOUS
      <4> QED
        BY <3>1, <4>1
    <3> QED
      BY <1>0, <3>1, <3>2, OfTail DEF InOrder, OrderOf
  <2>1. ListenersTypeOK'
    <3>1. Append(handed[s], v) \in Seq(1 .. MaxArrivals)
      BY <2>0 DEF ListenersTypeOK
    <3> QED
      BY <2>0, <3>1 DEF ListenersTypeOK
  <2>2. handed'[s] = Append(handed[s], v) /\ inbox'[s] = Tail(inbox[s]) /\ Held(s)' = Held(s)
    BY DEF Held, ListenersTypeOK
  <2>3. /\ Elements(Append(handed[s], v)) = Elements(handed[s]) \cup {v}
        /\ Below(Elements(handed[s]), {v}) => Increasing(Append(handed[s], v))
    BY <1>0, <2>0, OfAppend DEF InOrder, OrderOf
  <2>4. Below(Elements(handed[s]), {v})
    BY <2>0 DEF InOrder, OrderOf, Below
  <2>5. OrderOf(s)'
    BY <2>0, <2>2, <2>3, <2>4 DEF InOrder, OrderOf, Below
  <2>6. InOrder' /\ NothingFromTheFuture'
    <3>1. \A r \in Sessions \ {s} : data'[r] = data[r] /\ inbox'[r] = inbox[r] /\ handed'[r] = handed[r]
      BY DEF ListenersTypeOK
    <3>2. Elements(handed'[s]) \cup Elements(inbox'[s]) \cup Held(s)'
            \subseteq Elements(handed[s]) \cup Elements(inbox[s]) \cup Held(s) \cup Elements(waiting)
      BY <2>0, <2>2, <2>3
    <3>3. Increasing(waiting') /\ Elements(waiting') \subseteq Elements(waiting)
      BY DEF InOrder
    <3> QED
      BY <2>5, <3>1, <3>2, <3>3, OnlyMoved
  <2>7. HeldToPush' /\ StaleOnce'
    BY DEF HeldToPush, StaleOnce, ListenersTypeOK
  <2> QED
    BY <2>1, <2>6, <2>7
<1>11. ASSUME NEW s \in Sessions, ReadEOF(s)
       PROVE  ListenersInv'
  <2> USE <1>11 DEF ReadEOF
  <2>1. ListenersTypeOK'
    BY DEF ListenersTypeOK
  <2>2. InOrder' /\ NothingFromTheFuture'
    BY NothingMoved
  <2>3. HeldToPush' /\ StaleOnce'
    BY DEF HeldToPush, StaleOnce
  <2> QED
    BY <2>1, <2>2, <2>3
<1>12. CASE UNCHANGED listenerVars
  <2> USE <1>12 DEF listenerVars
  <2>1. ListenersTypeOK'
    BY DEF ListenersTypeOK
  <2>2. InOrder' /\ NothingFromTheFuture'
    BY NothingMoved
  <2>3. HeldToPush' /\ StaleOnce'
    BY DEF HeldToPush, StaleOnce
  <2> QED
    BY <2>1, <2>2, <2>3
<1> QED
  BY <1>1, <1>2, <1>3, <1>4, <1>5, <1>6, <1>7, <1>8, <1>9, <1>10, <1>11, <1>12
     DEF ListenersNext, ReaderStep, PumpStep

\* For any number of sessions and messages and any size of the channel: what a session
\* of a connection has handed over, queued and holds, and what waits while it is open,
\* is in the order of arrival with nothing twice; and a session that has been closed
\* takes one message more from a plugin at most, and none from anything else.
THEOREM SessionsInOrder == ListenersSpec => []SessionsReadInOrder
<1>1. ListenersInv => SessionsReadInOrder
  <2> SUFFICES ASSUME ListenersInv PROVE SessionsReadInOrder
    OBVIOUS
  <2> USE DEF ListenersInv
  <2>1. StaleReaderTakesOneAtMost
    BY DEF StaleOnce, StaleReaderTakesOneAtMost
  <2>2. ASSUME NEW s \in Sessions
        PROVE  LET got == handed[s] \o inbox[s] \o (IF data[s] = NoData THEN <<>> ELSE <<data[s]>>)
                            \o (IF session[s] = "open" THEN waiting ELSE <<>>)
               IN  Increasing(got)
    <3> DEFINE h == IF data[s] = NoData THEN <<>> ELSE <<data[s]>>
               w == IF session[s] = "open" THEN waiting ELSE <<>>
               a == handed[s] \o inbox[s]
               b == a \o h
    <3>1. h \in Seq(Nat) /\ Increasing(h) /\ Elements(h) = Held(s)
      BY OfTypes DEF Held, Elements, Increasing, ListenersTypeOK
    <3>2. w \in Seq(Nat) /\ Increasing(w) /\ Elements(w) \subseteq Elements(waiting)
      BY OfTypes, OfEmpty DEF InOrder
    <3> HIDE DEF h, w
    <3>3. /\ a \in Seq(Nat) /\ Increasing(a)
          /\ Elements(a) = Elements(handed[s]) \cup Elements(inbox[s])
      BY OfTypes, OfConcat DEF InOrder, OrderOf
    <3> HIDE DEF a
    <3>4. /\ b \in Seq(Nat) /\ Increasing(b)
          /\ Elements(b) = Elements(handed[s]) \cup Elements(inbox[s]) \cup Held(s)
      BY <3>1, <3>3, OfConcat, ZenonT(40) DEF InOrder, OrderOf
    <3> HIDE DEF b
    <3>5. Increasing(b \o w)
      <4>1. Below(Elements(b), Elements(w))
        BY <3>2, <3>4 DEF InOrder, OrderOf, Below
      <4> QED
        BY <3>2, <3>4, <4>1, OfConcat
    <3> QED
      BY <3>5 DEF a, b, h, w
  <2>3. SessionKeepsOrder
    BY <2>2 DEF SessionKeepsOrder, Increasing
  <2> QED
    BY <2>1, <2>3 DEF SessionsReadInOrder
<1> QED
  BY <1>1, InitListeners, NextListeners, PTL DEF ListenersSpec
-----------------------------------------------------------------------------
OpenConns == {c \in Clients : socket[c] = "open"}

\* Why ClosedLeavesOneOpen is inductive: an open connection is registered or in the
\* acceptor's hand; the connections are closed when nothing is accepted any more; and
\* from then on the one in hand is the only one that can be open.
OpenIsKnown == \A c \in OpenConns : c \in conns \/ c = inHand

ConnectionsTyped ==
  /\ client \in [Clients -> {"away", "dialled", "connected", "hungUp"}]
  /\ socket \in [Clients -> {"none", "open", "closed"}]
  /\ inHand \in Clients \cup {NoClient}
  /\ conns \subseteq Clients
  /\ handler \in [Clients -> {"none", "read", "remove", "returned"}]
  /\ closing \in [Closers -> {"none", "socket", "conns", "done"}]

RemovedIsClosed == \A c \in Clients : handler[c] = "remove" => socket[c] = "closed"

\* A client that has not been accepted is in nobody's hand and has no goroutine.
NotAccepted ==
  \A c \in Clients : client[c] \in {"away", "dialled"} => inHand # c /\ handler[c] = "none"

ClosesAfterListening ==
  \A w \in Closers : closing[w] \in {"conns", "done"} => ~listening

OneLeftOpen ==
  (\E w \in Closers : closing[w] = "done") => \A c, d \in OpenConns : c = d

TcpInv == ConnectionsTyped /\ OpenIsKnown /\ RemovedIsClosed /\ NotAccepted
          /\ ClosesAfterListening /\ OneLeftOpen

LEMMA InitTcp == TcpInit => TcpInv
<1> SUFFICES ASSUME TcpInit PROVE TcpInv
  OBVIOUS
<1>1. ConnectionsTyped
  BY TcpListenerAssumption DEF TcpInit, ConnectionsTyped
<1>2. OpenConns = {}
  BY DEF TcpInit, OpenConns
<1>3. RemovedIsClosed /\ NotAccepted /\ ClosesAfterListening
  BY TcpListenerAssumption DEF TcpInit, RemovedIsClosed, NotAccepted, ClosesAfterListening
<1> QED
  BY <1>1, <1>2, <1>3 DEF TcpInv, OpenIsKnown, OneLeftOpen

LEMMA NextTcp ==
  ASSUME TcpInv, [TcpNext]_tcpVars
  PROVE  TcpInv'
<1> USE TcpListenerAssumption
    DEF TcpInv, ConnectionsTyped, OpenIsKnown, RemovedIsClosed, NotAccepted, ClosesAfterListening,
        OneLeftOpen, OpenConns
<1>1. ASSUME NEW c \in Clients, Dial(c) \/ HangUp(c)
      PROVE  TcpInv'
  BY <1>1 DEF Dial, HangUp
<1>2. ASSUME NEW c \in Clients, Accept(c)
      PROVE  TcpInv'
  <2>1. ConnectionsTyped' /\ ClosesAfterListening'
    BY <1>2 DEF Accept
  <2>0. RemovedIsClosed' /\ NotAccepted'
    BY <1>2 DEF Accept
  <2>2. inHand' = c /\ inHand = NoClient /\ conns' = conns /\ OpenConns' \subseteq OpenConns \cup {c}
    BY <1>2 DEF Accept
  <2>3. OpenIsKnown'
    BY <2>2
  <2>4. OneLeftOpen'
    <3>1. \A w \in Closers : closing'[w] = closing[w] /\ closing[w] # "done"
      BY <1>2 DEF Accept
    <3> QED
      BY <3>1
  <2> QED
    BY <2>0, <2>1, <2>3, <2>4
<1>3. ASSUME NEW c \in Clients, addConn(c)
      PROVE  TcpInv'
  BY <1>3 DEF addConn
<1>4. ASSUME NEW c \in Clients, handleConn(c)
      PROVE  TcpInv'
  BY <1>4 DEF handleConn
<1>5. ASSUME NEW c \in Clients, removeConn(c)
      PROVE  TcpInv'
  BY <1>5 DEF removeConn
<1>6. ASSUME NEW c \in Clients, WriteTo(c)
      PROVE  TcpInv'
  BY <1>6 DEF WriteTo
<1>7. ASSUME AcceptFails \/ Write \/ WriteReturns
      PROVE  TcpInv'
  BY <1>7 DEF AcceptFails, Write, WriteReturns
<1>8. ASSUME Stop
      PROVE  TcpInv'
  <2>1. ConnectionsTyped' /\ RemovedIsClosed' /\ NotAccepted' /\ OpenIsKnown'
    BY <1>8 DEF Stop
  <2>2. \A w \in Closers : closing'[w] = "socket"
    BY <1>8 DEF Stop
  <2> QED
    BY <2>1, <2>2
<1>9. ASSUME NEW w \in Closers, CloseSocket(w)
      PROVE  TcpInv'
  BY <1>9 DEF CloseSocket
<1>10. ASSUME NEW w \in Closers, closeAllConns(w)
       PROVE  TcpInv'
  <2>1. ConnectionsTyped' /\ RemovedIsClosed' /\ NotAccepted' /\ ClosesAfterListening'
    BY <1>10 DEF closeAllConns
  <2>2. OpenConns' = OpenConns \ conns
    BY <1>10 DEF closeAllConns
  <2>3. \A c \in OpenConns' : c = inHand
    BY <2>2
  <2>4. OpenIsKnown' /\ OneLeftOpen'
    BY <1>10, <2>3 DEF closeAllConns
  <2> QED
    BY <2>1, <2>4
<1>11. CASE UNCHANGED tcpVars
  BY <1>11 DEF tcpVars
<1> QED
  BY <1>1, <1>2, <1>3, <1>4, <1>5, <1>6, <1>7, <1>8, <1>9, <1>10, <1>11
     DEF TcpNext, CloseEverything

\* However clients and messages come while a listener is stopped, one of its
\* connections at most stays open.
THEOREM OneStaysOpen == TcpSpec => []ClosedLeavesOneOpen
<1>1. TcpInv => ClosedLeavesOneOpen
  <2> SUFFICES ASSUME TcpInv, \A w \in Closers : closing[w] = "done"
               PROVE  Cardinality(OpenConns) <= 1
    BY DEF ClosedLeavesOneOpen, OpenConns
  <2>1. \A c, d \in OpenConns : c = d
    BY DEF TcpInv, OneLeftOpen, Closers
  <2>2. CASE OpenConns = {}
    BY <2>2, FS_EmptySet
  <2>3. CASE OpenConns # {}
    <3>1. PICK c \in OpenConns : OpenConns = {c}
      BY <2>1, <2>3
    <3> QED
      BY <3>1, FS_Singleton
  <2> QED
    BY <2>2, <2>3
<1> QED
  BY <1>1, InitTcp, NextTcp, PTL DEF TcpSpec
=============================================================================
