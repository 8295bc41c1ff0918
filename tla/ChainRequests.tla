---------------------------- MODULE ChainRequests ----------------------------
(***************************************************************************)
(* The requests about processor chains (app/api/processor_chain.go and     *)
(* hotreload.go): sequences of row updates and of calls to the manager,    *)
(* which interleave with each other and with the messages.                 *)
(***************************************************************************)
EXTENDS ProcessorChains

CONSTANTS
  Requests,    \* goroutines that serve a request at a time
  Boot,        \* main, before it serves requests
  MaxRequests  \* bound: requests made

ASSUME RequestsAssumption == Boot \notin Requests /\ MaxRequests \in Nat

VARIABLES
  rows,     \* chains that have a row
  enabled,  \* those whose row says enable
  issued,   \* keys that rows have or have had
  todo,     \* calls that a goroutine has still to make
  made      \* number of requests so far

rowVars == <<rows, enabled, issued>>
allVars == <<vars, rowVars, todo, made>>

\* A call for each of the chains, in any order.
Call == [call : {"write_enable", "stop", "start", "stop_all", "list"}, chains : SUBSET Chains]

RequestsTypeOK ==
  /\ TypeOK
  /\ issued \subseteq Chains /\ rows \subseteq issued /\ enabled \subseteq rows
  /\ todo \in [Requests \cup {Boot} -> Seq(Call)]
  /\ made \in 0 .. MaxRequests

C(name, chains) == [call |-> name, chains |-> chains]

\* Requests meet rows of any kind; the other chains of a table are enabled.
RequestsInit ==
  /\ Init
  /\ rows \in {r \in SUBSET Chains : Chains \ table.requested \subseteq r}
  /\ enabled \in {e \in SUBSET rows : Chains \ table.requested \subseteq e}
  /\ issued = rows
  /\ todo = [q \in Requests \cup {Boot} |-> IF q = Boot THEN <<C("list", Chains)>> ELSE <<>>]
  /\ made = 0

Begin(q, calls) ==
  /\ todo[q] = <<>>
  /\ todo[Boot] = <<>>
  /\ made < MaxRequests
  /\ made' = made + 1
  /\ todo' = [todo EXCEPT ![q] = calls]
  /\ UNCHANGED vars

IfEnabled(enable, c) == IF enable THEN <<C("start", {c})>> ELSE <<>>

Written(c, enable) ==
  enabled' = IF enable /\ c \in rows THEN enabled \cup {c} ELSE enabled \ {c}

Create(q, c, enable) ==
  /\ c \notin issued
  /\ Begin(q, IfEnabled(enable, c))
  /\ issued' = issued \cup {c}
  /\ rows' = rows \cup {c}
  /\ enabled' = IF enable THEN enabled \cup {c} ELSE enabled

\* The UPDATE touches no row when there is none; the chain is started all the same.
Update(q, c, enable) ==
  /\ c \in issued
  /\ Begin(q, <<C("stop", {c})>> \o IfEnabled(enable, c))
  /\ Written(c, enable)
  /\ UNCHANGED <<rows, issued>>

\* The row is read, its enable column written and the chain started.
Enable(q, c) ==
  /\ c \in rows
  /\ Begin(q, <<C("write_enable", {c}), C("start", {c})>>)
  /\ UNCHANGED rowVars

Disable(q, c) ==
  /\ c \in issued
  /\ Begin(q, <<C("stop", {c})>>)
  /\ Written(c, FALSE)
  /\ UNCHANGED <<rows, issued>>

Delete(q, c) ==
  /\ c \in issued
  /\ Begin(q, <<C("stop", {c})>>)
  /\ rows' = rows \ {c}
  /\ enabled' = enabled \ {c}
  /\ UNCHANGED issued

\* The hot reload of hotreload.go.
ReloadAll(q) ==
  /\ table.requested # {}
  /\ Begin(q, <<C("stop_all", Chains), C("list", Chains)>>)
  /\ UNCHANGED rowVars

\* `call` is next in q, and is made for c; the others of its chains are left.
Makes(q, call, c) ==
  /\ todo[q] # <<>>
  /\ Head(todo[q]).call = call
  /\ c \in Head(todo[q]).chains
  /\ todo' = [todo EXCEPT ![q] = IF Head(@).chains = {c} THEN Tail(@)
                                 ELSE <<C(call, Head(@).chains \ {c})>> \o Tail(@)]
  /\ UNCHANGED made

\* A call about all is next in q; calls of `next` for some take its place.
MakesAll(q, call, next, chains) ==
  /\ todo[q] # <<>>
  /\ Head(todo[q]).call = call
  /\ todo' = [todo EXCEPT ![q] =
                 (IF chains = {} THEN <<>> ELSE <<C(next, chains)>>) \o Tail(@)]
  /\ UNCHANGED made

WriteEnable(q, c) ==
  /\ Makes(q, "write_enable", c)
  /\ Written(c, TRUE)
  /\ UNCHANGED <<rows, issued, vars>>

Start(q, c, w) ==
  /\ Makes(q, "start", c)
  /\ StartPipeline(c, w)
  /\ UNCHANGED rowVars

\* It runs already, or cannot be made: the callers pass over the error, and the row stays.
SkipStart(q, c) ==
  /\ Makes(q, "start", c)
  /\ c \in pipelines \cup table.broken
  /\ UNCHANGED <<vars, rowVars>>

Stop(q, c) ==
  /\ Makes(q, "stop", c)
  /\ StopPipeline(c)
  /\ UNCHANGED rowVars

StopEverything(q) ==
  /\ MakesAll(q, "stop_all", "stop_all", {})
  /\ StopAll
  /\ UNCHANGED rowVars

\* The enabled rows are read at once and started one by one.
startPipelines(q) ==
  /\ MakesAll(q, "list", "start", enabled)
  /\ UNCHANGED <<vars, rowVars>>

RequestStep(q) ==
  \/ StopEverything(q) \/ startPipelines(q)
  \/ \E c \in Chains : \/ WriteEnable(q, c) \/ SkipStart(q, c) \/ Stop(q, c)
                      \/ \E w \in Workers : Start(q, c, w)

RequestsNext ==
  \/ \E q \in Requests : ReloadAll(q)
  \/ \E q \in Requests, c \in table.requested :
       \/ Enable(q, c) \/ Disable(q, c) \/ Delete(q, c)
       \/ \E enable \in BOOLEAN : Create(q, c, enable) \/ Update(q, c, enable)
  \/ \E q \in Requests \cup {Boot} : RequestStep(q)
  \/ /\ (\E t \in Topics : Inject(t)) \/ (\E w \in Workers : WorkerStep(w))
     /\ UNCHANGED <<rowVars, todo, made>>

RequestsSpec == RequestsInit /\ [][RequestsNext]_allVars

\* A chain's goroutine runs on whatever the others do.
WorkerFairness ==
  \A w \in Workers : WF_allVars(WorkerStep(w) /\ UNCHANGED <<rowVars, todo, made>>)

FairRequestsSpec == RequestsSpec /\ WorkerFairness
=============================================================================
