------------------------------ MODULE Viewers ------------------------------
(***************************************************************************)
(* The message stream of app/api/viewer.go: a browser opens a WebSocket,   *)
(* whose goroutine subscribes to the queue and writes each message to the  *)
(* socket.  It never reads from it, so that a browser that has gone is     *)
(* noticed by a write that fails, and only then is the subscription ended. *)
(***************************************************************************)
EXTENDS MessageQueue

CONSTANT ViewerSubs   \* the subscriptions Stream makes; the others are of other components

\* Stream passes a Buffer of 0.
ASSUME ViewerSubsAssumption == ViewerSubs \subseteq Subs /\ 0 \in Buffers

VARIABLES
  browser,  \* "none" yet, "open", "gone" but written to without an error, "broken"
  stream    \* where the goroutine stands: in its "loop", before the "write" of a
            \* message, "left" with the deferred calls to make, "returned"

viewerVars == <<browser, stream>>
viewersVars == <<vars, viewerVars>>

ViewersInit ==
  /\ Init
  /\ browser = [s \in ViewerSubs |-> "none"]
  /\ stream = [s \in ViewerSubs |-> "none"]

\* The upgraded connection: the subscription has the queue's own buffer size.
Stream(s, T) ==
  /\ SubscribeNamed(s, T, 0)
  /\ browser' = [browser EXCEPT ![s] = "open"]
  /\ stream' = [stream EXCEPT ![s] = "loop"]

TakeMessage(s) == stream[s] = "loop" /\ Receive(s) /\ UNCHANGED viewerVars

CountMessage(s) ==
  /\ RecordDequeue(s)
  /\ stream' = [stream EXCEPT ![s] = "write"]
  /\ UNCHANGED browser

\* Mutant: an error of the write is ignored, as that of the greeting is.
WriteMessage_Ignore(s) ==
  /\ ~panicked
  /\ stream[s] = "write"
  /\ stream' = [stream EXCEPT ![s] = "loop"]
  /\ UNCHANGED <<vars, browser>>

WriteMessage(s) ==
  /\ ~panicked
  /\ stream[s] = "write"
  /\ stream' = [stream EXCEPT ![s] = IF browser[s] = "broken" THEN "left" ELSE "loop"]
  /\ UNCHANGED <<vars, browser>>

\* The deferred UnsubscribeSub; what the channel still holds is never read.
Leave(s) ==
  /\ stream[s] = "left"
  /\ UnsubscribeSub(s)
  /\ stream' = [stream EXCEPT ![s] = "returned"]
  /\ UNCHANGED browser

\* The browser goes; the network accepts some writes more before it says so.
BrowserGoes(s) ==
  \E from \in {"open", "gone"} :
    /\ ~panicked
    /\ browser[s] = from
    /\ browser' = [browser EXCEPT ![s] = IF from = "open" THEN "gone" ELSE "broken"]
    /\ UNCHANGED <<vars, stream>>

StreamStep(s) == TakeMessage(s) \/ CountMessage(s) \/ WriteMessage(s) \/ Leave(s)

\* Everyone else.
OtherStep ==
  /\ \/ \E p \in Publishers : (\E t \in Topics : Publish(p, t)) \/ PublisherStep(p)
     \/ \E t \in Topics : RegisterTopic(t)
     \/ \E s \in Subs \ ViewerSubs :
          \/ \E T \in SUBSET Topics, b \in Buffers : SubscribeNamed(s, T, b)
          \/ UnsubscribeSub(s) \/ ConsumerStep(s)
  /\ UNCHANGED viewerVars

ViewersNext ==
  \/ OtherStep
  \/ \E s \in ViewerSubs :
       (\E T \in SUBSET Topics : Stream(s, T)) \/ StreamStep(s) \/ BrowserGoes(s)

ViewersSpec == ViewersInit /\ [][ViewersNext]_viewersVars
-----------------------------------------------------------------------------
\* viewer.go:148: once writes fail, the next message is the last a viewer takes:
\* its goroutine returns and its subscription is ended.  (With no further message
\* it stays, and so does its channel in the queue.)
BrokenViewerEnds ==
  \A s \in ViewerSubs : WF_viewersVars(StreamStep(s)) =>
    (browser[s] = "broken" /\ ch[s] # <<>> ~> stream[s] = "returned" \/ panicked)
=============================================================================
