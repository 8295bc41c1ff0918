--------------------------- MODULE StreamFraming ---------------------------
(***************************************************************************)
(* A TCP connection of the gateway: clients send messages, the network     *)
(* cuts their bytes into chunks, a goroutine per client puts the chunks on *)
(* the one channel of the listener, and the read loop of the connection    *)
(* takes them off and cuts the messages out again (module Framing).        *)
(***************************************************************************)
EXTENDS Framing, FiniteSets, SequencesExt

CONSTANTS
  Clients,
  Rules,        \* framing rules of connections
  Payloads,     \* rule -> messages clients send
  Capacity,     \* of msgCh (100 in the code)
  MaxMessages,  \* bound: messages sent per client
  MaxChunk      \* bound: bytes per chunk (the read buffer: 4096)

ASSUME BoundsAssumption ==
  Capacity \in Nat \ {0} /\ MaxMessages \in Nat /\ MaxChunk \in Nat \ {0}

\* Rules that cut nothing pass every chunk on as it is, and promise nothing.
ASSUME RulesAssumption ==
  \A f \in Rules : CutsFrames(f) /\ Payloads[f] \subseteq Seq(Nat)

VARIABLES
  rule,     \* the framing rule in the row of this connection
  sent,     \* history: messages each client has sent
  wire,     \* bytes of each client on their way
  msgCh,    \* chunks the listener has read
  lost,     \* history: whether the listener has dropped a chunk
  arrived,  \* history: the bytes the read loop has taken, in order
  buffer,   \* m.framing[connID].buffer, at the one key there is
  frames    \* history: frames published, in order

streamVars == <<rule, sent, wire, msgCh, lost, arrived, buffer, frames>>

StreamInit ==
  /\ rule \in Rules
  /\ sent = [c \in Clients |-> <<>>]
  /\ wire = [c \in Clients |-> <<>>]
  /\ msgCh = <<>>
  /\ lost = FALSE
  /\ arrived = <<>>
  /\ buffer = <<>>
  /\ frames = <<>>

\* The header of a message of length_field framing: the length of what follows.
Header(m) ==
  LET size == rule.offset + rule.size
      least == IF rule.endian = "little" THEN rule.offset + 1 ELSE size
  IN  [i \in 1 .. size |-> IF i = least THEN Len(m) ELSE 0]

\* What a client puts on the wire for a message.
Encode(m) ==
  CASE rule.mode = "delimiter" -> m \o rule.delimiter
    [] rule.mode = "fixed_length" -> m
    [] rule.mode = "length_field" -> Header(m) \o m

Send(c, m) ==
  /\ Len(sent[c]) < MaxMessages
  /\ sent' = [sent EXCEPT ![c] = Append(@, m)]
  /\ wire' = [wire EXCEPT ![c] = @ \o Encode(m)]
  /\ UNCHANGED <<rule, msgCh, lost, arrived, buffer, frames>>

\* One read of a client's connection: the chunk is dropped when msgCh is full.
handleConn(c, n) ==
  LET hasRoom == Len(msgCh) < Capacity
  IN  /\ n <= Len(wire[c])
      /\ wire' = [wire EXCEPT ![c] = After(@, n)]
      /\ msgCh' = IF hasRoom THEN Append(msgCh, Slice(wire[c], 0, n)) ELSE msgCh
      /\ lost' = (lost \/ ~hasRoom)
      /\ UNCHANGED <<rule, sent, arrived, buffer, frames>>

\* Mutant: what remains of a chunk is forgotten.
applyFraming_Forget(chunk) ==
  LET split == splitStream(buffer \o chunk, rule)
  IN  /\ frames' = frames \o split.out
      /\ buffer' = <<>>

\* framingBufferKey finds neither remote_addr nor port in the metadata of a TCP
\* or serial message, so that all clients share the buffer "default".
applyFraming(chunk) ==
  LET split == splitStream(buffer \o chunk, rule)
  IN  /\ frames' = frames \o split.out
      /\ buffer' = split.data

\* ReadMessage and processAndPublish.
Read ==
  /\ msgCh # <<>>
  /\ msgCh' = Tail(msgCh)
  /\ arrived' = arrived \o Head(msgCh)
  /\ applyFraming(Head(msgCh))
  /\ UNCHANGED <<rule, sent, wire, lost>>

StreamNext ==
  \/ \E c \in Clients, m \in Payloads[rule] : Send(c, m)
  \/ \E c \in Clients, n \in 1 .. MaxChunk : handleConn(c, n)
  \/ Read

StreamSpec == StreamInit /\ [][StreamNext]_streamVars
-----------------------------------------------------------------------------
\* The frame a message should come out as.
FrameOf(m) ==
  IF rule.mode = "length_field" /\ rule.include_header THEN Encode(m) ELSE m

\* What clients have sent, as frames; empty ones are not published.
Published(m) == IF FrameOf(m) = <<>> THEN <<>> ELSE <<FrameOf(m)>>

FramesOf(messages) ==
  LET upTo[i \in 0 .. Len(messages)] ==
        IF i = 0 THEN <<>> ELSE upTo[i - 1] \o Published(messages[i])
  IN  upTo[Len(messages)]

\* splitStream and its buffer: the chunks the network makes do not matter, also
\* when a boundary falls within a delimiter or a header.  The frames published and
\* the bytes kept are those the same bytes would give if they arrived at once.
ChunksDoNotMatter ==
  LET whole == splitStream(arrived, rule)
  IN  frames = whole.out /\ buffer = whole.data

\* Messages that rule f can tell from each other: none holds the delimiter or makes
\* one with its own; each has the fixed length; the length of each fits the byte
\* Header gives it, in a header that is part of the frame.
Sendable(f) ==
  \A m \in Payloads[f] :
    /\ f.mode = "delimiter" => Index(m \o f.delimiter, f.delimiter) = Len(m)
    /\ f.mode = "fixed_length" => Len(m) = f.length
    /\ f.mode = "length_field" => f.size \in {1, 2, 4} /\ f.include_header /\ Len(m) < 256

\* applyFraming behind the listener's channel: the messages of a single client come
\* out one by one, unchanged and in order, and all of them once their bytes have
\* been taken, unless the listener has dropped a chunk.  splitChunk, which serves
\* sources without a stream, gives the messages of a packet that holds them whole.
FramesAreTheMessages ==
  \A c \in Clients : ~lost =>
    /\ IsPrefix(frames, FramesOf(sent[c]))
    /\ wire[c] = <<>> /\ msgCh = <<>> =>
         /\ frames = FramesOf(sent[c])
         /\ frames # <<>> => splitChunk(arrived, rule) = frames

\* PROJECT_CONTEXT.md 4.4, "framing": it undoes the joining and cutting of messages by
\* a stream and keeps a buffer per client.  Every frame is a message a client sent.
EveryFrameWasSent ==
  ~lost => \A i \in DOMAIN frames : \E c \in Clients : \E j \in DOMAIN sent[c] :
             frames[i] = FrameOf(sent[c][j])
=============================================================================
