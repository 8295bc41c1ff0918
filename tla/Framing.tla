------------------------------ MODULE Framing ------------------------------
(***************************************************************************)
(* The framing rules of internal/pipeline/manager.go as operators: how the *)
(* bytes of a connection are cut into messages.  A rule f is a record with *)
(* the keys of the `framing` JSON object.  Each splitter of the code is a  *)
(* loop that cuts one frame off the front of its data; Cut is one round of *)
(* the loop and leaves alone what the loop would stop at.                  *)
(***************************************************************************)
EXTENDS Integers, Sequences

\* data[from:to] and data[from:] of Go.
Slice(data, from, to) == SubSeq(data, from + 1, to)
After(data, from) == SubSeq(data, from + 1, Len(data))

\* bytes.Index: where sep first occurs, or -1.
Index(data, sep) ==
  LET found == {i \in 0 .. Len(data) - Len(sep) : Slice(data, i, i + Len(sep)) = sep}
  IN  IF found = {} THEN -1 ELSE CHOOSE i \in found : \A j \in found : i <= j

\* Mutant: the byte after the start of a separator is looked at no more.
CutDelimiter_OneByte(s, f) ==
  LET idx == Index(s.data, f.delimiter)
  IN  IF idx < 0 THEN s
      ELSE [out  |-> IF idx > 0 THEN Append(s.out, Slice(s.data, 0, idx)) ELSE s.out,
            data |-> After(s.data, idx + 1)]

\* splitByDelimiterStream: empty frames are left out.
CutDelimiter(s, f) ==
  LET idx == Index(s.data, f.delimiter)
  IN  IF idx < 0 THEN s
      ELSE [out  |-> IF idx > 0 THEN Append(s.out, Slice(s.data, 0, idx)) ELSE s.out,
            data |-> After(s.data, idx + Len(f.delimiter))]

\* splitByFixedLengthStream
CutFixedLength(s, f) ==
  IF Len(s.data) < f.length THEN s
  ELSE [out  |-> Append(s.out, Slice(s.data, 0, f.length)),
        data |-> After(s.data, f.length)]

\* readLengthValue: an unsigned number of 1, 2 or 4 bytes; -1 for any other size.
readLengthValue(field, f) ==
  LET digit(k) == IF f.endian = "little" THEN field[k + 1] ELSE field[f.size - k]
  IN  CASE f.size = 1 -> digit(0)
        [] f.size = 2 -> digit(0) + 256 * digit(1)
        [] f.size = 4 -> digit(0) + 256 * (digit(1) + 256 * (digit(2) + 256 * digit(3)))
        [] OTHER -> -1

\* splitByLengthField: totalLen, by which the data advances, leaves out the header
\* when include_header is off.
CutLengthField(s, f) ==
  LET headerLen == f.offset + f.size
      bodyLen == readLengthValue(Slice(s.data, f.offset, headerLen), f)
      totalLen == IF f.include_header THEN bodyLen + headerLen ELSE bodyLen
  IN  IF Len(s.data) < headerLen \/ bodyLen < 0 \/ Len(s.data) < headerLen + bodyLen THEN s
      ELSE [out  |-> Append(s.out, Slice(s.data, IF f.include_header THEN 0 ELSE headerLen,
                                         headerLen + bodyLen)),
            data |-> After(s.data, IF totalLen = 0 THEN headerLen ELSE totalLen)]

Cut(s, f) ==
  CASE f.mode = "delimiter" -> CutDelimiter(s, f)
    [] f.mode = "fixed_length" -> CutFixedLength(s, f)
    [] f.mode = "length_field" -> CutLengthField(s, f)

\* Rules under which a chunk is passed on as it is.
Unframed(f) ==
  \/ f.mode \notin {"delimiter", "fixed_length", "length_field"}
  \/ f.mode = "delimiter" /\ f.delimiter = <<>>
  \/ f.mode = "fixed_length" /\ f.length <= 0

\* Other rules cut frames if their sizes are numbers (an offset below zero panics).
CutsFrames(f) ==
  \/ f.mode = "delimiter" /\ f.delimiter \in Seq(Nat) \ {<<>>}
  \/ f.mode = "fixed_length" /\ f.length \in Nat \ {0}
  \/ f.mode = "length_field" /\ f.offset \in Nat /\ f.size \in Int /\ f.include_header \in BOOLEAN

\* The loop of a splitter.  Every round takes a byte at least.
Rounds(data, f) ==
  LET loop[k \in 0 .. Len(data)] ==
        IF k = 0 THEN [out |-> <<>>, data |-> data] ELSE Cut(loop[k - 1], f)
  IN  loop

\* splitStream: the frames and what remains.
splitStream(data, f) ==
  IF Unframed(f)
  THEN [out |-> IF data = <<>> THEN <<>> ELSE <<data>>, data |-> <<>>]
  ELSE Rounds(data, f)[Len(data)]

\* splitChunk, for sources without a stream: the tail is a frame of its own, except
\* that of length_field, which is lost; what yields no frame passes as it is.
splitChunk(data, f) ==
  LET split == splitStream(data, f)
      tail == IF split.data = <<>> \/ f.mode = "length_field" THEN <<>> ELSE <<split.data>>
      frames == split.out \o tail
  IN  IF Unframed(f) \/ frames = <<>> THEN <<data>> ELSE frames
=============================================================================
