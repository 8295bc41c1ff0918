-------------------------- MODULE MCStreamFraming --------------------------
(* Small instances of StreamFraming for TLC: rules and messages to frame. *)
EXTENDS StreamFraming

\* A separator of two bytes.
Delimiter == [mode |-> "delimiter", delimiter |-> <<13, 10>>]
FixedLength == [mode |-> "fixed_length", length |-> 2]
\* A length of two bytes behind a byte of something else.
LengthField(endian, include) ==
  [mode |-> "length_field", offset |-> 1, size |-> 2, endian |-> endian, include_header |-> include]

AllRules ==
  {Delimiter, FixedLength, LengthField("big", TRUE), LengthField("little", TRUE)}
BodyOnly == {LengthField("big", FALSE)}

\* A line may be empty or end with half of the separator, a block may look like a header.
PayloadsOf ==
  [r \in AllRules \cup BodyOnly |->
     CASE r.mode = "delimiter" -> {<<>>, <<7>>, <<10, 13>>}
       [] r.mode = "fixed_length" -> {<<1, 2>>, <<2, 2>>}
       [] r.mode = "length_field" -> {<<>>, <<7>>, <<0, 1>>}]
=============================================================================
