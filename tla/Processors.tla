----------------------------- MODULE Processors -----------------------------
(***************************************************************************)
(* The processors of internal/decode and the pipeline made of them.  Which *)
(* payloads a processor accepts is left open: it may do whatever it does   *)
(* for some payload.  What counts is the object that it hands on, the      *)
(* message that came in or a new one, and the topic it gives to it.        *)
(***************************************************************************)
EXTENDS Integers, Sequences, FiniteSets, SequencesExt

CONSTANTS Topics, None

\* A processor of a row: its key, the topic configured for it (or None), and the sets
\* of topics that a script (none: it has no content) or a plugin may answer with.
Processor == [key : STRING, topic : Topics \cup {None}, answers : SUBSET {a \in SUBSET Topics : IsFiniteSet(a)}]

\* What is handed on: the message itself or another, with the topic that a processor
\* has chosen, or None for that of the message.
Item == [same : BOOLEAN, topic : Topics \cup {None}]

\* One call of Process either fails or makes a sequence of items.
Made(items) == [failed |-> FALSE, items |-> items]
Failed == [failed |-> TRUE, items |-> <<>>]

Dropped == Made(<<>>)

\* The message as it came.
PassedOn(item) == Made(<<item>>)

\* cloneMessage, and the processor's topic if it has one.
Cloned(item, topic) ==
  Made(<<[same |-> FALSE, topic |-> IF topic # None THEN topic ELSE item.topic]>>)

\* json_format and json_extract: a payload that is no JSON, or has no such path, fails.
Converted(item, p) == {Failed, Cloned(item, p.topic)}

FieldMapProcessor(item, p) == Converted(item, p)

\* json_filter: what does not match is dropped.
Filtered(item, p) == {Failed, Dropped, Cloned(item, p.topic)}

TextRegexFilterProcessor(item, p) == Filtered(item, p)

TextReplaceProcessor(item, p) == {Cloned(item, p.topic)}

\* A script that fails or takes too long returns an error beside the message; its
\* answer is a Go map, which is ranged over in any order.
ByScript(p) ==
  {Failed, Dropped} \cup
  {Made([k \in DOMAIN order |-> [same |-> FALSE, topic |-> order[k]]]) :
     order \in UNION {SetToSeqs(topics) : topics \in p.answers}}

\* A processor plugin drops the message or makes one, with a topic if it answers one.
ByPlugin(item, p) ==
  {Failed, Dropped, Cloned(item, None)} \cup {Cloned(item, t) : t \in UNION p.answers}

\* A decoder plugin that is not there, or answers nothing, lets the message through.
ByDecoder(item) == {Failed, PassedOn(item), Cloned(item, None)}

\* Process of the processor that createPipeline makes of p.
ProcessOf(p, item) ==
  CASE p.key = "pass" -> {PassedOn(item)}
    [] p.key \in {"json_format", "json_extract"} -> Converted(item, p)
    [] p.key = "json_filter" -> Filtered(item, p)
    [] p.key = "text_replace" -> TextReplaceProcessor(item, p)
    [] p.key = "text_regex_filter" -> TextRegexFilterProcessor(item, p)
    [] p.key = "field_map" -> FieldMapProcessor(item, p)
    [] p.key \in {"dlt645", "modbus_rtu"} -> {Failed}
    [] p.key = "script" -> IF p.answers = {} THEN {PassedOn(item)} ELSE ByScript(p)
    [] p.key = "plugin" -> ByPlugin(item, p)
    [] p.key = "plugin_decoder" -> ByDecoder(item)

Known == {"pass", "json_format", "json_extract", "json_filter", "text_replace",
          "text_regex_filter", "field_map", "dlt645", "modbus_rtu", "script", "plugin",
          "plugin_decoder"}

\* Each item goes through p by itself; one that fails fails the whole.
Through(items, p) ==
  LET calls == {call \in [DOMAIN items -> UNION {ProcessOf(p, items[k]) : k \in DOMAIN items}] :
                  \A k \in DOMAIN items : call[k] \in ProcessOf(p, items[k])}
  IN  {IF \E k \in DOMAIN call : call[k].failed THEN Failed
       ELSE Made(FlattenSeq([k \in DOMAIN call |-> call[k].items])) : call \in calls}

\* One processor after the others.  One whose key is not known (or a plugin without a
\* name) has been left out by createPipeline.
AlsoThrough(outcomes, p) ==
  IF p.key \notin Known THEN outcomes
  ELSE {o \in outcomes : o.failed} \cup
       UNION {Through(o.items, p) : o \in {o \in outcomes : ~o.failed}}

\* What Pipeline.Process may make of a message.
Outcomes(processors) ==
  LET after[i \in 0 .. Len(processors)] ==
        IF i = 0 THEN {PassedOn([same |-> TRUE, topic |-> None])}
        ELSE AlsoThrough(after[i - 1], processors[i])
  IN  after[Len(processors)]

\* The message itself is among what was made of it; it is alone then.
IsPassedOn(outcome) == \E i \in DOMAIN outcome.items : outcome.items[i].same
=============================================================================
