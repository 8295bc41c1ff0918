------------------------- MODULE MCProcessorChains -------------------------
(* Small instances of ChainRequests for TLC: tables of chains. *)
EXTENDS ChainRequests, TLC

Table(topics, outTopics, processors, requested, messages) ==
  [topic |-> topics, outTopic |-> outTopics, processors |-> processors,
   broken |-> {}, requested |-> requested, messages |-> messages]

With(key, topic, answers) == [key |-> key, topic |-> topic, answers |-> answers]
Plain(key) == With(key, None, {})
Script(answers) == With("script", None, answers)

\* Two chains in series; the decoder of the first passes the message itself on when
\* its plugin is missing, the second always does.
Series ==
  Table("c1" :> "t1" @@ "c2" :> "t2", "c1" :> "t2" @@ "c2" :> "t3",
        "c1" :> <<Plain("plugin_decoder")>> @@ "c2" :> <<Plain("pass")>>, {}, 2)

\* Two chains on one topic; one copies, the other is a script with topics of its own.
Fork ==
  Table("c1" :> "t1" @@ "c2" :> "t1", "c1" :> "t2" @@ "c2" :> None,
        "c1" :> <<Plain("text_replace"), Plain("field_map")>>
          @@ "c2" :> <<Plain("modbus_tcp"), Script({{"t2", "t3"}})>>, {}, 2)

\* A script that requests are about feeds a chain that copies; after a hot reload
\* both may have two goroutines.
Restart ==
  Table("c1" :> "t1" @@ "c2" :> "t2", "c1" :> None @@ "c2" :> "t3",
        "c1" :> <<Script({{"t2"}})>> @@ "c2" :> <<Plain("text_replace")>>, {"c1"}, 1)

\* The script's row cannot be read: requests start the chain in vain.
Unreadable == [Restart EXCEPT !.broken = {"c1"}]

\* Topics that processors choose although their chain has an output topic.
Choice ==
  Table("c1" :> "t1" @@ "c2" :> "t2", "c1" :> "t2" @@ "c2" :> "t3",
        "c1" :> <<Script({{"t3", "t2"}}), With("plugin", None, {})>>
          @@ "c2" :> <<Plain("json_filter"), With("text_regex_filter", "t3", {})>>, {}, 2)

\* A chain without a topic, and one that fails on every message and may fall behind.
Idle ==
  Table("c1" :> None @@ "c2" :> "t2", "c1" :> "t2" @@ "c2" :> "t3",
        "c1" :> <<>> @@ "c2" :> <<Plain("json_extract"), Plain("dlt645")>>, {}, 3)

\* Two chains on one topic, both of which pass the message itself on.
Shared ==
  Table("c1" :> "t1" @@ "c2" :> "t1", "c1" :> "t2" @@ "c2" :> "t3",
        "c1" :> <<Plain("pass")>> @@ "c2" :> <<Plain("pass")>>, {}, 2)

Harmless == {Series, Fork, Choice, Restart, Unreadable, Idle}
OnlyShared == {Shared}

ASSUME HarmlessAssumption == \A t \in Harmless : NothingShared(t) /\ NothingReturns(t)
=============================================================================
