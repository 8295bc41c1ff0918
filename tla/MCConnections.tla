--------------------------- MODULE MCConnections ---------------------------
(* Small instances of Connections for TLC: kinds of connections and parents. *)
EXTENDS Connections

CONSTANTS http, mqtt

KindOf == [p \in Parents |-> IF p = http THEN "http_server" ELSE "mqtt_client"]

Tcp == [type |-> "tcp_conn", parent |-> None, out |-> FALSE]
Script == [type |-> "script_conn", parent |-> http, out |-> FALSE]
Topic == [type |-> "mqtt_subscription", parent |-> mqtt, out |-> TRUE]

OwnOrChild == {Tcp, Script, Topic}
=============================================================================
