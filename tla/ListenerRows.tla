---------------------------- MODULE ListenerRows ----------------------------
(***************************************************************************)
(* What a request may make of the row of a listener (app/model/convert.go  *)
(* and the validators of app/api/listener.go).  The settings of a type are *)
(* a JSON text in the column config; requests give them either as that     *)
(* text or as flat fields, and answers show both.                          *)
(***************************************************************************)
EXTENDS Integers

CONSTANTS
  Texts,      \* strings, maps and scripts that are not empty
  Blank,      \* the empty one
  Bad,        \* a JSON value of another type than the field has
  NoConfig,   \* the empty text
  Malformed,  \* a text that is not a JSON object
  NoRow

ParentTypes == {"http_server", "mqtt_client"}
ConnTypes == {"tcp_conn", "udp_conn", "serial_conn", "script_conn", "http_route",
              "mqtt_subscription", "plugin"}
Types == ParentTypes \cup ConnTypes \cup {"unknown"}

\* The settings of each type.  The port of an HTTP server is a number, that of a
\* serial line a text.
FieldsOf ==
  [t \in Types |->
     CASE t = "http_server" -> {"http_port"}
       [] t = "mqtt_client" -> {"broker", "client_id", "username", "password"}
       [] t \in {"tcp_conn", "udp_conn"} -> {"address"}
       [] t = "serial_conn" -> {"port", "baud_rate"}
       [] t = "script_conn" -> {"content"}
       [] t = "http_route" -> {"path", "methods"}
       [] t = "mqtt_subscription" -> {"sub_topic", "qos"}
       [] t = "plugin" -> {"plugin_name", "params"}
       [] t = "unknown" -> {}]

MaxPort == 65535

Numbers ==
  [f \in {"http_port", "baud_rate", "qos"} |->
     CASE f = "http_port" -> {-1, 0, 1, MaxPort, MaxPort + 1}
       [] f = "baud_rate" -> {-1, 0, 9600}
       [] f = "qos" -> 0 .. 3]

ValuesOf(f) == IF f \in DOMAIN Numbers THEN Numbers[f] ELSE Texts \cup {Blank}
Zero(f) == IF f \in DOMAIN Numbers THEN 0 ELSE Blank

\* Functions that give fields of F a value of theirs, or one of another type.
Given(F) == {g \in [F -> UNION {ValuesOf(f) : f \in F} \cup {Bad}] :
               \A f \in F : g[f] \in ValuesOf(f) \cup {Bad}}

\* A value of another type is none of the field's, and a text that is empty or malformed
\* is none that gives fields a value.
ASSUME RowsAssumption ==
  /\ Blank \notin Texts
  /\ \A t \in Types : \A f \in FieldsOf[t] : Bad \notin ValuesOf(f)
  /\ NoConfig # Malformed
  /\ \A t \in Types : {NoConfig, Malformed} \cap Given(FieldsOf[t]) = {}

Configs(t) == {NoConfig, Malformed} \cup UNION {Given(F) : F \in SUBSET FieldsOf[t]}

VARIABLE row  \* a row of listener_parent or listener_conn: its type and config

RowsTypeOK ==
  row = NoRow \/ (row.type \in Types /\ row.config \in Configs(row.type))

RowInit == row = NoRow

\* What json.Unmarshal leaves in a structure of zero values.
Parsed(t, config) ==
  [f \in FieldsOf[t] |->
     IF config \in {NoConfig, Malformed} THEN Zero(f)
     ELSE IF f \in DOMAIN config /\ config[f] # Bad THEN config[f] ELSE Zero(f)]

ParsesWell(config) == config # Malformed /\ \A f \in DOMAIN config : config[f] # Bad

\* buildParentConfig, buildConnConfig
BuiltConfig(t, flat) == IF \A f \in FieldsOf[t] : flat[f] = Zero(f) THEN NoConfig ELSE flat

\* NormalizeParent and NormalizeConn of a body with both forms: the text counts, and the
\* flat fields if it is empty.  The flat fields of a parent may be of a wrong type.
Normalized(body) ==
  [type |-> body.type,
   config |-> IF body.config # NoConfig THEN body.config
              ELSE BuiltConfig(body.type, Parsed(body.type, body.flat))]

Readable(body) == body.type \in ParentTypes \/ ParsesWell(body.flat)

\* validateParent and validateConn, after the checks of name and type.
CheckedFields(t, c) ==
  /\ t = "http_server" => c["http_port"] \in 1 .. MaxPort
  /\ t = "mqtt_client" => c["broker"] # Blank /\ c["client_id"] # Blank
  /\ t \in {"tcp_conn", "udp_conn"} => c["address"] # Blank
  /\ t = "serial_conn" => c["port"] # Blank /\ c["baud_rate"] > 0
  /\ t = "script_conn" => c["content"] # Blank
  /\ t = "http_route" => c["path"] # Blank
  /\ t = "mqtt_subscription" => c["sub_topic"] # Blank /\ c["qos"] <= 2

\* The config of a plugin is not looked into.
Valid(r) ==
  /\ r.type # "unknown"
  /\ r.config # NoConfig
  /\ IF r.type = "plugin" THEN TRUE
     ELSE ParsesWell(r.config) /\ CheckedFields(r.type, Parsed(r.type, r.config))

\* Create and Update, whose column `type` may change too.
Save(body) ==
  /\ Readable(body)
  /\ Valid(Normalized(body))
  /\ row' = Normalized(body)

RemoveRow == row # NoRow /\ row' = NoRow

FlatOf(t) == Given(FieldsOf[t])

RowNext ==
  \/ \E t \in Types : \E config \in Configs(t), flat \in FlatOf(t) :
       Save([type |-> t, config |-> config, flat |-> flat])
  \/ RemoveRow

RowSpec == RowInit /\ [][RowNext]_row
-----------------------------------------------------------------------------
\* Mutant: the view forgets a field.
FlatView_Forgets(r) == [Parsed(r.type, r.config) EXCEPT !["username"] = Blank]

\* FlatView: the fields a page shows for a row, and puts in the form that edits it.
FlatView(r) == Parsed(r.type, r.config)

\* The form of a page: flat fields and no text.
Form(t, flat) == [type |-> t, config |-> NoConfig, flat |-> flat]

\* NormalizeConn and FlatView, there and back: whoever wrote a row and in whichever form,
\* the form that edits it is accepted as it stands, and with one field changed it changes
\* that setting of the listener and no other.  Only a plugin may have a row whose form
\* is refused: a text that names no plugin and no parameters.
FormKeepsTheRest ==
  row # NoRow =>
    LET settings == Parsed(row.type, row.config)
        form == FlatView(row)
    IN  /\ \/ Valid(Normalized(Form(row.type, form)))
           \/ row.type = "plugin" /\ \A f \in FieldsOf["plugin"] : settings[f] = Blank
        /\ \A f \in FieldsOf[row.type] : \A v \in ValuesOf(f) :
             LET edited == Normalized(Form(row.type, [form EXCEPT ![f] = v]))
             IN  Valid(edited) =>
                   Parsed(edited.type, edited.config) = [settings EXCEPT ![f] = v]
=============================================================================
