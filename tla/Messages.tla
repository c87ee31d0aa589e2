------------------------------ MODULE Messages ------------------------------
(***************************************************************************)
(* The client's messages (ToServer, AckMode and Message<ToServer> in       *)
(* src/src/lib.rs) and their frames: to_frame, add_extra_headers and, for  *)
(* the way back, to_client_msg (src/src/frame.rs). No state: Outbound runs *)
(* these operators on what an application builds.                          *)
(*                                                                         *)
(* A message's content has a kind, a field for each header the kind knows, *)
(* an Option (a set with at most one element), and for SEND a list of      *)
(* headers and a body. A text is a sequence of symbols, as in Frame.       *)
(***************************************************************************)
EXTENDS Frame

\* The kinds of ToServer and their commands.
CommandOf ==
    [Connect |-> "CONNECT", Disconnect |-> "DISCONNECT", Send |-> "SEND",
     Subscribe |-> "SUBSCRIBE", Unsubscribe |-> "UNSUBSCRIBE", Ack |-> "ACK",
     Nack |-> "NACK", Begin |-> "BEGIN", Commit |-> "COMMIT", Abort |-> "ABORT"]
Kinds == DOMAIN CommandOf

\* The headers to_frame writes for each kind, in that order.
Layout ==
    [Connect     |-> <<"accept-version", "host", "login", "heart-beat", "passcode">>,
     Disconnect  |-> <<"receipt">>,
     Send        |-> <<"destination", "transaction">>,
     Subscribe   |-> <<"destination", "id", "ack">>,
     Unsubscribe |-> <<"id">>,
     Ack         |-> <<"id", "transaction">>,
     Nack        |-> <<"id", "transaction">>,
     Begin       |-> <<"transaction">>,
     Commit      |-> <<"transaction">>,
     Abort       |-> <<"transaction">>]

\* The fields that are not an Option in the Rust type.
Mandatory ==
    [Connect     |-> {"accept-version", "host"},
     Disconnect  |-> {},
     Send        |-> {"destination"},
     Subscribe   |-> {"destination", "id"},
     Unsubscribe |-> {"id"},
     Ack         |-> {"id"},
     Nack        |-> {"id"},
     Begin       |-> {"transaction"},
     Commit      |-> {"transaction"},
     Abort       |-> {"transaction"}]

FieldsOf(kind) == Range(Layout[kind])

\* A message of the kind with these fields and no extra headers (From).
Plain(kind, fields) ==
    [kind |-> kind, fields |-> [k \in FieldsOf(kind) |->
                                  IF k \in DOMAIN fields THEN fields[k] ELSE {}],
     headers |-> << >>, body |-> {}, extra_headers |-> << >>]

-----------------------------------------------------------------------------
(* Fields that are not text *)

AckText == [Auto |-> <<"auto">>, Client |-> <<"client">>,
            ClientIndividual |-> <<"client-individual">>]

\* How a field is written: an ack mode by its name, a pair of intervals as
\* "x,y", anything else as it is.
TextOf(name, v) ==
    CASE name = "ack"        -> AckText[v]
      [] name = "heart-beat" -> <<Numerals[v[1] + 1], ",", Numerals[v[2] + 1]>>
      [] OTHER               -> v

\* parse_heartbeat: the pair the text stands for, if it does for one.
parse_heartbeat(t) ==
    {p \in (0..4) \X (0..4) : t = <<Numerals[p[1] + 1], ",", Numerals[p[2] + 1]>>}

\* The way back, from the text of a header, if it stands for anything.
ValueOf(name, t) ==
    CASE name = "ack"        -> {m \in DOMAIN AckText : AckText[m] = t}
      [] name = "heart-beat" -> parse_heartbeat(t)
      [] OTHER               -> {t}

-----------------------------------------------------------------------------
(* Message to frame *)

\* Frame::new leaves out the headers that are None.
HeadersOf(kind, fields) ==
    LET names == Layout[kind]
        present == Selected(names, {i \in DOMAIN names : fields[names[i]] # {}})
        text(k) == TextOf(k, CHOOSE v \in fields[k] : TRUE)
    IN  [i \in DOMAIN present |-> [key |-> <<present[i]>>, value |-> text(present[i])]]

\* Fault: the extra headers come first.
add_extra_headersFirst(frame, extra) ==
    [frame EXCEPT !.headers = extra \o @]

\* add_extra_headers: the ones whose names the frame does not have already.
add_extra_headers(frame, extra) ==
    [frame EXCEPT !.headers =
        @ \o Selected(extra, {i \in DOMAIN extra : ~HasKey(frame.headers, extra[i].key)})]

\* ToServer::to_frame. A body of None and an empty one are written alike.
ContentFrame(m) ==
    LET frame == [command |-> CommandOf[m.kind],
                  headers |-> HeadersOf(m.kind, m.fields) \o m.headers,
                  body |-> IF m.body = {} THEN << >> ELSE CHOOSE b \in m.body : TRUE,
                  eol |-> <<"LF">>]
    IN  IF m.kind = "Send" THEN WithLength(frame) ELSE frame

\* Message::to_frame.
to_frame(m) == add_extra_headers(ContentFrame(m), m.extra_headers)

-----------------------------------------------------------------------------
(* Frame to message *)

\* STOMP is another name of CONNECT.
KindOf(command) ==
    {k \in Kinds : CommandOf[k] = IF command = "STOMP" THEN "CONNECT" ELSE command}

\* to_client_msg: the message a frame stands for, or nothing when a mandatory
\* field is missing or a field does not parse.
to_client_msg(f) ==
    {[kind |-> kind,
      fields |-> [k \in FieldsOf(kind) |->
                    UNION {ValueOf(k, t) : t \in Fetch(Unescaped(f), k)}],
      headers |-> IF kind = "Send" THEN Others(Unescaped(f), FieldsOf(kind)) ELSE << >>,
      body |-> IF kind = "Send" THEN f.body ELSE {},
      extra_headers |-> Others(f.headers, FieldsOf(kind))] :
        kind \in {k \in KindOf(f.command) :
                    /\ \A name \in Mandatory[k] : HasKey(f.headers, <<name>>)
                    /\ \A name \in FieldsOf(k) : \A t \in Fetch(Unescaped(f), name) :
                         ValueOf(name, t) # {}}}
=============================================================================
