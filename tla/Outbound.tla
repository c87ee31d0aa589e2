------------------------------ MODULE Outbound ------------------------------
(***************************************************************************)
(* What an application builds and what a server reads: the Subscriber and  *)
(* Connector builders (src/src/client.rs), whose setters come in any order *)
(* and may be repeated, or a ToServer value written out by hand, then      *)
(* Message::to_frame, the encoder of ClientCodec, and on the other side    *)
(* the parser and to_client_msg.                                           *)
(***************************************************************************)
EXTENDS Messages

CONSTANTS
    SubscriberValues,  \* for each setter of Subscriber, what it may be given
    ConnectorValues,   \* for each setter of Connector, what it may be given
    ByHand,            \* messages the application writes out itself
    MaxCalls           \* bound: calls of setters

\* What a field may be given. CONNECT has no escapes: its texts stay on a line.
OneLine(t) == \A j \in DOMAIN t : t[j] \notin {"CR", "LF"}

Fits(kind, name, v) ==
    CASE name = "ack"        -> v \in DOMAIN AckText
      [] name = "heart-beat" -> v \in (0..4) \X (0..4)
      [] OTHER               -> v \in Seq(STRING) /\ (kind = "Connect" => OneLine(v))

\* The headers it may come with: names are one symbol and need no escape,
\* since nobody unescapes them; one that is named like a field can stand for
\* one; a content-length comes with a body and is its length.
Legible(kind, headers, body) ==
    /\ headers \in Seq([key : Seq(STRING), value : Seq(STRING)])
    /\ \A i \in DOMAIN headers :
        LET key == headers[i].key
            value == headers[i].value
        IN  /\ Len(key) = 1 /\ key[1] \notin {"CR", "LF", ":", "ESC"}
            /\ kind = "Connect" => OneLine(value)
            /\ \A k \in FieldsOf(kind) : key = <<k>> => ValueOf(k, value) # {}
            /\ key = <<"content-length">> =>
                   \E b \in body : Len(b) <= 4 /\ value = <<Numerals[Len(b) + 1]>>

\* The messages an application may write out by hand.
Writable(m) ==
    /\ m.kind \in Kinds /\ DOMAIN m.fields = FieldsOf(m.kind)
    /\ \A k \in FieldsOf(m.kind) : \A v \in m.fields[k] :
        Fits(m.kind, k, v) /\ m.fields[k] = {v}
    /\ \A k \in Mandatory[m.kind] : m.fields[k] # {}
    /\ \A b \in m.body :
        b \in Seq(STRING) /\ m.body = {b} /\ (Contains(b, "NUL") => Len(b) <= 4)
    /\ Legible(m.kind, m.headers, m.body) /\ Legible(m.kind, m.extra_headers, m.body)
    /\ m.kind # "Send" => m.headers = << >> /\ m.body = {}

ASSUME OutboundAssumption ==
    /\ DOMAIN SubscriberValues = {"destination", "id", "ack", "headers"}
    /\ DOMAIN ConnectorValues =
         {"server", "virtualhost", "login", "passcode", "headers", "use_tls",
          "tls_server_name", "max_frame_size", "heartbeat", "auto_heartbeat"}
    /\ \A k \in FieldsOf("Subscribe") : \A v \in SubscriberValues[k] : Fits("Subscribe", k, v)
    /\ \A h \in SubscriberValues.headers : Legible("Subscribe", h, {})
    /\ \A v \in ConnectorValues.virtualhost : Fits("Connect", "host", v)
    /\ \A k \in {"login", "passcode"} : \A v \in ConnectorValues[k] : Fits("Connect", k, v)
    /\ \A v \in ConnectorValues.heartbeat : Fits("Connect", "heart-beat", v)
    /\ \A h \in ConnectorValues.headers : Legible("Connect", h, {})
    /\ \A m \in ByHand : Writable(m)
    /\ MaxCalls \in Nat
    /\ <<"1.2">> \in Seq(STRING)   \* true of every string; stated for the provers

VARIABLES
    pc,       \* what is being built, or how far the message has come
    builder,  \* the Subscriber or Connector; an Option is a set
    last,     \* history: the last call of each setter, if there was one
    calls,    \* how many calls there were
    msg,      \* the message, once there is one
    wire      \* its bytes

vars == <<pc, builder, last, calls, msg, wire>>

-----------------------------------------------------------------------------
(* The builders *)

\* Subscriber::builder and Connector::builder.
NewSubscriber == [destination |-> {}, id |-> {}, ack |-> {}, headers |-> {<< >>}]
NewConnector ==
    [server |-> {}, virtualhost |-> {}, login |-> {}, passcode |-> {}, headers |-> {<< >>},
     use_tls |-> {FALSE}, tls_server_name |-> {}, max_frame_size |-> {"DEFAULT_MAX_FRAME_SIZE"},
     heartbeat |-> {}, auto_heartbeat |-> {TRUE}]

New(what) == IF what = "subscriber" THEN NewSubscriber ELSE NewConnector
Values(what) == IF what = "subscriber" THEN SubscriberValues ELSE ConnectorValues

\* The setters of required fields change the builder's type and so build a new
\* one out of the old one's fields.
destination(s, v) ==
    [destination |-> {v}, id |-> s.id, ack |-> s.ack, headers |-> s.headers]

\* Fault: a builder with an id starts over.
idAfresh(s, v) == [NewSubscriber EXCEPT !.id = {v}, !.destination = s.destination]

id(s, v) ==
    [destination |-> s.destination, id |-> {v}, ack |-> s.ack, headers |-> s.headers]

server(c, v) ==
    [server |-> {v}, virtualhost |-> c.virtualhost, login |-> c.login,
     passcode |-> c.passcode, headers |-> c.headers, use_tls |-> c.use_tls,
     tls_server_name |-> c.tls_server_name, max_frame_size |-> c.max_frame_size,
     heartbeat |-> c.heartbeat, auto_heartbeat |-> c.auto_heartbeat]

virtualhost(c, v) ==
    [server |-> c.server, virtualhost |-> {v}, login |-> c.login,
     passcode |-> c.passcode, headers |-> c.headers, use_tls |-> c.use_tls,
     tls_server_name |-> c.tls_server_name, max_frame_size |-> c.max_frame_size,
     heartbeat |-> c.heartbeat, auto_heartbeat |-> c.auto_heartbeat]

\* The other setters assign their field.
WithField(b, setter, v) ==
    CASE setter = "destination" -> destination(b, v)
      [] setter = "id"          -> id(b, v)
      [] setter = "server"      -> server(b, v)
      [] setter = "virtualhost" -> virtualhost(b, v)
      [] OTHER                  -> [b EXCEPT ![setter] = {v}]

Unwrap(option) == CHOOSE v \in option : TRUE

\* Subscriber::subscribe: the headers become extra headers.
subscribe(s) ==
    [Plain("Subscribe", [destination |-> s.destination, id |-> s.id, ack |-> s.ack])
        EXCEPT !.extra_headers = Unwrap(s.headers)]

\* Connector::msg.
connectMsg(c) ==
    [Plain("Connect", [k \in FieldsOf("Connect") |->
                        CASE k = "accept-version" -> {<<"1.2">>}
                          [] k = "host"           -> c.virtualhost
                          [] k = "login"          -> c.login
                          [] k = "passcode"       -> c.passcode
                          [] k = "heart-beat"     -> c.heartbeat])
        EXCEPT !.extra_headers = Unwrap(c.headers)]

-----------------------------------------------------------------------------
(* The application *)

Init ==
    /\ pc = "start" /\ builder = << >> /\ last = << >> /\ calls = 0
    /\ msg = {} /\ wire = << >>

Start(what) ==
    /\ pc = "start"
    /\ pc' = what /\ builder' = New(what)
    /\ last' = [setter \in DOMAIN Values(what) |-> {}]
    /\ UNCHANGED <<calls, msg, wire>>

Set(setter, v) ==
    /\ calls < MaxCalls
    /\ calls' = calls + 1
    /\ builder' = WithField(builder, setter, v)
    /\ last' = [last EXCEPT ![setter] = {v}]
    /\ UNCHANGED <<pc, msg, wire>>

\* subscribe or msg, which the compiler offers once the required fields are set.
Build ==
    /\ \/ /\ pc = "subscriber" /\ builder.destination # {} /\ builder.id # {}
          /\ msg' = {subscribe(builder)}
       \/ /\ pc = "connector" /\ builder.server # {} /\ builder.virtualhost # {}
          /\ msg' = {connectMsg(builder)}
    /\ pc' = "built"
    /\ UNCHANGED <<builder, last, calls, wire>>

WriteOut ==
    /\ pc = "start"
    /\ \E m \in ByHand : msg' = {m}
    /\ pc' = "built"
    /\ UNCHANGED <<builder, last, calls, wire>>

\* Encoder::encode.
Encode ==
    /\ pc = "built"
    /\ \E m \in msg : wire' = Serialize(to_frame(m))
    /\ pc' = "encoded"
    /\ UNCHANGED <<builder, last, calls, msg>>

Next ==
    \/ \E what \in {"subscriber", "connector"} : Start(what)
    \/ \E what \in {"subscriber", "connector"} :
        /\ pc = what
        /\ \E setter \in DOMAIN Values(what) : \E v \in Values(what)[setter] : Set(setter, v)
    \/ Build \/ WriteOut
    \/ Encode

Spec == Init /\ [][Next]_vars

-----------------------------------------------------------------------------
(* Properties *)

\* What the setters were last given, or the default.
Chosen(what) ==
    [setter \in DOMAIN New(what) |->
        IF last[setter] # {} THEN last[setter] ELSE New(what)[setter]]

\* Every setting is what its setter was last given, or its default: no setter
\* disturbs another, in whatever order they come (Subscriber, Connector).
LastCallStands == pc \in {"subscriber", "connector"} => builder = Chosen(pc)

\* What the application asked for, from its calls rather than from the builder.
Meant ==
    CASE DOMAIN last = DOMAIN NewSubscriber ->
            subscribe(Chosen("subscriber"))
      [] DOMAIN last = DOMAIN NewConnector ->
            LET c == Chosen("connector") IN
            [kind |-> "Connect",
             fields |-> [k \in FieldsOf("Connect") |->
                           CASE k = "accept-version" -> {<<"1.2">>} [] k = "host" -> c.virtualhost
                             [] k = "login" -> c.login [] k = "passcode" -> c.passcode
                             [] OTHER -> c.heartbeat],
             headers |-> << >>, body |-> {}, extra_headers |-> Unwrap(c.headers)]
      [] OTHER -> Unwrap(msg)

\* What a header of this name was given: its field comes before the headers of
\* a SEND, and those before the extra ones.
Given(m, name) ==
    LET texts == Fetch(m.headers \o m.extra_headers, name)
    IN  IF name \notin DOMAIN m.fields THEN texts
        ELSE IF m.fields[name] # {} THEN m.fields[name]
        ELSE UNION {ValueOf(name, t) : t \in texts}

Named(headers) == {headers[i].key[1] : i \in DOMAIN headers}

\* The bytes are the message and nothing else: one frame to the last, the kind,
\* every field and the body come back, so does every header given by another
\* name, escaped on the wire where it must be, and no header that nobody gave
\* but the length of a body that needs one.
IsReadAs(bytes, m) ==
    LET others == Named(m.headers \o m.extra_headers) \ FieldsOf(m.kind)
        needed == IF \E b \in m.body : Contains(b, "NUL") THEN {"content-length"} ELSE {}
        parsed == ParseFrame(bytes)
        text(t) == IF m.kind = "Connect" THEN t ELSE Escape(t)
    IN  /\ parsed.is = "ok" /\ parsed.at = Len(bytes) + 1
        /\ \E r \in to_client_msg(parsed.frame) :
            /\ r.kind = m.kind
            /\ \A k \in FieldsOf(m.kind) : r.fields[k] = Given(m, k)
            /\ r.body = IF m.body = {<< >>} /\ "content-length" \notin others
                        THEN {} ELSE m.body
            /\ \A k \in others :
                /\ Fetch(r.extra_headers, k) = {text(t) : t \in Given(m, k)}
                /\ m.kind = "Send" => Fetch(r.headers, k) = Given(m, k)
            /\ Named(r.extra_headers) = others \cup needed

\* The server reads the message that was meant, from what the encoder makes of
\* what a builder, or the application, put together.
ReadAsMeant == pc = "encoded" => IsReadAs(wire, Meant)
=============================================================================
