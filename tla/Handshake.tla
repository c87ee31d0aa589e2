----------------------------- MODULE Handshake -----------------------------
(***************************************************************************)
(* Connector::connect, establish, accept_connected, negotiate and          *)
(* ClientTransport::new in src/src/client.rs: from the builder's settings  *)
(* to a transport, or to an error, or to nothing when the future is        *)
(* dropped on the way. The peer answers the CONNECT frame with anything,   *)
(* may send more behind its answer and may close at any moment.            *)
(*                                                                         *)
(* An Option is a set with at most one element; a pair of heart-beat       *)
(* intervals is <<what the sender can send, what it wants to receive>>.    *)
(***************************************************************************)
EXTENDS Naturals, Sequences

CONSTANTS
    Intervals,    \* heart-beat intervals in use, zero among them
    CustomBeats,  \* heart-beat values that may stand among the custom headers
    MaxBehind     \* bound: frames the server sends behind its answer

ASSUME HandshakeAssumption ==
    /\ Intervals \subseteq Nat /\ 0 \in Intervals
    /\ CustomBeats \subseteq Intervals \X Intervals
    /\ MaxBehind \in Nat

VARIABLES
    config,     \* the builder's settings
    verified,   \* the name the server's certificate was verified against
    pc,         \* where connect() is
    wiring,     \* how the socket is framed: one framed socket, or two halves
    offered,    \* the CONNECT frame in the socket: its heart-beat header
    inbox,      \* what the server has sent and nobody has read
    buffer,     \* frames read with the answer, left in the read buffer
    behind,     \* history: how many frames the server sent behind its answer
    answer,     \* history: the server's answer
    closed,     \* the server has closed its side
    outgoing,   \* ClientTransport.outgoing
    incoming,   \* ClientTransport.incoming
    supervise,  \* the period of ClientTransport.supervise
    task        \* the write pump, if it was spawned: its interval

clientVars == <<wiring, buffer, outgoing, incoming, supervise, task>>
serverVars == <<inbox, behind, answer, closed>>
vars == <<config, verified, pc, wiring, offered, inbox, buffer, behind, answer, closed,
          outgoing, incoming, supervise, task>>

-----------------------------------------------------------------------------
(* Settings, frames and the negotiation *)

Option(S) == {{}} \cup {{x} : x \in S}

Pairs == Intervals \X Intervals

\* The host in server may be a name, or be the address it stands for already.
Settings == [heartbeat : Option(Pairs), custom : Option(CustomBeats),
             auto_heartbeat : BOOLEAN, use_tls : BOOLEAN,
             server : {"name", "address"}, tls_server_name : Option({"given"})]

\* What the server may answer: CONNECTED, with a version and a heart-beat
\* header that is absent, a pair or unreadable; another frame, an ERROR say;
\* or bytes that are no frame.
Connected == [kind : {"CONNECTED"}, version : {"1.2", "1.1"},
              hb : Option(Pairs \cup {<<"unreadable">>})]
Answers == Connected \cup {[kind |-> "ERROR"], [kind |-> "garbage"]}

\* A frame behind the answer, numbered in the order it was sent.
Behind(i) == [kind |-> "behind", i |-> i]

\* The heart-beat header of the CONNECT frame: msg puts the requested pair
\* there, and add_extra_headers a custom one if the frame has none yet.
HeartbeatHeader == IF config.heartbeat # {} THEN config.heartbeat ELSE config.custom

\* An absent header means no heart-beats in either direction.
PairOf(hb) == IF hb = {} THEN <<0, 0>> ELSE CHOOSE p \in hb : TRUE

MaxOf(a, b) == IF a >= b THEN a ELSE b

\* Fault: the slower of the two, whether or not both sides want it.
negotiateUnchecked(sender, receiver) == {MaxOf(sender, receiver)}

\* One direction: off if either side declines, else the slower of the two.
negotiate(sender, receiver) ==
    IF sender # 0 /\ receiver # 0 THEN {MaxOf(sender, receiver)} ELSE {}

\* accept_connected accepts CONNECTED for 1.2 with a heart-beat header it can
\* read; anything else ends the handshake.
Accepts(reply) ==
    reply.kind = "CONNECTED" /\ reply.version = "1.2" /\ <<"unreadable">> \notin reply.hb

\* Fault: the pump is chosen by what we want to receive.
beatsByReceive == config.auto_heartbeat /\ \E p \in config.heartbeat : p[2] > 0

\* Whether the connection beats on its own is settled before the handshake.
beats == config.auto_heartbeat /\ \E p \in config.heartbeat : p[1] > 0

Init ==
    /\ config \in Settings /\ verified = {}
    /\ pc = "tcp" /\ wiring = "none" /\ offered = {}
    /\ inbox = << >> /\ buffer = << >> /\ behind = 0 /\ answer = {} /\ closed = FALSE
    /\ outgoing = {} /\ incoming = {} /\ supervise = {} /\ task = {}

-----------------------------------------------------------------------------
(* connect() *)

\* connect() returns an error: the socket goes with it.
Fail ==
    /\ pc' = "failed"
    /\ UNCHANGED <<config, verified, offered, clientVars, serverVars>>

\* Fault: TLS is left out when there is no name to verify.
OpenTcpLenient ==
    /\ pc = "tcp"
    /\ pc' = IF config.use_tls /\ config.tls_server_name # {} THEN "tls" ELSE "connect"
    /\ UNCHANGED <<config, verified, offered, clientVars, serverVars>>

\* TcpStream::connect.
OpenTcp ==
    /\ pc = "tcp"
    /\ \/ Fail
       \/ /\ pc' = IF config.use_tls THEN "tls" ELSE "connect"
          /\ UNCHANGED <<config, verified, offered, clientVars, serverVars>>

\* The name to verify: the one that was given, or else the address of the
\* peer, which server has by then been resolved to.
server_name == IF config.tls_server_name # {} THEN config.tls_server_name ELSE {"address"}

\* TLS over it, unless the name is no name or the server's certificate does
\* not bear it.
OpenTls ==
    /\ pc = "tls"
    /\ \/ Fail
       \/ /\ pc' = "connect" /\ verified' = server_name
          /\ UNCHANGED <<config, offered, clientVars, serverVars>>

\* Fault: the pump is spawned on the write half before the answer is in.
SendConnectSpawning ==
    /\ pc = "connect"
    /\ wiring' = IF beats THEN "split" ELSE "framed"
    /\ pc' = "reply" /\ offered' = {HeartbeatHeader}
    /\ task' = IF beats THEN {{}} ELSE {}
    /\ UNCHANGED <<config, verified, buffer, outgoing, incoming, supervise, serverVars>>

\* establish: the socket is framed as a whole, or split when the connection
\* beats, and CONNECT is written and flushed, or the write fails.
SendConnect ==
    /\ pc = "connect"
    /\ wiring' = IF beats THEN "split" ELSE "framed"
    /\ \/ pc' = "reply" /\ offered' = {HeartbeatHeader}
       \/ closed /\ pc' = "failed" /\ UNCHANGED offered
    /\ UNCHANGED <<config, verified, buffer, outgoing, incoming, supervise, task, serverVars>>

\* Fault: the two directions are negotiated the wrong way round.
EstablishedSwapped(reply) ==
    LET c == PairOf(config.heartbeat)
        s == PairOf(reply.hb)
    IN  /\ pc' = "ready"
        /\ outgoing' = negotiate(c[1], s[1])
        /\ incoming' = negotiate(s[2], c[2])
        /\ task' = IF wiring = "split" THEN {outgoing'} ELSE {}
        /\ supervise' = IF config.auto_heartbeat THEN incoming' ELSE {}

\* The rest of establish, and ClientTransport::new: the answer is negotiated
\* against what was requested, the pump is spawned if the socket was split,
\* and the server is supervised if heart-beating is automatic.
Established(reply) ==
    LET c == PairOf(config.heartbeat)
        s == PairOf(reply.hb)
    IN  /\ pc' = "ready"
        /\ outgoing' = negotiate(c[1], s[2])
        /\ incoming' = negotiate(s[1], c[2])
        /\ task' = IF wiring = "split" THEN {outgoing'} ELSE {}
        /\ supervise' = IF config.auto_heartbeat THEN incoming' ELSE {}

\* Fault: the transport gets a read buffer of its own after the handshake.
ReadReplyAfresh ==
    /\ pc = "reply" /\ inbox # << >>
    /\ \E r \in 1..Len(inbox) : inbox' = SubSeq(inbox, r + 1, Len(inbox))
    /\ IF Accepts(Head(inbox))
       THEN Established(Head(inbox))
       ELSE pc' = "failed" /\ UNCHANGED <<outgoing, incoming, supervise, task>>
    /\ UNCHANGED <<config, verified, wiring, offered, buffer, behind, answer, closed>>

\* A read brings in the answer and whatever of what follows it the socket has
\* to give; the frames behind the answer stay in the same read buffer.
ReadReply ==
    /\ pc = "reply" /\ inbox # << >>
    /\ \E r \in 1..Len(inbox) :
        /\ buffer' = SubSeq(inbox, 2, r)
        /\ inbox' = SubSeq(inbox, r + 1, Len(inbox))
    /\ IF Accepts(Head(inbox))
       THEN Established(Head(inbox))
       ELSE pc' = "failed" /\ UNCHANGED <<outgoing, incoming, supervise, task>>
    /\ UNCHANGED <<config, verified, wiring, offered, behind, answer, closed>>

\* Fault: the end of the stream is taken for an answer still on its way.
ReadNothingWaits == FALSE /\ UNCHANGED vars

\* next() yields None: the server closed without an answer.
ReadNothing ==
    /\ pc = "reply" /\ inbox = << >> /\ closed
    /\ Fail

\* The future of connect() is dropped at one of its await points.
DropConnect ==
    /\ pc \in {"tcp", "tls", "connect", "reply"}
    /\ pc' = "dropped"
    /\ UNCHANGED <<config, verified, offered, clientVars, serverVars>>

-----------------------------------------------------------------------------
(* The server *)

Answer ==
    /\ offered # {} /\ answer = {} /\ ~closed
    /\ \E a \in Answers : answer' = {a} /\ inbox' = Append(inbox, a)
    /\ UNCHANGED <<config, verified, pc, offered, clientVars, behind, closed>>

\* More frames behind the answer: a server may go on at once.
GoOn ==
    /\ answer # {} /\ ~closed /\ behind < MaxBehind
    /\ behind' = behind + 1
    /\ inbox' = Append(inbox, Behind(behind + 1))
    /\ UNCHANGED <<config, verified, pc, offered, clientVars, answer, closed>>

Close ==
    /\ ~closed
    /\ closed' = TRUE
    /\ UNCHANGED <<config, verified, pc, offered, clientVars, inbox, behind, answer>>

Client == OpenTcp \/ OpenTls \/ SendConnect \/ ReadReply \/ ReadNothing

Next == Client \/ DropConnect \/ Answer \/ GoOn \/ Close

\* connect() is polled when it can go on, and the server answers or closes:
\* there is no timeout, so connect() waits on a server that does neither.
Spec == Init /\ [][Next]_vars
FairSpec == Spec /\ WF_vars(Client) /\ WF_vars(Answer \/ Close)

-----------------------------------------------------------------------------
(* Properties *)

Spans == Intervals \ {0}

\* Every variable keeps its type. No interval of zero is ever set up: tokio's
\* interval(0) panics.
TypeOK ==
    /\ config \in Settings /\ verified \in Option({"name", "address", "given"})
    /\ pc \in {"tcp", "tls", "connect", "reply", "ready", "failed", "dropped"}
    /\ wiring \in {"none", "framed", "split"}
    /\ offered \in Option(Option(Pairs))
    /\ inbox \in Seq(Answers \cup {Behind(i) : i \in 1..MaxBehind})
    /\ buffer \in Seq(Answers \cup {Behind(i) : i \in 1..MaxBehind})
    /\ behind \in 0..MaxBehind /\ answer \in Option(Answers) /\ closed \in BOOLEAN
    /\ outgoing \in Option(Spans) /\ incoming \in Option(Spans) /\ supervise \in Option(Spans)
    /\ task \in Option(Option(Spans))

\* The choice made before the handshake suits what comes out of it: "the
\* server's answer cannot turn it back on" (connect). A connection that is to
\* beat on its own has a task and watches the server; a task that is there
\* beats at the negotiated interval, and not at all when the server declined;
\* a connection that is not to beat has neither task nor supervision.
AutomaticIsHonoured ==
    pc = "ready" =>
        /\ config.auto_heartbeat /\ outgoing # {} => task # {}
        /\ task \subseteq {outgoing}
        /\ config.auto_heartbeat => supervise = incoming
        /\ ~config.auto_heartbeat => task = {} /\ supervise = {}

\* Both ends come to the same intervals: the server works from the frames it
\* got and sent, the client from its settings and the answer.
EndsAgree ==
    pc = "ready" => \A header \in offered, a \in answer :
        LET c == PairOf(header)
            s == PairOf(a.hb)
            agreed(x, y) == IF x * y = 0 THEN {} ELSE {MaxOf(x, y)}
        IN  outgoing = agreed(c[1], s[2]) /\ incoming = agreed(s[1], c[2])

\* A handshake that fails, or is dropped, leaves no task running.
NoTaskWithoutTransport == task # {} => pc = "ready"

\* Nothing the server sent behind its answer is lost, whichever read it came
\* with: the transport goes on with the reader of the handshake.
NothingBehindIsLost ==
    pc = "ready" => buffer \o inbox = [i \in 1..behind |-> Behind(i)]

\* With use_tls no CONNECT, and so no passcode, goes out before the server's
\* certificate was verified, against the given name if there is one.
NothingInTheClear ==
    config.use_tls /\ offered # {} =>
        verified # {} /\ (config.tls_server_name # {} => verified = config.tls_server_name)

\* connect() ends, also when the server closes instead of answering.
ConnectSettles == <>(pc \in {"ready", "failed", "dropped"})

\* "requested repeats what the CONNECT frame asks for" (establish).
RequestedIsOffered == offered # {} => offered = {config.heartbeat}

\* "Host name to verify the TLS certificate against. Defaults to the host from
\* server" (Connector::tls_server_name).
TlsNameDefaultsToHost ==
    verified # {} /\ config.tls_server_name = {} => verified = {config.server}
=============================================================================
