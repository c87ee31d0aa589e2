----------------------------- MODULE Disconnect -----------------------------
(***************************************************************************)
(* disconnect (src/src/client.rs), composed with the Sink it sends through *)
(* (Pipe, which both transports implement) and with a server that handles  *)
(* the frames it gets in order, answers those that ask for a receipt, may  *)
(* refuse one with an ERROR, pushes MESSAGEs, closes at any moment, or     *)
(* goes mute with its socket open. Receipts, errors and messages for       *)
(* earlier frames are in flight while disconnect waits; its future may be  *)
(* dropped at any await point and disconnect be called again.              *)
(*                                                                         *)
(* The application follows STOMP: behind a DISCONNECT it sends nothing but *)
(* another DISCONNECT, and the ids it gives to disconnect are its own.     *)
(***************************************************************************)
EXTENDS Naturals, Sequences

CONSTANTS
    Supervised,   \* an incoming interval is watched (supervise is Some)
    AppReceipts,  \* receipt ids of the application's other frames
    Byes,         \* receipt ids given to disconnect
    MaxSends,     \* bound: frames the application sends before
    MaxCalls,     \* bound: calls of disconnect
    MaxPushes     \* bound: MESSAGEs the server pushes

ASSUME DisconnectAssumption ==
    /\ Supervised \in BOOLEAN
    /\ AppReceipts \cap Byes = {}
    /\ MaxSends \in Nat /\ MaxCalls \in Nat /\ MaxPushes \in Nat

VARIABLES
    accepted,   \* the frames handed to the Sink
    delivered,  \* those of them that are in the socket
    processed,  \* how many of those the server has handled
    inbox,      \* what the server has sent and nobody has read
    server,     \* up, closed, or mute: its socket open and nothing in it
    pushes,     \* how many MESSAGEs the server has pushed
    pc,         \* where disconnect is
    bye,        \* its receipt, while it runs
    calls,      \* how often it was called
    ret,        \* how its last call ended
    sock        \* our side: open, closing in the background, or shut

clientVars == <<pc, bye, calls, ret, sock>>
serverVars == <<processed, inbox, server, pushes>>
vars == <<accepted, delivered, processed, inbox, server, pushes, pc, bye, calls, ret, sock>>

-----------------------------------------------------------------------------
(* Frames *)

Option(S) == {{}} \cup {{x} : x \in S}

Send(receipt) == [command |-> "SEND", receipt |-> receipt]
DisconnectFrame(id) == [command |-> "DISCONNECT", receipt |-> {id}]
Receipt(id) == [command |-> "RECEIPT", receipt |-> {id}]
Error == [command |-> "ERROR", receipt |-> {}]
Message == [command |-> "MESSAGE", receipt |-> {}]

ToServer == {Send(r) : r \in Option(AppReceipts)} \cup {DisconnectFrame(id) : id \in Byes}

P == INSTANCE Pipe WITH Item <- ToServer

Disconnecting == \E i \in DOMAIN accepted : accepted[i].command = "DISCONNECT"

Init ==
    /\ P!Init
    /\ processed = 0 /\ inbox = << >> /\ server = "up" /\ pushes = 0
    /\ pc = "idle" /\ bye = {} /\ calls = 0 /\ ret = "none" /\ sock = "open"

-----------------------------------------------------------------------------
(* The application, outside disconnect *)

AppSend ==
    /\ pc = "idle" /\ sock = "open" /\ ~Disconnecting
    /\ Len(accepted) < MaxSends
    /\ \E r \in Option(AppReceipts) : P!Accept(Send(r))
    /\ UNCHANGED <<clientVars, serverVars>>

AppRead ==
    /\ pc = "idle" /\ inbox # << >>
    /\ inbox' = Tail(inbox)
    /\ UNCHANGED <<accepted, delivered, processed, server, pushes, clientVars>>

-----------------------------------------------------------------------------
(* disconnect *)

Call(id) ==
    /\ pc = "idle" /\ calls < MaxCalls
    /\ calls' = calls + 1
    /\ pc' = "send" /\ bye' = {id} /\ ret' = "none"
    /\ UNCHANGED <<accepted, delivered, serverVars, sock>>

Return(res) == pc' = "idle" /\ bye' = {} /\ ret' = res /\ UNCHANGED calls

\* Fault: the DISCONNECT asks for no receipt.
SendDisconnectBare ==
    /\ pc = "send" /\ sock = "open"
    /\ P!Accept([command |-> "DISCONNECT", receipt |-> {}])
    /\ pc' = "flush"
    /\ UNCHANGED <<bye, calls, ret, sock, serverVars>>

\* transport.send: the DISCONNECT is handed over behind everything sent
\* before, or the Sink refuses it, being closed or broken.
SendDisconnect ==
    /\ pc = "send"
    /\ \/ /\ sock = "open"
          /\ \E id \in bye : P!Accept(DisconnectFrame(id))
          /\ pc' = "flush"
          /\ UNCHANGED <<bye, calls, ret, sock>>
       \/ /\ sock # "open" \/ server = "closed"
          /\ Return("err")
          /\ UNCHANGED <<accepted, delivered, sock>>
    /\ UNCHANGED serverVars

\* transport.send returns once everything is in the socket, or with the error
\* of a write to a server that is gone.
Flushed ==
    /\ pc = "flush"
    /\ \/ /\ delivered = accepted
          /\ pc' = "wait"
          /\ UNCHANGED <<bye, calls, ret>>
       \/ server = "closed" /\ Return("err")
    /\ UNCHANGED <<accepted, delivered, serverVars, sock>>

\* Fault: any receipt will do.
NextFrameAnyReceipt ==
    /\ pc = "wait" /\ inbox # << >>
    /\ inbox' = Tail(inbox)
    /\ \/ /\ Head(inbox).command = "RECEIPT"
          /\ pc' = "close" /\ UNCHANGED <<bye, calls, ret>>
       \/ Head(inbox).command = "ERROR" /\ Return("refused")
       \/ /\ Head(inbox).command = "MESSAGE"
          /\ UNCHANGED <<pc, bye, calls, ret>>
    /\ UNCHANGED <<accepted, delivered, processed, server, pushes, sock>>

\* next() yields a message: our receipt, a refusal, or something that was on
\* its way and is discarded.
NextFrame ==
    /\ pc = "wait" /\ inbox # << >>
    /\ inbox' = Tail(inbox)
    /\ \/ /\ Head(inbox) \in {Receipt(id) : id \in bye}
          /\ pc' = "close" /\ UNCHANGED <<bye, calls, ret>>
       \/ Head(inbox).command = "ERROR" /\ Return("refused")
       \/ /\ Head(inbox).command # "ERROR"
          /\ Head(inbox) \notin {Receipt(id) : id \in bye}
          /\ UNCHANGED <<pc, bye, calls, ret>>
    /\ UNCHANGED <<accepted, delivered, processed, server, pushes, sock>>

\* Fault: the end of the stream is waited out.
NextNoneWaits == FALSE /\ UNCHANGED vars

\* next() yields None: the server closed without the receipt.
NextNone ==
    /\ pc = "wait" /\ inbox = << >> /\ server = "closed"
    /\ Return("err")
    /\ UNCHANGED <<accepted, delivered, serverVars, sock>>

\* next() yields the error of poll_server_timeout, as it must for a server
\* that has gone mute.
NextTimeout ==
    /\ pc = "wait" /\ inbox = << >> /\ server = "mute" /\ Supervised
    /\ Return("err")
    /\ UNCHANGED <<accepted, delivered, serverVars, sock>>

\* The same error while the server beats: the application was away for too
\* long, and its reads are judged before they are made (Supervision). It may
\* come at any moment, and nothing makes it come.
FalseAlarm ==
    /\ pc = "wait" /\ Supervised
    /\ Return("err")
    /\ UNCHANGED <<accepted, delivered, serverVars, sock>>

\* transport.close: nothing is left to flush, so that the socket is shut down
\* now or, by the write pump, in the background; a broken one may refuse.
Close ==
    /\ pc = "close"
    /\ \/ Return("ok") /\ sock' \in {"closing", "shut"}
       \/ server = "closed" /\ Return("err") /\ UNCHANGED sock
    /\ UNCHANGED <<accepted, delivered, serverVars>>

\* The future is dropped at an await point.
Cancel ==
    /\ pc \in {"send", "flush", "wait", "close"}
    /\ Return("cancelled")
    /\ UNCHANGED <<accepted, delivered, serverVars, sock>>

-----------------------------------------------------------------------------
(* The Sink and the server *)

Deliver == P!Deliver /\ UNCHANGED <<clientVars, serverVars>>

\* write_pump's end, on a beating connection.
Shutdown ==
    /\ sock = "closing"
    /\ sock' = "shut"
    /\ UNCHANGED <<accepted, delivered, serverVars, pc, bye, calls, ret>>

\* The server handles the next frame and answers it if it asks for a receipt.
Process ==
    /\ server = "up" /\ processed < Len(delivered)
    /\ processed' = processed + 1
    /\ inbox' = inbox \o (LET r == delivered[processed + 1].receipt
                          IN  IF r = {} THEN << >> ELSE <<Receipt(CHOOSE id \in r : TRUE)>>)
    /\ UNCHANGED <<accepted, delivered, server, pushes, clientVars>>

\* It refuses the next frame, and closes, as a server must behind an ERROR.
Refuse ==
    /\ server = "up" /\ processed < Len(delivered)
    /\ inbox' = Append(inbox, Error)
    /\ server' = "closed"
    /\ UNCHANGED <<accepted, delivered, processed, pushes, clientVars>>

Push ==
    /\ server = "up" /\ pushes < MaxPushes
    /\ pushes' = pushes + 1
    /\ inbox' = Append(inbox, Message)
    /\ UNCHANGED <<accepted, delivered, processed, server, clientVars>>

GoAway ==
    /\ server = "up"
    /\ server' \in {"closed", "mute"}
    /\ UNCHANGED <<accepted, delivered, processed, inbox, pushes, clientVars>>

-----------------------------------------------------------------------------
Client == SendDisconnect \/ Flushed \/ NextFrame \/ NextNone \/ NextTimeout \/ Close

Next ==
    \/ AppSend \/ AppRead
    \/ \E id \in Byes : Call(id)
    \/ Client \/ FalseAlarm \/ Cancel
    \/ Deliver \/ Shutdown
    \/ Process \/ Refuse \/ Push \/ GoAway

Spec == Init /\ [][Next]_vars

\* disconnect is polled when it can go on, the Sink writes what it has taken,
\* the kernel having room for it, and a server that stays up handles what it
\* gets. Nothing makes the server answer, close or go mute.
FairSpec ==
    Spec /\ WF_vars(Client) /\ WF_vars(Deliver) /\ WF_vars(Process)

-----------------------------------------------------------------------------
(* Properties *)

\* Every variable keeps its type, and the server handles only what it got.
TypeOK ==
    /\ accepted \in Seq(ToServer) /\ delivered \in Seq(ToServer)
    /\ processed \in 0..Len(delivered)
    /\ inbox \in Seq({Receipt(id) : id \in AppReceipts \cup Byes} \cup {Error, Message})
    /\ server \in {"up", "closed", "mute"} /\ pushes \in 0..MaxPushes
    /\ pc \in {"idle", "send", "flush", "wait", "close"} /\ bye \in Option(Byes)
    /\ calls \in 0..MaxCalls
    /\ ret \in {"none", "ok", "err", "refused", "cancelled"}
    /\ sock \in {"open", "closing", "shut"}

\* "without it the client cannot tell whether the server processed everything
\* it was sent" (disconnect): when disconnect returns Ok, and before it shuts
\* the socket, every frame sent before has been processed, whatever other
\* receipts, dropped calls and retries went before; and when it reports a
\* refusal, the server has left some frame unprocessed.
AnswerIsTrue ==
    /\ ret = "ok" \/ pc = "close" \/ sock # "open" =>
        \A i \in DOMAIN accepted : accepted[i].command = "SEND" => i <= processed
    /\ ret = "refused" => processed < Len(accepted)

\* A disconnect that goes on being polled ends: with the receipt, or a
\* refusal, or the end of the stream, or the report of a mute server.
DisconnectSettles == pc # "idle" ~> pc = "idle"
=============================================================================
