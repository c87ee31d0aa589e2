------------------------------- MODULE Direct -------------------------------
(***************************************************************************)
(* A connection that does not beat (Transport::Direct in                   *)
(* src/src/client.rs): the caller's own futures write the socket, through  *)
(* Framed, which encodes into a write buffer and writes that buffer out    *)
(* when it is flushed or has grown to the backpressure boundary. A future  *)
(* may be dropped at any await point; what it had encoded stays behind in  *)
(* the buffer for the next one. The peer drains the socket, stalls, or     *)
(* resets it.                                                              *)
(*                                                                         *)
(* Items are numbered in the order they are encoded; an item is a frame of *)
(* FrameChunks pieces or a heart-beat, a single byte.                      *)
(***************************************************************************)
EXTENDS Naturals, Sequences, Selection

CONSTANTS
    FrameChunks,  \* pieces of one encoded frame
    Boundary,     \* Framed's backpressure boundary, in pieces
    SockCap,      \* pieces the kernel buffers before writes block
    MaxItems      \* bound: items the caller hands over

ASSUME DirectAssumption ==
    /\ FrameChunks \in Nat \ {0}
    /\ Boundary \in Nat \ {0}
    /\ SockCap \in Nat \ {0}
    /\ MaxItems \in Nat

VARIABLES
    op,      \* the caller's future: what it does, where it is, its item
    ret,     \* how the caller's last future ended
    items,   \* history: the items encoded, by kind
    buffer,  \* Framed's write buffer
    wire,    \* history: the pieces the socket has taken, in order
    unread,  \* pieces in the kernel's send buffer
    sock     \* the write direction of the socket

sockVars == <<wire, unread, sock>>
vars == <<op, ret, items, buffer, wire, unread, sock>>

-----------------------------------------------------------------------------
(* The vocabulary *)

Handing == {"send", "feed", "send_heartbeat"}
Calls == Handing \cup {"flush", "close"}

NoOp == [kind |-> "none", pc |-> "idle", n |-> 0]
Gone == [kind |-> "none", pc |-> "gone", n |-> 0]
NoRet == [kind |-> "none", n |-> 0, res |-> "none"]

\* send_heartbeat is framed.send of a Heartbeat, every other call's item is a
\* message.
KindOf(call) == IF call = "send_heartbeat" THEN "Heartbeat" ELSE "Message"

\* What encode appends to the write buffer for the n-th item.
ChunksOf(kind) == IF kind = "Heartbeat" THEN 1 ELSE FrameChunks
Encoded(n, kind) == [k \in 1..ChunksOf(kind) |-> [n |-> n, k |-> k]]

Init ==
    /\ op = NoOp /\ ret = NoRet
    /\ items = << >> /\ buffer = << >>
    /\ wire = << >> /\ unread = 0 /\ sock = "open"

-----------------------------------------------------------------------------
(* The caller *)

\* The future ends with res and its caller is free again.
Return(res) ==
    /\ op' = NoOp
    /\ ret' = [kind |-> op.kind, n |-> op.n, res |-> res]

\* A future is created: nothing happens until it is polled.
Call(kind) ==
    /\ op.pc = "idle"
    /\ kind \in Handing => Len(items) < MaxItems
    /\ op' = [kind |-> kind, pc |-> IF kind \in Handing THEN "ready" ELSE "flush", n |-> 0]
    /\ ret' = NoRet
    /\ UNCHANGED <<items, buffer, sockVars>>

\* Fault: the Sink is always ready.
PollReadyAlways ==
    /\ op.pc = "ready"
    /\ op' = [op EXCEPT !.pc = "start"]
    /\ UNCHANGED <<ret, items, buffer, sockVars>>

\* poll_ready: a buffer that has reached the boundary is written out first.
PollReady ==
    /\ op.pc = "ready"
    /\ op' = [op EXCEPT !.pc = IF Len(buffer) < Boundary THEN "start" ELSE "drain"]
    /\ UNCHANGED <<ret, items, buffer, sockVars>>

\* It is written out to the end, unless the socket fills up: the poll after
\* that looks at the boundary again.
Drained ==
    /\ op.pc = "drain"
    /\ buffer = << >> \/ (Len(buffer) < Boundary /\ unread = SockCap)
    /\ op' = [op EXCEPT !.pc = "start"]
    /\ UNCHANGED <<ret, items, buffer, sockVars>>

\* Fault: encode starts the buffer over instead of adding to it.
StartSendAfresh ==
    LET n == Len(items) + 1 IN
    /\ op.pc = "start"
    /\ items' = Append(items, KindOf(op.kind))
    /\ buffer' = Encoded(n, KindOf(op.kind))
    /\ IF op.kind = "feed"
       THEN op' = NoOp /\ ret' = [kind |-> "feed", n |-> n, res |-> "ok"]
       ELSE op' = [kind |-> op.kind, pc |-> "flush", n |-> n] /\ UNCHANGED ret
    /\ UNCHANGED sockVars

\* start_send encodes the item behind what the buffer holds; feed is done,
\* send goes on to flush.
StartSend ==
    LET n == Len(items) + 1 IN
    /\ op.pc = "start"
    /\ items' = Append(items, KindOf(op.kind))
    /\ buffer' = buffer \o Encoded(n, KindOf(op.kind))
    /\ IF op.kind = "feed"
       THEN op' = NoOp /\ ret' = [kind |-> "feed", n |-> n, res |-> "ok"]
       ELSE op' = [kind |-> op.kind, pc |-> "flush", n |-> n] /\ UNCHANGED ret
    /\ UNCHANGED sockVars

\* poll_flush puts one more piece in the socket, when the kernel has room.
Write ==
    /\ op.pc \in {"drain", "flush"} /\ buffer # << >>
    /\ sock = "open" /\ unread < SockCap
    /\ wire' = Append(wire, Head(buffer))
    /\ buffer' = Tail(buffer)
    /\ unread' = unread + 1
    /\ UNCHANGED <<op, ret, items, sock>>

\* Fault: a write that fails is tried again.
WriteFailRetries == FALSE /\ UNCHANGED vars

\* The write fails, on a socket that is reset or shut down: the future ends
\* with the error and the buffer keeps the rest.
WriteFail ==
    /\ op.pc \in {"drain", "flush"} /\ buffer # << >>
    /\ sock # "open"
    /\ Return("err")
    /\ UNCHANGED <<items, buffer, sockVars>>

\* poll_flush is through.
Flushed ==
    /\ op.pc = "flush" /\ op.kind # "close" /\ buffer = << >>
    /\ Return("ok")
    /\ UNCHANGED <<items, buffer, sockVars>>

\* Fault: close shuts the socket down without flushing.
ClosedEarly ==
    /\ op.pc = "flush" /\ op.kind = "close"
    /\ Return("ok")
    /\ sock' = "shut"
    /\ UNCHANGED <<items, buffer, wire, unread>>

\* poll_close: once flushed, the socket is shut down. A socket that was reset
\* may refuse that.
Closed ==
    /\ op.pc = "flush" /\ op.kind = "close" /\ buffer = << >>
    /\ \/ Return("ok") /\ sock' = IF sock = "open" THEN "shut" ELSE sock
       \/ sock = "broken" /\ Return("err") /\ UNCHANGED sock
    /\ UNCHANGED <<items, buffer, wire, unread>>

\* The future is dropped at an await point; the buffer stays as it is.
Cancel ==
    /\ op.pc \in {"ready", "drain", "start", "flush"}
    /\ Return("cancelled")
    /\ UNCHANGED <<items, buffer, sockVars>>

\* The transport is dropped, the buffer and the socket with it.
Drop ==
    /\ op.pc = "idle"
    /\ op' = Gone /\ ret' = NoRet
    /\ buffer' = << >>
    /\ sock' = IF sock = "open" THEN "shut" ELSE sock
    /\ UNCHANGED <<items, wire, unread>>

-----------------------------------------------------------------------------
(* The peer *)

PeerRead ==
    /\ unread > 0
    /\ unread' = unread - 1
    /\ UNCHANGED <<op, ret, items, buffer, wire, sock>>

PeerReset ==
    /\ sock = "open"
    /\ sock' = "broken"
    /\ unread' = 0
    /\ UNCHANGED <<op, ret, items, buffer, wire>>

-----------------------------------------------------------------------------
Poll == PollReady \/ Drained \/ StartSend \/ Write \/ WriteFail \/ Flushed \/ Closed

Next ==
    \/ \E kind \in Calls : Call(kind)
    \/ Poll
    \/ Cancel
    \/ Drop
    \/ PeerRead
    \/ PeerReset

Spec == Init /\ [][Next]_vars

\* The executor polls a woken future again, and the peer goes on reading.
FairSpec == Spec /\ WF_vars(Poll) /\ WF_vars(PeerRead)

-----------------------------------------------------------------------------
(* Properties *)

Pieces == [n : 1..Len(items), k : 1..FrameChunks]

\* Every variable keeps its type, and "backpressure" is real: however many
\* messages are fed or sends dropped, the write buffer stays below the
\* boundary and one frame.
TypeOK ==
    /\ op \in [kind : Calls \cup {"none"},
               pc : {"idle", "ready", "drain", "start", "flush", "gone"}, n : 0..Len(items)]
    /\ ret \in [kind : Calls \cup {"none"}, n : 0..Len(items),
                res : {"none", "ok", "err", "cancelled"}]
    /\ items \in Seq({"Message", "Heartbeat"})
    /\ buffer \in Seq(Pieces) /\ Len(buffer) < Boundary + FrameChunks
    /\ wire \in Seq(Pieces)
    /\ unread \in 0..SockCap /\ sock \in {"open", "broken", "shut"}

\* The piece that follows c when the items are written whole and in order.
After(c) ==
    IF c.k < ChunksOf(items[c.n]) THEN [c EXCEPT !.k = @ + 1] ELSE [n |-> c.n + 1, k |-> 1]

\* The socket has taken a prefix of everything that was encoded and the
\* buffer holds the rest: no dropped future tears a frame, loses or repeats
\* one, or lets a later one or a heart-beat in between.
NothingTorn ==
    LET s == wire \o buffer
    IN  op.pc # "gone" =>
            /\ \A i \in DOMAIN s : s[i] = IF i = 1 THEN [n |-> 1, k |-> 1] ELSE After(s[i - 1])
            /\ IF s = << >>
               THEN items = << >>
               ELSE After(s[Len(s)]) = [n |-> Len(items) + 1, k |-> 1]

OnWire(n) == \E i \in DOMAIN wire : wire[i] = [n |-> n, k |-> ChunksOf(items[n])]

\* "send completes once the message has reached the socket and reports any
\* write error itself" (ClientTransport): Ok of a send, a flush or a close
\* means that the item, and all that was fed or left behind before it, is in
\* the socket, and Ok of a close that the socket is shut; an error of a send
\* means that its item is not.
ResultsAreHonest ==
    /\ ret.kind # "feed" /\ ret.res = "ok" =>
        /\ \A n \in DOMAIN items : OnWire(n)
        /\ ret.kind = "close" => sock # "open"
    /\ ret.kind \in {"send", "send_heartbeat"} /\ ret.res = "err" =>
        ret.n = 0 \/ ~OnWire(ret.n)

\* Every future the caller goes on polling ends, also on a socket that is
\* broken or was shut down before.
CallsSettle == op.pc \in {"ready", "drain", "start", "flush"} ~> op.pc \in {"idle", "gone"}

\* The last piece of an item.
Completes(c) == c.k = ChunksOf(items[c.n])

\* The items that are wholly in the socket, in the order they got there.
Arrived ==
    Selected([i \in DOMAIN wire |-> wire[i].n], {i \in DOMAIN wire : Completes(wire[i])})

P == INSTANCE Pipe WITH
        Item <- 1..MaxItems, accepted <- [n \in DOMAIN items |-> n], delivered <- Arrived

\* A direct connection implements Pipe: in order, none skipped, none twice.
PipeSpec == P!Spec
=============================================================================
