----------------------------- MODULE WritePump -----------------------------
(***************************************************************************)
(* A heart-beating connection (Transport::Pumped in src/src/client.rs).    *)
(* Three parties run concurrently:                                         *)
(*   - the caller, whose futures (send, feed, send_heartbeat, flush,       *)
(*     close) poll the Pump, its end of the channel, and may be dropped at *)
(*     any await point;                                                    *)
(*   - write_pump, the background task that owns the write half;           *)
(*   - the peer, which drains the socket, or stalls, or resets it.         *)
(* Items are numbered in the order start_send hands them over; an item is  *)
(* a frame, written in FrameChunks pieces, or a heart-beat, a single byte. *)
(* Time is abstracted: the heart-beat timeout may fire whenever it is      *)
(* armed and the channel has nothing to yield.                             *)
(***************************************************************************)
EXTENDS Naturals, Sequences, FiniteSets, Selection

CONSTANTS
    Beating,      \* an outgoing interval was negotiated (interval is Some)
    SlotBuffer,   \* the buffer given to mpsc::channel
    FrameChunks,  \* socket writes it takes to put one frame on the wire
    SockCap,      \* chunks the kernel buffers before writes block
    MaxItems,     \* bound: items the caller hands over
    MaxBeats      \* bound: automatic heart-beats

ASSUME PumpAssumption ==
    /\ Beating \in BOOLEAN
    /\ SlotBuffer \in Nat
    /\ FrameChunks \in Nat \ {0}
    /\ SockCap \in Nat \ {0}
    /\ MaxItems \in Nat
    /\ MaxBeats \in Nat

VARIABLES
    op,       \* the caller's future: what it does, where it is, its item
    ret,      \* how the caller's last future ended
    pending,  \* Pump.pending: the item whose ack is awaited, 0 for None
    items,    \* history: the items handed over, by kind
    ack,      \* ack[n]: the oneshot of item n
    seen,     \* history: items whose result some future has returned
    queue,    \* the mpsc channel: items handed over and not yet received
    open,     \* the channel's is_open flag, shared by both ends
    pump,     \* write_pump: where it is, its item (0: a beat), chunks written
    wire,     \* history: the chunks the socket has taken, in order
    unread,   \* chunks in the kernel's send buffer
    sock      \* the write direction of the socket

callerVars == <<op, ret, pending, items, seen>>
sockVars == <<wire, unread, sock>>
vars == <<op, ret, pending, items, ack, seen, queue, open, pump, wire, unread, sock>>

-----------------------------------------------------------------------------
(* The vocabulary *)

Outgoing == {"Message", "Heartbeat"}
Handing == {"send", "feed", "send_heartbeat"}
Calls == Handing \cup {"flush", "close"}

NoOp == [kind |-> "none", pc |-> "idle", n |-> 0]
Gone == [kind |-> "none", pc |-> "gone", n |-> 0]
NoRet == [kind |-> "none", n |-> 0, res |-> "none"]

KindOf(call) == IF call = "send_heartbeat" THEN "Heartbeat" ELSE "Message"

\* Writes it takes to put item n, or a beat of the pump's own, on the wire.
ChunksOf(n) == IF n = 0 THEN 1 ELSE IF items[n] = "Heartbeat" THEN 1 ELSE FrameChunks

OnWire(n) == \E i \in DOMAIN wire : wire[i].n = n /\ wire[i].k = ChunksOf(n)

Beats == Cardinality({i \in DOMAIN wire : wire[i].n = 0})

Init ==
    /\ op = NoOp /\ ret = NoRet
    /\ pending = 0 /\ items = << >> /\ ack = << >> /\ seen = {}
    /\ queue = << >> /\ open = TRUE
    /\ pump = [pc |-> "wait", n |-> 0, k |-> 0]
    /\ wire = << >> /\ unread = 0 /\ sock = "open"

-----------------------------------------------------------------------------
(* The caller *)

\* The future ends with res and its caller is free again.
Return(res) ==
    /\ op' = NoOp
    /\ ret' = [kind |-> op.kind, n |-> op.n, res |-> res]

\* A future is created: nothing happens until it is polled.
Call(kind) ==
    /\ op.pc = "idle"
    /\ kind \in Handing => Len(items) < MaxItems
    /\ op' = [kind |-> kind, pc |-> IF kind \in Handing THEN "ready" ELSE "flush", n |-> 0]
    /\ ret' = NoRet
    /\ UNCHANGED <<pending, items, ack, seen, queue, open, pump, wire, unread, sock>>

\* Pump::poll_flush: Ready once nothing is pending or the ack has resolved.
SettledOk == pending # 0 => ack[pending] = "ok"
SettledErr == pending # 0 /\ ack[pending] \in {"err", "cancelled"}

\* poll_flush takes pending and hands its result to the future polling it.
Settle ==
    /\ pending' = 0
    /\ seen' = IF pending = 0 THEN seen ELSE seen \cup {pending}

\* Fault: poll_ready asks the channel without settling the item before.
PollReadyUnsettled ==
    /\ op.pc = "ready"
    /\ op' = [op EXCEPT !.pc = "start"]
    /\ UNCHANGED <<ret, pending, items, ack, seen, queue, open, pump, wire, unread, sock>>

\* Pump::poll_ready, as far as its poll_flush: the previous item's result
\* comes first, and an error ends this future before its item is handed over.
PollReady ==
    /\ op.pc = "ready"
    /\ Settle
    /\ \/ /\ SettledOk
          /\ op' = [op EXCEPT !.pc = "start"]
          /\ UNCHANGED ret
       \/ SettledErr /\ Return("err")
    /\ UNCHANGED <<items, ack, queue, open, pump, wire, unread, sock>>

\* Fault: the item goes in without a oneshot of its own.
StartSendUnacked ==
    LET n == Len(items) + 1 IN
    /\ op.pc = "start" /\ open /\ Len(queue) <= SlotBuffer
    /\ items' = Append(items, KindOf(op.kind))
    /\ queue' = Append(queue, n)
    /\ pending' = n
    /\ op' = [kind |-> op.kind, pc |-> "flush", n |-> n]
    /\ UNCHANGED <<ret, ack, seen, open, pump, wire, unread, sock>>

\* The rest of poll_ready and Pump::start_send, in the same poll: the
\* channel is closed, or the item goes in with a fresh oneshot. A sender over
\* the buffer is parked until the receiver takes an item.
StartSend ==
    LET n == Len(items) + 1 IN
    /\ op.pc = "start"
    /\ \/ /\ ~open
          /\ Return("err")
          /\ UNCHANGED <<pending, items, ack, queue>>
       \/ /\ open /\ Len(queue) <= SlotBuffer
          /\ items' = Append(items, KindOf(op.kind))
          /\ ack' = Append(ack, "open")
          /\ queue' = Append(queue, n)
          /\ pending' = n
          /\ IF op.kind = "feed"
             THEN op' = NoOp /\ ret' = [kind |-> "feed", n |-> n, res |-> "ok"]
             ELSE op' = [kind |-> op.kind, pc |-> "flush", n |-> n] /\ UNCHANGED ret
    /\ UNCHANGED <<seen, open, pump, wire, unread, sock>>

\* Fault: flush answers at once, the write still under way.
PollFlushBlind ==
    /\ op.pc = "flush" /\ op.kind # "close"
    /\ Return("ok")
    /\ UNCHANGED <<pending, items, ack, seen, queue, open, pump, wire, unread, sock>>

\* Pump::poll_flush, awaited by send, send_heartbeat and flush.
PollFlush ==
    /\ op.pc = "flush" /\ op.kind # "close"
    /\ Settle
    /\ \/ SettledOk /\ Return("ok")
       \/ SettledErr /\ Return("err")
    /\ UNCHANGED <<items, ack, queue, open, pump, wire, unread, sock>>

\* poll_close of the Sink: flush first, and only then close the channel.
PollClose ==
    /\ op.pc = "flush" /\ op.kind = "close"
    /\ Settle
    /\ \/ SettledOk /\ Return("ok") /\ open' = FALSE
       \/ SettledErr /\ Return("err") /\ UNCHANGED open
    /\ UNCHANGED <<items, ack, queue, pump, wire, unread, sock>>

\* The future is dropped at an await point, or a user of the bare Sink stops
\* between poll_ready and start_send; the Pump keeps what it had.
Cancel ==
    /\ op.pc \in {"ready", "start", "flush"}
    /\ Return("cancelled")
    /\ UNCHANGED <<pending, items, ack, seen, queue, open, pump, wire, unread, sock>>

\* The transport is dropped, and with it the sender and the pending ack.
Drop ==
    /\ op.pc = "idle"
    /\ op' = Gone /\ ret' = NoRet
    /\ pending' = 0
    /\ open' = FALSE
    /\ UNCHANGED <<items, ack, seen, queue, pump, wire, unread, sock>>

-----------------------------------------------------------------------------
(* write_pump *)

\* Fault: the item received stays in the channel.
RecvKeeping ==
    /\ pump.pc = "wait" /\ queue # << >>
    /\ pump' = [pc |-> "write", n |-> Head(queue), k |-> 0]
    /\ UNCHANGED <<callerVars, ack, queue, open, sockVars>>

\* rx.next() yields an item; the timeout polls it before its own timer.
Recv ==
    /\ pump.pc = "wait" /\ queue # << >>
    /\ pump' = [pc |-> "write", n |-> Head(queue), k |-> 0]
    /\ queue' = Tail(queue)
    /\ UNCHANGED <<callerVars, ack, open, sockVars>>

\* Fault: the end of the channel is taken for one more idle round.
RecvNoneLoops ==
    /\ pump.pc = "wait" /\ queue = << >> /\ ~open
    /\ UNCHANGED vars

\* rx.next() yields None: the channel is closed and empty.
RecvNone ==
    /\ pump.pc = "wait" /\ queue = << >> /\ ~open
    /\ pump' = [pump EXCEPT !.pc = "close"]
    /\ UNCHANGED <<callerVars, ack, queue, open, sockVars>>

\* The interval elapses with rx.next() still pending: a beat of the pump's own.
Timeout ==
    /\ Beating /\ Beats < MaxBeats
    /\ pump.pc = "wait" /\ queue = << >> /\ open
    /\ pump' = [pc |-> "write", n |-> 0, k |-> 0]
    /\ UNCHANGED <<callerVars, ack, queue, open, sockVars>>

\* writer.send puts one more chunk in the socket, when the kernel has room.
Write ==
    /\ pump.pc = "write" /\ pump.k < ChunksOf(pump.n)
    /\ sock = "open" /\ unread < SockCap
    /\ wire' = Append(wire, [n |-> pump.n, k |-> pump.k + 1])
    /\ unread' = unread + 1
    /\ pump' = [pump EXCEPT !.k = @ + 1]
    /\ UNCHANGED <<callerVars, ack, queue, open, sock>>

\* Fault: the ack goes out once the write has begun, before the flush.
WriteDoneUnflushed ==
    /\ pump.pc = "write" /\ pump.k >= 1
    /\ pump' = [pump EXCEPT !.pc = "wait"]
    /\ ack' = IF pump.n = 0 THEN ack ELSE [ack EXCEPT ![pump.n] = "ok"]
    /\ UNCHANGED <<callerVars, queue, open, sockVars>>

\* writer.send returns Ok, the item flushed: the ack is answered, if there is
\* one, and the pump goes back to the channel.
WriteDone ==
    /\ pump.pc = "write" /\ pump.k = ChunksOf(pump.n)
    /\ pump' = [pump EXCEPT !.pc = "wait"]
    /\ ack' = IF pump.n = 0 THEN ack ELSE [ack EXCEPT ![pump.n] = "ok"]
    /\ UNCHANGED <<callerVars, queue, open, sockVars>>

\* Fault: the loop goes on after a failed write.
WriteFailContinues ==
    /\ pump.pc = "write" /\ pump.k < ChunksOf(pump.n) /\ sock = "broken"
    /\ pump' = [pump EXCEPT !.pc = "wait"]
    /\ ack' = IF pump.n = 0 THEN ack ELSE [ack EXCEPT ![pump.n] = "err"]
    /\ UNCHANGED <<callerVars, queue, open, sockVars>>

\* writer.send returns an error: the ack carries it, if there is one, and the
\* loop ends.
WriteFail ==
    /\ pump.pc = "write" /\ pump.k < ChunksOf(pump.n) /\ sock = "broken"
    /\ pump' = [pump EXCEPT !.pc = "close"]
    /\ ack' = IF pump.n = 0 THEN ack ELSE [ack EXCEPT ![pump.n] = "err"]
    /\ UNCHANGED <<callerVars, queue, open, sockVars>>

\* Fault: the task ends without dropping what is left in the channel.
ExitLeaking ==
    /\ pump.pc = "close"
    /\ pump' = [pump EXCEPT !.pc = "done"]
    /\ sock' = IF sock = "open" THEN "shut" ELSE sock
    /\ open' = FALSE
    /\ UNCHANGED <<callerVars, ack, queue, wire, unread>>

\* Closing the writer shuts the socket down unless it is broken; then the
\* task ends and drops the receiver, which closes the channel and cancels the
\* oneshot of everything still in it.
Exit ==
    /\ pump.pc = "close"
    /\ pump' = [pump EXCEPT !.pc = "done"]
    /\ sock' = IF sock = "open" THEN "shut" ELSE sock
    /\ open' = FALSE
    /\ queue' = << >>
    /\ ack' = [n \in DOMAIN ack |->
                 IF \E i \in DOMAIN queue : queue[i] = n THEN "cancelled" ELSE ack[n]]
    /\ UNCHANGED <<callerVars, wire, unread>>

-----------------------------------------------------------------------------
(* The peer *)

PeerRead ==
    /\ unread > 0
    /\ unread' = unread - 1
    /\ UNCHANGED <<callerVars, ack, queue, open, pump, wire, sock>>

\* The reset of a peer that is gone comes back: later writes fail.
PeerReset ==
    /\ sock = "open"
    /\ sock' = "broken"
    /\ unread' = 0
    /\ UNCHANGED <<callerVars, ack, queue, open, pump, wire>>

-----------------------------------------------------------------------------
CallerPoll == PollReady \/ StartSend \/ PollFlush \/ PollClose
PumpStep == Recv \/ RecvNone \/ Timeout \/ Write \/ WriteDone \/ WriteFail \/ Exit

Next ==
    \/ \E kind \in Calls : Call(kind)
    \/ CallerPoll
    \/ Cancel
    \/ Drop
    \/ PumpStep
    \/ PeerRead
    \/ PeerReset

Spec == Init /\ [][Next]_vars

\* The executor polls a woken future again, and the pump's task likewise.
CodeFairness == WF_vars(CallerPoll) /\ WF_vars(PumpStep)

\* A peer that goes on reading what it is sent.
FairSpec == Spec /\ CodeFairness /\ WF_vars(PeerRead)

\* A peer that may stop reading for good, its socket still open.
StallSpec == Spec /\ CodeFairness

-----------------------------------------------------------------------------
(* Properties *)

Verdicts == {"open", "ok", "err", "cancelled"}

\* Every variable keeps its type: the oneshots and the items go in pairs, and
\* pending, the channel and the pump refer to items that were handed over.
TypeOK ==
    /\ op \in [kind : Calls \cup {"none"}, pc : {"idle", "ready", "start", "flush", "gone"},
               n : Nat]
    /\ ret \in [kind : Calls \cup {"none"}, n : Nat, res : {"none", "ok", "err", "cancelled"}]
    /\ items \in Seq(Outgoing) /\ ack \in Seq(Verdicts) /\ Len(ack) = Len(items)
    /\ pending \in 0..Len(items) /\ seen \in SUBSET (1..Len(items))
    /\ queue \in Seq(1..Len(items)) /\ open \in BOOLEAN
    /\ pump \in [pc : {"wait", "write", "close", "done"}, n : 0..Len(items), k : Nat]
    /\ wire \in Seq([n : 0..Len(items), k : Nat \ {0}])
    /\ unread \in 0..SockCap /\ sock \in {"open", "broken", "shut"}

\* "There is never more than one write in flight" (establish, on the single
\* slot): whatever the caller calls, drops half way or feeds, the channel and
\* the pump together never hold two items.
OneWriteInFlight ==
    Len(queue) + (IF pump.pc = "write" /\ pump.n # 0 THEN 1 ELSE 0) <= 1

\* "Settling first is what keeps a write result from being dropped unseen"
\* (Pump::poll_ready): of all the items handed over, cancelled sends included,
\* only the pending one can have a result that no future has returned.
NoResultUnseen ==
    op.pc # "gone" => \A n \in DOMAIN items : n # pending => n \in seen

\* "send completes once the message has reached the socket and reports any
\* write error itself" (ClientTransport): Ok means the whole item is in the
\* socket, an error means that it is not and, unless the error stopped it
\* from being handed over, that its own write failed.
SendReportsItsWrite ==
    ret.kind \in {"send", "send_heartbeat"} =>
        /\ ret.res = "ok" => ret.n \in DOMAIN items /\ OnWire(ret.n)
        /\ ret.res = "err" => ret.n = 0 \/ ~OnWire(ret.n)

\* A flush, or a close, that returns Ok leaves no item whose fate is open.
FlushSettles ==
    ret.kind \in {"flush", "close"} /\ ret.res = "ok" =>
        \A n \in DOMAIN ack : ack[n] # "open"

\* Frames go out whole: no beat and no other frame lands inside one, and
\* nothing follows a frame that was cut short by a failed write.
FramesIntact ==
    \A i \in DOMAIN wire :
        IF wire[i].k = 1
        THEN i > 1 => wire[i - 1].k = ChunksOf(wire[i - 1].n)
        ELSE i > 1 /\ wire[i - 1] = [n |-> wire[i].n, k |-> wire[i].k - 1]

\* Items are written in the order they were handed over, each at most once
\* and none skipped: the first chunk of item n comes after some chunk of
\* every earlier item, and after none of a later one.
WireInOrder ==
    \A i \in DOMAIN wire : wire[i].n # 0 /\ wire[i].k = 1 =>
        /\ \A j \in 1..(i - 1) : wire[j].n < wire[i].n
        /\ \A m \in 1..(wire[i].n - 1) : \E j \in 1..(i - 1) : wire[j].n = m

\* The first failed write is the last one tried: write_pump leaves its loop.
\* The caller, who learns of the failure before the task has ended, can get one
\* more item into the channel; that one is cancelled unwritten, and from then
\* on nothing is accepted.
FailureIsFinal ==
    \A m \in DOMAIN ack :
        /\ ack[m] = "err" =>
              \A n \in (m + 1)..Len(ack) : n = m + 1 /\ ack[n] \in {"open", "cancelled"}
        /\ ack[m] = "cancelled" => m = Len(ack)

\* Every future the caller goes on polling ends: no oneshot is left hanging
\* when the pump stops, whichever moment it stops at.
CallsSettle == op.pc \in {"ready", "start", "flush"} ~> op.pc \in {"idle", "gone"}

\* "The pump sees the end of the channel and shuts the socket down"
\* (poll_close): a closed or dropped transport ends the task and the socket's
\* write direction, whatever the task was doing, as long as the peer reads.
ClosedIsShutDown == ~open ~> (pump.pc = "done" /\ sock # "open")

\* What the pump makes of the promise in Outbox: the oneshots are the verdicts.
Verdict == [n \in DOMAIN ack |-> IF ack[n] \in {"err", "cancelled"} THEN "failed" ELSE ack[n]]

O == INSTANCE Outbox WITH verdict <- Verdict

\* The pump and its channel implement Outbox: one item at a time, verdicts
\* that stand, and Ok only behind Ok.
OutboxSpec == O!Spec

\* The last chunk of an item; a beat of the pump's own is none.
Completes(c) == c.n # 0 /\ c.k = ChunksOf(c.n)

\* The items that are wholly in the socket, in the order they got there.
Arrived ==
    Selected([i \in DOMAIN wire |-> wire[i].n], {i \in DOMAIN wire : Completes(wire[i])})

P == INSTANCE Pipe WITH
        Item <- 1..MaxItems, accepted <- [n \in DOMAIN items |-> n], delivered <- Arrived

\* A beating connection implements Pipe: the background task, its beats and
\* the dropped futures change nothing in what arrives, or in which order.
PipeSpec == P!Spec

\* "feed behaves like send rather than buffering" (ClientTransport): a feed
\* that returned Ok has put its message in the socket.
FeedBehavesLikeSend == ret.kind = "feed" /\ ret.res = "ok" => OnWire(ret.n)

\* Dropping the transport closes the connection: the task "has to notice that
\* the transport is gone and shut the socket down rather than leak it"
\* (tests/heartbeat.rs, drop_closes_the_connection).
DropClosesConnection == op.pc = "gone" ~> (pump.pc = "done" /\ sock # "open")
=============================================================================
