----------------------------- MODULE KeepAlive -----------------------------
(***************************************************************************)
(* write_pump (src/src/client.rs) in discrete time, composed with the      *)
(* network and with a broker that closes a connection it has not heard     *)
(* from for too long. WritePump has the same loop without time, and with   *)
(* the channel, the acks and the socket in full.                           *)
(*                                                                         *)
(* The application hands over messages and heart-beats of its own whenever *)
(* it likes, or never; a write takes up to MaxWrite, after which it has    *)
(* reached the socket or has failed, and what is in the socket reaches the *)
(* broker within MaxDelay, in order.                                       *)
(***************************************************************************)
EXTENDS Clock, Sequences

CONSTANTS
    Period,    \* the negotiated outgoing interval
    MaxWrite,  \* how long the socket takes to accept a write
    MaxDelay,  \* how long the network takes
    MaxNet     \* bound: writes in flight when the application hands over more

ASSUME KeepAliveAssumption ==
    /\ Period \in Nat \ {0}
    /\ MaxWrite \in Nat /\ MaxDelay \in Nat
    /\ MaxNet \in Nat

VARIABLES
    queue,     \* the channel: what was handed over and not yet received
    open,      \* the transport is there
    pump,      \* write_pump: waiting, writing what, or done
    deadline,  \* when the timeout around rx.next() elapses
    started,   \* when the write under way began
    framed,    \* history: when a message last went out
    net,       \* when each write in flight left us
    heard      \* when the broker last heard from us

vars == <<now, queue, open, pump, deadline, started, framed, net, heard>>

Kinds == {"Message", "Heartbeat"}

\* Fault: beats are timed from one another, as an interval would.
ArmSteady == deadline' = IF deadline <= now THEN now + Period ELSE deadline

\* Fault: the pump beats at the interval it grants the other side.
ArmTwice == deadline' = now + 2 * Period

\* Every pass of the loop arms the timeout anew.
Arm == deadline' = now + Period

\* establish: the CONNECT frame has just been answered.
Init ==
    /\ now = 0 /\ queue = << >> /\ open = TRUE
    /\ pump = "wait" /\ deadline = Period /\ started = 0
    /\ framed = 0 /\ net = << >> /\ heard = 0

-----------------------------------------------------------------------------
(* The application: it settles one item before it hands over the next *)

\* Fault: an item is handed over with the one before it still unsettled.
HandOverUnsettled(kind) ==
    /\ open /\ Len(net) < MaxNet
    /\ queue' = Append(queue, kind)
    /\ UNCHANGED <<now, open, pump, deadline, started, framed, net, heard>>

HandOver(kind) ==
    /\ open /\ queue = << >> /\ pump \in {"wait", "beat"}
    /\ Len(net) < MaxNet
    /\ queue' = <<kind>>
    /\ UNCHANGED <<now, open, pump, deadline, started, framed, net, heard>>

\* The transport is closed or dropped.
Drop ==
    /\ open
    /\ open' = FALSE
    /\ UNCHANGED <<now, queue, pump, deadline, started, framed, net, heard>>

-----------------------------------------------------------------------------
(* write_pump *)

\* rx.next() yields an item, or nothing more. The timeout polls it before its
\* timer, so that an item that is there when the timer fires goes first.
Recv ==
    /\ pump = "wait"
    /\ \/ queue # << >> /\ pump' = Head(queue) /\ queue' = Tail(queue)
       \/ queue = << >> /\ ~open /\ pump' = "done" /\ UNCHANGED queue
    /\ started' = now
    /\ UNCHANGED <<now, open, deadline, framed, net, heard>>

\* The interval elapses: a beat of the pump's own.
Timeout ==
    /\ pump = "wait" /\ queue = << >> /\ open
    /\ deadline <= now
    /\ pump' = "beat" /\ started' = now
    /\ UNCHANGED <<now, queue, open, deadline, framed, net, heard>>

Writing == pump \in Kinds \cup {"beat"}

\* The write has reached the socket, and the loop goes round.
WriteDone ==
    /\ Writing
    /\ pump' = "wait"
    /\ Arm
    /\ framed' = IF pump = "Message" THEN now ELSE framed
    /\ net' = Append(net, now)
    /\ UNCHANGED <<now, queue, open, started, heard>>

\* The write has failed, and the loop ends.
WriteFail ==
    /\ Writing
    /\ pump' = "done"
    /\ queue' = << >> /\ open' = FALSE
    /\ UNCHANGED <<now, deadline, started, framed, net, heard>>

-----------------------------------------------------------------------------
(* The network and the clock *)

Arrive ==
    /\ net # << >>
    /\ net' = Tail(net)
    /\ heard' = now
    /\ UNCHANGED <<now, queue, open, pump, deadline, started, framed>>

\* A woken task is polled before the clock moves on, a write ends within
\* MaxWrite and what was written arrives within MaxDelay.
Pass ==
    /\ now < MaxTime
    /\ pump = "wait" => queue = << >> /\ open /\ now < deadline
    /\ Writing => now < started + MaxWrite
    /\ net # << >> => now < Head(net) + MaxDelay
    /\ now' = now + 1
    /\ UNCHANGED <<queue, open, pump, deadline, started, framed, net, heard>>

Next ==
    \/ \E kind \in Kinds : HandOver(kind)
    \/ Drop
    \/ Recv \/ Timeout \/ WriteDone \/ WriteFail
    \/ Arrive \/ Pass

Spec == Init /\ [][Next]_vars

-----------------------------------------------------------------------------
(* Properties *)

\* Every variable keeps its type: one slot is enough, nothing is stamped in the
\* future and what is in flight left us in order.
TypeOK ==
    /\ now \in Nat /\ queue \in Seq(Kinds) /\ Len(queue) <= 1 /\ open \in BOOLEAN
    /\ pump \in {"wait", "beat", "done"} \cup Kinds
    /\ deadline \in Nat /\ started \in 0..now /\ framed \in 0..now /\ heard \in 0..now
    /\ net \in Seq(0..now)
    /\ \A i, j \in DOMAIN net : i < j => net[i] <= net[j]

\* "No heart-beat is sent if an ordinary frame went out within the interval"
\* (README): when the pump beats, no message went out less than one interval
\* before, at whatever moment it was handed over and however long the writes
\* around it took.
NoBeatNearFrame == pump = "beat" => started >= framed + Period

\* "an idle connection stays alive without the application having to poll it"
\* (README): as long as the pump runs, the broker hears from us at least once
\* in an interval and the time one write and the network take.
BrokerHearsUs == pump # "done" => now <= heard + Period + MaxWrite + MaxDelay
=============================================================================
