-------------------------- MODULE WritePumpProofs --------------------------
(***************************************************************************)
(* Proofs about WritePump, for every value of its constants: any slot      *)
(* buffer, any number of chunks per frame, any kernel buffer, any number   *)
(* of items and beats, beating or not.                                     *)
(*                                                                         *)
(* The inductive invariant Inv has one part per idea. None of the          *)
(* properties is inductive by itself: that no result is lost needs to know *)
(* that at most one item is in flight, which needs to know that pending is *)
(* empty whenever start_send runs, and what a oneshot says of the wire     *)
(* needs both.                                                             *)
(***************************************************************************)
EXTENDS WritePump, Lemmas

-----------------------------------------------------------------------------
(* The inductive invariant *)

\* The caller's future: where it is tells what it carries, and pending is
\* the last item handed over or nothing.
CallerInv ==
    /\ op.pc \in {"ready", "start"} => op.kind \in Handing /\ op.n = 0
    /\ op.pc = "flush" => op.kind \in Calls \ {"feed"}
    /\ op.pc \in {"ready", "start", "flush"} => ret = NoRet
    /\ op.pc = "start" => pending = 0
    /\ op.pc = "gone" => pending = 0 /\ ~open
    /\ pending # 0 => pending = Len(items)
    /\ op.pc = "flush" /\ op.kind \in {"send", "send_heartbeat"} => op.n = pending /\ pending # 0

\* The pump is writing the item n.
Writing(n) == pump.pc = "write" /\ pump.n = n

\* An item whose fate is open is the last one, is in exactly one place, and
\* is the pending one for as long as there is a transport.
InFlightInv ==
    /\ \A n \in DOMAIN ack : ack[n] = "open" =>
          /\ n = Len(items)
          /\ queue = <<n>> \/ Writing(n)
          /\ op.pc # "gone" => n = pending
    /\ queue # << >> => queue = <<Len(items)>> /\ ack[Len(items)] = "open"
    /\ pump.pc = "write" /\ pump.n # 0 =>
          pump.n = Len(items) /\ ack[pump.n] = "open" /\ queue = << >>

\* A failure ends the loop.
FailedInv ==
    (\E n \in DOMAIN ack : ack[n] \in {"err", "cancelled"}) => pump.pc \in {"close", "done"}

\* What the oneshots say of the wire: Ok means that the whole item is in the
\* socket, and an item is in the socket only if its oneshot says so or is
\* about to.
WrittenInv ==
    /\ pump.pc = "write" => pump.k <= ChunksOf(pump.n)
    /\ pump.pc = "write" /\ pump.k = ChunksOf(pump.n) => OnWire(pump.n)
    /\ \A n \in DOMAIN ack : ack[n] = "ok" => OnWire(n)
    /\ \A n \in DOMAIN ack : OnWire(n) =>
          ack[n] = "ok" \/ (Writing(n) /\ pump.k = ChunksOf(n))

\* What a future returned is what the oneshot of its item says.
ReportInv ==
    ret.kind \in {"send", "send_heartbeat"} =>
        /\ ret.res = "ok" => ret.n \in DOMAIN ack /\ ack[ret.n] = "ok"
        /\ ret.res = "err" /\ ret.n # 0 =>
              ret.n \in DOMAIN ack /\ ack[ret.n] \in {"err", "cancelled"}

\* Bytes of an unsettled item are on the wire only if it is being written.
StartedInv ==
    \A i \in DOMAIN wire : wire[i].n # 0 /\ ack[wire[i].n] = "open" =>
        Writing(wire[i].n) /\ pump.k >= 1

\* The last chunk on the wire: the pump's own inside an item, and the end of
\* some item between two.
LastChunkInv ==
    /\ pump.pc = "write" /\ pump.k >= 1 =>
          wire # << >> /\ wire[Len(wire)] = [n |-> pump.n, k |-> pump.k]
    /\ (pump.pc = "wait" \/ (pump.pc = "write" /\ pump.k = 0)) /\ wire # << >> =>
          wire[Len(wire)].k = ChunksOf(wire[Len(wire)].n)

Inv ==
    /\ TypeOK /\ CallerInv /\ InFlightInv /\ FailedInv
    /\ NoResultUnseen /\ FlushSettles
    /\ WrittenInv /\ ReportInv
    /\ StartedInv /\ LastChunkInv /\ FramesIntact /\ WireInOrder

-----------------------------------------------------------------------------
(* Type correctness *)

LEMMA TypeInit == Init => TypeOK
BY PumpAssumption DEF Init, TypeOK, NoOp, NoRet, Calls, Handing, Outgoing, Verdicts

\* What TypeOK says of the caller, of its oneshots and of the pump.
CallerType ==
    /\ op \in [kind : Calls \cup {"none"}, pc : {"idle", "ready", "start", "flush", "gone"},
               n : Nat]
    /\ ret \in [kind : Calls \cup {"none"}, n : Nat, res : {"none", "ok", "err", "cancelled"}]
    /\ pending \in 0..Len(items) /\ seen \in SUBSET (1..Len(items)) /\ open \in BOOLEAN
AckType == items \in Seq(Outgoing) /\ ack \in Seq(Verdicts) /\ Len(ack) = Len(items)
PumpType == pump \in [pc : {"wait", "write", "close", "done"}, n : 0..Len(items), k : Nat]
QueueType == queue \in Seq(1..Len(items))
SockType ==
    /\ wire \in Seq([n : 0..Len(items), k : Nat \ {0}])
    /\ unread \in 0..SockCap /\ sock \in {"open", "broken", "shut"}

LEMMA TypeParts == TypeOK <=> CallerType /\ AckType /\ PumpType /\ QueueType /\ SockType
BY DEF TypeOK, CallerType, AckType, PumpType, QueueType, SockType

LEMMA TypePartsNext ==
    (CallerType /\ AckType /\ PumpType /\ QueueType /\ SockType)' => TypeOK'
BY DEF TypeOK, CallerType, AckType, PumpType, QueueType, SockType

LEMMA TypeNext == TypeOK /\ [Next]_vars => TypeOK'
<1> SUFFICES ASSUME TypeOK, [Next]_vars PROVE TypeOK'
    OBVIOUS
<1>0. CallerType /\ AckType /\ PumpType /\ QueueType /\ SockType
    BY TypeParts
<1>a. ASSUME UNCHANGED <<items, ack, queue, pump, wire, unread, sock>>, CallerType'
      PROVE  TypeOK'
    BY <1>0, <1>a, TypePartsNext DEF AckType, PumpType, QueueType, SockType
<1>b. ASSUME UNCHANGED <<op, ret, pending, items, seen>>, open' \in BOOLEAN,
             AckType', PumpType', QueueType', SockType'
      PROVE  TypeOK'
    BY <1>0, <1>b, TypePartsNext DEF CallerType
<1>1. CASE \E kind \in Calls : Call(kind)
  <2>1. CallerType'
      BY <1>0, <1>1 DEF CallerType, Call, NoRet, Calls, Handing
  <2> QED  BY <1>1, <1>a, <2>1 DEF Call
<1>2. CASE PollReady \/ PollFlush \/ PollClose
  <2>1. CASE PollReady
    <3>1. CallerType'
        BY <1>0, <2>1 DEF CallerType, PollReady, Settle, Return, NoOp
    <3> QED  BY <2>1, <1>a, <3>1 DEF PollReady
  <2>2. CASE PollFlush
    <3>1. CallerType'
        BY <1>0, <2>2 DEF CallerType, PollFlush, Settle, Return, NoOp
    <3> QED  BY <2>2, <1>a, <3>1 DEF PollFlush
  <2>3. CASE PollClose
    <3>1. open' \in BOOLEAN /\ op' = NoOp /\ pending' = 0 /\ items' = items
        BY <1>0, <2>3 DEF CallerType, PollClose, Settle, Return
    <3>2. ret' \in [kind : Calls \cup {"none"}, n : Nat, res : {"none", "ok", "err", "cancelled"}]
        BY <1>0, <2>3 DEF CallerType, PollClose, Return
    <3>3. seen' \in SUBSET (1..Len(items))
        BY <1>0, <2>3 DEF CallerType, PollClose, Settle
    <3>4. CallerType'
        BY <1>0, <3>1, <3>2, <3>3 DEF CallerType, AckType, NoOp
    <3> QED  BY <2>3, <1>a, <3>4 DEF PollClose
  <2> QED  BY <1>2, <2>1, <2>2, <2>3
<1>3. CASE StartSend
  <2>1. CASE ~open
    <3>1. CallerType'
        BY <1>0, <1>3, <2>1 DEF CallerType, StartSend, Return, NoOp
    <3> QED  BY <1>3, <2>1, <1>a, <3>1 DEF StartSend
  <2>2. CASE open
    <3>a. /\ items' = Append(items, KindOf(op.kind)) /\ ack' = Append(ack, "open")
          /\ queue' = Append(queue, Len(items) + 1) /\ pending' = Len(items) + 1
          /\ UNCHANGED <<seen, open, pump, wire, unread, sock>>
        BY <1>3, <2>2 DEF StartSend
    <3>b. KindOf(op.kind) \in Outgoing
        BY DEF KindOf, Outgoing
    <3>c. Len(items) \in Nat
        BY <1>0 DEF AckType
    <3>0. AckType' /\ Len(items') = Len(items) + 1
        BY <1>0, <3>a, <3>b DEF AckType, Verdicts
    <3>1. CallerType'
      <4>1. pending' \in 0..Len(items') /\ seen' \in SUBSET (1..Len(items')) /\ open' \in BOOLEAN
          BY <1>0, <3>0, <3>a, <3>c DEF CallerType
      <4>2. CASE op.kind = "feed"
          BY <1>0, <1>3, <2>2, <3>c, <4>1, <4>2 DEF CallerType, StartSend, NoOp, Calls, Handing
      <4>3. CASE op.kind # "feed"
        <5>1. op' = [kind |-> op.kind, pc |-> "flush", n |-> Len(items) + 1] /\ ret' = ret
            BY <1>3, <2>2, <4>3 DEF StartSend
        <5>2. op' \in [kind : Calls \cup {"none"}, n : Nat,
                       pc : {"idle", "ready", "start", "flush", "gone"}]
            BY <1>0, <3>c, <5>1 DEF CallerType
        <5> QED  BY <1>0, <4>1, <5>1, <5>2 DEF CallerType
      <4> QED  BY <4>2, <4>3
    <3>2. PumpType'
        BY <1>0, <1>3, <3>0 DEF PumpType, AckType, StartSend
    <3>3. QueueType'
      <4>1. queue \in Seq(1..Len(items'))
          BY <1>0, <3>0, SeqMonotonic DEF QueueType, AckType
      <4>2. Len(items) + 1 \in 1..Len(items')
          BY <3>0, <3>c
      <4> QED  BY <3>a, <4>1, <4>2 DEF QueueType
    <3>4. SockType'
      <4>1. [n : 0..Len(items), k : Nat \ {0}] \subseteq [n : 0..Len(items'), k : Nat \ {0}]
          BY <1>0, <3>0 DEF AckType
      <4>2. wire \in Seq([n : 0..Len(items'), k : Nat \ {0}])
          BY <1>0, <4>1, SeqMonotonic DEF SockType
      <4> QED  BY <1>0, <1>3, <4>2 DEF SockType, StartSend
    <3> QED  BY <3>0, <3>1, <3>2, <3>3, <3>4, TypePartsNext
  <2> QED  BY <2>1, <2>2
<1>4. CASE Cancel \/ Drop
  <2>1. Cancel => CallerType'
      BY <1>0 DEF CallerType, Cancel, Return, NoOp
  <2>2. Drop => CallerType'
    <3>0. Drop => open' \in BOOLEAN
        BY DEF Drop
    <3>1. Drop => pending' \in 0..Len(items') /\ seen' \in SUBSET (1..Len(items'))
        BY <1>0 DEF CallerType, AckType, Drop
    <3>2. Gone \in [kind : Calls \cup {"none"}, n : Nat,
                    pc : {"idle", "ready", "start", "flush", "gone"}]
        BY DEF Gone
    <3>3. NoRet \in [kind : Calls \cup {"none"}, n : Nat,
                     res : {"none", "ok", "err", "cancelled"}]
        BY DEF NoRet
    <3> QED  BY <3>0, <3>1, <3>2, <3>3 DEF CallerType, Drop
  <2> QED  BY <1>4, <1>a, <2>1, <2>2 DEF Cancel, Drop
<1>5. CASE Recv
  <2>1. PumpType' /\ QueueType'
      BY <1>0, <1>5 DEF PumpType, QueueType, AckType, Recv, callerVars
  <2> QED  BY <1>0, <1>5, <1>b, <2>1 DEF Recv, callerVars, sockVars, AckType, SockType, CallerType
<1>6. CASE RecvNone \/ Timeout
  <2>1. PumpType'
      BY <1>0, <1>6 DEF PumpType, AckType, RecvNone, Timeout, callerVars
  <2> QED
      BY <1>0, <1>6, <1>b, <2>1
      DEF RecvNone, Timeout, callerVars, sockVars, AckType, SockType, QueueType, CallerType
<1>7. CASE Write
  <2>1. pump' = [pump EXCEPT !.k = @ + 1] /\ items' = items
      BY <1>7 DEF Write, callerVars
  <2>2. PumpType'
      BY <1>0, <2>1 DEF PumpType
  <2>3. wire' \in Seq([n : 0..Len(items), k : Nat \ {0}])
    <3>1. wire' = Append(wire, [n |-> pump.n, k |-> pump.k + 1])
        BY <1>7 DEF Write
    <3> QED  BY <1>0, <3>1 DEF SockType, PumpType
  <2>4. unread' \in 0..SockCap /\ sock' = sock
      BY <1>0, <1>7, PumpAssumption DEF SockType, Write
  <2>5. SockType'
      BY <1>0, <2>1, <2>3, <2>4 DEF SockType
  <2> QED  BY <1>0, <1>7, <1>b, <2>2, <2>5 DEF Write, callerVars, AckType, QueueType, CallerType
<1>8. CASE WriteDone \/ WriteFail
  <2>1. PumpType'
      BY <1>0, <1>8 DEF PumpType, WriteDone, WriteFail, callerVars
  <2>2. AckType'
    <3>1. /\ items' = items
          /\ \E v \in {"ok", "err"} : ack' = IF pump.n = 0 THEN ack ELSE [ack EXCEPT ![pump.n] = v]
        BY <1>8 DEF WriteDone, WriteFail, callerVars
    <3>2. /\ items \in Seq(Outgoing) /\ ack \in Seq(Verdicts) /\ Len(ack) = Len(items)
          /\ pump.n \in 0..Len(items) /\ Len(items) \in Nat
        BY <1>0 DEF AckType, PumpType
    <3>3. PICK v \in Verdicts : ack' = IF pump.n = 0 THEN ack ELSE [ack EXCEPT ![pump.n] = v]
        BY <3>1 DEF Verdicts
    <3>4. ack' \in Seq(Verdicts) /\ Len(ack') = Len(ack)
      <4>1. CASE pump.n = 0
          BY <3>2, <3>3, <4>1
      <4>2. CASE pump.n # 0
        <5>1. pump.n \in 1..Len(ack)
            BY <3>2, <4>2
        <5> QED  BY <3>2, <3>3, <4>2, <5>1, ExceptSeq
      <4> QED  BY <4>1, <4>2
    <3> QED  BY <3>1, <3>2, <3>4 DEF AckType
  <2> QED
      BY <1>0, <1>8, <1>b, <2>1, <2>2
      DEF WriteDone, WriteFail, callerVars, sockVars, SockType, QueueType, CallerType
<1>9. CASE Exit
  <2>1. PumpType'
      BY <1>0, <1>9 DEF PumpType, Exit, callerVars
  <2>2. AckType'
      BY <1>0, <1>9 DEF AckType, Exit, callerVars, Verdicts
  <2>3. QueueType' /\ SockType'
      BY <1>0, <1>9 DEF QueueType, SockType, Exit, callerVars
  <2> QED  BY <1>9, <1>b, <2>1, <2>2, <2>3 DEF Exit, callerVars
<1>10. CASE PeerRead \/ PeerReset
  <2>1. unread' \in 0..SockCap /\ sock' \in {"open", "broken", "shut"}
      BY <1>0, <1>10, PumpAssumption DEF SockType, PeerRead, PeerReset
  <2>2. SockType'
      BY <1>0, <1>10, <2>1 DEF SockType, PeerRead, PeerReset, callerVars
  <2> QED
      BY <1>0, <1>10, <1>b, <2>2
      DEF PeerRead, PeerReset, callerVars, AckType, PumpType, QueueType, CallerType
<1>11. CASE UNCHANGED vars
    BY <1>11 DEF TypeOK, vars
<1> QED
    BY <1>1, <1>2, <1>3, <1>4, <1>5, <1>6, <1>7, <1>8, <1>9, <1>10, <1>11
    DEF Next, CallerPoll, PumpStep

\* Every reachable state is well typed, for every value of the constants: in
\* particular the oneshots pair up with the items and the kernel buffer holds.
THEOREM TypeCorrect == Spec => []TypeOK
BY TypeInit, TypeNext, PTL DEF Spec

-----------------------------------------------------------------------------
(* The caller *)

LEMMA CallerNext ==
    ASSUME TypeOK, CallerInv, [Next]_vars
    PROVE  CallerInv'
<1>0. CallerType /\ AckType
    BY TypeParts
<1>1. CASE \E kind \in Calls : Call(kind)
    BY <1>0, <1>1 DEF CallerInv, CallerType, Call, NoRet, Calls, Handing
<1>2. CASE PollReady
    BY <1>0, <1>2 DEF CallerInv, CallerType, PollReady, Settle, Return, NoOp
<1>3. CASE StartSend
  <2>1. CASE ~open
      BY <1>0, <1>3, <2>1 DEF CallerInv, CallerType, StartSend, Return, NoOp
  <2>2. CASE open
    <3>1. Len(items') = Len(items) + 1 /\ pending' = Len(items) + 1 /\ Len(items) \in Nat
        BY <1>0, <1>3, <2>2 DEF StartSend, AckType
    <3>2. CASE op.kind = "feed"
      <4>1. op' = NoOp
          BY <1>3, <2>2, <3>2 DEF StartSend
      <4> QED  BY <3>1, <4>1 DEF CallerInv, NoOp
    <3>3. CASE op.kind # "feed"
      <4>1. op' = [kind |-> op.kind, pc |-> "flush", n |-> Len(items) + 1] /\ ret' = ret
            /\ op.pc = "start"
          BY <1>3, <2>2, <3>3 DEF StartSend
      <4> QED  BY <3>1, <3>3, <4>1 DEF CallerInv, Calls, NoRet
    <3> QED  BY <3>2, <3>3
  <2> QED  BY <2>1, <2>2
<1>4. CASE PollFlush
    BY <1>4 DEF CallerInv, PollFlush, Settle, Return, NoOp
<1>5. CASE PollClose
    BY <1>5 DEF CallerInv, PollClose, Settle, Return, NoOp
<1>6. CASE Cancel \/ Drop
    BY <1>6 DEF CallerInv, Cancel, Drop, Return, NoOp, Gone
<1>7. CASE PumpStep \/ PeerRead \/ PeerReset
  <2>1. UNCHANGED callerVars /\ (open' = open \/ ~open')
      BY <1>7 DEF PumpStep, Recv, RecvNone, Timeout, Write, WriteDone, WriteFail, Exit,
                  PeerRead, PeerReset
  <2> QED  BY <2>1 DEF CallerInv, callerVars, NoRet
<1>8. CASE UNCHANGED vars
    BY <1>8 DEF CallerInv, vars, NoRet
<1> QED
    BY <1>1, <1>2, <1>3, <1>4, <1>5, <1>6, <1>7, <1>8 DEF Next, CallerPoll

\* A result is returned to some future before the next item is handed over.
LEMMA UnseenNext ==
    ASSUME TypeOK, CallerInv, NoResultUnseen, [Next]_vars
    PROVE  NoResultUnseen'
<1>0. CallerType /\ AckType
    BY TypeParts
<1>1. CASE PollReady \/ PollFlush \/ PollClose
    BY <1>0, <1>1 DEF NoResultUnseen, PollReady, PollFlush, PollClose, Settle, Return, NoOp
<1>2. CASE StartSend
  <2>1. CASE ~open
      BY <1>2, <2>1 DEF NoResultUnseen, StartSend, Return, NoOp
  <2>2. CASE open
    <3>1. items' = Append(items, KindOf(op.kind)) /\ pending' = Len(items) + 1 /\ seen' = seen
          /\ op.pc = "start"
        BY <1>2, <2>2 DEF StartSend
    <3>2. \A n \in DOMAIN items : n \in seen
        BY <1>0, <3>1 DEF CallerInv, NoResultUnseen, AckType
    <3>3. DOMAIN items' = DOMAIN items \cup {Len(items) + 1}
        BY <1>0, <3>1 DEF AckType, KindOf
    <3> QED  BY <3>1, <3>2, <3>3 DEF NoResultUnseen
  <2> QED  BY <2>1, <2>2
<1>3. CASE Cancel \/ Drop
    BY <1>3 DEF NoResultUnseen, Cancel, Drop, Return, Gone
<1>4. CASE \E kind \in Calls : Call(kind)
    BY <1>4 DEF NoResultUnseen, Call
<1>5. CASE PumpStep \/ PeerRead \/ PeerReset
  <2>1. UNCHANGED callerVars
      BY <1>5 DEF PumpStep, Recv, RecvNone, Timeout, Write, WriteDone, WriteFail, Exit,
                  PeerRead, PeerReset
  <2> QED  BY <2>1 DEF NoResultUnseen, callerVars
<1>6. CASE UNCHANGED vars
    BY <1>6 DEF NoResultUnseen, vars
<1> QED  BY <1>1, <1>2, <1>3, <1>4, <1>5, <1>6 DEF Next, CallerPoll

-----------------------------------------------------------------------------
(* Items in flight *)

\* Steps that leave every oneshot, the channel and the pump alone.
LEMMA InFlightQuiet ==
    ASSUME InFlightInv, FailedInv,
           UNCHANGED <<items, ack, queue, pump>>,
           op'.pc # "gone" => op.pc # "gone" /\ (ack[pending] = "open" => pending' = pending)
    PROVE  InFlightInv' /\ FailedInv'
BY DEF InFlightInv, FailedInv, Writing

LEMMA InFlightNext ==
    ASSUME TypeOK, CallerInv, InFlightInv, FailedInv, [Next]_vars
    PROVE  InFlightInv' /\ FailedInv'
<1>0. CallerType /\ AckType /\ PumpType /\ QueueType
    BY TypeParts
<1>a. Len(items) \in Nat /\ DOMAIN ack = 1..Len(items)
    BY <1>0 DEF AckType
<1>1. CASE \E kind \in Calls : Call(kind)
    BY <1>1, InFlightQuiet DEF Call
<1>2. CASE PollReady
    BY <1>0, <1>2, InFlightQuiet DEF PollReady, Settle, SettledOk, SettledErr, Return
<1>3. CASE PollFlush
    BY <1>3, InFlightQuiet DEF PollFlush, Settle, SettledOk, SettledErr, Return
<1>4. CASE PollClose
    BY <1>4, InFlightQuiet DEF PollClose, Settle, SettledOk, SettledErr, Return
<1>5. CASE StartSend
  <2>1. CASE ~open
      BY <1>5, <2>1, InFlightQuiet DEF StartSend, Return
  <2>2. CASE open
    <3>1. /\ ack' = Append(ack, "open") /\ queue' = Append(queue, Len(items) + 1)
          /\ pending' = Len(items) + 1 /\ pump' = pump /\ op.pc = "start"
          /\ items' = Append(items, KindOf(op.kind))
        BY <1>5, <2>2 DEF StartSend
    <3>2. \A n \in DOMAIN ack : ack[n] # "open"
        BY <1>a, <3>1 DEF InFlightInv, CallerInv
    <3>3. queue = << >> /\ ~(pump.pc = "write" /\ pump.n # 0)
        BY <1>0, <1>a, <3>2 DEF InFlightInv, QueueType, PumpType
    <3>4. queue' = <<Len(items')>> /\ Len(items') = Len(items) + 1
        BY <1>0, <3>1, <3>3 DEF AckType
    <3>5. /\ DOMAIN ack' = 1..(Len(items) + 1)
          /\ \A n \in 1..Len(items) : ack'[n] = ack[n]
          /\ ack'[Len(items) + 1] = "open"
        BY <1>0, <3>1 DEF AckType
    <3>6. InFlightInv'
        BY <1>a, <3>1, <3>2, <3>3, <3>4, <3>5 DEF InFlightInv
    <3>7. FailedInv'
        BY <1>a, <3>1, <3>5 DEF FailedInv
    <3> QED  BY <3>6, <3>7
  <2> QED  BY <2>1, <2>2
<1>6. CASE Cancel \/ Drop
    BY <1>6, InFlightQuiet DEF Cancel, Drop, Return, Gone
<1>7. CASE Recv
  <2>1. /\ pump.pc = "wait" /\ queue # << >> /\ queue' = Tail(queue)
        /\ pump' = [pc |-> "write", n |-> Head(queue), k |-> 0]
        /\ UNCHANGED <<op, pending, items, ack>>
      BY <1>7 DEF Recv, callerVars
  <2>2. queue = <<Len(items)>> /\ ack[Len(items)] = "open"
      BY <2>1 DEF InFlightInv
  <2>3. queue' = << >> /\ pump'.n = Len(items) /\ pump'.pc = "write"
      BY <2>1, <2>2
  <2>4. InFlightInv'
      BY <1>a, <2>1, <2>2, <2>3 DEF InFlightInv, Writing
  <2>5. FailedInv'
      BY <2>1 DEF FailedInv
  <2> QED  BY <2>4, <2>5
<1>8. CASE RecvNone \/ Timeout
  <2>1. /\ pump.pc = "wait" /\ queue = << >> /\ UNCHANGED <<op, pending, items, ack, queue>>
        /\ pump'.pc = "close" \/ (pump'.pc = "write" /\ pump'.n = 0)
      BY <1>0, <1>8 DEF RecvNone, Timeout, callerVars, PumpType
  <2> QED  BY <1>a, <2>1 DEF InFlightInv, FailedInv, Writing
<1>9. CASE Write
  <2>1. /\ UNCHANGED <<op, pending, items, ack, queue>> /\ pump'.pc = pump.pc
        /\ pump'.n = pump.n
      BY <1>0, <1>9 DEF Write, callerVars, PumpType
  <2> QED  BY <2>1 DEF InFlightInv, FailedInv, Writing
<1>10. CASE WriteDone \/ WriteFail
  <2>1. /\ UNCHANGED <<op, pending, items, queue>> /\ pump.pc = "write"
        /\ pump'.pc \in {"wait", "close"} /\ (WriteFail => pump'.pc = "close")
        /\ pump.n = 0 => ack' = ack
        /\ pump.n # 0 => ack' = [ack EXCEPT ![pump.n] = IF WriteFail THEN "err" ELSE "ok"]
      BY <1>0, <1>10 DEF WriteDone, WriteFail, callerVars, PumpType
  <2>2. CASE pump.n = 0
      BY <1>a, <2>1, <2>2 DEF InFlightInv, FailedInv, Writing
  <2>3. CASE pump.n # 0
    <3>1. pump.n = Len(items) /\ queue = << >> /\ pump.n \in DOMAIN ack
        BY <1>0, <1>a, <2>1, <2>3 DEF InFlightInv, PumpType
    <3>2. \A n \in DOMAIN ack : ack[n] # "open" \/ n = pump.n
        BY <3>1 DEF InFlightInv
    <3>3. DOMAIN ack' = DOMAIN ack /\ \A n \in DOMAIN ack : n # pump.n => ack'[n] = ack[n]
        BY <2>1, <2>3, <1>0 DEF AckType
    <3>4. ack'[pump.n] = IF WriteFail THEN "err" ELSE "ok"
        BY <2>1, <2>3, <3>1, <1>0 DEF AckType
    <3>5. InFlightInv'
        BY <2>1, <3>1, <3>2, <3>3, <3>4 DEF InFlightInv
    <3>6. FailedInv'
        BY <2>1, <3>1, <3>3, <3>4 DEF FailedInv
    <3> QED  BY <3>5, <3>6
  <2> QED  BY <2>2, <2>3
<1>11. CASE Exit
  <2>1. /\ UNCHANGED <<op, pending, items>> /\ pump.pc = "close" /\ pump'.pc = "done"
        /\ queue' = << >>
        /\ ack' = [n \in DOMAIN ack |->
                     IF \E i \in DOMAIN queue : queue[i] = n THEN "cancelled" ELSE ack[n]]
      BY <1>0, <1>11 DEF Exit, callerVars, PumpType
  <2>2. \A n \in DOMAIN ack' : ack'[n] # "open"
    <3> SUFFICES ASSUME NEW n \in DOMAIN ack', ack'[n] = "open" PROVE FALSE
        OBVIOUS
    <3>1. ack[n] = "open" /\ n \in DOMAIN ack /\ ~(\E i \in DOMAIN queue : queue[i] = n)
        BY <2>1
    <3>2. queue = <<n>>
        BY <2>1, <3>1 DEF InFlightInv, Writing
    <3>3. 1 \in DOMAIN queue /\ queue[1] = n
        BY <3>2
    <3> QED  BY <3>1, <3>3
  <2>3. InFlightInv'
      BY <2>1, <2>2 DEF InFlightInv
  <2>4. FailedInv'
      BY <2>1 DEF FailedInv
  <2> QED  BY <2>3, <2>4
<1>12. CASE PeerRead \/ PeerReset \/ UNCHANGED vars
    BY <1>12, InFlightQuiet DEF PeerRead, PeerReset, callerVars, vars
<1> QED
    BY <1>1, <1>2, <1>3, <1>4, <1>5, <1>6, <1>7, <1>8, <1>9, <1>10, <1>11, <1>12
    DEF Next, CallerPoll, PumpStep

-----------------------------------------------------------------------------
(* Verdicts that stand *)

\* No step changes a oneshot that has been answered or cancelled.
LEMMA VerdictStands ==
    ASSUME TypeOK, InFlightInv, [Next]_vars
    PROVE  \A n \in DOMAIN ack : n \in DOMAIN ack' /\ (ack[n] # "open" => ack'[n] = ack[n])
<1>0. AckType /\ PumpType
    BY TypeParts
<1>1. CASE StartSend
  <2>1. ack' = ack \/ ack' = Append(ack, "open")
      BY <1>1 DEF StartSend
  <2> QED  BY <1>0, <2>1 DEF AckType
<1>2. CASE WriteDone \/ WriteFail
  <2>1. /\ pump.pc = "write"
        /\ pump.n = 0 => ack' = ack
        /\ pump.n # 0 => \E v \in {"ok", "err"} : ack' = [ack EXCEPT ![pump.n] = v]
      BY <1>2 DEF WriteDone, WriteFail
  <2>2. pump.n # 0 => ack[pump.n] = "open"
      BY <2>1 DEF InFlightInv
  <2> QED  BY <1>0, <2>1, <2>2 DEF AckType
<1>3. CASE Exit
  <2>1. ack' = [n \in DOMAIN ack |->
                  IF \E i \in DOMAIN queue : queue[i] = n THEN "cancelled" ELSE ack[n]]
      BY <1>3 DEF Exit
  <2>2. ASSUME NEW i \in DOMAIN queue PROVE ack[queue[i]] = "open"
    <3>1. queue = <<Len(items)>> /\ ack[Len(items)] = "open"
        BY <2>2 DEF InFlightInv
    <3> QED  BY <2>2, <3>1
  <2> QED  BY <2>1, <2>2
<1>4. CASE (\E kind \in Calls : Call(kind)) \/ PollReady \/ PollFlush \/ PollClose \/ Cancel \/ Drop
    BY <1>4 DEF Call, PollReady, PollFlush, PollClose, Cancel, Drop
<1>5. CASE Recv \/ RecvNone \/ Timeout \/ Write \/ PeerRead \/ PeerReset \/ UNCHANGED vars
    BY <1>5 DEF Recv, RecvNone, Timeout, Write, PeerRead, PeerReset, vars
<1> QED  BY <1>1, <1>2, <1>3, <1>4, <1>5 DEF Next, CallerPoll, PumpStep

\* Only start_send makes a new oneshot.
LEMMA NoNewAck ==
    ASSUME TypeOK, [Next]_vars, ~StartSend
    PROVE  DOMAIN ack' = DOMAIN ack /\ UNCHANGED items
<1>0. AckType
    BY TypeParts
<1>1. CASE (\E kind \in Calls : Call(kind)) \/ PollReady \/ PollFlush \/ PollClose \/ Cancel \/ Drop
    BY <1>1 DEF Call, PollReady, PollFlush, PollClose, Cancel, Drop
<1>2. CASE Recv \/ RecvNone \/ Timeout \/ Write \/ PeerRead \/ PeerReset \/ UNCHANGED vars
    BY <1>2 DEF Recv, RecvNone, Timeout, Write, PeerRead, PeerReset, callerVars, vars
<1>3. CASE WriteDone \/ WriteFail \/ Exit
    BY <1>0, <1>3 DEF WriteDone, WriteFail, Exit, callerVars, AckType
<1> QED  BY <1>1, <1>2, <1>3 DEF Next, CallerPoll, PumpStep

\* What a future returns, step by step.
LEMMA ReportNext ==
    ASSUME TypeOK, CallerInv, InFlightInv, ReportInv, FlushSettles, [Next]_vars
    PROVE  ReportInv' /\ FlushSettles'
<1>0. CallerType /\ AckType
    BY TypeParts
<1>a. ASSUME UNCHANGED ret, ~StartSend PROVE ReportInv' /\ FlushSettles'
    BY <1>a, VerdictStands, NoNewAck DEF ReportInv, FlushSettles
<1>b. ASSUME ret'.res \in {"none", "cancelled"} PROVE ReportInv' /\ FlushSettles'
    BY <1>b DEF ReportInv, FlushSettles
<1>c. ASSUME ret'.res = "err", ret'.n = 0 PROVE ReportInv' /\ FlushSettles'
    BY <1>c DEF ReportInv, FlushSettles
<1>1. CASE (\E kind \in Calls : Call(kind)) \/ Cancel \/ Drop
    BY <1>1, <1>b DEF Call, Cancel, Drop, Return, NoRet
<1>2. CASE PollReady
  <2>1. CASE UNCHANGED ret
      BY <1>2, <2>1, <1>b DEF CallerInv, PollReady, NoRet
  <2>2. CASE Return("err")
      BY <1>2, <2>2, <1>c DEF CallerInv, PollReady, Return
  <2> QED  BY <1>2, <2>1, <2>2 DEF PollReady
<1>3. CASE StartSend
  <2>1. CASE Return("err")
      BY <1>3, <2>1, <1>c DEF CallerInv, StartSend, Return
  <2>2. CASE UNCHANGED ret
      BY <1>3, <2>2, <1>b DEF CallerInv, StartSend, NoRet
  <2>3. CASE ret' = [kind |-> "feed", n |-> Len(items) + 1, res |-> "ok"]
      BY <2>3 DEF ReportInv, FlushSettles
  <2> QED  BY <1>3, <2>1, <2>2, <2>3 DEF StartSend
<1>4. CASE PollFlush \/ PollClose
  <2>1. /\ op.pc = "flush" /\ ack' = ack
        /\ (SettledOk /\ Return("ok")) \/ (SettledErr /\ Return("err"))
      BY <1>4 DEF PollFlush, PollClose
  <2>2. CASE SettledOk /\ Return("ok")
    <3>1. \A n \in DOMAIN ack : ack[n] # "open"
      <4> SUFFICES ASSUME NEW n \in DOMAIN ack, ack[n] = "open" PROVE FALSE
          OBVIOUS
      <4>1. n = pending /\ n # 0
          BY <1>0, <2>1 DEF InFlightInv, AckType
      <4> QED  BY <2>2, <4>1 DEF SettledOk
    <3>2. op.kind \in {"send", "send_heartbeat"} => op.n \in DOMAIN ack /\ ack[op.n] = "ok"
        BY <1>0, <2>1, <2>2 DEF CallerInv, SettledOk, CallerType, AckType
    <3>3. ret' = [kind |-> op.kind, n |-> op.n, res |-> "ok"]
        BY <2>2 DEF Return
    <3> QED  BY <2>1, <3>1, <3>2, <3>3 DEF ReportInv, FlushSettles
  <2>3. CASE SettledErr /\ Return("err")
    <3>1. op.kind \in {"send", "send_heartbeat"} =>
             op.n \in DOMAIN ack /\ ack[op.n] \in {"err", "cancelled"}
        BY <1>0, <2>1, <2>3 DEF CallerInv, SettledErr, CallerType, AckType
    <3>2. ret' = [kind |-> op.kind, n |-> op.n, res |-> "err"]
        BY <2>3 DEF Return
    <3> QED  BY <2>1, <3>1, <3>2 DEF ReportInv, FlushSettles
  <2> QED  BY <2>1, <2>2, <2>3
<1>5. CASE PumpStep \/ PeerRead \/ PeerReset \/ UNCHANGED vars
  <2>1. UNCHANGED ret
      BY <1>5 DEF PumpStep, Recv, RecvNone, Timeout, Write, WriteDone, WriteFail, Exit,
                  PeerRead, PeerReset, callerVars, vars
  <2>2. CASE StartSend
      BY <1>3, <2>2
  <2> QED  BY <1>a, <2>1, <2>2
<1> QED  BY <1>1, <1>2, <1>3, <1>4, <1>5 DEF Next, CallerPoll

-----------------------------------------------------------------------------
(* What is on the wire *)

LEMMA ChunksType ==
    ASSUME TypeOK
    PROVE  \A n \in 0..Len(items) : ChunksOf(n) \in Nat \ {0}
BY PumpAssumption DEF ChunksOf

\* The items handed over keep their kind.
LEMMA ChunksStable ==
    ASSUME TypeOK, [Next]_vars
    PROVE  \A n \in 0..Len(items) : ChunksOf(n)' = ChunksOf(n)
<1>0. AckType
    BY TypeParts
<1>1. CASE StartSend
  <2>1. items' = items \/ items' = Append(items, KindOf(op.kind))
      BY <1>1 DEF StartSend
  <2>2. \A n \in 1..Len(items) : items'[n] = items[n]
      BY <1>0, <2>1 DEF AckType
  <2>3. ASSUME NEW n \in 0..Len(items) PROVE ChunksOf(n)' = ChunksOf(n)
    <3>1. n # 0 => n \in 1..Len(items)
        BY <1>0 DEF AckType
    <3>2. n # 0 => items'[n] = items[n]
        BY <2>2, <3>1
    <3> QED  BY <3>2 DEF ChunksOf
  <2> QED  BY <2>3
<1>2. CASE ~StartSend
    BY <1>2, NoNewAck DEF ChunksOf
<1> QED  BY <1>1, <1>2

\* Only Write puts anything on the wire.
LEMMA WireGrows ==
    ASSUME [Next]_vars, ~Write
    PROVE  UNCHANGED wire
BY DEF Next, CallerPoll, PumpStep, Call, PollReady, StartSend, PollFlush, PollClose, Cancel, Drop,
       Recv, RecvNone, Timeout, WriteDone, WriteFail, Exit, PeerRead, PeerReset, sockVars, vars

LEMMA OnWireStable ==
    ASSUME TypeOK, [Next]_vars, ~Write
    PROVE  \A n \in 0..Len(items) : OnWire(n)' <=> OnWire(n)
BY ChunksStable, WireGrows DEF OnWire

\* The chunks on the wire, one by one.
LEMMA WireElements ==
    ASSUME TypeOK
    PROVE  /\ Len(wire) \in Nat /\ DOMAIN wire = 1..Len(wire) /\ (wire # << >> => Len(wire) >= 1)
           /\ \A i \in DOMAIN wire : wire[i].n \in 0..Len(items) /\ wire[i].k \in Nat \ {0}
<1>0. SockType
    BY TypeParts
<1>1. Len(wire) \in Nat /\ DOMAIN wire = 1..Len(wire) /\ (wire # << >> => Len(wire) >= 1)
    BY <1>0 DEF SockType
<1>2. ASSUME NEW i \in DOMAIN wire PROVE wire[i].n \in 0..Len(items) /\ wire[i].k \in Nat \ {0}
  <2> DEFINE Chunk == [n : 0..Len(items), k : Nat \ {0}]
  <2>1. wire[i] \in Chunk
      BY <1>0, <1>1, <1>2, ElementOfSeq DEF SockType
  <2> QED  BY <2>1
<1> QED  BY <1>1, <1>2

\* What Write does, and what the chunk it appends looks like.
LEMMA WriteEffect ==
    ASSUME TypeOK, Write
    PROVE  /\ pump.pc = "write" /\ pump.n \in 0..Len(items) /\ pump.k \in Nat
           /\ pump.k < ChunksOf(pump.n)
           /\ pump'.pc = "write" /\ pump'.n = pump.n /\ pump'.k = pump.k + 1
           /\ Len(wire) \in Nat /\ Len(wire') = Len(wire) + 1
           /\ DOMAIN wire = 1..Len(wire) /\ DOMAIN wire' = 1..(Len(wire) + 1)
           /\ \A i \in DOMAIN wire : wire'[i] = wire[i]
           /\ wire'[Len(wire) + 1] = [n |-> pump.n, k |-> pump.k + 1]
           /\ UNCHANGED <<items, ack, queue>>
<1>0. PumpType /\ SockType
    BY TypeParts
<1>1. pump' = [pump EXCEPT !.k = @ + 1]
      /\ wire' = Append(wire, [n |-> pump.n, k |-> pump.k + 1])
    BY DEF Write
<1>2. pump.pc = "write" /\ pump.k < ChunksOf(pump.n) /\ UNCHANGED <<items, ack, queue>>
    BY DEF Write, callerVars
<1>3. pump.n \in 0..Len(items) /\ pump.k \in Nat /\ pump'.pc = "write"
      /\ pump'.n = pump.n /\ pump'.k = pump.k + 1
    BY <1>0, <1>1, <1>2 DEF PumpType
<1>4. /\ Len(wire) \in Nat /\ Len(wire') = Len(wire) + 1
      /\ DOMAIN wire = 1..Len(wire) /\ DOMAIN wire' = 1..(Len(wire) + 1)
      /\ \A i \in DOMAIN wire : wire'[i] = wire[i]
      /\ wire'[Len(wire) + 1] = [n |-> pump.n, k |-> pump.k + 1]
    BY <1>0, <1>1, <1>3 DEF SockType
<1> QED  BY <1>2, <1>3, <1>4

\* What start_send does when the channel takes the item.
LEMMA HandoverEffect ==
    ASSUME TypeOK, StartSend, open
    PROVE  /\ DOMAIN ack = 1..Len(items) /\ Len(items) \in Nat
           /\ DOMAIN ack' = 1..(Len(items) + 1) /\ Len(items') = Len(items) + 1
           /\ ack'[Len(items) + 1] = "open"
           /\ \A n \in DOMAIN ack : ack'[n] = ack[n]
           /\ UNCHANGED <<pump, wire>>
<1>0. AckType
    BY TypeParts
<1>1. /\ ack' = Append(ack, "open") /\ items' = Append(items, KindOf(op.kind))
      /\ UNCHANGED <<pump, wire>>
    BY DEF StartSend
<1> QED  BY <1>0, <1>1 DEF AckType

\* The steps that matter to what is on the wire.
LEMMA WireCases ==
    ASSUME [Next]_vars
    PROVE  \/ UNCHANGED <<items, ack, pump, wire>>
           \/ StartSend /\ open
           \/ Recv \/ RecvNone \/ Timeout \/ Write \/ WriteDone \/ WriteFail \/ Exit
BY DEF Next, CallerPoll, PumpStep, Call, PollReady, StartSend, PollFlush, PollClose, Cancel, Drop,
       PeerRead, PeerReset, callerVars, sockVars, vars

LEMMA WrittenNext ==
    ASSUME TypeOK, InFlightInv, WrittenInv, [Next]_vars
    PROVE  WrittenInv'
<1>0. AckType /\ PumpType /\ SockType /\ CallerType
    BY TypeParts
<1>a. DOMAIN ack = 1..Len(items) /\ Len(items) \in Nat
    BY <1>0 DEF AckType
<1>b. \A n \in 0..Len(items) : ChunksOf(n)' = ChunksOf(n) /\ ChunksOf(n) \in Nat \ {0}
    BY ChunksStable, ChunksType
<1>c. CASE UNCHANGED <<items, ack, pump, wire>>
    BY <1>c DEF WrittenInv, Writing, OnWire, ChunksOf
<1>1. CASE StartSend /\ open
  <2>1. ~Write
      BY <1>0, <1>1, HandoverEffect, WriteEffect
  <2>2. \A n \in 0..Len(items) : OnWire(n)' <=> OnWire(n)
      BY <2>1, OnWireStable
  <2>3. ASSUME NEW n, n = Len(items) + 1 PROVE ~OnWire(n)'
    <3>1. \A i \in DOMAIN wire : wire[i].n \in 0..Len(items)
        BY WireElements
    <3>2. wire' = wire /\ n \notin 0..Len(items)
        BY <1>1, <1>a, <2>3, HandoverEffect
    <3> QED  BY <3>1, <3>2 DEF OnWire
  <2>4. pump.n \in 0..Len(items)
      BY <1>0 DEF PumpType
  <2>5. /\ pump' = pump /\ DOMAIN ack' = 1..(Len(items) + 1)
        /\ ack'[Len(items) + 1] = "open" /\ \A n \in 1..Len(items) : ack'[n] = ack[n]
      BY <1>1, <1>a, HandoverEffect
  <2>6. \A n \in 0..Len(items) : ChunksOf(n)' = ChunksOf(n)
      BY <1>b
  <2>7. /\ pump'.pc = "write" => pump'.k <= ChunksOf(pump.n)'
        /\ pump'.pc = "write" /\ pump'.k = ChunksOf(pump.n)' => OnWire(pump.n)'
      BY <2>2, <2>4, <2>5, <2>6 DEF WrittenInv
  <2>8. ASSUME NEW n \in DOMAIN ack'
        PROVE  /\ ack'[n] = "ok" => OnWire(n)'
               /\ OnWire(n)' => ack'[n] = "ok" \/ (Writing(n)' /\ pump'.k = ChunksOf(n)')
    <3>1. CASE n = Len(items) + 1
        BY <2>3, <2>5, <3>1
    <3>2. CASE n # Len(items) + 1
      <4>1. n \in DOMAIN ack /\ n \in 0..Len(items) /\ ack'[n] = ack[n]
          BY <1>a, <2>5, <2>8, <3>2
      <4>2. Writing(n)' <=> Writing(n)
          BY <2>5 DEF Writing
      <4> QED  BY <2>2, <2>5, <2>6, <4>1, <4>2 DEF WrittenInv
    <3> QED  BY <3>1, <3>2
  <2> QED  BY <2>5, <2>7, <2>8 DEF WrittenInv
<1>2. CASE Recv
  <2>1. /\ pump.pc = "wait" /\ UNCHANGED <<ack, wire, items>>
        /\ pump'.pc = "write" /\ pump'.k = 0
      BY <1>2 DEF Recv, callerVars, sockVars
  <2>2. pump'.n \in 0..Len(items)
      BY <1>0, <1>2, TypeParts DEF Recv, QueueType
  <2>3. \A n \in 0..Len(items) : OnWire(n)' <=> OnWire(n)
      BY <2>1 DEF OnWire, ChunksOf
  <2> QED  BY <1>a, <1>b, <2>1, <2>2, <2>3 DEF WrittenInv, Writing
<1>3. CASE RecvNone \/ Timeout
  <2>1. /\ pump.pc = "wait" /\ UNCHANGED <<ack, wire, items>>
        /\ pump'.pc = "close" \/ (pump'.pc = "write" /\ pump'.n = 0 /\ pump'.k = 0)
      BY <1>0, <1>3 DEF RecvNone, Timeout, callerVars, sockVars, PumpType
  <2> QED  BY <2>1 DEF WrittenInv, Writing, OnWire, ChunksOf
<1>4. CASE Write
  <2>1. ASSUME NEW n \in 0..Len(items)
        PROVE  OnWire(n)' <=> OnWire(n) \/ (n = pump.n /\ pump.k + 1 = ChunksOf(n))
    <3>1. OnWire(n)' <=> \E i \in DOMAIN wire' : wire'[i].n = n /\ wire'[i].k = ChunksOf(n)
        BY <1>b DEF OnWire
    <3>2. /\ DOMAIN wire = 1..Len(wire) /\ DOMAIN wire' = 1..(Len(wire) + 1) /\ Len(wire) \in Nat
          /\ \A i \in DOMAIN wire : wire'[i] = wire[i]
          /\ wire'[Len(wire) + 1].n = pump.n /\ wire'[Len(wire) + 1].k = pump.k + 1
        BY <1>4, WriteEffect
    <3>3. \A i \in DOMAIN wire' : i \in DOMAIN wire \/ i = Len(wire) + 1
        BY <3>2
    <3>4. Len(wire) + 1 \in DOMAIN wire' /\ \A i \in DOMAIN wire : i \in DOMAIN wire'
        BY <3>2
    <3> QED  BY <3>1, <3>2, <3>3, <3>4 DEF OnWire
  <2> QED  BY <1>4, <1>a, <1>b, <2>1, WriteEffect DEF WrittenInv, Writing
<1>5. CASE WriteDone \/ WriteFail \/ Exit
  <2>1. UNCHANGED <<wire, items>> /\ pump'.pc # "write" /\ DOMAIN ack' = DOMAIN ack
      BY <1>0, <1>5 DEF WriteDone, WriteFail, Exit, callerVars, sockVars, PumpType, AckType
  <2>2. \A n \in DOMAIN ack : OnWire(n)' <=> OnWire(n)
      BY <2>1 DEF OnWire, ChunksOf
  <2>3. \A n \in DOMAIN ack : ack'[n] = "ok" => OnWire(n)
    <3>1. CASE WriteDone
        BY <1>0, <3>1 DEF WriteDone, WrittenInv, AckType
    <3>2. CASE WriteFail \/ Exit
        BY <1>0, <3>2 DEF WriteFail, Exit, WrittenInv, AckType
    <3> QED  BY <1>5, <3>1, <3>2
  <2>4. \A n \in DOMAIN ack : OnWire(n) => ack'[n] = "ok"
    <3> SUFFICES ASSUME NEW n \in DOMAIN ack, OnWire(n) PROVE ack'[n] = "ok"
        OBVIOUS
    <3>1. CASE ack[n] = "ok"
        BY <3>1, VerdictStands
    <3>2. CASE Writing(n) /\ pump.k = ChunksOf(n)
      <4>1. WriteDone
          BY <1>0, <1>5, <3>2 DEF WriteFail, Exit, Writing, PumpType
      <4> QED  BY <1>0, <1>a, <3>2, <4>1 DEF WriteDone, Writing, AckType
    <3> QED  BY <3>1, <3>2 DEF WrittenInv
  <2> QED  BY <2>1, <2>2, <2>3, <2>4 DEF WrittenInv
<1> QED  BY <1>c, <1>1, <1>2, <1>3, <1>4, <1>5, WireCases

LEMMA StartedNext ==
    ASSUME TypeOK, InFlightInv, StartedInv, [Next]_vars
    PROVE  StartedInv'
<1>0. AckType /\ PumpType /\ SockType /\ QueueType
    BY TypeParts
<1>a. DOMAIN ack = 1..Len(items) /\ Len(items) \in Nat
    BY <1>0 DEF AckType
<1>b. \A i \in DOMAIN wire : wire[i].n \in 0..Len(items)
    BY WireElements
<1>1. CASE UNCHANGED <<items, ack, pump, wire>>
    BY <1>1 DEF StartedInv, Writing
<1>2. CASE StartSend /\ open
  <2>1. \A i \in DOMAIN wire : wire[i].n # 0 => ack'[wire[i].n] = ack[wire[i].n]
      BY <1>2, <1>a, <1>b, HandoverEffect
  <2> QED  BY <1>2, <2>1, HandoverEffect DEF StartedInv, Writing
<1>3. CASE Recv \/ RecvNone \/ Timeout
  <2>1. pump.pc = "wait" /\ UNCHANGED <<ack, wire>>
      BY <1>3 DEF Recv, RecvNone, Timeout, sockVars
  <2> QED  BY <2>1 DEF StartedInv, Writing
<1>4. CASE Write
  <2> SUFFICES ASSUME NEW i \in DOMAIN wire', wire'[i].n # 0, ack'[wire'[i].n] = "open"
               PROVE  pump'.pc = "write" /\ pump'.n = wire'[i].n /\ pump'.k >= 1
      BY DEF StartedInv, Writing
  <2>1. CASE i \in DOMAIN wire
      BY <1>4, <2>1, WriteEffect DEF StartedInv, Writing
  <2>2. CASE i = Len(wire) + 1
      BY <1>4, <2>2, WriteEffect
  <2> QED  BY <1>4, <2>1, <2>2, WriteEffect
<1>5. CASE WriteDone \/ WriteFail \/ Exit
  <2>1. wire' = wire
      BY <1>5 DEF WriteDone, WriteFail, Exit, sockVars
  <2>2. ASSUME NEW n \in DOMAIN ack, Writing(n) PROVE ack'[n] # "open"
    <3>1. n # 0 /\ pump.n = n /\ pump.pc = "write"
        BY <1>a, <2>2 DEF Writing
    <3>2. \E v \in {"ok", "err"} : ack' = [ack EXCEPT ![n] = v]
        BY <1>5, <3>1 DEF WriteDone, WriteFail, Exit
    <3> QED  BY <1>0, <2>2, <3>2 DEF AckType
  <2>3. \A i \in DOMAIN wire : wire[i].n # 0 => wire[i].n \in DOMAIN ack
      BY <1>a, <1>b
  <2> QED  BY <2>1, <2>2, <2>3, VerdictStands DEF StartedInv
<1> QED  BY <1>1, <1>2, <1>3, <1>4, <1>5, WireCases

LEMMA FramesNext ==
    ASSUME TypeOK, WrittenInv, LastChunkInv, FramesIntact, [Next]_vars
    PROVE  LastChunkInv' /\ FramesIntact'
<1>0. AckType /\ PumpType /\ SockType
    BY TypeParts
<1>a. \A n \in 0..Len(items) : ChunksOf(n)' = ChunksOf(n) /\ ChunksOf(n) \in Nat \ {0}
    BY ChunksStable, ChunksType
<1>b. \A i \in DOMAIN wire : wire[i].n \in 0..Len(items) /\ wire[i].k \in Nat \ {0}
    BY WireElements
<1>c. Len(wire) \in Nat /\ DOMAIN wire = 1..Len(wire) /\ (wire # << >> => Len(wire) >= 1)
    BY WireElements
<1>1. CASE ~Write
  <2>1. wire' = wire
      BY <1>1, WireGrows
  <2>2. FramesIntact'
    <3>1. \A i \in DOMAIN wire : ChunksOf(wire[i].n)' = ChunksOf(wire[i].n)
        BY <1>a, <1>b, <2>1
    <3>2. \A i \in DOMAIN wire : i > 1 => i - 1 \in DOMAIN wire
        BY <1>c
    <3>3. ASSUME NEW i \in DOMAIN wire'
          PROVE  IF wire'[i].k = 1
                 THEN i > 1 => wire'[i - 1].k = ChunksOf(wire[i - 1].n)'
                 ELSE i > 1 /\ wire'[i - 1] = [n |-> wire'[i].n, k |-> wire'[i].k - 1]
      <4>1. i > 1 => ChunksOf(wire[i - 1].n)' = ChunksOf(wire[i - 1].n)
          BY <2>1, <3>1, <3>2
      <4> QED  BY <2>1, <4>1 DEF FramesIntact
    <3> QED  BY <3>3 DEF FramesIntact
  <2>3. LastChunkInv'
    <3>1. wire # << >> => ChunksOf(wire[Len(wire)].n)' = ChunksOf(wire[Len(wire)].n)
        BY <1>a, <1>b, <1>c, <2>1
    <3>2. CASE pump' = pump
        BY <2>1, <3>1, <3>2 DEF LastChunkInv
    <3>3. CASE Recv \/ Timeout
      <4>1. pump.pc = "wait" /\ pump'.pc = "write" /\ pump'.k = 0
          BY <3>3 DEF Recv, Timeout
      <4> QED  BY <2>1, <3>1, <4>1 DEF LastChunkInv
    <3>4. CASE RecvNone \/ WriteFail \/ Exit
      <4>1. pump'.pc \in {"close", "done"}
          BY <1>0, <3>4 DEF RecvNone, WriteFail, Exit, PumpType
      <4> QED  BY <4>1 DEF LastChunkInv
    <3>5. CASE WriteDone
      <4>1. /\ pump.pc = "write" /\ pump.k = ChunksOf(pump.n) /\ pump'.pc = "wait"
            /\ pump.n \in 0..Len(items) /\ pump.k \in Nat
          BY <1>0, <3>5 DEF WriteDone, PumpType
      <4>2. pump.k >= 1
          BY <1>a, <4>1
      <4>3. wire # << >> /\ wire[Len(wire)] = [n |-> pump.n, k |-> pump.k]
          BY <4>1, <4>2 DEF LastChunkInv
      <4>4. wire[Len(wire)].k = ChunksOf(wire[Len(wire)].n)
          BY <4>1, <4>3
      <4> QED  BY <2>1, <3>1, <4>1, <4>4 DEF LastChunkInv
    <3> QED
        BY <1>1, <3>2, <3>3, <3>4, <3>5, WireCases, HandoverEffect
  <2> QED  BY <2>2, <2>3
<1>2. CASE Write
  <2>1. LastChunkInv'
    <3>1. wire' # << >>
        BY <1>2, WriteEffect
    <3> QED  BY <1>2, <3>1, WriteEffect DEF LastChunkInv
  <2>2. FramesIntact'
    <3> SUFFICES ASSUME NEW i \in DOMAIN wire'
                 PROVE  IF wire'[i].k = 1
                        THEN i > 1 => wire'[i - 1].k = ChunksOf(wire[i - 1].n)'
                        ELSE i > 1 /\ wire'[i - 1] = [n |-> wire'[i].n, k |-> wire'[i].k - 1]
        BY DEF FramesIntact
    <3>1. ASSUME NEW j \in DOMAIN wire PROVE ChunksOf(wire[j].n)' = ChunksOf(wire[j].n)
        BY <1>2, <1>b, WriteEffect DEF ChunksOf
    <3>2. CASE i \in DOMAIN wire
      <4>1. i > 1 => i - 1 \in DOMAIN wire
          BY <1>c, <3>2
      <4> QED  BY <1>2, <1>c, <3>1, <3>2, <4>1, WriteEffect DEF FramesIntact
    <3>3. CASE i = Len(wire) + 1 /\ pump.k = 0
      <4>1. wire'[i].k = 1
          BY <1>2, <3>3, WriteEffect
      <4>2. i > 1 => wire # << >> /\ i - 1 = Len(wire) /\ i - 1 \in DOMAIN wire
          BY <1>c, <3>3
      <4>3. i > 1 => wire[i - 1].k = ChunksOf(wire[i - 1].n)
          BY <1>2, <3>3, <4>2, WriteEffect DEF LastChunkInv
      <4> QED  BY <1>2, <3>1, <4>1, <4>2, <4>3, WriteEffect
    <3>4. CASE i = Len(wire) + 1 /\ pump.k # 0
      <4>1. wire # << >> /\ wire[Len(wire)] = [n |-> pump.n, k |-> pump.k]
          BY <1>2, <3>4, WriteEffect DEF LastChunkInv
      <4>2. i > 1 /\ i - 1 = Len(wire) /\ i - 1 \in DOMAIN wire
          BY <1>c, <3>4, <4>1
      <4>3. wire'[i - 1] = [n |-> pump.n, k |-> pump.k]
          BY <1>2, <4>1, <4>2, WriteEffect
      <4>4. wire'[i] = [n |-> pump.n, k |-> pump.k + 1] /\ pump.k \in Nat
          BY <1>2, <3>4, WriteEffect
      <4> QED  BY <3>4, <4>2, <4>3, <4>4
    <3> QED  BY <1>2, <3>2, <3>3, <3>4, WriteEffect
  <2> QED  BY <2>1, <2>2
<1> QED  BY <1>1, <1>2

LEMMA OrderNext ==
    ASSUME TypeOK, InFlightInv, FailedInv, WrittenInv, StartedInv, WireInOrder, [Next]_vars
    PROVE  WireInOrder'
<1>1. CASE ~Write
    BY <1>1, WireGrows DEF WireInOrder
<1>2. CASE Write
  <2>0. AckType
      BY TypeParts
  <2>1. SUFFICES ASSUME NEW i \in DOMAIN wire', wire'[i].n # 0, wire'[i].k = 1
                 PROVE  /\ \A j \in 1..(i - 1) : wire'[j].n < wire'[i].n
                        /\ \A m \in 1..(wire'[i].n - 1) : \E j \in 1..(i - 1) : wire'[j].n = m
      BY DEF WireInOrder
  <2>2. CASE i \in DOMAIN wire
    <3>1. \A j \in 1..i : j \in DOMAIN wire /\ wire'[j] = wire[j]
        BY <1>2, <2>2, WriteEffect
    <3>2. \A j \in 1..(i - 1) : j \in 1..i
        BY <1>2, <2>2, WriteEffect
    <3>3. i \in 1..i
        BY <1>2, <2>2, WriteEffect
    <3> QED  BY <2>1, <2>2, <3>1, <3>2, <3>3 DEF WireInOrder
  <2>3. CASE i = Len(wire) + 1
    <3>1. /\ wire'[i] = [n |-> pump.n, k |-> pump.k + 1] /\ pump.k \in Nat
          /\ 1..(i - 1) = DOMAIN wire /\ pump.pc = "write"
          /\ \A j \in DOMAIN wire : wire'[j] = wire[j]
        BY <1>2, <2>3, WriteEffect
    <3>2. pump.k = 0 /\ pump.n # 0 /\ wire'[i].n = pump.n
        BY <2>1, <3>1
    <3>3. pump.n = Len(items) /\ ack[pump.n] = "open" /\ Len(items) \in Nat
          /\ DOMAIN ack = 1..Len(items)
        BY <2>0, <3>1, <3>2 DEF InFlightInv, AckType
    <3>4. \A j \in DOMAIN wire : wire[j].n < pump.n
      <4>1. \A j \in DOMAIN wire : wire[j].n \in 0..Len(items) /\ wire[j].n # pump.n
          BY <3>1, <3>2, <3>3, WireElements DEF StartedInv
      <4> QED  BY <3>3, <4>1
    <3>5. \A m \in 1..(pump.n - 1) : ack[m] = "ok"
      <4>1. \A m \in 1..(pump.n - 1) : m \in DOMAIN ack /\ m # Len(items)
          BY <3>3
      <4>2. \A m \in DOMAIN ack : ack[m] \in Verdicts /\ ack[m] \notin {"err", "cancelled"}
          BY <2>0, <3>1 DEF FailedInv, AckType
      <4> QED  BY <4>1, <4>2 DEF InFlightInv, Verdicts
    <3>6. \A m \in 1..(pump.n - 1) : \E j \in DOMAIN wire : wire[j].n = m
      <4>1. \A m \in 1..(pump.n - 1) : OnWire(m)
          BY <3>3, <3>5 DEF WrittenInv
      <4> QED  BY <4>1 DEF OnWire
    <3>7. wire'[i].n = pump.n /\ 1..(i - 1) = DOMAIN wire
        BY <3>1, <3>2
    <3>8. \A j \in 1..(i - 1) : wire'[j].n < pump.n
        BY <3>1, <3>4
    <3>9. \A m \in 1..(pump.n - 1) : \E j \in 1..(i - 1) : wire'[j].n = m
        BY <3>1, <3>6
    <3> QED  BY <3>7, <3>8, <3>9
  <2> QED  BY <1>2, <2>2, <2>3, WriteEffect
<1> QED  BY <1>1, <1>2

-----------------------------------------------------------------------------
(* The theorems *)

LEMMA InvInit == Init => Inv
<1> SUFFICES ASSUME Init PROVE Inv
    OBVIOUS
<1>1. TypeOK
    BY TypeInit
<1>2. CallerInv /\ InFlightInv /\ FailedInv
    BY DEF Init, CallerInv, InFlightInv, FailedInv, NoOp
<1>3. NoResultUnseen /\ FlushSettles /\ ReportInv
    BY DEF Init, NoResultUnseen, FlushSettles, ReportInv, NoRet
<1>4. WrittenInv /\ StartedInv /\ LastChunkInv /\ FramesIntact /\ WireInOrder
    BY DEF Init, WrittenInv, StartedInv, LastChunkInv, FramesIntact, WireInOrder
<1> QED  BY <1>1, <1>2, <1>3, <1>4 DEF Inv

LEMMA InvNext == Inv /\ [Next]_vars => Inv'
BY TypeNext, CallerNext, UnseenNext, InFlightNext, ReportNext, WrittenNext, StartedNext,
   FramesNext, OrderNext
DEF Inv

LEMMA InvHolds == Spec => []Inv
BY InvInit, InvNext, PTL DEF Spec

\* The channel and the pump never hold two items together, whatever the
\* caller calls, feeds or drops half way: the single slot is enough.
THEOREM OneWrite == Spec => []OneWriteInFlight
<1>1. Inv => OneWriteInFlight
  <2> SUFFICES ASSUME Inv PROVE OneWriteInFlight
      OBVIOUS
  <2>1. CASE queue = << >>
      BY <2>1 DEF OneWriteInFlight
  <2>2. CASE queue # << >>
    <3>1. queue = <<Len(items)>> /\ ~(pump.pc = "write" /\ pump.n # 0)
        BY <2>2 DEF Inv, InFlightInv
    <3> QED  BY <3>1 DEF OneWriteInFlight
  <2> QED  BY <2>1, <2>2
<1> QED  BY <1>1, InvHolds, PTL

\* No write result is lost, cancelled sends included: every item but the
\* pending one has had its result returned by some future.
THEOREM NoneUnseen == Spec => []NoResultUnseen
<1>1. Inv => NoResultUnseen
    BY DEF Inv
<1> QED  BY <1>1, InvHolds, PTL

\* send returns Ok only for an item that is in the socket as a whole, and an
\* error of its own only for one that is not.
THEOREM SendHonest == Spec => []SendReportsItsWrite
<1>1. Inv => SendReportsItsWrite
  <2> SUFFICES ASSUME Inv PROVE SendReportsItsWrite
      OBVIOUS
  <2>1. DOMAIN ack = DOMAIN items
      BY DEF Inv, TypeOK
  <2>2. \A n \in DOMAIN ack : ack[n] = "ok" <=> OnWire(n) /\ ack[n] # "open"
    <3>1. \A n \in DOMAIN ack : Writing(n) => n = 0 \/ ack[n] = "open"
        BY DEF Inv, InFlightInv, Writing
    <3>2. \A n \in DOMAIN ack : n # 0
        BY DEF Inv, TypeOK
    <3> QED  BY <3>1, <3>2 DEF Inv, WrittenInv
  <2> QED  BY <2>1, <2>2 DEF Inv, ReportInv, SendReportsItsWrite
<1> QED  BY <1>1, InvHolds, PTL

\* A flush or a close that returns Ok leaves no item whose fate is open.
THEOREM FlushHonest == Spec => []FlushSettles
<1>1. Inv => FlushSettles
    BY DEF Inv
<1> QED  BY <1>1, InvHolds, PTL

\* Beats and frames never interleave on the wire, and nothing follows a frame
\* that was cut short.
THEOREM FramesStayIntact == Spec => []FramesIntact
<1>1. Inv => FramesIntact
    BY DEF Inv
<1> QED  BY <1>1, InvHolds, PTL

\* Items reach the wire in the order they were handed over, none twice and
\* none skipped.
THEOREM WireOrdered == Spec => []WireInOrder
<1>1. Inv => WireInOrder
    BY DEF Inv
<1> QED  BY <1>1, InvHolds, PTL

\* With FailureIsFinal: an item is cancelled by the drop of the receiver, which
\* closes the channel.
FinalInv ==
    /\ FailureIsFinal
    /\ \A n \in DOMAIN ack : ack[n] = "cancelled" => ~open

LEMMA FinalQuiet ==
    ASSUME FinalInv, UNCHANGED ack, open' => open
    PROVE  FinalInv'
BY DEF FinalInv, FailureIsFinal

LEMMA FinalNext == ASSUME Inv, FinalInv, [Next]_vars PROVE FinalInv'
<1>0. AckType /\ PumpType /\ CallerInv /\ InFlightInv /\ FailedInv
    BY TypeParts DEF Inv
<1>a. /\ Len(ack) \in Nat /\ DOMAIN ack = 1..Len(ack) /\ Len(items) = Len(ack)
      /\ \A n \in DOMAIN ack : ack[n] \in Verdicts
    BY <1>0 DEF AckType
<1>1. CASE StartSend
  <2>1. CASE ~open
      BY <1>1, <2>1, FinalQuiet DEF StartSend
  <2>2. CASE open
    <3>1. ack' = Append(ack, "open") /\ op.pc = "start" /\ open' = open
        BY <1>1, <2>2 DEF StartSend
    <3>2. /\ Len(ack') = Len(ack) + 1 /\ DOMAIN ack' = 1..(Len(ack) + 1)
          /\ \A n \in 1..Len(ack) : ack'[n] = ack[n]
          /\ ack'[Len(ack) + 1] = "open"
        BY <1>0, <3>1 DEF AckType
    <3>3. \A n \in DOMAIN ack : ack[n] # "open" /\ ack[n] # "cancelled"
        BY <1>0, <1>a, <2>2, <3>1 DEF InFlightInv, CallerInv, FinalInv
    <3>4. \A m \in DOMAIN ack : ack[m] = "err" => m = Len(ack)
      <4> SUFFICES ASSUME NEW m \in DOMAIN ack, ack[m] = "err", m # Len(ack) PROVE FALSE
          OBVIOUS
      <4>1. Len(ack) \in (m + 1)..Len(ack) /\ Len(ack) \in DOMAIN ack
          BY <1>a
      <4>2. ack[Len(ack)] \in {"open", "cancelled"}
          BY <4>1 DEF FinalInv, FailureIsFinal
      <4> QED  BY <3>3, <4>1, <4>2
    <3>5. FailureIsFinal'
      <4> SUFFICES ASSUME NEW m \in DOMAIN ack'
                   PROVE  /\ ack'[m] = "err" => \A n \in (m + 1)..Len(ack') :
                                n = m + 1 /\ ack'[n] \in {"open", "cancelled"}
                          /\ ack'[m] = "cancelled" => m = Len(ack')
          BY DEF FailureIsFinal
      <4>1. CASE m = Len(ack) + 1
          BY <3>2, <4>1
      <4>2. CASE m # Len(ack) + 1
        <5>1. m \in DOMAIN ack /\ ack'[m] = ack[m]
            BY <1>a, <3>2, <4>2
        <5>2. ack'[m] # "cancelled"
            BY <3>3, <5>1
        <5>3. ASSUME ack'[m] = "err", NEW n \in (m + 1)..Len(ack')
              PROVE  n = m + 1 /\ ack'[n] = "open"
          <6>1. m = Len(ack)
              BY <3>4, <5>1, <5>3
          <6> QED  BY <1>a, <3>2, <5>3, <6>1
        <5> QED  BY <5>2, <5>3
      <4> QED  BY <4>1, <4>2
    <3>6. \A n \in DOMAIN ack' : ack'[n] # "cancelled"
      <4> SUFFICES ASSUME NEW n \in DOMAIN ack' PROVE ack'[n] # "cancelled"
          OBVIOUS
      <4>1. CASE n = Len(ack) + 1
          BY <3>2, <4>1
      <4>2. CASE n # Len(ack) + 1
        <5>1. n \in DOMAIN ack /\ ack'[n] = ack[n]
            BY <1>a, <3>2, <4>2
        <5> QED  BY <3>3, <5>1
      <4> QED  BY <4>1, <4>2
    <3> QED  BY <3>5, <3>6 DEF FinalInv
  <2> QED  BY <2>1, <2>2
<1>2. CASE WriteDone \/ WriteFail
  <2>1. /\ UNCHANGED open /\ pump.pc = "write"
        /\ pump.n = 0 => ack' = ack
        /\ pump.n # 0 => \E v \in {"ok", "err"} : ack' = [ack EXCEPT ![pump.n] = v]
      BY <1>2 DEF WriteDone, WriteFail
  <2>2. CASE pump.n = 0
      BY <2>1, <2>2, FinalQuiet
  <2>3. CASE pump.n # 0
    <3>1. PICK v \in {"ok", "err"} : ack' = [ack EXCEPT ![pump.n] = v]
        BY <2>1, <2>3
    <3>2. pump.n = Len(ack) /\ pump.n \in DOMAIN ack
        BY <1>0, <1>a, <2>1, <2>3 DEF InFlightInv, PumpType
    <3>3. /\ Len(ack') = Len(ack) /\ DOMAIN ack' = 1..Len(ack)
          /\ \A n \in DOMAIN ack : n # Len(ack) => ack'[n] = ack[n]
          /\ ack'[Len(ack)] = v
        BY <1>0, <1>a, <3>1, <3>2 DEF AckType
    <3>4. \A n \in DOMAIN ack : ack[n] \notin {"err", "cancelled"}
        BY <1>0, <2>1 DEF FailedInv
    <3>5. \A n \in DOMAIN ack' : /\ ack'[n] # "cancelled"
                                 /\ ack'[n] = "err" => n = Len(ack)
        BY <1>a, <3>3, <3>4
    <3>6. FailureIsFinal'
      <4> SUFFICES ASSUME NEW m \in DOMAIN ack'
                   PROVE  /\ ack'[m] = "err" => \A n \in (m + 1)..Len(ack') :
                                n = m + 1 /\ ack'[n] \in {"open", "cancelled"}
                          /\ ack'[m] = "cancelled" => m = Len(ack')
          BY DEF FailureIsFinal
      <4>1. ack'[m] = "err" => (m + 1)..Len(ack') = {}
          BY <1>a, <3>3, <3>5
      <4> QED  BY <3>5, <4>1
    <3> QED  BY <3>5, <3>6 DEF FinalInv
  <2> QED  BY <2>2, <2>3
<1>3. CASE Exit
  <2>1. /\ open' = FALSE
        /\ ack' = [n \in DOMAIN ack |->
                     IF \E i \in DOMAIN queue : queue[i] = n THEN "cancelled" ELSE ack[n]]
      BY <1>3 DEF Exit
  <2>2. Len(ack') = Len(ack) /\ DOMAIN ack' = DOMAIN ack
      BY <1>a, <2>1
  <2>3. \A n \in DOMAIN ack :
           ack'[n] = ack[n] \/ (ack'[n] = "cancelled" /\ n = Len(ack) /\ ack[n] = "open")
    <3> SUFFICES ASSUME NEW n \in DOMAIN ack, ack'[n] # ack[n]
                 PROVE  ack'[n] = "cancelled" /\ n = Len(ack) /\ ack[n] = "open"
        OBVIOUS
    <3>1. ack'[n] = "cancelled" /\ \E i \in DOMAIN queue : queue[i] = n
        BY <2>1
    <3>2. queue # << >>
        BY <3>1
    <3>3. queue = <<Len(ack)>> /\ ack[Len(ack)] = "open"
        BY <1>0, <1>a, <3>2 DEF InFlightInv
    <3>4. n = Len(ack)
        BY <3>1, <3>3
    <3> QED  BY <3>1, <3>3, <3>4
  <2>4. FailureIsFinal'
    <3> SUFFICES ASSUME NEW m \in DOMAIN ack
                 PROVE  /\ ack'[m] = "err" => \A n \in (m + 1)..Len(ack) :
                              n = m + 1 /\ ack'[n] \in {"open", "cancelled"}
                        /\ ack'[m] = "cancelled" => m = Len(ack)
        BY <2>2 DEF FailureIsFinal
    <3>1. ack'[m] = "cancelled" => m = Len(ack)
        BY <2>3 DEF FinalInv, FailureIsFinal
    <3>2. ASSUME ack'[m] = "err", NEW n \in (m + 1)..Len(ack)
          PROVE  n = m + 1 /\ ack'[n] \in {"open", "cancelled"}
      <4>1. ack[m] = "err" /\ n \in DOMAIN ack
          BY <1>a, <2>3, <3>2
      <4>2. n = m + 1 /\ ack[n] \in {"open", "cancelled"}
          BY <3>2, <4>1 DEF FinalInv, FailureIsFinal
      <4> QED  BY <2>3, <4>1, <4>2
    <3> QED  BY <3>1, <3>2
  <2> QED  BY <2>1, <2>4 DEF FinalInv
<1>4. CASE \/ \E kind \in Calls : Call(kind)
           \/ PollReady \/ PollFlush \/ PollClose \/ Cancel \/ Drop
           \/ Recv \/ RecvNone \/ Timeout \/ Write \/ PeerRead \/ PeerReset \/ UNCHANGED vars
  <2>1. UNCHANGED ack /\ (open' => open)
      BY <1>4 DEF Call, PollReady, PollFlush, PollClose, Cancel, Drop, Recv, RecvNone, Timeout,
                  Write, PeerRead, PeerReset, vars
  <2> QED  BY <2>1, FinalQuiet
<1> QED  BY <1>1, <1>2, <1>3, <1>4 DEF Next, CallerPoll, PumpStep

\* The first failed write ends the task's loop for good: at most one more item
\* is accepted, before the task has ended, and it is cancelled, never tried.
THEOREM FailureEndsTheLoop == Spec => []FailureIsFinal
<1>1. Init => FinalInv
    BY DEF Init, FinalInv, FailureIsFinal
<1>2. Inv /\ FinalInv /\ [Next]_vars => FinalInv'
    BY FinalNext
<1>3. FinalInv => FailureIsFinal
    BY DEF FinalInv
<1> QED  BY <1>1, <1>2, <1>3, InvHolds, PTL DEF Spec

-----------------------------------------------------------------------------
(* The pump implements Outbox *)

\* What a oneshot says in the terms of Outbox.
Settled(v) == IF v \in {"err", "cancelled"} THEN "failed" ELSE v

LEMMA VerdictType ==
    ASSUME TypeOK
    PROVE  /\ Verdict \in Seq({"open", "ok", "failed"}) /\ Len(Verdict) = Len(ack)
           /\ DOMAIN Verdict = DOMAIN ack /\ DOMAIN ack = 1..Len(items) /\ Len(items) \in Nat
           /\ \A n \in DOMAIN ack : Verdict[n] = Settled(ack[n])
<1>0. AckType
    BY TypeParts
<1> QED  BY <1>0 DEF Verdict, Settled, AckType, Verdicts

\* One oneshot changes from open to v and the others stay: so do the verdicts.
LEMMA VerdictUpdate ==
    ASSUME TypeOK, TypeOK', NEW n \in DOMAIN ack, NEW v, v # "open",
           DOMAIN ack' = DOMAIN ack, ack'[n] = v,
           \A m \in DOMAIN ack : m # n => ack'[m] = ack[m]
    PROVE  Verdict' = [Verdict EXCEPT ![n] = Settled(v)]
BY DEF Verdict, Settled

LEMMA RefinesInit == Init => O!Init
BY DEF Init, O!Init, Verdict

LEMMA RefinesNext == Inv /\ [Next]_vars => [O!Next]_Verdict
<1> SUFFICES ASSUME Inv, [Next]_vars PROVE [O!Next]_Verdict
    OBVIOUS
<1>0. AckType /\ PumpType /\ TypeOK /\ TypeOK' /\ InFlightInv
    BY TypeParts, TypeNext DEF Inv
<1>a. ASSUME UNCHANGED ack PROVE UNCHANGED Verdict
    BY <1>a DEF Verdict
<1>1. CASE StartSend /\ open
  <2>1. ack' = Append(ack, "open") /\ op.pc = "start"
      BY <1>1 DEF StartSend
  <2>2. \A n \in DOMAIN ack : ack[n] # "open"
      BY <1>0, <2>1, VerdictType DEF Inv, InFlightInv, CallerInv
  <2>3. \A n \in DOMAIN Verdict : Verdict[n] # "open"
      BY <1>0, <2>2, VerdictType DEF Settled
  <2>4. Verdict' = Append(Verdict, "open")
    <3>1. DOMAIN Verdict' = 1..(Len(ack) + 1) /\ DOMAIN ack' = 1..(Len(ack) + 1)
        BY <1>0, <2>1 DEF Verdict, AckType
    <3>2. \A n \in 1..Len(ack) : Verdict'[n] = Verdict[n]
        BY <1>0, <2>1 DEF Verdict, AckType
    <3>3. Verdict'[Len(ack) + 1] = "open"
        BY <1>0, <2>1, <3>1 DEF Verdict, AckType
    <3>4. Verdict' \in Seq({"open", "ok", "failed"}) /\ Len(Verdict') = Len(ack) + 1
        BY <1>0, <2>1 DEF Verdict, AckType, Verdicts
    <3>5. Append(Verdict, "open") \in Seq({"open", "ok", "failed"})
          /\ Len(Append(Verdict, "open")) = Len(ack) + 1
          /\ \A n \in 1..Len(ack) : Append(Verdict, "open")[n] = Verdict[n]
          /\ Append(Verdict, "open")[Len(ack) + 1] = "open"
        BY <1>0, VerdictType DEF AckType
    <3>6. \A n \in 1..(Len(ack) + 1) : n \in 1..Len(ack) \/ n = Len(ack) + 1
        BY <1>0 DEF AckType
    <3>7. \A n \in 1..Len(Verdict') : Verdict'[n] = Append(Verdict, "open")[n]
        BY <3>2, <3>3, <3>4, <3>5, <3>6
    <3> HIDE DEF Verdict
    <3> QED  BY <3>4, <3>5, <3>7, SeqEqual
  <2> QED  BY <2>3, <2>4 DEF O!Next, O!Accept
<1>2. CASE WriteDone \/ WriteFail
  <2>1. CASE pump.n = 0
      BY <1>2, <1>a, <2>1 DEF WriteDone, WriteFail
  <2>2. CASE pump.n # 0
    <3>1. /\ pump.pc = "write" /\ pump.n \in DOMAIN ack /\ ack[pump.n] = "open"
          /\ pump.n = Len(items)
        BY <1>0, <1>2, <2>2 DEF WriteDone, WriteFail, InFlightInv, PumpType, AckType
    <3>2. Verdict[pump.n] = "open" /\ pump.n \in DOMAIN Verdict
        BY <1>0, <3>1, VerdictType DEF Settled
    <3>3. CASE WriteDone
      <4>1. ack' = [ack EXCEPT ![pump.n] = "ok"]
          BY <2>2, <3>3 DEF WriteDone
      <4>2. Verdict' = [Verdict EXCEPT ![pump.n] = Settled("ok")]
          BY <1>0, <3>1, <4>1, VerdictUpdate DEF AckType
      <4>3. \A m \in 1..(pump.n - 1) : Verdict[m] = "ok"
        <5>1. \A m \in 1..(pump.n - 1) : m \in DOMAIN ack /\ m # Len(items)
            BY <1>0, <3>1 DEF AckType
        <5>2. \A m \in DOMAIN ack : ack[m] \in Verdicts /\ ack[m] \notin {"err", "cancelled"}
            BY <1>0, <3>1 DEF Inv, FailedInv, AckType
        <5>3. \A m \in 1..(pump.n - 1) : ack[m] = "ok"
            BY <1>0, <5>1, <5>2 DEF InFlightInv, Verdicts
        <5> QED  BY <1>0, <5>1, <5>3, VerdictType DEF Settled
      <4> QED  BY <3>2, <4>2, <4>3 DEF O!Next, O!Deliver, Settled
    <3>4. CASE WriteFail
      <4>1. ack' = [ack EXCEPT ![pump.n] = "err"]
          BY <2>2, <3>4 DEF WriteFail
      <4>2. Verdict' = [Verdict EXCEPT ![pump.n] = Settled("err")]
          BY <1>0, <3>1, <4>1, VerdictUpdate DEF AckType
      <4> QED  BY <3>2, <4>2 DEF O!Next, O!GiveUp, Settled
    <3> QED  BY <1>2, <3>3, <3>4
  <2> QED  BY <2>1, <2>2
<1>3. CASE Exit
  <2>1. ack' = [n \in DOMAIN ack |->
                  IF \E i \in DOMAIN queue : queue[i] = n THEN "cancelled" ELSE ack[n]]
      BY <1>3 DEF Exit
  <2>2. CASE queue = << >>
    <3>1. ack' = ack
        BY <1>0, <2>1, <2>2 DEF AckType
    <3> QED  BY <1>a, <3>1
  <2>3. CASE queue # << >>
    <3>1. queue = <<Len(items)>> /\ ack[Len(items)] = "open"
        BY <1>0, <2>3 DEF InFlightInv
    <3>2. \A n : (\E i \in DOMAIN queue : queue[i] = n) <=> n = Len(items)
        BY <3>1
    <3>3. Len(items) \in DOMAIN ack
      <4>1. queue \in Seq(1..Len(items))
          BY <1>0 DEF TypeOK
      <4> QED  BY <1>0, <3>1, <4>1 DEF AckType
    <3>4. DOMAIN ack' = DOMAIN ack /\ ack'[Len(items)] = "cancelled"
          /\ \A m \in DOMAIN ack : m # Len(items) => ack'[m] = ack[m]
        BY <2>1, <3>2, <3>3
    <3>5. Verdict' = [Verdict EXCEPT ![Len(items)] = Settled("cancelled")]
        BY <1>0, <3>3, <3>4, VerdictUpdate
    <3>6. Verdict[Len(items)] = "open" /\ Len(items) \in DOMAIN Verdict
        BY <1>0, <3>1, <3>3, VerdictType DEF Settled
    <3> QED  BY <3>5, <3>6 DEF O!Next, O!GiveUp, Settled
  <2> QED  BY <2>2, <2>3
<1>4. CASE UNCHANGED <<items, ack, pump, wire>>
    BY <1>4, <1>a
<1>5. CASE Recv \/ RecvNone \/ Timeout \/ Write
    BY <1>5, <1>a DEF Recv, RecvNone, Timeout, Write
<1> QED  BY <1>1, <1>2, <1>3, <1>4, <1>5, WireCases

\* The pump, its channel and its caller implement Outbox: items are settled
\* one at a time, delivered only behind delivered ones, and verdicts stand.
THEOREM Refinement == Spec => OutboxSpec
BY RefinesInit, RefinesNext, InvHolds, PTL DEF Spec, OutboxSpec, O!Spec

-----------------------------------------------------------------------------
(* The pump implements Pipe *)

Accepted == [n \in DOMAIN items |-> n]

\* A future that is about to hand over an item was created within the bound.
BoundInv == op.pc \in {"ready", "start"} => Len(items) < MaxItems

\* What has arrived are the first items, and the others are not in the socket
\* as a whole.
ArrivedInv ==
    \E d \in 0..Len(items) :
        /\ Arrived = [m \in 1..d |-> m]
        /\ \A n \in 1..Len(items) : OnWire(n) <=> n <= d

\* Inv, with these.
PipeInv == Inv /\ BoundInv /\ ArrivedInv

LEMMA BoundNext == ASSUME TypeOK, BoundInv, [Next]_vars PROVE BoundInv'
<1>1. CASE \E kind \in Calls : Call(kind)
    BY <1>1 DEF BoundInv, Call
<1>2. CASE PollReady
  <2>1. op.pc = "ready" /\ items' = items
      BY <1>2 DEF PollReady
  <2> QED  BY <2>1 DEF BoundInv
<1>3. CASE StartSend
  <2>1. op'.pc \notin {"ready", "start"}
      BY <1>3 DEF StartSend, Return, NoOp
  <2> QED  BY <2>1 DEF BoundInv
<1>4. CASE PollFlush \/ PollClose \/ Cancel \/ Drop
  <2>1. op'.pc \notin {"ready", "start"}
      BY <1>4 DEF PollFlush, PollClose, Cancel, Drop, Return, NoOp, Gone
  <2> QED  BY <2>1 DEF BoundInv
<1>5. CASE PumpStep \/ PeerRead \/ PeerReset \/ UNCHANGED vars
  <2>1. UNCHANGED <<op, items>>
      BY <1>5 DEF PumpStep, Recv, RecvNone, Timeout, Write, WriteDone, WriteFail, Exit,
                  PeerRead, PeerReset, callerVars, vars
  <2> QED  BY <2>1 DEF BoundInv
<1> QED  BY <1>1, <1>2, <1>3, <1>4, <1>5 DEF Next, CallerPoll

\* A chunk in the socket adds the item it completes to what has arrived.
LEMMA ArrivedWrite ==
    ASSUME TypeOK, Write
    PROVE  Arrived' = IF pump.n # 0 /\ pump.k + 1 = ChunksOf(pump.n)
                      THEN Append(Arrived, pump.n) ELSE Arrived
<1> DEFINE s == [i \in DOMAIN wire |-> wire[i].n]
           D == {i \in DOMAIN wire : wire[i].n # 0 /\ wire[i].k = ChunksOf(wire[i].n)}
           t == [i \in DOMAIN wire' |-> wire'[i].n]
           E == {i \in DOMAIN wire' : wire'[i].n # 0 /\ wire'[i].k = ChunksOf(wire'[i].n)}
           L == Len(wire)
<1>1. /\ items' = items /\ L \in Nat /\ DOMAIN wire = 1..L /\ DOMAIN wire' = 1..(L + 1)
      /\ \A i \in 1..L : wire'[i] = wire[i]
      /\ wire'[L + 1] = [n |-> pump.n, k |-> pump.k + 1]
    BY WriteEffect DEF Write, callerVars
<1>2. Arrived = Selected(s, D)
    BY DEF Arrived, Completes
<1>3. Arrived' = Selected(t, E)
    BY <1>1 DEF Arrived, Completes, ChunksOf
<1>4. Len(s) = L /\ Len(t) = L + 1
  <2>1. DOMAIN s = 1..L /\ DOMAIN t = 1..(L + 1)
      BY <1>1
  <2>2. s \in [1..L -> {s[i] : i \in 1..L}] /\ t \in [1..(L + 1) -> {t[i] : i \in 1..(L + 1)}]
      BY <1>1
  <2> HIDE DEF s, t, L
  <2> QED  BY <1>1, <2>2
<1>5. \A i \in 1..L : t[i] = s[i] /\ (i \in E <=> i \in D)
  <2>1. \A i \in 1..L : i \in DOMAIN wire /\ i \in DOMAIN wire' /\ wire'[i] = wire[i]
      BY <1>1
  <2> QED  BY <2>1
<1>6. t[L + 1] = pump.n /\ (L + 1 \in E <=> pump.n # 0 /\ pump.k + 1 = ChunksOf(pump.n))
  <2>1. L + 1 \in DOMAIN wire'
      BY <1>1
  <2> QED  BY <1>1, <2>1
<1> HIDE DEF s, D, t, E, L
<1>7. Selected(t, E) = IF Len(t) \in E THEN Append(Selected(s, D), t[Len(t)]) ELSE Selected(s, D)
    BY <1>1, <1>4, <1>5, SelectedAppend
<1> QED  BY <1>2, <1>3, <1>4, <1>6, <1>7

\* No other step changes what has arrived.
LEMMA ArrivedStable ==
    ASSUME TypeOK, [Next]_vars, ~Write
    PROVE  Arrived' = Arrived
<1>1. wire' = wire
    BY WireGrows
<1>2. \A i \in DOMAIN wire : ChunksOf(wire[i].n)' = ChunksOf(wire[i].n)
  <2>1. \A i \in DOMAIN wire : wire[i].n \in 0..Len(items)
      BY WireElements
  <2>2. \A n \in 0..Len(items) : ChunksOf(n)' = ChunksOf(n)
      BY ChunksStable
  <2> QED  BY <1>1, <2>1, <2>2 DEF ChunksOf
<1>3. {i \in DOMAIN wire : Completes(wire[i])}' = {i \in DOMAIN wire : Completes(wire[i])}
    BY <1>1, <1>2 DEF Completes
<1> QED  BY <1>1, <1>3 DEF Arrived

\* An item that a chunk completes is the next to arrive.
LEMMA CompletesNext ==
    ASSUME Inv, Write, pump.n # 0, pump.k + 1 = ChunksOf(pump.n)
    PROVE  /\ pump.n = Len(items) /\ Len(items) \in Nat /\ ~OnWire(pump.n)
           /\ \A m \in 1..(pump.n - 1) : OnWire(m)
<1>1. TypeOK /\ AckType /\ InFlightInv /\ FailedInv /\ WrittenInv
    BY TypeParts DEF Inv
<1>2. /\ pump.pc = "write" /\ pump.k \in Nat /\ pump.k < ChunksOf(pump.n)
      /\ pump.n \in 0..Len(items)
    BY <1>1, WriteEffect
<1>3. /\ pump.n = Len(items) /\ ack[pump.n] = "open" /\ Len(items) \in Nat
      /\ DOMAIN ack = 1..Len(items) /\ pump.n \in DOMAIN ack
    BY <1>1, <1>2 DEF InFlightInv, AckType
<1>4. ~OnWire(pump.n)
    BY <1>1, <1>2, <1>3 DEF WrittenInv
<1>5. \A m \in 1..(pump.n - 1) : ack[m] = "ok"
  <2>1. \A m \in 1..(pump.n - 1) : m \in DOMAIN ack /\ m # Len(items)
      BY <1>3
  <2>2. \A m \in DOMAIN ack : ack[m] \in Verdicts /\ ack[m] \notin {"err", "cancelled"}
      BY <1>1, <1>2 DEF FailedInv, AckType
  <2> QED  BY <1>1, <2>1, <2>2 DEF InFlightInv, Verdicts
<1>6. \A m \in 1..(pump.n - 1) : OnWire(m)
    BY <1>1, <1>3, <1>5 DEF WrittenInv
<1> QED  BY <1>3, <1>4, <1>6

\* What a chunk does to OnWire.
LEMMA OnWireWrite ==
    ASSUME TypeOK, Write, NEW n \in 1..Len(items)
    PROVE  OnWire(n)' <=> OnWire(n) \/ (n = pump.n /\ pump.k + 1 = ChunksOf(n))
<1>1. /\ items' = items /\ Len(wire) \in Nat /\ DOMAIN wire = 1..Len(wire)
      /\ DOMAIN wire' = 1..(Len(wire) + 1)
      /\ \A i \in 1..Len(wire) : wire'[i] = wire[i]
      /\ wire'[Len(wire) + 1] = [n |-> pump.n, k |-> pump.k + 1]
    BY WriteEffect DEF Write, callerVars
<1>2. ChunksOf(n)' = ChunksOf(n)
    BY <1>1 DEF ChunksOf
<1>3. \A i \in DOMAIN wire' : i \in DOMAIN wire \/ i = Len(wire) + 1
    BY <1>1
<1>4. Len(wire) + 1 \in DOMAIN wire' /\ \A i \in DOMAIN wire : i \in DOMAIN wire'
    BY <1>1
<1> QED  BY <1>1, <1>2, <1>3, <1>4 DEF OnWire

-----------------------------------------------------------------------------
LEMMA PipeInit == Init => BoundInv /\ ArrivedInv /\ P!Init
<1> SUFFICES ASSUME Init PROVE BoundInv /\ ArrivedInv /\ Accepted = << >> /\ Arrived = << >>
    BY DEF P!Init, Accepted
<1>1. items = << >> /\ wire = << >> /\ op.pc = "idle"
    BY DEF Init, NoOp
<1>2. Accepted = << >> /\ BoundInv
    BY <1>1 DEF Accepted, BoundInv
<1>3. Arrived = << >>
  <2> DEFINE s == [i \in DOMAIN wire |-> wire[i].n]
             D == {i \in DOMAIN wire : Completes(wire[i])}
  <2>1. Len(s) = 0
      BY <1>1
  <2>2. Arrived = Selected(s, D)
      BY DEF Arrived
  <2> HIDE DEF s, D
  <2> QED  BY <2>1, <2>2, SelectedEmpty
<1>4. [m \in 1..0 |-> m] = << >> /\ 0 \in 0..Len(items) /\ 1..Len(items) = {}
    BY <1>1
<1>5. ArrivedInv
    BY <1>3, <1>4 DEF ArrivedInv
<1> QED  BY <1>2, <1>3, <1>5

\* An item handed over has not arrived, and is the next that Pipe accepts.
LEMMA PipeHandover ==
    ASSUME PipeInv, [Next]_vars, StartSend, open
    PROVE  ArrivedInv' /\ P!Next
<1>0. PICK n : n = Len(items) + 1
    OBVIOUS
<1>1. /\ Len(items) \in Nat /\ Len(items') = n /\ wire' = wire /\ op.pc = "start"
      /\ DOMAIN items = 1..Len(items) /\ DOMAIN items' = 1..n /\ TypeOK
  <2>1. TypeOK /\ AckType /\ AckType'
      BY TypeNext, TypeParts DEF PipeInv, Inv, TypeOK, AckType
  <2> QED  BY <1>0, <2>1, HandoverEffect DEF AckType, StartSend
<1>2. ~Write
  <2>1. Write => items' = items
      BY DEF Write, callerVars
  <2> QED  BY <1>0, <1>1, <2>1
<1>3. Arrived' = Arrived /\ \A m \in 1..Len(items) : OnWire(m)' <=> OnWire(m)
  <2>1. \A m \in 1..Len(items) : m \in 0..Len(items)
      BY <1>1
  <2> QED  BY <1>1, <1>2, <2>1, ArrivedStable, OnWireStable
<1>4. PICK d \in 0..Len(items) :
         Arrived = [m \in 1..d |-> m] /\ \A m \in 1..Len(items) : OnWire(m) <=> m <= d
    BY DEF PipeInv, ArrivedInv
<1>5. ~OnWire(n)'
  <2>1. \A i \in DOMAIN wire : wire[i].n # n
      BY <1>0, <1>1, WireElements
  <2> QED  BY <1>1, <2>1 DEF OnWire
<1>6. ArrivedInv'
  <2>1. d \in 0..Len(items') /\ \A m \in 1..Len(items') : m \in 1..Len(items) \/ (m = n /\ ~(m <= d))
      BY <1>0, <1>1, <1>4
  <2> QED  BY <1>3, <1>4, <1>5, <2>1 DEF ArrivedInv
<1>7. n \in 1..MaxItems
    BY <1>0, <1>1, PumpAssumption DEF PipeInv, BoundInv
<1>8. Accepted' = Append(Accepted, n)
  <2>1. Accepted' = [m \in 1..(Len(items) + 1) |-> m] /\ Accepted = [m \in 1..Len(items) |-> m]
      BY <1>0, <1>1 DEF Accepted
  <2> QED  BY <1>0, <1>1, <2>1, CountAppend
<1> QED  BY <1>3, <1>6, <1>7, <1>8 DEF P!Next, P!Accept, Accepted

\* A chunk delivers the next item, or none: a beat, or the inside of a frame.
LEMMA PipeWrite ==
    ASSUME PipeInv, Write
    PROVE  ArrivedInv' /\ (P!Next \/ UNCHANGED <<Accepted, Arrived>>)
<1>1. TypeOK /\ items' = items /\ Len(items) \in Nat /\ DOMAIN items = 1..Len(items)
    BY TypeParts DEF PipeInv, Inv, AckType, Write, callerVars
<1>a. Len(items) \in Nat
    BY <1>1
<1>2. PICK d \in 0..Len(items) :
         Arrived = [m \in 1..d |-> m] /\ \A m \in 1..Len(items) : OnWire(m) <=> m <= d
    BY DEF PipeInv, ArrivedInv
<1>3. CASE pump.n # 0 /\ pump.k + 1 = ChunksOf(pump.n)
  <2>1. /\ pump.n = Len(items) /\ ~OnWire(pump.n)
        /\ \A m \in 1..(pump.n - 1) : OnWire(m)
      BY <1>3, CompletesNext DEF PipeInv
  <2>2. d + 1 = Len(items) /\ Len(items) \in 1..Len(items)
    <3>1. Len(items) \in 1..Len(items) /\ ~(Len(items) <= d)
        BY <1>1, <1>2, <1>3, <2>1
    <3>2. Len(items) - 1 = 0 \/ Len(items) - 1 \in 1..(Len(items) - 1)
        BY <1>1, <3>1
    <3>3. Len(items) - 1 = 0 \/ Len(items) - 1 <= d
        BY <1>1, <1>2, <2>1, <3>2
    <3>4. Len(items) >= 1 /\ d < Len(items)
        BY <1>a, <3>1
    <3>5. Len(items) - 1 <= d
        BY <1>a, <3>3, <3>4
    <3> QED  BY <1>a, <3>1, <3>4, <3>5
  <2>3. Arrived' = Append(Arrived, d + 1) /\ Append(Arrived, d + 1) = [m \in 1..(d + 1) |-> m]
        /\ Len(Arrived) = d
    <3>1. Arrived' = Append(Arrived, pump.n)
        BY <1>1, <1>3, ArrivedWrite
    <3> QED  BY <1>2, <2>1, <2>2, <3>1, CountAppend
  <2>4. \A m \in 1..Len(items) : OnWire(m)' /\ m <= d + 1
    <3> TAKE m \in 1..Len(items)
    <3>1. (m \in 1..(Len(items) - 1) \/ m = Len(items)) /\ m <= d + 1
        BY <1>a, <2>2
    <3>2. m = Len(items) => m = pump.n /\ pump.k + 1 = ChunksOf(m)
        BY <1>3, <2>1
    <3>3. m \in 1..(Len(items) - 1) => OnWire(m)
        BY <2>1
    <3> QED  BY <1>1, <3>1, <3>2, <3>3, OnWireWrite
  <2>5. ArrivedInv'
    <3>1. d + 1 \in 0..Len(items')
        BY <1>1, <2>2
    <3> QED  BY <1>1, <2>3, <2>4, <3>1 DEF ArrivedInv
  <2>6. Accepted[d + 1] = d + 1 /\ Accepted' = Accepted /\ Len(Accepted) = Len(items)
    <3>1. Accepted = [m \in 1..Len(items) |-> m] /\ Accepted' = Accepted
        BY <1>1 DEF Accepted
    <3> QED  BY <1>1, <2>2, <3>1, CountAppend
  <2>7. d < Len(items)
      BY <1>1, <2>2
  <2> QED  BY <2>3, <2>5, <2>6, <2>7 DEF P!Next, P!Deliver, Accepted
<1>4. CASE ~(pump.n # 0 /\ pump.k + 1 = ChunksOf(pump.n))
  <2>1. Arrived' = Arrived
      BY <1>1, <1>4, ArrivedWrite
  <2>2. \A m \in 1..Len(items) : OnWire(m)' <=> OnWire(m)
      BY <1>1, <1>4, OnWireWrite
  <2>3. ArrivedInv'
      BY <1>1, <1>2, <2>1, <2>2 DEF ArrivedInv
  <2> QED  BY <1>1, <2>1, <2>3 DEF Accepted
<1> QED  BY <1>3, <1>4

LEMMA PipeNext ==
    PipeInv /\ [Next]_vars => PipeInv' /\ [P!Next]_<<Accepted, Arrived>>
<1> SUFFICES ASSUME PipeInv, [Next]_vars
             PROVE  PipeInv' /\ (P!Next \/ UNCHANGED <<Accepted, Arrived>>)
    OBVIOUS
<1>1. Inv' /\ BoundInv' /\ TypeOK
    BY InvNext, BoundNext DEF PipeInv, Inv
<1>2. CASE StartSend /\ open
    BY <1>1, <1>2, PipeHandover DEF PipeInv
<1>3. CASE Write
    BY <1>1, <1>3, PipeWrite DEF PipeInv
<1>4. CASE ~(StartSend /\ open) /\ ~Write
  <2>1. items' = items
      BY <1>4, WireCases DEF Recv, RecvNone, Timeout, WriteDone, WriteFail, Exit, callerVars
  <2>2. Arrived' = Arrived
      BY <1>1, <1>4, ArrivedStable
  <2>3. \A m \in 1..Len(items) : OnWire(m)' <=> OnWire(m)
    <3>1. \A m \in 1..Len(items) : m \in 0..Len(items)
        BY <1>1, TypeParts DEF AckType
    <3> QED  BY <1>1, <1>4, <3>1, OnWireStable
  <2>4. ArrivedInv'
      BY <2>1, <2>2, <2>3 DEF PipeInv, ArrivedInv
  <2> QED  BY <1>1, <2>1, <2>2, <2>4 DEF PipeInv, Accepted
<1> QED  BY <1>2, <1>3, <1>4

\* A beating connection implements Pipe, for any sizes: what the background
\* task puts in the socket are the items, in order, none skipped, none twice,
\* its own beats and the futures that were dropped on the way left out.
THEOREM PipeRefinement == Spec => PipeSpec
<1>1. Spec => []PipeInv
    BY InvInit, PipeInit, PipeNext, PTL DEF Spec, PipeInv
<1> QED  BY <1>1, PipeInit, PipeNext, PTL DEF Spec, PipeSpec, P!Spec, Accepted
=============================================================================
