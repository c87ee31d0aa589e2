---------------------------- MODULE DirectProofs ----------------------------
(***************************************************************************)
(* Proofs about Direct, for every frame size, backpressure boundary and    *)
(* kernel buffer and any number of items.                                  *)
(***************************************************************************)
EXTENDS Direct, Lemmas

\* Everything that was encoded and not lost with the transport, in order.
Stream == wire \o buffer

Final(n) == [n |-> n, k |-> ChunksOf(items[n])]

\* After, with the items as a parameter.
AfterIn(its, c) ==
    IF c.k < ChunksOf(its[c.n]) THEN [c EXCEPT !.k = @ + 1] ELSE [n |-> c.n + 1, k |-> 1]

\* One piece is of an earlier item than the other, or earlier in the same.
Before(c, d) == c.n < d.n \/ (c.n = d.n /\ c.k < d.k)

\* No piece lies beyond the end of its item, none comes twice, and all of them
\* have been encoded to the end.
StreamInv ==
    op.pc # "gone" =>
        /\ \A i \in DOMAIN Stream : Stream[i].k <= ChunksOf(items[Stream[i].n])
        /\ \A i, j \in DOMAIN Stream : i < j => Before(Stream[i], Stream[j])
        /\ \A n \in DOMAIN items : \E i \in DOMAIN Stream : Stream[i] = Final(n)

\* What the future that runs has done so far: its item is the last one, the
\* buffer is below the boundary where it may add to it, and no result of an
\* earlier one is around.
OpInv ==
    /\ op.pc # "idle" => ret = NoRet
    /\ op.pc \in {"ready", "drain", "start"} =>
        op.n = 0 /\ op.kind \in Handing /\ Len(items) < MaxItems
    /\ op.pc = "start" => Len(buffer) < Boundary
    /\ op.pc = "flush" /\ op.kind \in {"send", "send_heartbeat"} =>
        op.n = Len(items) /\ op.n # 0

Inv == TypeOK /\ OpInv /\ StreamInv /\ NothingTorn /\ ResultsAreHonest

-----------------------------------------------------------------------------
(* The operators of the model *)

\* An item has at least one piece and no more than a frame has.
LEMMA ChunksType == \A kind : ChunksOf(kind) \in 1..FrameChunks
BY DirectAssumption DEF ChunksOf

\* What the type invariant says of the sequences.
LEMMA SeqFacts ==
    ASSUME TypeOK
    PROVE  /\ items \in Seq({"Message", "Heartbeat"}) /\ Len(items) \in Nat
           /\ DOMAIN items = 1..Len(items)
           /\ wire \in Seq(Pieces) /\ Len(wire) \in Nat /\ DOMAIN wire = 1..Len(wire)
           /\ buffer \in Seq(Pieces) /\ Len(buffer) \in Nat /\ DOMAIN buffer = 1..Len(buffer)
           /\ Stream \in Seq(Pieces) /\ Len(Stream) = Len(wire) + Len(buffer)
           /\ DOMAIN Stream = 1..Len(Stream)
           /\ \A i \in DOMAIN Stream : Stream[i] \in Pieces
           /\ \A i \in DOMAIN wire : i \in DOMAIN Stream /\ Stream[i] = wire[i]
<1>1. /\ items \in Seq({"Message", "Heartbeat"}) /\ wire \in Seq(Pieces)
      /\ buffer \in Seq(Pieces)
    BY DEF TypeOK
<1>2. /\ Len(items) \in Nat /\ Len(wire) \in Nat /\ Len(buffer) \in Nat
      /\ DOMAIN items = 1..Len(items) /\ DOMAIN wire = 1..Len(wire)
      /\ DOMAIN buffer = 1..Len(buffer)
    BY <1>1, LenProperties
<1>3. Stream \in Seq(Pieces) /\ Len(Stream) = Len(wire) + Len(buffer)
    BY <1>1, ConcatProperties DEF Stream
<1>4. DOMAIN Stream = 1..Len(Stream) /\ \A i \in DOMAIN Stream : Stream[i] \in Pieces
    BY <1>3, LenProperties, ElementOfSeq
<1>5. \A i \in DOMAIN wire : i \in DOMAIN Stream /\ Stream[i] = wire[i]
  <2> SUFFICES ASSUME NEW i \in 1..Len(wire) PROVE i \in DOMAIN Stream /\ Stream[i] = wire[i]
      BY <1>2
  <2>1. i \in 1..(Len(wire) + Len(buffer))
      BY <1>2
  <2> QED  BY <1>1, <1>2, <1>3, <1>4, <2>1, ConcatProperties DEF Stream
<1> QED  BY <1>1, <1>2, <1>3, <1>4, <1>5

LEMMA PieceType ==
    ASSUME NEW c \in Pieces
    PROVE  c.n \in 1..Len(items) /\ c.k \in 1..FrameChunks /\ c = [n |-> c.n, k |-> c.k]
BY DEF Pieces

\* Ok, an error and a future that is dropped leave no future behind.
LEMMA ReturnType ==
    ASSUME TypeOK, NEW res \in {"ok", "err", "cancelled"}, Return(res), UNCHANGED items
    PROVE  /\ op' = NoOp /\ ret'.kind = op.kind /\ ret'.n = op.n /\ ret'.res = res
           /\ op' \in [kind : Calls \cup {"none"},
                       pc : {"idle", "ready", "drain", "start", "flush", "gone"},
                       n : 0..Len(items)]
           /\ ret' \in [kind : Calls \cup {"none"}, n : 0..Len(items),
                        res : {"none", "ok", "err", "cancelled"}]
<1>1. op.kind \in Calls \cup {"none"} /\ op.n \in 0..Len(items)
    BY DEF TypeOK
<1>2. 0 \in 0..Len(items)
    BY SeqFacts
<1> QED  BY <1>1, <1>2 DEF Return, NoOp

\* A sequence over a set is one over any larger set.
LEMMA SeqMono ==
    ASSUME NEW S, NEW T, S \subseteq T, NEW s \in Seq(S)
    PROVE  s \in Seq(T)
<1>1. Len(s) \in Nat /\ s \in [1..Len(s) -> S]
    BY LenProperties
<1>2. s \in [1..Len(s) -> T]
    BY <1>1
<1> QED  BY <1>1, <1>2

-----------------------------------------------------------------------------
(* The inductive invariant *)

LEMMA InvInit == Init => Inv
<1> SUFFICES ASSUME Init PROVE Inv
    OBVIOUS
<1>0. items = << >> /\ wire = << >> /\ buffer = << >> /\ Len(items) = 0
    BY DEF Init
<1>1. TypeOK
  <2>1. op \in [kind : Calls \cup {"none"},
                pc : {"idle", "ready", "drain", "start", "flush", "gone"}, n : 0..Len(items)]
      BY <1>0 DEF Init, NoOp
  <2>2. ret \in [kind : Calls \cup {"none"}, n : 0..Len(items),
                 res : {"none", "ok", "err", "cancelled"}]
      BY <1>0 DEF Init, NoRet
  <2>3. Len(buffer) < Boundary + FrameChunks /\ unread \in 0..SockCap
      BY <1>0, DirectAssumption DEF Init
  <2> QED  BY <1>0, <2>1, <2>2, <2>3 DEF Init, TypeOK
<1>2. Stream = << >> /\ DOMAIN Stream = {}
    BY <1>0 DEF Stream
<1>3. OpInv
    BY DEF Init, OpInv, NoOp
<1>4. StreamInv
    BY <1>0, <1>2 DEF StreamInv
<1>5. NothingTorn
    BY <1>0, <1>2 DEF NothingTorn, Stream
<1>6. ResultsAreHonest
    BY DEF Init, ResultsAreHonest, NoRet
<1> QED  BY <1>1, <1>3, <1>4, <1>5, <1>6 DEF Inv

\* The steps that leave the pieces where they are.
LEMMA QuietStream ==
    ASSUME Inv, UNCHANGED <<items, buffer, wire>>, op.pc = "gone" => op'.pc = "gone"
    PROVE  StreamInv' /\ NothingTorn'
<1>1. Stream' = Stream
    BY DEF Stream
<1>2. StreamInv'
    BY <1>1 DEF Inv, StreamInv, Final
<1>3. NothingTorn'
    BY DEF Inv, NothingTorn, After
<1> QED  BY <1>2, <1>3

\* Those of them that end no future.
LEMMA QuietResults ==
    ASSUME Inv, UNCHANGED <<items, buffer, wire>>, ret' \in {ret, NoRet},
           sock' = sock \/ (sock = "open" /\ sock' # "open")
    PROVE  ResultsAreHonest'
<1>1. CASE ret' = NoRet
    BY <1>1 DEF ResultsAreHonest, NoRet
<1>2. CASE ret' = ret
  <2>1. \A n : OnWire(n)' <=> OnWire(n)
      BY DEF OnWire
  <2> QED  BY <1>2, <2>1 DEF Inv, ResultsAreHonest
<1> QED  BY <1>1, <1>2

LEMMA InvCall == ASSUME Inv, NEW kind \in Calls, Call(kind) PROVE Inv'
<1>1. /\ op.pc = "idle"
      /\ kind \in Handing => Len(items) < MaxItems
      /\ op' = [kind |-> kind, pc |-> IF kind \in Handing THEN "ready" ELSE "flush", n |-> 0]
      /\ ret' = NoRet /\ UNCHANGED <<items, buffer, wire, unread, sock>>
    BY DEF Call, sockVars
<1>2. 0 \in 0..Len(items)
    BY SeqFacts DEF Inv
<1>3. TypeOK'
  <2>1. op' \in [kind : Calls \cup {"none"},
                 pc : {"idle", "ready", "drain", "start", "flush", "gone"}, n : 0..Len(items)]
      BY <1>1, <1>2
  <2>2. ret' \in [kind : Calls \cup {"none"}, n : 0..Len(items),
                  res : {"none", "ok", "err", "cancelled"}]
      BY <1>1, <1>2 DEF NoRet
  <2> QED  BY <1>1, <2>1, <2>2 DEF Inv, TypeOK, Pieces
<1>4. OpInv'
  <2>1. op'.kind = kind /\ op'.n = 0
        /\ op'.pc = IF kind \in Handing THEN "ready" ELSE "flush"
      BY <1>1
  <2>2. CASE kind \in Handing
      BY <1>1, <2>1, <2>2 DEF OpInv
  <2>3. CASE kind \notin Handing
    <3>1. op'.pc = "flush" /\ op'.kind \notin {"send", "send_heartbeat"}
        BY <2>1, <2>3 DEF Handing
    <3> QED  BY <1>1, <3>1 DEF OpInv
  <2> QED  BY <2>2, <2>3
<1>5. StreamInv' /\ NothingTorn' /\ ResultsAreHonest'
  <2>1. op.pc = "gone" => op'.pc = "gone"
      BY <1>1
  <2>2. ret' \in {ret, NoRet} /\ sock' = sock
      BY <1>1
  <2> QED  BY <1>1, <2>1, <2>2, QuietStream, QuietResults
<1> QED  BY <1>3, <1>4, <1>5 DEF Inv

\* poll_ready, on its two paths.
LEMMA InvReady == ASSUME Inv, PollReady \/ Drained PROVE Inv'
<1>1. /\ op.pc \in {"ready", "drain"} /\ op.pc # "gone"
      /\ UNCHANGED <<ret, items, buffer, wire, unread, sock>>
    BY DEF PollReady, Drained, sockVars
<1>2. PICK p \in {"start", "drain"} : op' = [op EXCEPT !.pc = p]
                                      /\ (p = "start" => Len(buffer) < Boundary)
  <2>1. buffer = << >> => Len(buffer) < Boundary
      BY DirectAssumption
  <2> QED  BY <2>1 DEF PollReady, Drained
<1>3. /\ op' \in [kind : Calls \cup {"none"},
                  pc : {"idle", "ready", "drain", "start", "flush", "gone"}, n : 0..Len(items)]
      /\ op'.pc = p /\ op'.n = op.n /\ op'.kind = op.kind
    BY <1>2 DEF Inv, TypeOK
<1>4. TypeOK'
    BY <1>1, <1>3 DEF Inv, TypeOK, Pieces
<1>5. OpInv'
    BY <1>1, <1>2, <1>3 DEF Inv, OpInv
<1>6. StreamInv' /\ NothingTorn' /\ ResultsAreHonest'
    BY <1>1, QuietStream, QuietResults
<1> QED  BY <1>4, <1>5, <1>6 DEF Inv

\* A future ends, with what ResultsAreHonest says of its result.
LEMMA InvReturn ==
    ASSUME Inv, NEW res \in {"ok", "err", "cancelled"}, Return(res), op.pc # "gone",
           UNCHANGED <<items, buffer, wire, unread>>,
           sock' \in {"open", "broken", "shut"},
           res = "ok" => /\ buffer = << >>
                         /\ op.kind = "close" => sock' # "open",
           res = "err" /\ op.kind \in {"send", "send_heartbeat"} => op.n = 0 \/ buffer # << >>,
           op.n # 0 /\ op.kind \in {"send", "send_heartbeat"} => op.n = Len(items)
    PROVE  Inv'
<1>0. /\ op' = NoOp /\ ret'.kind = op.kind /\ ret'.n = op.n /\ ret'.res = res
      /\ op'.pc = "idle"
    BY ReturnType DEF Inv, NoOp
<1>1. TypeOK'
    BY ReturnType DEF Inv, TypeOK, Pieces
<1>2. OpInv'
    BY <1>0 DEF OpInv
<1>3. StreamInv' /\ NothingTorn'
    BY QuietStream
<1>4. ResultsAreHonest'
  <2>0. \A n : OnWire(n)' <=> OnWire(n)
      BY DEF OnWire
  <2>1. ASSUME res = "ok" PROVE \A n \in DOMAIN items : OnWire(n)
    <3>1. Stream = wire
        BY <2>1, SeqFacts, ConcatEmptySeq DEF Inv, Stream
    <3> QED  BY <3>1 DEF Inv, StreamInv, OnWire, Final
  <2>2. ASSUME buffer # << >>, op.n = Len(items), op.n # 0 PROVE ~OnWire(op.n)
    <3> DEFINE L == Len(Stream)
    <3>0. /\ Stream \in Seq(Pieces) /\ Len(Stream) = Len(wire) + Len(buffer)
          /\ DOMAIN Stream = 1..L /\ L \in Nat /\ Len(wire) \in Nat /\ Len(buffer) > 0
          /\ DOMAIN wire = 1..Len(wire)
        BY <2>2, SeqFacts, EmptySeq DEF Inv
    <3>1. L \in DOMAIN Stream /\ Stream # << >>
        BY <3>0
    <3>2. After(Stream[L]) = [n |-> Len(items) + 1, k |-> 1]
        BY <3>1 DEF Inv, NothingTorn, Stream
    <3>3. Stream[L] \in Pieces /\ Len(items) \in Nat
        BY <3>1, SeqFacts DEF Inv
    <3>4. Stream[L].n = Len(items) /\ Stream[L].k >= ChunksOf(items[Stream[L].n])
      <4>1. Stream[L].n \in 1..Len(items) /\ Stream[L].k \in 1..FrameChunks
            /\ ChunksOf(items[Stream[L].n]) \in 1..FrameChunks
          BY <3>3, PieceType, ChunksType
      <4>2. [Stream[L] EXCEPT !.k = @ + 1].n = Stream[L].n
          BY <3>3 DEF Pieces
      <4>3. Stream[L].n # Len(items) + 1
          BY <3>3, <4>1
      <4>4. ~(Stream[L].k < ChunksOf(items[Stream[L].n]))
          BY <3>2, <4>2, <4>3 DEF After
      <4>5. Stream[L].n + 1 = Len(items) + 1
          BY <3>2, <4>4 DEF After
      <4> QED  BY <3>3, <4>1, <4>4, <4>5
    <3>5. ASSUME NEW i \in DOMAIN wire, wire[i] = [n |-> op.n, k |-> ChunksOf(items[op.n])]
          PROVE  FALSE
      <4>1. i \in DOMAIN Stream /\ Stream[i] = wire[i] /\ i < L
          BY <3>0, SeqFacts DEF Inv
      <4>2. Before(Stream[i], Stream[L])
          BY <3>1, <4>1 DEF Inv, StreamInv
      <4>3. Stream[i].n = Len(items) /\ Stream[i].k = ChunksOf(items[Len(items)])
          BY <2>2, <3>5, <4>1
      <4>4. ChunksOf(items[Len(items)]) < Stream[L].k
          BY <3>3, <3>4, <4>2, <4>3 DEF Before
      <4>5. Stream[L].k <= ChunksOf(items[Len(items)])
          BY <3>1, <3>4 DEF Inv, StreamInv
      <4>6. Stream[L].k \in Nat /\ ChunksOf(items[Len(items)]) \in Nat
          BY <3>3, PieceType, ChunksType, DirectAssumption
      <4> QED  BY <4>4, <4>5, <4>6
    <3> QED  BY <3>5 DEF OnWire
  <2> QED  BY <1>0, <2>0, <2>1, <2>2 DEF ResultsAreHonest
<1> QED  BY <1>1, <1>2, <1>3, <1>4 DEF Inv

LEMMA InvWriteFail == ASSUME Inv, WriteFail PROVE Inv'
<1>1. /\ op.pc \in {"drain", "flush"} /\ buffer # << >> /\ Return("err")
      /\ UNCHANGED <<items, buffer, wire, unread, sock>>
    BY DEF WriteFail, sockVars
<1>2. sock' \in {"open", "broken", "shut"}
    BY <1>1 DEF Inv, TypeOK
<1>3. op.n # 0 /\ op.kind \in {"send", "send_heartbeat"} => op.n = Len(items)
    BY <1>1 DEF Inv, OpInv
<1> QED  BY <1>1, <1>2, <1>3, InvReturn

LEMMA InvFlushed == ASSUME Inv, Flushed PROVE Inv'
<1>1. /\ op.pc = "flush" /\ op.kind # "close" /\ buffer = << >> /\ Return("ok")
      /\ UNCHANGED <<items, buffer, wire, unread, sock>>
    BY DEF Flushed, sockVars
<1>2. sock' \in {"open", "broken", "shut"}
    BY <1>1 DEF Inv, TypeOK
<1>3. op.n # 0 /\ op.kind \in {"send", "send_heartbeat"} => op.n = Len(items)
    BY <1>1 DEF Inv, OpInv
<1> QED  BY <1>1, <1>2, <1>3, InvReturn

LEMMA InvClosed == ASSUME Inv, Closed PROVE Inv'
<1>1. /\ op.pc = "flush" /\ op.kind = "close" /\ buffer = << >>
      /\ UNCHANGED <<items, buffer, wire, unread>>
    BY DEF Closed
<1>2. sock \in {"open", "broken", "shut"} /\ op.kind \notin {"send", "send_heartbeat"}
    BY <1>1 DEF Inv, TypeOK
<1>3. CASE Return("ok") /\ sock' = IF sock = "open" THEN "shut" ELSE sock
  <2>1. sock' \in {"open", "broken", "shut"} /\ sock' # "open"
      BY <1>2, <1>3
  <2> QED  BY <1>1, <1>2, <1>3, <2>1, InvReturn
<1>4. CASE Return("err") /\ UNCHANGED sock
    BY <1>1, <1>2, <1>4, InvReturn
<1> QED  BY <1>3, <1>4 DEF Closed

LEMMA InvCancel == ASSUME Inv, Cancel PROVE Inv'
<1>1. /\ op.pc \in {"ready", "drain", "start", "flush"} /\ Return("cancelled")
      /\ UNCHANGED <<items, buffer, wire, unread, sock>>
    BY DEF Cancel, sockVars
<1>2. sock' \in {"open", "broken", "shut"}
    BY <1>1 DEF Inv, TypeOK
<1>3. op.n # 0 /\ op.kind \in {"send", "send_heartbeat"} => op.n = Len(items)
    BY <1>1 DEF Inv, OpInv
<1> QED  BY <1>1, <1>2, <1>3, InvReturn

\* The transport goes, and with it what was left in the buffer.
LEMMA InvDrop == ASSUME Inv, Drop PROVE Inv'
<1>1. /\ op' = Gone /\ ret' = NoRet /\ buffer' = << >>
      /\ sock' = IF sock = "open" THEN "shut" ELSE sock
      /\ UNCHANGED <<items, wire, unread>>
    BY DEF Drop
<1>2. 0 \in 0..Len(items)
    BY SeqFacts DEF Inv
<1>3. TypeOK'
  <2>1. op' \in [kind : Calls \cup {"none"},
                 pc : {"idle", "ready", "drain", "start", "flush", "gone"}, n : 0..Len(items)]
      BY <1>1, <1>2 DEF Gone
  <2>2. ret' \in [kind : Calls \cup {"none"}, n : 0..Len(items),
                  res : {"none", "ok", "err", "cancelled"}]
      BY <1>1, <1>2 DEF NoRet
  <2>3. buffer' \in Seq(Pieces) /\ Len(buffer') < Boundary + FrameChunks
      BY <1>1, DirectAssumption
  <2>4. sock' \in {"open", "broken", "shut"}
      BY <1>1 DEF Inv, TypeOK
  <2> QED  BY <1>1, <2>1, <2>2, <2>3, <2>4 DEF Inv, TypeOK, Pieces
<1>4. op'.pc = "gone"
    BY <1>1 DEF Gone
<1>5. OpInv'
    BY <1>1, <1>4 DEF OpInv
<1>6. StreamInv' /\ NothingTorn'
    BY <1>4 DEF StreamInv, NothingTorn
<1>7. ResultsAreHonest'
    BY <1>1 DEF ResultsAreHonest, NoRet
<1> QED  BY <1>3, <1>5, <1>6, <1>7 DEF Inv

\* The peer, and stuttering.
LEMMA InvPeer ==
    ASSUME Inv, UNCHANGED <<op, ret, items, buffer, wire>>, unread' \in 0..SockCap,
           sock' = sock \/ (sock = "open" /\ sock' = "broken")
    PROVE  Inv'
<1>1. TypeOK'
    BY DEF Inv, TypeOK, Pieces
<1>2. OpInv'
    BY DEF Inv, OpInv
<1>3. StreamInv' /\ NothingTorn' /\ ResultsAreHonest'
    BY QuietStream, QuietResults
<1> QED  BY <1>1, <1>2, <1>3 DEF Inv

\* A piece moves from the buffer to the socket: the stream is the same.
LEMMA InvWrite == ASSUME Inv, Write PROVE Inv'
<1>1. /\ op.pc \in {"drain", "flush"} /\ buffer # << >> /\ unread < SockCap
      /\ wire' = Append(wire, Head(buffer)) /\ buffer' = Tail(buffer)
      /\ unread' = unread + 1
      /\ UNCHANGED <<op, ret, items, sock>>
    BY DEF Write
<1>2. wire \in Seq(Pieces) /\ buffer \in Seq(Pieces) /\ Len(buffer) \in Nat
    BY SeqFacts DEF Inv
<1>3. /\ Head(buffer) \in Pieces /\ Tail(buffer) \in Seq(Pieces)
      /\ Len(Tail(buffer)) = Len(buffer) - 1 /\ <<Head(buffer)>> \in Seq(Pieces)
    BY <1>1, <1>2, HeadTailProperties
<1>4. TypeOK'
  <2>1. wire' \in Seq(Pieces)
      BY <1>1, <1>2, <1>3, AppendProperties
  <2>2. Len(buffer') < Boundary + FrameChunks /\ unread' \in 0..SockCap
      BY <1>1, <1>2, <1>3, DirectAssumption DEF Inv, TypeOK
  <2> QED  BY <1>1, <1>3, <2>1, <2>2 DEF Inv, TypeOK, Pieces
<1>5. Stream' = Stream
  <2>1. wire' = wire \o <<Head(buffer)>>
      BY <1>1, <1>2, <1>3, AppendIsConcat
  <2>2. buffer = <<Head(buffer)>> \o Tail(buffer)
      BY <1>1, <1>2, HeadTailProperties
  <2>3. (wire \o <<Head(buffer)>>) \o Tail(buffer) = wire \o (<<Head(buffer)>> \o Tail(buffer))
      BY <1>2, <1>3, ConcatAssociative
  <2> QED  BY <1>1, <2>1, <2>2, <2>3 DEF Stream
<1>6. OpInv'
    BY <1>1 DEF Inv, OpInv
<1>7. StreamInv'
    BY <1>1, <1>5 DEF Inv, StreamInv, Final
<1>8. NothingTorn'
    BY <1>1, <1>5 DEF Inv, NothingTorn, After, Stream
<1>9. ResultsAreHonest'
  <2>1. ret' = NoRet
      BY <1>1 DEF Inv, OpInv
  <2> QED  BY <2>1 DEF ResultsAreHonest, NoRet
<1> QED  BY <1>4, <1>6, <1>7, <1>8, <1>9 DEF Inv

\* An item is encoded behind everything else.
LEMMA InvStartSend == ASSUME Inv, StartSend PROVE Inv'
<1> DEFINE n == Len(items) + 1
           kind == KindOf(op.kind)
           E == Encoded(n, kind)
           L == Len(Stream)
           C == ChunksOf(kind)
<1>1. /\ op.pc = "start" /\ op.pc # "gone"
      /\ items' = Append(items, kind) /\ buffer' = buffer \o E
      /\ UNCHANGED <<wire, unread, sock>>
    BY DEF StartSend, sockVars
<1>2. /\ items \in Seq({"Message", "Heartbeat"}) /\ Len(items) \in Nat
      /\ DOMAIN items = 1..Len(items)
      /\ wire \in Seq(Pieces) /\ buffer \in Seq(Pieces) /\ Stream \in Seq(Pieces)
      /\ L \in Nat /\ DOMAIN Stream = 1..L /\ Len(buffer) \in Nat
      /\ \A i \in 1..L : Stream[i] \in Pieces
    BY SeqFacts DEF Inv
<1>3. /\ items' \in Seq({"Message", "Heartbeat"}) /\ Len(items') = n
      /\ DOMAIN items' = 1..n /\ items'[n] = kind
      /\ \A m \in 1..Len(items) : items'[m] = items[m]
  <2>1. kind \in {"Message", "Heartbeat"}
      BY DEF KindOf
  <2> QED  BY <1>1, <1>2, <2>1, AppendProperties, LenProperties
<1>4. C \in 1..FrameChunks /\ FrameChunks \in Nat
    BY ChunksType, DirectAssumption
<1>5. Pieces \subseteq Pieces' /\ Pieces' = [n : 1..n, k : 1..FrameChunks]
  <2>1. 1..Len(items) \subseteq 1..n
      BY <1>2
  <2> QED  BY <1>3, <2>1 DEF Pieces
<1>6. /\ E \in Seq(Pieces') /\ Len(E) = C /\ DOMAIN E = 1..C
      /\ \A k \in 1..C : E[k] = [n |-> n, k |-> k]
  <2>1. E = [k \in 1..C |-> [n |-> n, k |-> k]]
      BY DEF Encoded
  <2>2. n \in 1..n /\ \A k \in 1..C : k \in 1..FrameChunks
      BY <1>2, <1>4
  <2>3. \A k \in 1..C : [n |-> n, k |-> k] \in Pieces'
      BY <1>5, <2>2
  <2>4. E \in [1..C -> Pieces'] /\ C \in Nat
      BY <1>4, <2>1, <2>3
  <2> HIDE DEF E
  <2>5. E \in Seq(Pieces')
      BY <2>4
  <2>6. Len(E) = C /\ DOMAIN E = 1..C
      BY <2>4, <2>5, LenProperties
  <2> QED  BY <2>1, <2>5, <2>6
<1> HIDE DEF E, C, L, kind
<1>7. wire \in Seq(Pieces') /\ buffer \in Seq(Pieces') /\ Stream \in Seq(Pieces')
    BY <1>2, <1>5, SeqMono
<1>8. Stream' = Stream \o E
  <2>1. \A S : \A x, y, z \in Seq(S) : x \o (y \o z) = (x \o y) \o z
      BY ConcatAssociative, SMTT(30)
  <2>2. wire \o (buffer \o E) = (wire \o buffer) \o E
      BY <1>6, <1>7, <2>1, SMTT(30)
  <2> QED  BY <1>1, <2>2 DEF Stream
<1>9. /\ Stream' \in Seq(Pieces') /\ Len(Stream') = L + C /\ DOMAIN Stream' = 1..(L + C)
      /\ \A i \in 1..L : Stream'[i] = Stream[i]
      /\ \A k \in 1..C : Stream'[L + k] = [n |-> n, k |-> k]
  <2>1. Stream' \in Seq(Pieces') /\ Len(Stream') = L + C
      BY <1>6, <1>7, <1>8, ConcatProperties DEF L
  <2>2. DOMAIN Stream' = 1..(L + C)
      BY <2>1, LenProperties
  <2>3. ASSUME NEW i \in 1..L PROVE Stream'[i] = Stream[i]
    <3>1. i \in 1..(L + C) /\ i <= L
        BY <1>2, <1>4
    <3> QED  BY <1>6, <1>7, <1>8, <3>1, ConcatProperties DEF L
  <2>4. ASSUME NEW k \in 1..C PROVE Stream'[L + k] = [n |-> n, k |-> k]
    <3>1. L + k \in 1..(L + C) /\ ~(L + k <= L) /\ (L + k) - L = k
        BY <1>2, <1>4
    <3>2. Stream'[L + k] = E[(L + k) - L]
        BY <1>6, <1>7, <1>8, <3>1, ConcatProperties DEF L
    <3> QED  BY <1>6, <3>1, <3>2
  <2> QED  BY <2>1, <2>2, <2>3, <2>4
<1>10. \A i \in 1..(L + C) : i \in 1..L \/ \E k \in 1..C : i = L + k
  <2> TAKE i \in 1..(L + C)
  <2>1. i \in 1..L \/ (i - L \in 1..C /\ i = L + (i - L))
      BY <1>2, <1>4
  <2> QED  BY <2>1
<1>11. \A i \in 1..L : /\ Stream[i].n \in 1..Len(items) /\ Stream[i].k \in 1..FrameChunks
                       /\ Stream[i] = [n |-> Stream[i].n, k |-> Stream[i].k]
                       /\ items'[Stream[i].n] = items[Stream[i].n]
    BY <1>2, <1>3, PieceType
<1>12. TypeOK'
  <2>1. buffer' \in Seq(Pieces') /\ Len(buffer') = Len(buffer) + C
      BY <1>1, <1>6, <1>7, ConcatProperties
  <2>2. Len(buffer') < Boundary + FrameChunks
    <3>1. Len(buffer) < Boundary
        BY <1>1 DEF Inv, OpInv
    <3> QED  BY <1>2, <1>4, <2>1, <3>1, DirectAssumption
  <2>3. op.kind \in Calls \cup {"none"} /\ 0 \in 0..n /\ n \in 0..n
      BY <1>2 DEF Inv, TypeOK
  <2>4. op' \in [kind : Calls \cup {"none"},
                 pc : {"idle", "ready", "drain", "start", "flush", "gone"}, n : 0..n]
      BY <2>3 DEF StartSend, NoOp
  <2>5. ret' \in [kind : Calls \cup {"none"}, n : 0..n,
                  res : {"none", "ok", "err", "cancelled"}]
    <3>1. ret = NoRet
        BY <1>1 DEF Inv, OpInv
    <3> QED  BY <2>3, <3>1 DEF StartSend, NoRet, Calls, Handing
  <2> QED  BY <1>1, <1>3, <1>7, <2>1, <2>2, <2>4, <2>5 DEF Inv, TypeOK
<1>13. OpInv'
  <2>1. ret = NoRet /\ op.kind \in Handing
      BY <1>1 DEF Inv, OpInv
  <2>2. CASE op.kind = "feed"
    <3>1. op'.pc = "idle"
        BY <2>2 DEF StartSend, NoOp
    <3> QED  BY <3>1 DEF OpInv
  <2>3. CASE op.kind # "feed"
    <3>1. op'.pc = "flush" /\ op'.n = n /\ ret' = ret
        BY <2>3 DEF StartSend
    <3>2. n # 0
        BY <1>2
    <3> QED  BY <1>3, <2>1, <3>1, <3>2 DEF OpInv
  <2> QED  BY <2>2, <2>3
<1>14. StreamInv'
  <2>1. ASSUME NEW i \in 1..(L + C) PROVE Stream'[i].k <= ChunksOf(items'[Stream'[i].n])
    <3>1. CASE i \in 1..L
        BY <1>1, <1>2, <1>9, <1>11, <3>1, ZenonT(30) DEF Inv, StreamInv
    <3>2. ASSUME NEW k \in 1..C, i = L + k PROVE Stream'[i].k <= ChunksOf(items'[Stream'[i].n])
      <4>0. Stream'[i] = [n |-> n, k |-> k]
          BY <1>9, <3>2
      <4>1. Stream'[i].k = k /\ Stream'[i].n = n
          BY <4>0
      <4> QED  BY <1>3, <1>4, <4>1 DEF C
    <3> QED  BY <1>10, <3>1, <3>2
  <2>2. ASSUME NEW i \in 1..(L + C), NEW j \in 1..(L + C), i < j
        PROVE  Before(Stream'[i], Stream'[j])
    <3>1. CASE i \in 1..L /\ j \in 1..L
        BY <1>1, <1>2, <1>9, <2>2, <3>1 DEF Inv, StreamInv
    <3>2. ASSUME i \in 1..L, NEW k \in 1..C, j = L + k PROVE Before(Stream'[i], Stream'[j])
      <4>0. Stream'[i] = Stream[i] /\ Stream'[j] = [n |-> n, k |-> k]
          BY <1>9, <3>2
      <4>1. Stream'[i].n \in 1..Len(items) /\ Stream'[j].n = n
        <5>1. Stream[i].n \in 1..Len(items)
            BY <1>11, <3>2
        <5> QED  BY <4>0, <5>1
      <4> QED  BY <1>2, <4>1 DEF Before
    <3>3. ASSUME NEW k \in 1..C, i = L + k, NEW l \in 1..C, j = L + l
          PROVE  Before(Stream'[i], Stream'[j])
      <4>0. Stream'[i] = [n |-> n, k |-> k] /\ Stream'[j] = [n |-> n, k |-> l]
          BY <1>9, <3>3
      <4>1. /\ Stream'[i].n = n /\ Stream'[i].k = k
            /\ Stream'[j].n = n /\ Stream'[j].k = l
          BY <4>0
      <4>2. k < l
          BY <1>2, <1>4, <2>2, <3>3
      <4> QED  BY <4>1, <4>2 DEF Before
    <3>4. ASSUME NEW k \in 1..C, i = L + k, j \in 1..L PROVE FALSE
        BY <1>2, <1>4, <2>2, <3>4
    <3> QED  BY <1>10, <3>1, <3>2, <3>3, <3>4
  <2>3. ASSUME NEW m \in 1..n PROVE \E i \in 1..(L + C) : Stream'[i] = Final(m)'
    <3>1. CASE m = n
      <4>1. L + C \in 1..(L + C) /\ C \in 1..C
          BY <1>2, <1>4
      <4>2. Stream'[L + C] = [n |-> n, k |-> C]
          BY <1>9, <4>1
      <4>3. Final(m)' = [n |-> n, k |-> C]
          BY <1>3, <3>1 DEF Final, C
      <4> QED  BY <4>1, <4>2, <4>3
    <3>2. CASE m # n
      <4>1. m \in 1..Len(items)
          BY <1>2, <3>2
      <4>2. PICK i \in 1..L : Stream[i] = Final(m)
          BY <1>1, <1>2, <4>1 DEF Inv, StreamInv
      <4>3. Final(m)' = Final(m)
          BY <1>3, <4>1 DEF Final
      <4>4. i \in 1..(L + C)
          BY <1>2, <1>4
      <4> QED  BY <1>9, <4>2, <4>3, <4>4
    <3> QED  BY <3>1, <3>2
  <2> QED  BY <1>3, <1>9, <2>1, <2>2, <2>3 DEF StreamInv
<1>15. NothingTorn'
  <2>0. Stream = << >> <=> L = 0
      BY <1>2, EmptySeq DEF L
  <2>1. \A i \in 1..L : AfterIn(items', Stream[i]) = AfterIn(items, Stream[i])
      BY <1>11 DEF AfterIn
  <2>2. /\ \A i \in 1..L :
             Stream[i] = IF i = 1 THEN [n |-> 1, k |-> 1] ELSE AfterIn(items, Stream[i - 1])
        /\ L = 0 => Len(items) = 0
        /\ L # 0 => AfterIn(items, Stream[L]) = [n |-> n, k |-> 1]
      BY <1>1, <1>2, <2>0 DEF Inv, NothingTorn, Stream, L, After, AfterIn
  <2>3. ASSUME NEW i \in 1..(L + C)
        PROVE  Stream'[i] = IF i = 1 THEN [n |-> 1, k |-> 1]
                            ELSE AfterIn(items', Stream'[i - 1])
    <3>1. CASE i \in 1..L
      <4>1. CASE i = 1
          BY <1>9, <2>2, <3>1, <4>1
      <4>2. CASE i # 1
        <5>1. i - 1 \in 1..L
            BY <1>2, <3>1, <4>2
        <5> QED  BY <1>9, <2>1, <2>2, <3>1, <4>2, <5>1
      <4> QED  BY <4>1, <4>2
    <3>2. CASE i = L + 1
      <4>1. 1 \in 1..C /\ Stream'[i] = [n |-> n, k |-> 1]
          BY <1>4, <1>9, <3>2
      <4>2. CASE L = 0
          BY <2>2, <3>2, <4>1, <4>2
      <4>3. CASE L # 0
        <5>1. L \in 1..L /\ i # 1 /\ i - 1 = L
            BY <1>2, <3>2, <4>3
        <5> QED  BY <1>9, <2>1, <2>2, <4>1, <4>3, <5>1
      <4> QED  BY <4>2, <4>3
    <3>3. ASSUME NEW k \in 1..C, i = L + k, k # 1
          PROVE  i # 1 /\ Stream'[i] = AfterIn(items', Stream'[i - 1])
      <4>1. k - 1 \in 1..C /\ i - 1 = L + (k - 1) /\ i # 1
          BY <1>2, <1>4, <3>3
      <4>2. Stream'[i - 1] = [n |-> n, k |-> k - 1] /\ Stream'[i] = [n |-> n, k |-> k]
          BY <1>9, <3>3, <4>1
      <4>3. k - 1 < C /\ (k - 1) + 1 = k
          BY <1>4
      <4>4. AfterIn(items', Stream'[i - 1]) = [[n |-> n, k |-> k - 1] EXCEPT !.k = @ + 1]
          BY <1>3, <4>2, <4>3 DEF AfterIn, C
      <4> QED  BY <4>1, <4>2, <4>3, <4>4
    <3> QED  BY <1>10, <3>1, <3>2, <3>3
  <2>4. AfterIn(items', Stream'[L + C]) = [n |-> n + 1, k |-> 1]
    <3>1. C \in 1..C /\ ~(C < C)
        BY <1>4
    <3>2. Stream'[L + C] = [n |-> n, k |-> C]
        BY <1>9, <3>1
    <3> QED  BY <1>3, <3>1, <3>2 DEF AfterIn, C
  <2>5. Stream' # << >> /\ Len(Stream') = L + C
      BY <1>2, <1>4, <1>9
  <2>6. ASSUME \A i \in DOMAIN Stream' :
                 Stream'[i] = IF i = 1 THEN [n |-> 1, k |-> 1]
                              ELSE AfterIn(items', Stream'[i - 1]),
               Stream' # << >>,
               AfterIn(items', Stream'[Len(Stream')]) = [n |-> Len(items') + 1, k |-> 1]
        PROVE  NothingTorn'
      BY <2>6 DEF NothingTorn, Stream, After, AfterIn
  <2> QED  BY <1>3, <1>9, <2>3, <2>4, <2>5, <2>6
<1>16. ResultsAreHonest'
  <2>1. ret = NoRet
      BY <1>1 DEF Inv, OpInv
  <2>2. ret'.kind = "feed" \/ ret' = NoRet
      BY <2>1 DEF StartSend
  <2> QED  BY <2>2 DEF ResultsAreHonest, NoRet
<1> QED  BY <1>12, <1>13, <1>14, <1>15, <1>16 DEF Inv

LEMMA InvNext == Inv /\ [Next]_vars => Inv'
<1> SUFFICES ASSUME Inv, [Next]_vars PROVE Inv'
    OBVIOUS
<1>0. unread \in 0..SockCap /\ SockCap \in Nat
    BY DirectAssumption DEF Inv, TypeOK
<1>1. CASE \E kind \in Calls : Call(kind)
    BY <1>1, InvCall
<1>2. CASE PollReady \/ Drained
    BY <1>2, InvReady
<1>3. CASE StartSend
    BY <1>3, InvStartSend
<1>4. CASE Write
    BY <1>4, InvWrite
<1>5. CASE WriteFail
    BY <1>5, InvWriteFail
<1>6. CASE Flushed
    BY <1>6, InvFlushed
<1>7. CASE Closed
    BY <1>7, InvClosed
<1>8. CASE Cancel
    BY <1>8, InvCancel
<1>9. CASE Drop
    BY <1>9, InvDrop
<1>10. CASE PeerRead
    BY <1>0, <1>10, InvPeer DEF PeerRead
<1>11. CASE PeerReset
    BY <1>0, <1>11, InvPeer DEF PeerReset
<1>12. CASE UNCHANGED vars
    BY <1>0, <1>12, InvPeer DEF vars
<1> QED
    BY <1>1, <1>2, <1>3, <1>4, <1>5, <1>6, <1>7, <1>8, <1>9, <1>10, <1>11, <1>12
       DEF Next, Poll

LEMMA InvHolds == Spec => []Inv
BY InvInit, InvNext, PTL DEF Spec

\* Every variable keeps its type: for any sizes, and however many messages are
\* fed or sends dropped, Framed's buffer stays below the boundary and one frame.
THEOREM BufferIsBounded == Spec => []TypeOK
<1>1. Inv => TypeOK
    BY DEF Inv
<1> QED  BY <1>1, InvHolds, PTL

\* No dropped future tears, loses, repeats or reorders what was encoded.
THEOREM StreamIsWhole == Spec => []NothingTorn
<1>1. Inv => NothingTorn
    BY DEF Inv
<1> QED  BY <1>1, InvHolds, PTL

\* The results of send, flush and close on a direct connection tell the truth
\* about what is in the socket.
THEOREM ResultsTellTheTruth == Spec => []ResultsAreHonest
<1>1. Inv => ResultsAreHonest
    BY DEF Inv
<1> QED  BY <1>1, InvHolds, PTL

-----------------------------------------------------------------------------
(* A direct connection implements Pipe *)

\* w is a prefix of the items its, each of them written whole.
Chain(its, w) ==
    \A i \in 1..Len(w) :
        /\ w[i] = [n |-> w[i].n, k |-> w[i].k]
        /\ w[i].n \in Nat \ {0} /\ w[i].k \in 1..ChunksOf(its[w[i].n])
        /\ w[i] = IF i = 1 THEN [n |-> 1, k |-> 1] ELSE AfterIn(its, w[i - 1])

\* How many of them are complete behind its first i pieces.
DoneIn(its, w, i) ==
    IF i = 0 THEN 0
    ELSE IF w[i].k = ChunksOf(its[w[i].n]) THEN w[i].n ELSE w[i].n - 1

\* Arrived, with the items and the socket as parameters.
ArrivedIn(its, w) ==
    Selected([i \in DOMAIN w |-> w[i].n],
             {i \in DOMAIN w : w[i].k = ChunksOf(its[w[i].n])})

\* Each piece completes the next item or none.
LEMMA DoneStep ==
    ASSUME NEW its, NEW w, Len(w) \in Nat, Chain(its, w), NEW i \in 1..Len(w)
    PROVE  /\ DoneIn(its, w, i - 1) \in Nat /\ DoneIn(its, w, i) \in Nat
           /\ IF w[i].k = ChunksOf(its[w[i].n])
              THEN DoneIn(its, w, i) = DoneIn(its, w, i - 1) + 1 /\ w[i].n = DoneIn(its, w, i)
              ELSE DoneIn(its, w, i) = DoneIn(its, w, i - 1)
<1>1. /\ w[i].n \in Nat \ {0} /\ w[i].k \in 1..ChunksOf(its[w[i].n])
      /\ w[i] = IF i = 1 THEN [n |-> 1, k |-> 1] ELSE AfterIn(its, w[i - 1])
    BY DEF Chain
<1>2. CASE i = 1
  <2>1. w[i].n = 1 /\ i - 1 = 0
      BY <1>1, <1>2
  <2> QED  BY <2>1, <1>2 DEF DoneIn
<1>3. CASE i # 1
  <2> DEFINE c == w[i - 1]
  <2>1. i - 1 \in 1..Len(w) /\ i - 1 # 0
      BY <1>3
  <2>2. /\ c.n \in Nat \ {0} /\ c.k \in 1..ChunksOf(its[c.n])
        /\ w[i] = AfterIn(its, c)
        /\ c = [n |-> c.n, k |-> c.k]
      BY <1>1, <1>3, <2>1 DEF Chain
  <2>3. CASE c.k < ChunksOf(its[c.n])
    <3>1. w[i].n = c.n
        BY <2>2, <2>3 DEF AfterIn
    <3>2. c.k # ChunksOf(its[c.n])
        BY <2>2, <2>3
    <3> QED  BY <1>1, <1>3, <2>1, <2>2, <3>1, <3>2 DEF DoneIn
  <2>4. CASE ~(c.k < ChunksOf(its[c.n]))
    <3>1. w[i].n = c.n + 1
        BY <2>2, <2>4 DEF AfterIn
    <3>2. c.k = ChunksOf(its[c.n])
      <4>1. ChunksOf(its[c.n]) \in Nat
          BY ChunksType, DirectAssumption
      <4> QED  BY <2>2, <2>4, <4>1
    <3> QED  BY <1>1, <1>3, <2>1, <2>2, <3>1, <3>2 DEF DoneIn
  <2> QED  BY <2>3, <2>4
<1> QED  BY <1>2, <1>3

\* So that what has arrived are the items from the first on, in order.
LEMMA ArrivedCounts ==
    ASSUME NEW its, NEW S, NEW w \in Seq(S), Chain(its, w)
    PROVE  ArrivedIn(its, w) = [m \in 1..DoneIn(its, w, Len(w)) |-> m]
<1> DEFINE s == [i \in DOMAIN w |-> w[i].n]
           D == {i \in DOMAIN w : w[i].k = ChunksOf(its[w[i].n])}
           done == [i \in 0..Len(w) |-> DoneIn(its, w, i)]
<1>1. Len(w) \in Nat /\ DOMAIN w = 1..Len(w)
    BY LenProperties
<1>2. Len(s) = Len(w)
  <2>1. s \in [1..Len(w) -> Nat]
      BY <1>1 DEF Chain
  <2> HIDE DEF s
  <2> QED  BY <1>1, <2>1
<1>3. done \in [0..Len(w) -> Nat] /\ done[0] = 0
  <2>1. ASSUME NEW i \in 0..Len(w) PROVE DoneIn(its, w, i) \in Nat
    <3>1. CASE i = 0
        BY <3>1 DEF DoneIn
    <3>2. CASE i # 0
      <4>1. i \in 1..Len(w)
          BY <1>1, <3>2
      <4> QED  BY <1>1, <4>1, DoneStep
    <3> QED  BY <3>1, <3>2
  <2>2. DoneIn(its, w, 0) = 0
      BY DEF DoneIn
  <2> QED  BY <1>1, <2>1, <2>2
<1>4. ASSUME NEW i \in 1..Len(w)
      PROVE  IF i \in D THEN done[i] = done[i - 1] + 1 /\ s[i] = done[i]
             ELSE done[i] = done[i - 1]
  <2>1. /\ i \in DOMAIN w /\ s[i] = w[i].n
        /\ done[i] = DoneIn(its, w, i) /\ done[i - 1] = DoneIn(its, w, i - 1)
        /\ i \in D <=> w[i].k = ChunksOf(its[w[i].n])
      BY <1>1
  <2> HIDE DEF s, D, done
  <2> QED  BY <1>1, <2>1, DoneStep
<1>5. done[Len(w)] = DoneIn(its, w, Len(w))
    BY <1>1
<1>6. ArrivedIn(its, w) = Selected(s, D)
    BY DEF ArrivedIn
<1> HIDE DEF s, D, done
<1> QED  BY <1>1, <1>2, <1>3, <1>4, <1>5, <1>6, SelectedCounts

LEMMA WireIsChain == ASSUME Inv, op.pc # "gone" PROVE Chain(items, wire)
<1> SUFFICES ASSUME NEW i \in 1..Len(wire)
             PROVE  /\ wire[i] = [n |-> wire[i].n, k |-> wire[i].k]
                    /\ wire[i].n \in Nat \ {0} /\ wire[i].k \in 1..ChunksOf(items[wire[i].n])
                    /\ wire[i] = IF i = 1 THEN [n |-> 1, k |-> 1]
                                 ELSE AfterIn(items, wire[i - 1])
    BY DEF Chain
<1>1. /\ Len(wire) \in Nat /\ Len(items) \in Nat
      /\ \A j \in 1..Len(wire) : j \in DOMAIN Stream /\ Stream[j] = wire[j] /\ Stream[j] \in Pieces
    BY SeqFacts DEF Inv
<1>2. wire[i] \in Pieces /\ wire[i].k <= ChunksOf(items[wire[i].n])
    BY <1>1 DEF Inv, StreamInv
<1>3. wire[i] = IF i = 1 THEN [n |-> 1, k |-> 1] ELSE AfterIn(items, Stream[i - 1])
    BY <1>1 DEF Inv, NothingTorn, Stream, After, AfterIn
<1>4. i # 1 => Stream[i - 1] = wire[i - 1]
  <2> SUFFICES ASSUME i # 1 PROVE Stream[i - 1] = wire[i - 1]
      OBVIOUS
  <2>1. i - 1 \in 1..Len(wire)
      BY <1>1
  <2> QED  BY <1>1, <2>1
<1>5. /\ wire[i].n \in Nat \ {0} /\ wire[i].k \in 1..ChunksOf(items[wire[i].n])
      /\ wire[i] = [n |-> wire[i].n, k |-> wire[i].k]
  <2>1. /\ wire[i].n \in 1..Len(items) /\ wire[i].k \in 1..FrameChunks
        /\ wire[i] = [n |-> wire[i].n, k |-> wire[i].k]
      BY <1>2, PieceType
  <2>2. ChunksOf(items[wire[i].n]) \in Nat
      BY ChunksType, DirectAssumption
  <2> QED  BY <1>1, <1>2, <2>1, <2>2, DirectAssumption
<1> QED  BY <1>3, <1>4, <1>5

Accepted == [n \in DOMAIN items |-> n]

LEMMA RefinesInit == Init => P!Init
<1> SUFFICES ASSUME Init PROVE Accepted = << >> /\ Arrived = << >>
    BY DEF P!Init, Accepted
<1>1. items = << >> /\ wire = << >>
    BY DEF Init
<1>2. Accepted = << >>
    BY <1>1 DEF Accepted
<1>3. wire \in Seq(Nat) /\ Len(wire) = 0 /\ Chain(items, wire)
    BY <1>1 DEF Chain
<1>4. Arrived = [m \in 1..DoneIn(items, wire, 0) |-> m]
    BY <1>3, ArrivedCounts DEF Arrived, ArrivedIn, Completes
<1>5. DoneIn(items, wire, 0) = 0
    BY DEF DoneIn
<1> QED  BY <1>2, <1>4, <1>5

\* An item is accepted when it is encoded, and what has arrived is the same.
LEMMA RefinesStartSend == ASSUME Inv, StartSend, Inv' PROVE P!Next
<1> DEFINE n == Len(items) + 1
           L == Len(wire)
<1>1. /\ op.pc = "start" /\ op.pc # "gone"
      /\ items' = Append(items, KindOf(op.kind)) /\ wire' = wire
    BY DEF StartSend, sockVars
<1>2. /\ items \in Seq({"Message", "Heartbeat"}) /\ Len(items) \in Nat
      /\ DOMAIN items = 1..Len(items) /\ wire \in Seq(Pieces) /\ L \in Nat
    BY SeqFacts DEF Inv
<1>3. /\ Len(items') = n /\ DOMAIN items' = 1..n
      /\ \A m \in 1..Len(items) : items'[m] = items[m]
  <2>1. KindOf(op.kind) \in {"Message", "Heartbeat"}
      BY DEF KindOf
  <2> QED  BY <1>1, <1>2, <2>1, AppendProperties, LenProperties
<1>4. n \in 1..MaxItems
    BY <1>1, <1>2, DirectAssumption DEF Inv, OpInv
<1>5. Accepted' = Append(Accepted, n)
  <2>1. Accepted' = [m \in 1..(Len(items) + 1) |-> m] /\ Accepted = [m \in 1..Len(items) |-> m]
      BY <1>2, <1>3 DEF Accepted
  <2> QED  BY <1>2, <2>1, CountAppend
<1>6. Arrived' = Arrived
  <2>1. Chain(items, wire) /\ ArrivedIn(items, wire) = [m \in 1..DoneIn(items, wire, L) |-> m]
      BY <1>1, <1>2, WireIsChain, ArrivedCounts
  <2>2. \A i \in 1..L : items'[wire[i].n] = items[wire[i].n]
    <3> TAKE i \in 1..L
    <3>1. wire[i].n \in 1..Len(items)
        BY <1>2, PieceType
    <3> QED  BY <1>3, <3>1
  <2>3. ArrivedIn(items', wire) = ArrivedIn(items, wire)
    <3>1. DOMAIN wire = 1..L
        BY <1>2, LenProperties
    <3>2. {i \in DOMAIN wire : wire[i].k = ChunksOf(items'[wire[i].n])}
            = {i \in DOMAIN wire : wire[i].k = ChunksOf(items[wire[i].n])}
        BY <2>2, <3>1
    <3> QED  BY <3>2 DEF ArrivedIn
  <2>4. Arrived = ArrivedIn(items, wire) /\ Arrived' = ArrivedIn(items', wire)
      BY <1>1 DEF Arrived, ArrivedIn, Completes
  <2> QED  BY <2>3, <2>4
<1> QED  BY <1>4, <1>5, <1>6 DEF P!Next, P!Accept, Accepted

\* A piece in the socket delivers the next item, or none.
LEMMA RefinesWrite ==
    ASSUME Inv, Write, Inv'
    PROVE  P!Next \/ UNCHANGED <<Accepted, Arrived>>
<1> DEFINE L == Len(wire)
           d == DoneIn(items, wire, L)
           e == DoneIn(items, wire', L + 1)
<1>1. /\ op.pc # "gone" /\ items' = items /\ op' = op
      /\ buffer # << >> /\ wire' = Append(wire, Head(buffer))
    BY DEF Write
<1>2. /\ Len(items) \in Nat /\ DOMAIN items = 1..Len(items)
      /\ wire \in Seq(Pieces) /\ L \in Nat /\ buffer \in Seq(Pieces)
    BY SeqFacts DEF Inv
<1>3. /\ wire' \in Seq(Pieces) /\ Len(wire') = L + 1
      /\ \A i \in 1..L : wire'[i] = wire[i]
  <2>1. Head(buffer) \in Pieces
      BY <1>1, <1>2, HeadTailProperties
  <2> QED  BY <1>1, <1>2, <2>1, AppendProperties
<1>4. Chain(items, wire) /\ Chain(items, wire')
  <2>1. Chain(items, wire)
      BY <1>1, WireIsChain
  <2>2. (Inv /\ op.pc # "gone" => Chain(items, wire))'
      BY WireIsChain, PTL
  <2>3. Chain(items', wire')
      BY <1>1, <2>2
  <2> QED  BY <1>1, <2>1, <2>3
<1>5. /\ Arrived = [m \in 1..d |-> m] /\ Arrived' = [m \in 1..e |-> m]
  <2>1. Arrived = ArrivedIn(items, wire) /\ Arrived' = ArrivedIn(items, wire')
      BY <1>1 DEF Arrived, ArrivedIn, Completes
  <2> QED  BY <1>2, <1>3, <1>4, <2>1, ArrivedCounts
<1>6. d = DoneIn(items, wire', L)
  <2>1. CASE L = 0
      BY <2>1 DEF DoneIn
  <2>2. CASE L # 0
    <3>1. wire'[L] = wire[L]
        BY <1>2, <1>3, <2>2
    <3> QED  BY <3>1 DEF DoneIn
  <2> QED  BY <2>1, <2>2
<1>7. /\ d \in Nat /\ e \in Nat
      /\ e = d \/ (e = d + 1 /\ wire'[L + 1].n = e)
  <2>1. L + 1 \in 1..Len(wire') /\ (L + 1) - 1 = L /\ Len(wire') \in Nat
      BY <1>2, <1>3
  <2> QED  BY <1>4, <1>6, <2>1, DoneStep
<1>8. CASE e = d
    BY <1>1, <1>5, <1>8 DEF Accepted
<1>9. CASE e = d + 1 /\ wire'[L + 1].n = e
  <2>1. e \in 1..Len(items)
    <3>1. wire'[L + 1] \in Pieces
        BY <1>2, <1>3, ElementOfSeq
    <3> QED  BY <1>9, <3>1, PieceType
  <2>2. Accepted = [m \in 1..Len(items) |-> m] /\ Accepted' = Accepted
      BY <1>1, <1>2 DEF Accepted
  <2>3. Len(Arrived) = d /\ Len(Accepted) = Len(items)
      BY <1>2, <1>5, <1>7, <2>2, CountAppend
  <2>4. Arrived' = Append(Arrived, d + 1) /\ Accepted[d + 1] = d + 1
      BY <1>5, <1>7, <1>9, <2>1, <2>2, CountAppend
  <2>5. d < Len(items)
      BY <1>2, <1>7, <1>9, <2>1
  <2> QED  BY <2>2, <2>3, <2>4, <2>5 DEF P!Next, P!Deliver, Accepted
<1> QED  BY <1>7, <1>8, <1>9

LEMMA RefinesNext ==
    Inv /\ Inv' /\ [Next]_vars => [P!Next]_<<Accepted, Arrived>>
<1> SUFFICES ASSUME Inv, Inv', [Next]_vars PROVE P!Next \/ UNCHANGED <<Accepted, Arrived>>
    OBVIOUS
<1>1. CASE StartSend
    BY <1>1, RefinesStartSend
<1>2. CASE Write
    BY <1>2, RefinesWrite
<1>3. CASE UNCHANGED <<items, wire>>
    BY <1>3 DEF Accepted, Arrived, Completes
<1>4. ASSUME ~StartSend, ~Write PROVE UNCHANGED <<items, wire>>
    BY <1>4 DEF Next, Poll, vars, sockVars, Call, PollReady, Drained, WriteFail, Flushed,
                Closed, Cancel, Drop, PeerRead, PeerReset
<1> QED  BY <1>1, <1>2, <1>3, <1>4

\* A direct connection implements Pipe, for any sizes: whatever is dropped on
\* the way, items reach the socket in order, none skipped, none twice.
THEOREM Refinement == Spec => PipeSpec
BY RefinesInit, RefinesNext, InvHolds, PTL DEF Spec, PipeSpec, P!Spec, Accepted
=============================================================================
