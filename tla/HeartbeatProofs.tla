--------------------------- MODULE HeartbeatProofs ---------------------------
(***************************************************************************)
(* Proofs about the heart-beats of a connection, both ways: KeepAlive, our *)
(* own, and Supervision, the server's. For every interval, every delay of  *)
(* a write and of the network and every bound, the pump never beats too    *)
(* soon and the broker never waits too long; and for every interval and    *)
(* however late the application polls, what has been reported is heard     *)
(* before the server is judged, and no silence goes unnoticed.             *)
(***************************************************************************)
EXTENDS KeepAlive, Supervision, SequenceTheorems, TLAPS

-----------------------------------------------------------------------------
(* Our own heart-beats *)

\* The last moment at which something left us, as far as the network and the
\* broker can tell.
LastSent == IF net = << >> THEN heard ELSE net[Len(net)]

\* The timeout is armed at most one interval after the last write. A waiting
\* pump has not slept past it, and no message went out within the interval
\* before it; a write began no later than it and is not overdue.
PumpInv ==
    /\ deadline <= LastSent + Period
    /\ pump = "wait" => now <= deadline /\ framed + Period <= deadline
    /\ Writing => started <= deadline /\ now <= started + MaxWrite

\* What is in flight left us at most one interval and one write apart, the
\* first of it that long after what was heard last, and none of it is overdue.
NetInv ==
    /\ \A i \in 1..(Len(net) - 1) : net[i + 1] <= net[i] + Period + MaxWrite
    /\ net # << >> => /\ net[1] <= heard + Period + MaxWrite
                      /\ now <= net[1] + MaxDelay

Inv == TypeOK /\ PumpInv /\ NetInv /\ NoBeatNearFrame

-----------------------------------------------------------------------------
\* What is a sequence of moments stays one as the clock moves on.
LEMMA SeqMono ==
    ASSUME NEW S, NEW T, S \subseteq T, NEW s \in Seq(S)
    PROVE  s \in Seq(T)
<1>1. Len(s) \in Nat /\ s \in [1..Len(s) -> S]
    BY LenProperties
<1>2. s \in [1..Len(s) -> T]
    BY <1>1
<1> QED  BY <1>1, <1>2

LEMMA InvInit == Init => Inv
<1> SUFFICES ASSUME Init PROVE Inv
    OBVIOUS
<1>a. Period \in Nat /\ MaxWrite \in Nat /\ MaxDelay \in Nat
    BY KeepAliveAssumption
<1>1. TypeOK
  <2>1. open \in BOOLEAN
      BY DEF Init
  <2>2. queue \in Seq(Kinds) /\ Len(queue) <= 1 /\ net \in Seq(0..now) /\ DOMAIN net = {}
      BY DEF Init, Kinds
  <2> QED  BY <1>a, <2>1, <2>2 DEF Init, TypeOK
<1>2. PumpInv /\ NetInv /\ NoBeatNearFrame
    BY <1>a DEF Init, PumpInv, NetInv, NoBeatNearFrame, LastSent, Writing, Kinds
<1> QED  BY <1>1, <1>2 DEF Inv

\* The steps that leave the network alone.
LEMMA InvPump ==
    ASSUME Inv, UNCHANGED <<now, net, heard, framed, deadline>>,
           queue' \in Seq(Kinds), Len(queue') <= 1, open' \in BOOLEAN,
           \/ UNCHANGED <<pump, started>>
           \/ pump' = "done" /\ started' \in {started, now}
           \/ pump = "wait" /\ started' = now /\ pump' \in Kinds
           \/ pump = "wait" /\ started' = now /\ pump' = "beat" /\ deadline <= now
    PROVE  Inv'
<1>a. Period \in Nat /\ MaxWrite \in Nat /\ MaxDelay \in Nat
    BY KeepAliveAssumption
<1>b. /\ now \in Nat /\ deadline \in Nat /\ started \in 0..now
      /\ framed \in 0..now /\ heard \in 0..now
    BY DEF Inv, TypeOK
<1>1. TypeOK'
    BY <1>b DEF Inv, TypeOK
<1>2. NetInv'
    BY DEF Inv, NetInv
<1>3. PumpInv'
    BY <1>a, <1>b DEF Inv, PumpInv, LastSent, Writing, Kinds
<1>4. NoBeatNearFrame'
    BY <1>a, <1>b DEF Inv, PumpInv, NoBeatNearFrame, Kinds
<1> QED  BY <1>1, <1>2, <1>3, <1>4 DEF Inv

\* A write ends: the timeout is armed anew, and the network has one more.
LEMMA InvWriteDone == ASSUME Inv, WriteDone PROVE Inv'
<1>a. Period \in Nat /\ MaxWrite \in Nat /\ MaxDelay \in Nat
    BY KeepAliveAssumption
<1>b. /\ now \in Nat /\ deadline \in Nat /\ started \in 0..now
      /\ framed \in 0..now /\ heard \in 0..now
    BY DEF Inv, TypeOK
<1>c. /\ net \in Seq(0..now) /\ Len(net) \in Nat
      /\ \A i \in 1..Len(net) : net[i] \in 0..now
    BY DEF Inv, TypeOK
<1>d. /\ net' \in Seq(0..now) /\ Len(net') = Len(net) + 1
      /\ \A i \in 1..Len(net) : net'[i] = net[i]
      /\ net'[Len(net) + 1] = now
      /\ DOMAIN net' = 1..(Len(net) + 1)
  <2>1. net' = Append(net, now) /\ now \in 0..now
      BY <1>b DEF WriteDone
  <2> QED  BY <1>c, <2>1, AppendProperties
<1>e. /\ pump' = "wait" /\ deadline' = now + Period /\ framed' \in 0..now
      /\ UNCHANGED <<now, queue, open, started, heard>>
    BY <1>b DEF WriteDone, Arm
<1>f. now <= LastSent + Period + MaxWrite
  <2>1. started <= deadline /\ now <= started + MaxWrite /\ deadline <= LastSent + Period
      BY DEF Inv, PumpInv, WriteDone
  <2>2. LastSent \in Nat
      BY <1>b, <1>c DEF LastSent
  <2> QED  BY <1>a, <1>b, <2>1, <2>2
<1>1. TypeOK'
  <2>1. \A i, j \in DOMAIN net' : i < j => net'[i] <= net'[j]
    <3> SUFFICES ASSUME NEW i \in 1..(Len(net) + 1), NEW j \in 1..(Len(net) + 1), i < j
                 PROVE  net'[i] <= net'[j]
        BY <1>d
    <3>1. net'[i] = net[i] /\ net[i] \in 0..now /\ i \in DOMAIN net
        BY <1>c, <1>d
    <3>2. CASE j = Len(net) + 1
        BY <1>b, <1>d, <3>1, <3>2
    <3>3. CASE j # Len(net) + 1
      <4>1. net'[j] = net[j] /\ j \in DOMAIN net
          BY <1>c, <1>d, <3>3
      <4> QED  BY <3>1, <4>1 DEF Inv, TypeOK
    <3> QED  BY <3>2, <3>3
  <2>2. queue' \in Seq(Kinds) /\ Len(queue') <= 1 /\ open' \in BOOLEAN
      BY <1>e DEF Inv, TypeOK
  <2>3. deadline' \in Nat
      BY <1>a, <1>b, <1>e
  <2> QED  BY <1>b, <1>d, <1>e, <2>1, <2>2, <2>3 DEF TypeOK
<1>2. NetInv'
  <2>1. ASSUME NEW i \in 1..(Len(net') - 1)
        PROVE  net'[i + 1] <= net'[i] + Period + MaxWrite
    <3>1. i \in 1..Len(net) /\ net'[i] = net[i]
        BY <1>c, <1>d
    <3>2. CASE i = Len(net)
      <4>1. LastSent = net[i] /\ net'[i + 1] = now
          BY <1>d, <3>1, <3>2 DEF LastSent
      <4> QED  BY <1>f, <3>1, <4>1
    <3>3. CASE i # Len(net)
      <4>1. i \in 1..(Len(net) - 1) /\ net'[i + 1] = net[i + 1]
          BY <1>c, <1>d, <3>1, <3>3
      <4> QED  BY <3>1, <4>1 DEF Inv, NetInv
    <3> QED  BY <3>2, <3>3
  <2>2. net'[1] <= heard + Period + MaxWrite /\ now <= net'[1] + MaxDelay
    <3>1. CASE net = << >>
        BY <1>a, <1>b, <1>d, <1>f, <3>1 DEF LastSent
    <3>2. CASE net # << >>
      <4>1. net'[1] = net[1]
          BY <1>c, <1>d, <3>2
      <4> QED  BY <3>2, <4>1 DEF Inv, NetInv
    <3> QED  BY <3>1, <3>2
  <2> QED  BY <1>e, <2>1, <2>2 DEF NetInv
<1>3. PumpInv'
  <2>1. LastSent' = now
      BY <1>c, <1>d DEF LastSent
  <2>2. ~Writing'
      BY <1>e DEF Writing, Kinds
  <2>3. deadline' <= LastSent' + Period
      BY <1>a, <1>b, <1>e, <2>1
  <2>4. now' <= deadline' /\ framed' + Period <= deadline'
    <3>1. now <= now + Period /\ \A f \in 0..now : f + Period <= now + Period
        BY <1>a, <1>b
    <3> QED  BY <1>e, <3>1
  <2> QED  BY <2>2, <2>3, <2>4 DEF PumpInv
<1>4. NoBeatNearFrame'
    BY <1>e DEF NoBeatNearFrame
<1> QED  BY <1>1, <1>2, <1>3, <1>4 DEF Inv

\* The broker hears the oldest write in flight.
LEMMA InvArrive == ASSUME Inv, Arrive PROVE Inv'
<1>a. Period \in Nat /\ MaxWrite \in Nat /\ MaxDelay \in Nat
    BY KeepAliveAssumption
<1>b. /\ now \in Nat /\ deadline \in Nat /\ started \in 0..now
      /\ framed \in 0..now /\ heard \in 0..now
    BY DEF Inv, TypeOK
<1>c. /\ net \in Seq(0..now) /\ Len(net) \in Nat /\ net # << >> /\ 1 <= Len(net)
      /\ \A i \in 1..Len(net) : net[i] \in 0..now
    BY DEF Inv, TypeOK, Arrive
<1>d. /\ net' \in Seq(0..now) /\ Len(net') = Len(net) - 1
      /\ \A i \in 1..(Len(net) - 1) : net'[i] = net[i + 1]
      /\ DOMAIN net' = 1..(Len(net) - 1)
    BY <1>c, HeadTailProperties DEF Arrive
<1>e. /\ heard' = now
      /\ UNCHANGED <<now, queue, open, pump, deadline, started, framed>>
    BY DEF Arrive
<1>1. TypeOK'
  <2>1. \A i, j \in DOMAIN net' : i < j => net'[i] <= net'[j]
    <3> SUFFICES ASSUME NEW i \in 1..(Len(net) - 1), NEW j \in 1..(Len(net) - 1), i < j
                 PROVE  net'[i] <= net'[j]
        BY <1>d
    <3>1. i + 1 \in DOMAIN net /\ j + 1 \in DOMAIN net /\ i + 1 < j + 1
        BY <1>c
    <3>2. net[i + 1] <= net[j + 1]
        BY <3>1 DEF Inv, TypeOK
    <3> QED  BY <1>d, <3>2
  <2> QED  BY <1>b, <1>d, <1>e, <2>1 DEF Inv, TypeOK
<1>2. NetInv'
  <2>1. ASSUME NEW i \in 1..(Len(net') - 1)
        PROVE  net'[i + 1] <= net'[i] + Period + MaxWrite
    <3>1. /\ i + 1 \in 1..(Len(net) - 1)
          /\ net'[i] = net[i + 1] /\ net'[i + 1] = net[(i + 1) + 1]
        BY <1>c, <1>d
    <3> QED  BY <3>1 DEF Inv, NetInv
  <2>2. ASSUME net' # << >>
        PROVE  net'[1] <= now + Period + MaxWrite /\ now <= net'[1] + MaxDelay
    <3>1. 1 \in 1..(Len(net) - 1)
        BY <1>c, <1>d, <2>2
    <3>2. net'[1] = net[2] /\ net[2] \in 0..now /\ net[1] \in 0..now
        BY <1>c, <1>d, <3>1
    <3>3. net[1] <= net[2]
        BY <1>c, <3>1 DEF Inv, TypeOK
    <3>4. now <= net[1] + MaxDelay
        BY <1>c DEF Inv, NetInv
    <3> QED  BY <1>a, <1>b, <3>2, <3>3, <3>4
  <2> QED  BY <1>e, <2>1, <2>2 DEF NetInv
<1>3. PumpInv'
  <2>1. LastSent \in Nat /\ LastSent' \in Nat /\ LastSent <= LastSent'
    <3>1. LastSent = net[Len(net)]
        BY <1>c DEF LastSent
    <3>2. CASE Len(net) = 1
      <4>1. LastSent' = now
          BY <1>d, <1>e, <3>2 DEF LastSent
      <4> QED  BY <1>b, <1>c, <3>1, <4>1
    <3>3. CASE Len(net) # 1
      <4>1. LastSent' = net'[Len(net')] /\ Len(net') \in 1..(Len(net) - 1)
          BY <1>c, <1>d, <3>3 DEF LastSent
      <4>2. LastSent' = net[Len(net)]
          BY <1>c, <1>d, <4>1
      <4> QED  BY <1>c, <3>1, <4>2
    <3> QED  BY <3>2, <3>3
  <2>2. deadline <= LastSent' + Period
    <3>1. deadline <= LastSent + Period
        BY DEF Inv, PumpInv
    <3>2. \A a, b \in Nat : deadline <= a + Period /\ a <= b => deadline <= b + Period
        BY <1>a, <1>b
    <3> QED  BY <2>1, <3>1, <3>2
  <2> QED  BY <1>e, <2>2 DEF Inv, PumpInv, Writing
<1>4. NoBeatNearFrame'
    BY <1>e DEF Inv, NoBeatNearFrame
<1> QED  BY <1>1, <1>2, <1>3, <1>4 DEF Inv

\* The clock moves on: nobody is kept waiting past a limit.
LEMMA InvPass == ASSUME Inv, Pass PROVE Inv'
<1>a. Period \in Nat /\ MaxWrite \in Nat /\ MaxDelay \in Nat
    BY KeepAliveAssumption
<1>b. /\ now \in Nat /\ deadline \in Nat /\ started \in 0..now
      /\ framed \in 0..now /\ heard \in 0..now
    BY DEF Inv, TypeOK
<1>c. net \in Seq(0..now) /\ \A i \in 1..Len(net) : net[i] \in 0..now
    BY DEF Inv, TypeOK
<1>e. /\ now' = now + 1
      /\ UNCHANGED <<queue, open, pump, deadline, started, framed, net, heard>>
      /\ pump = "wait" => now < deadline
      /\ Writing => now < started + MaxWrite
      /\ net # << >> => now < Head(net) + MaxDelay
    BY DEF Pass
<1>1. TypeOK'
  <2>1. 0..now \subseteq 0..(now + 1)
      BY <1>b
  <2>2. net \in Seq(0..(now + 1))
      BY <1>c, <2>1, SeqMono
  <2>3. queue \in Seq(Kinds) /\ Len(queue) <= 1 /\ open \in BOOLEAN
      BY DEF Inv, TypeOK
  <2>4. started \in 0..(now + 1) /\ framed \in 0..(now + 1) /\ heard \in 0..(now + 1)
        /\ now + 1 \in Nat
      BY <1>b
  <2> QED  BY <1>e, <2>2, <2>3, <2>4 DEF Inv, TypeOK
<1>2. NetInv'
  <2>1. net # << >> => Head(net) = net[1] /\ net[1] \in 0..now
      BY <1>c
  <2> QED  BY <1>a, <1>b, <1>e, <2>1 DEF Inv, NetInv
<1>3. PumpInv'
  <2>1. LastSent' = LastSent
      BY <1>e DEF LastSent
  <2> QED  BY <1>a, <1>b, <1>e, <2>1 DEF Inv, PumpInv, Writing
<1>4. NoBeatNearFrame'
    BY <1>e DEF Inv, NoBeatNearFrame
<1> QED  BY <1>1, <1>2, <1>3, <1>4 DEF Inv

LEMMA InvNext == Inv /\ [Next]_vars => Inv'
<1> SUFFICES ASSUME Inv, [Next]_vars PROVE Inv'
    OBVIOUS
<1>0. queue \in Seq(Kinds) /\ Len(queue) <= 1 /\ open \in BOOLEAN
    BY DEF Inv, TypeOK
<1>1. CASE \E kind \in Kinds : HandOver(kind)
  <2>1. PICK kind \in Kinds : HandOver(kind)
      BY <1>1
  <2>2. queue' = <<kind>> /\ open' = open
      BY <2>1 DEF HandOver
  <2>3. queue' \in Seq(Kinds) /\ Len(queue') <= 1
      BY <2>2
  <2> QED  BY <1>0, <2>1, <2>2, <2>3, InvPump DEF HandOver
<1>2. CASE Drop
  <2>1. open' \in BOOLEAN
      BY <1>2 DEF Drop
  <2> QED  BY <1>0, <1>2, <2>1, InvPump DEF Drop
<1>3. CASE Recv
  <2>1. CASE queue # << >>
    <3>1. Head(queue) \in Kinds /\ Tail(queue) \in Seq(Kinds) /\ Len(Tail(queue)) <= 1
        BY <1>0, <2>1
    <3> QED  BY <1>0, <1>3, <2>1, <3>1, InvPump DEF Recv
  <2>2. CASE queue = << >>
      BY <1>0, <1>3, <2>2, InvPump DEF Recv
  <2> QED  BY <2>1, <2>2
<1>4. CASE Timeout
    BY <1>0, <1>4, InvPump DEF Timeout
<1>5. CASE WriteDone
    BY <1>5, InvWriteDone
<1>6. CASE WriteFail
  <2>1. open' \in BOOLEAN /\ queue' = << >>
      BY <1>6 DEF WriteFail
  <2>2. queue' \in Seq(Kinds) /\ Len(queue') <= 1
      BY <2>1
  <2> QED  BY <1>6, <2>1, <2>2, InvPump DEF WriteFail
<1>7. CASE Arrive
    BY <1>7, InvArrive
<1>8. CASE Pass
    BY <1>8, InvPass
<1>9. CASE UNCHANGED vars
    BY <1>0, <1>9, InvPump DEF vars
<1> QED
    BY <1>1, <1>2, <1>3, <1>4, <1>5, <1>6, <1>7, <1>8, <1>9 DEF Next

LEMMA InvHolds == Spec => []Inv
BY InvInit, InvNext, PTL DEF Spec

\* Every variable keeps its type: the channel holds at most one item, and what
\* is in flight left us in order and not in the future.
THEOREM TypeCorrect == Spec => []TypeOK
<1>1. Inv => TypeOK
    BY DEF Inv
<1> QED  BY <1>1, InvHolds, PTL

\* The pump of write_pump never beats within an interval of a message, for any
\* interval and however long the writes take.
THEOREM BeatsOnlyWhenIdle == Spec => []NoBeatNearFrame
<1>1. Inv => NoBeatNearFrame
    BY DEF Inv
<1> QED  BY <1>1, InvHolds, PTL

\* While the pump runs the broker hears from us within the interval and the
\* time one write and the network take, for all three of them.
THEOREM ConnectionStaysAlive == Spec => []BrokerHearsUs
<1>1. Inv => BrokerHearsUs
  <2> SUFFICES ASSUME Inv, pump # "done"
               PROVE  now <= heard + Period + MaxWrite + MaxDelay
      BY DEF BrokerHearsUs
  <2>a. Period \in Nat /\ MaxWrite \in Nat /\ MaxDelay \in Nat
      BY KeepAliveAssumption
  <2>b. now \in Nat /\ deadline \in Nat /\ started \in 0..now /\ heard \in 0..now
      BY DEF Inv, TypeOK
  <2>1. CASE net = << >>
    <3>1. deadline <= heard + Period
        BY <2>1 DEF Inv, PumpInv, LastSent
    <3>2. now <= deadline + MaxWrite
        BY <2>a, <2>b DEF Inv, TypeOK, PumpInv, Writing
    <3> QED  BY <2>a, <2>b, <3>1, <3>2
  <2>2. CASE net # << >>
    <3>1. net[1] <= heard + Period + MaxWrite /\ now <= net[1] + MaxDelay
        BY <2>2 DEF Inv, NetInv
    <3>2. net[1] \in 0..now
        BY <2>2 DEF Inv, TypeOK
    <3> QED  BY <2>a, <2>b, <3>1, <3>2
  <2> QED  BY <2>1, <2>2
<1> QED  BY <1>1, InvHolds, PTL

-----------------------------------------------------------------------------
(* The server's heart-beats *)

\* What the driver has reported has been read once the readiness is cleared,
\* and once the socket is empty, except for the end of the stream.
ReadInv ==
    /\ readiness = "none" => reported <= last
    /\ readiness = "readable" /\ inbox = << >> => reported <= last

\* The ticker is never more than one interval away. When a reader parked, the
\* server was within the tolerance; it has not slept past the ticker, and not
\* at all if its budget had run out.
TickerInv ==
    /\ tick <= now + Incoming
    /\ reader = "parked" /\ spent => now <= last + Tolerance
    /\ reader = "parked" /\ ~spent => now <= tick /\ tick <= last + Tolerance + Incoming

WatchInv == SupervisionTypeOK /\ ReadInv /\ TickerInv /\ ReportedIsHeard

-----------------------------------------------------------------------------
\* Counting the frames of a sequence gives a number.
LEMMA FramesType == ASSUME NEW s \in Seq({"beat", "frame"}) PROVE Frames(s) \in Nat
BY DEF Frames

LEMMA WatchInit == SupervisionInit => WatchInv
<1> SUFFICES ASSUME SupervisionInit PROVE WatchInv
    OBVIOUS
<1>1. Incoming \in Nat /\ Tolerance \in Nat /\ MaxInbox \in Nat
    BY SupervisionAssumption DEF Tolerance
<1>2. SupervisionTypeOK
  <2>1. closed \in BOOLEAN /\ spent \in BOOLEAN
      BY DEF SupervisionInit
  <2>2. buffered \in Nat
      BY <1>1 DEF SupervisionInit
  <2> QED  BY <2>1, <2>2 DEF SupervisionInit, SupervisionTypeOK
<1>3. ReadInv /\ TickerInv /\ ReportedIsHeard
    BY <1>1 DEF SupervisionInit, ReadInv, TickerInv, ReportedIsHeard
<1> QED  BY <1>2, <1>3 DEF WatchInv

\* A read leaves a sequence, a stamp that is now or, when nothing was read, the
\* old one, and a readiness that is cleared only with an empty socket.
LEMMA TakeType ==
    ASSUME WatchInv, NEW r \in 0..Len(inbox), Take(r), UNCHANGED <<now, reported>>
    PROVE  /\ inbox' \in Seq({"beat", "frame"}) /\ last' \in 0..now
           /\ readiness' \in {"none", "readable", "closed"}
           /\ r > 0 => last' = now
           /\ r = 0 => last' = last /\ inbox' = inbox
           /\ last <= last'
           /\ ReadInv'
<1>1. /\ inbox \in Seq({"beat", "frame"}) /\ last \in 0..now /\ now \in Nat
      /\ readiness \in {"none", "readable", "closed"} /\ Len(inbox) \in Nat
      /\ reported \in 0..now
    BY DEF WatchInv, SupervisionTypeOK
<1>2. inbox' \in Seq({"beat", "frame"})
    BY <1>1 DEF Take
<1>3. last' \in 0..now /\ last <= last' /\ (r > 0 => last' = now) /\ (r = 0 => last' = last)
    BY <1>1 DEF Take
<1>4. readiness' \in {"none", "readable", "closed"}
    BY <1>1 DEF Take
<1>5. r = 0 => inbox' = inbox
    BY <1>1 DEF Take
<1>6. ReadInv'
  <2>1. CASE r > 0
      BY <1>1, <1>3, <2>1 DEF ReadInv
  <2>2. CASE r = 0
    <3>1. CASE UNCHANGED readiness
        BY <1>3, <1>5, <2>2, <3>1 DEF WatchInv, ReadInv
    <3>2. CASE r = Len(inbox) /\ readiness = "readable" /\ readiness' = "none"
      <4>1. inbox = << >>
          BY <1>1, <2>2, <3>2
      <4> QED  BY <1>3, <2>2, <3>2, <4>1 DEF WatchInv, ReadInv
    <3> QED  BY <3>1, <3>2 DEF Take
  <2> QED  BY <1>1, <2>1, <2>2
<1> QED  BY <1>2, <1>3, <1>4, <1>5, <1>6

LEMMA WatchNext == WatchInv /\ [SupervisionNext]_supervisionVars => WatchInv'
<1> SUFFICES ASSUME WatchInv, [SupervisionNext]_supervisionVars PROVE WatchInv'
    OBVIOUS
<1>a. Incoming \in Nat /\ Tolerance \in Nat
    BY SupervisionAssumption DEF Tolerance
<1>b. now \in Nat /\ reported \in 0..now /\ last \in 0..now /\ tick \in Nat
    BY DEF WatchInv, SupervisionTypeOK
<1>0. /\ buffered \in Nat /\ inbox \in Seq({"beat", "frame"}) /\ closed \in BOOLEAN
      /\ readiness \in {"none", "readable", "closed"} /\ spent \in BOOLEAN
      /\ Len(inbox) \in Nat
    BY DEF WatchInv, SupervisionTypeOK
<1>1. CASE PollBuffered
  <2>1. /\ buffered > 0 /\ buffered' = buffered - 1
        /\ reader' = "away" /\ spent' = FALSE /\ out' = "frame"
        /\ UNCHANGED <<now, inbox, closed, readiness, reported, last, tick>>
      BY <1>1 DEF PollBuffered, serverVars
  <2>2. buffered' \in Nat
      BY <1>0, <2>1
  <2>3. SupervisionTypeOK'
      BY <1>0, <1>b, <2>1, <2>2 DEF SupervisionTypeOK
  <2> QED  BY <2>1, <2>3 DEF WatchInv, ReadInv, TickerInv, ReportedIsHeard
<1>2. CASE PollRead
  <2>1. PICK r \in 1..Len(inbox) :
           /\ Frames(SubSeq(inbox, 1, r)) > 0
           /\ buffered' = Frames(SubSeq(inbox, 1, r)) - 1
           /\ Take(r)
      BY <1>2 DEF PollRead
  <2>2. SubSeq(inbox, 1, r) \in Seq({"beat", "frame"})
      BY <1>0, <2>1
  <2>3. buffered' \in Nat
    <3>1. Frames(SubSeq(inbox, 1, r)) \in Nat
        BY <2>2, FramesType
    <3> QED  BY <2>1, <3>1
  <2>4. /\ reader' = "away" /\ spent' = FALSE /\ out' = "frame"
        /\ UNCHANGED <<now, closed, reported, tick>>
      BY <1>2 DEF PollRead
  <2>5. /\ inbox' \in Seq({"beat", "frame"}) /\ last' \in 0..now
        /\ readiness' \in {"none", "readable", "closed"} /\ ReadInv'
      BY <1>0, <2>1, <2>4, TakeType
  <2>6. SupervisionTypeOK'
      BY <1>0, <1>b, <2>3, <2>4, <2>5 DEF SupervisionTypeOK
  <2> QED  BY <2>4, <2>5, <2>6 DEF WatchInv, TickerInv, ReportedIsHeard
<1>3. CASE PollEnd
  <2>1. /\ reader' = "away" /\ spent' = FALSE /\ out' = "end"
        /\ UNCHANGED <<now, closed, reported, buffered, tick>> /\ Take(Len(inbox))
      BY <1>3 DEF PollEnd
  <2>2. /\ inbox' \in Seq({"beat", "frame"}) /\ last' \in 0..now
        /\ readiness' \in {"none", "readable", "closed"} /\ ReadInv'
    <3>1. Len(inbox) \in 0..Len(inbox)
        BY <1>0
    <3> QED  BY <2>1, <3>1, TakeType
  <2>3. SupervisionTypeOK'
      BY <1>0, <1>b, <2>1, <2>2 DEF SupervisionTypeOK
  <2> QED  BY <2>1, <2>2, <2>3 DEF WatchInv, TickerInv, ReportedIsHeard
<1>4. CASE PollPending
  <2>1. /\ readiness' = "none" /\ spent' = FALSE /\ Judge
        /\ UNCHANGED <<now, closed, reported, buffered>>
      BY <1>4 DEF PollPending
  <2>2. PICK r \in 0..Len(inbox) : Take(r)
    <3>1. 0 \in 0..Len(inbox) /\ Len(inbox) \in 0..Len(inbox)
        BY <1>0
    <3> QED  BY <1>4, <3>1 DEF PollPending
  <2>3. inbox' \in Seq({"beat", "frame"}) /\ ReadInv'
      BY <2>1, <2>2, TakeType
  <2>4. PICK l \in 0..now : last' = l
      BY <2>1, <2>2, TakeType
  <2>5. reported <= l
      BY <2>1, <2>3, <2>4 DEF ReadInv
  <2>6. PICK t \in Nat : tick' = t /\ now <= t /\ t <= now + Incoming
    <3>1. tick' = IF tick <= now THEN now + Incoming ELSE tick
        BY <1>4 DEF PollPending, DrainTicker
    <3> QED  BY <1>a, <1>b, <3>1 DEF WatchInv, TickerInv
  <2>7. CASE now - l > Tolerance
    <3>1. reader' = "away" /\ out' = "timeout"
        BY <2>1, <2>4, <2>7 DEF Judge
    <3>2. now - reported > Tolerance
        BY <1>a, <1>b, <2>5, <2>7
    <3>3. SupervisionTypeOK'
        BY <1>0, <1>b, <2>1, <2>3, <2>4, <2>6, <3>1 DEF SupervisionTypeOK
    <3> QED
        BY <2>1, <2>3, <2>6, <3>1, <3>2, <3>3 DEF WatchInv, TickerInv, ReportedIsHeard
  <2>8. CASE ~(now - l > Tolerance)
    <3>1. reader' = "parked" /\ out' = "pending"
        BY <2>1, <2>4, <2>8 DEF Judge
    <3>2. t <= l + Tolerance + Incoming
        BY <1>a, <1>b, <2>6, <2>8
    <3>3. SupervisionTypeOK'
        BY <1>0, <1>b, <2>1, <2>3, <2>4, <2>6, <3>1 DEF SupervisionTypeOK
    <3> QED
        BY <2>1, <2>3, <2>4, <2>6, <3>1, <3>2, <3>3 DEF WatchInv, TickerInv, ReportedIsHeard
  <2> QED  BY <2>7, <2>8
<1>5. CASE PollExhausted
  <2>1. /\ spent' = TRUE /\ Judge
        /\ UNCHANGED <<now, closed, reported, buffered, tick>>
      BY <1>5 DEF PollExhausted
  <2>2. PICK r \in 0..Len(inbox) : Take(r)
      BY <1>5 DEF PollExhausted
  <2>3. /\ inbox' \in Seq({"beat", "frame"}) /\ ReadInv'
        /\ readiness' \in {"none", "readable", "closed"}
      BY <2>1, <2>2, TakeType
  <2>4. PICK l \in 0..now : last' = l
      BY <2>1, <2>2, TakeType
  <2>5. /\ reader' \in {"away", "parked"} /\ out' \in {"timeout", "pending"}
        /\ reader' = "parked" => now <= l + Tolerance
      BY <1>a, <1>b, <2>1, <2>4 DEF Judge
  <2>6. SupervisionTypeOK'
      BY <1>0, <1>b, <2>1, <2>3, <2>4, <2>5 DEF SupervisionTypeOK
  <2>7. TickerInv'
      BY <2>1, <2>4, <2>5 DEF WatchInv, TickerInv
  <2> QED  BY <2>1, <2>3, <2>6, <2>7 DEF WatchInv, ReportedIsHeard
<1>6. CASE Leave
    BY <1>0, <1>a, <1>b, <1>6 DEF WatchInv, SupervisionTypeOK, ReadInv, TickerInv, ReportedIsHeard, Leave, serverVars
<1>7. CASE \E what \in {"beat", "frame"} : ServerSends(what)
  <2>1. PICK what \in {"beat", "frame"} : ServerSends(what)
      BY <1>7
  <2>2. inbox' \in Seq({"beat", "frame"}) /\ inbox' # << >>
      BY <1>0, <2>1 DEF ServerSends
  <2>3. /\ out' = "none"
        /\ UNCHANGED <<now, closed, readiness, reported, last, buffered, tick, reader, spent>>
      BY <2>1 DEF ServerSends
  <2> QED  BY <1>0, <1>a, <1>b, <2>2, <2>3 DEF WatchInv, SupervisionTypeOK, ReadInv, TickerInv, ReportedIsHeard
<1>8. CASE Close
  <2>1. closed' \in BOOLEAN /\ out' = "none"
        /\ UNCHANGED <<now, inbox, readiness, reported, last, buffered, tick, reader, spent>>
      BY <1>8 DEF Close
  <2> QED  BY <1>0, <1>a, <1>b, <2>1 DEF WatchInv, SupervisionTypeOK, ReadInv, TickerInv, ReportedIsHeard
<1>9. CASE Driver
  <2>1. /\ reported' = now /\ out' = "none"
        /\ UNCHANGED <<now, inbox, closed, last, buffered, tick, reader, spent>>
      BY <1>9 DEF Driver
  <2>2. readiness' = "closed" \/ (readiness' = "readable" /\ inbox # << >>)
      BY <1>9 DEF Driver
  <2>3. SupervisionTypeOK'
      BY <1>0, <1>b, <2>1, <2>2 DEF WatchInv, SupervisionTypeOK
  <2>4. ReadInv' /\ TickerInv' /\ ReportedIsHeard'
      BY <2>1, <2>2 DEF WatchInv, ReadInv, TickerInv, ReportedIsHeard
  <2> QED  BY <2>3, <2>4 DEF WatchInv
<1>10. CASE TimePasses
  <2>1. /\ now' = now + 1 /\ out' = "none"
        /\ UNCHANGED <<inbox, closed, readiness, reported, last, buffered, tick, reader, spent>>
        /\ reader = "parked" => ~(tick <= now) /\ ~spent
      BY <1>10 DEF TimePasses, Woken, serverVars
  <2> QED  BY <1>0, <1>a, <1>b, <2>1 DEF WatchInv, SupervisionTypeOK, ReadInv, TickerInv, ReportedIsHeard
<1>11. CASE UNCHANGED supervisionVars
    BY <1>11 DEF WatchInv, SupervisionTypeOK, ReadInv, TickerInv, ReportedIsHeard, supervisionVars, serverVars
<1> QED
    BY <1>1, <1>2, <1>3, <1>4, <1>5, <1>6, <1>7, <1>8, <1>9, <1>10, <1>11 DEF SupervisionNext, Poll

LEMMA WatchHolds == SupervisionSpec => []WatchInv
BY WatchInit, WatchNext, PTL DEF SupervisionSpec

\* Every reachable state is well typed: nothing the driver reports and no
\* reading of the clock is ever stamped in the future, however the ticks fall.
THEOREM WatchTypeCorrect == SupervisionSpec => []SupervisionTypeOK
<1>1. WatchInv => SupervisionTypeOK
    BY DEF WatchInv
<1> QED  BY <1>1, WatchHolds, PTL

\* For every interval, and however late the application polls: an alarm means
\* that the I/O driver has reported nothing within the tolerance, or that the
\* task's budget kept poll_next from reading.
THEOREM ReportsAreHeard == SupervisionSpec => []ReportedIsHeard
<1>1. WatchInv => ReportedIsHeard
    BY DEF WatchInv
<1> QED  BY <1>1, WatchHolds, PTL

\* A waiting reader outlasts a silent server by at most three intervals.
THEOREM SilenceBounded == SupervisionSpec => []SilenceIsNoticed
<1>1. WatchInv => SilenceIsNoticed
  <2> SUFFICES ASSUME WatchInv, reader = "parked" PROVE now <= last + Tolerance + Incoming
      BY DEF SilenceIsNoticed
  <2>1. now \in Nat /\ last \in 0..now /\ tick \in Nat /\ spent \in BOOLEAN
      BY DEF WatchInv, SupervisionTypeOK
  <2>2. Incoming \in Nat /\ Tolerance \in Nat
      BY SupervisionAssumption DEF Tolerance
  <2>3. CASE spent
      BY <2>1, <2>2, <2>3 DEF WatchInv, TickerInv
  <2>4. CASE ~spent
      BY <2>1, <2>2, <2>4 DEF WatchInv, TickerInv
  <2> QED  BY <2>3, <2>4
<1> QED  BY <1>1, WatchHolds, PTL
=============================================================================
