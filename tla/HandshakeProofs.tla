-------------------------- MODULE HandshakeProofs --------------------------
(***************************************************************************)
(* Proofs about Handshake, for every set of intervals and of custom        *)
(* headers and however much the server sends behind its answer.            *)
(***************************************************************************)
EXTENDS Handshake, SequenceTheorems, TLAPS

\* Until the answer is read what has arrived is the answer and, in order, what
\* the server sent behind it; nothing comes before there is a CONNECT frame.
ArrivalInv ==
    /\ offered = {} => answer = {}
    /\ answer = {} => inbox = << >> /\ behind = 0
    /\ pc = "reply" /\ answer # {} =>
        /\ Len(inbox) = behind + 1 /\ answer = {inbox[1]}
        /\ \A i \in 1..behind : inbox[i + 1] = Behind(i)

\* Where connect() is tells how far the wiring is; only a transport has a task.
PhaseInv ==
    /\ pc \in {"tcp", "tls", "connect"} => offered = {}
    /\ pc \in {"tcp", "tls", "connect", "reply"} => buffer = << >>
    /\ offered # {} => offered = {HeartbeatHeader}
    /\ pc \in {"reply", "ready"} => wiring = IF beats THEN "split" ELSE "framed"
    /\ pc = "ready" => offered # {}
    /\ pc # "ready" => task = {}

\* What a transport was made from.
ReadyInv ==
    pc = "ready" => \E a \in Connected :
        /\ answer = {a} /\ Accepts(a)
        /\ outgoing = negotiate(PairOf(config.heartbeat)[1], PairOf(a.hb)[2])
        /\ incoming = negotiate(PairOf(a.hb)[1], PairOf(config.heartbeat)[2])
        /\ task = IF wiring = "split" THEN {outgoing} ELSE {}
        /\ supervise = IF config.auto_heartbeat THEN incoming ELSE {}

\* Past the TLS layer the server's name has been verified.
TlsInv ==
    config.use_tls /\ (pc = "connect" \/ offered # {}) => verified = server_name

Inv ==
    TypeOK /\ ArrivalInv /\ PhaseInv /\ ReadyInv /\ TlsInv /\ NothingBehindIsLost

-----------------------------------------------------------------------------
(* The operators of the model *)

\* The first element of an option is one of its set.
LEMMA PairOfType == ASSUME NEW hb \in Option(Pairs) PROVE PairOf(hb) \in Pairs
<1>1. CASE hb = {}
    BY <1>1, HandshakeAssumption DEF PairOf, Pairs
<1>2. CASE hb # {}
  <2>1. PICK p \in Pairs : hb = {p}
      BY <1>2 DEF Option
  <2>2. (CHOOSE q \in hb : TRUE) \in hb
      BY <2>1
  <2> QED  BY <1>2, <2>1, <2>2 DEF PairOf
<1> QED  BY <1>1, <1>2

LEMMA PairType ==
    ASSUME NEW hb \in Option(Pairs)
    PROVE  PairOf(hb)[1] \in Intervals /\ PairOf(hb)[2] \in Intervals
BY PairOfType DEF Pairs

\* negotiate never comes to an interval of zero.
LEMMA NegotiateType ==
    ASSUME NEW x \in Intervals, NEW y \in Intervals
    PROVE  negotiate(x, y) \in Option(Spans)
BY HandshakeAssumption DEF negotiate, MaxOf, Option, Spans

\* negotiate and the rule of the protocol, which multiplies, are the same.
LEMMA NegotiateByProduct ==
    ASSUME NEW x \in Intervals, NEW y \in Intervals
    PROVE  negotiate(x, y) = IF x * y = 0 THEN {} ELSE {MaxOf(x, y)}
<1>1. x \in Nat /\ y \in Nat
    BY HandshakeAssumption
<1>2. (x * y = 0) <=> (x = 0 \/ y = 0)
    BY <1>1
<1> QED  BY <1>2 DEF negotiate

\* What the settings hold and what is derived from them.
LEMMA ConfigFacts ==
    ASSUME config \in Settings
    PROVE  /\ config.heartbeat \in Option(Pairs)
           /\ config.custom \in Option(CustomBeats)
           /\ config.tls_server_name \in Option({"given"})
           /\ config.auto_heartbeat \in BOOLEAN /\ config.use_tls \in BOOLEAN
           /\ HeartbeatHeader \in Option(Pairs)
           /\ server_name \in Option({"name", "address", "given"})
           /\ server_name # {}
<1>1. /\ config.heartbeat \in Option(Pairs) /\ config.custom \in Option(CustomBeats)
      /\ config.tls_server_name \in Option({"given"})
    BY DEF Settings
<1>2. config.auto_heartbeat \in BOOLEAN /\ config.use_tls \in BOOLEAN
    BY DEF Settings
<1>3. Option(CustomBeats) \subseteq Option(Pairs)
    BY HandshakeAssumption DEF Option, Pairs
<1>4. HeartbeatHeader \in Option(Pairs)
    BY <1>1, <1>3 DEF HeartbeatHeader
<1>5. server_name \in Option({"name", "address", "given"}) /\ server_name # {}
    BY <1>1 DEF server_name, Option
<1> QED  BY <1>1, <1>2, <1>4, <1>5

\* An accepted answer is CONNECTED with a heart-beat header that is absent or
\* a pair.
LEMMA AcceptedType ==
    ASSUME NEW a \in Answers, Accepts(a)
    PROVE  a \in Connected /\ a.hb \in Option(Pairs)
<1>1. a.kind = "CONNECTED" /\ <<"unreadable">> \notin a.hb
    BY DEF Accepts
<1>2. a \in Connected
    BY <1>1 DEF Answers
<1>3. a.hb \in Option(Pairs \cup {<<"unreadable">>})
    BY <1>2 DEF Connected
<1> QED  BY <1>1, <1>2, <1>3 DEF Option

\* What travels towards the client.
Items == Answers \cup {Behind(i) : i \in 1..MaxBehind}

\* The frames behind the answer, all of them and in order.
LEMMA BehindSeq ==
    ASSUME NEW s \in Seq(Items), NEW n \in Nat
    PROVE  s = [i \in 1..n |-> Behind(i)] <=> Len(s) = n /\ \A i \in 1..n : s[i] = Behind(i)
<1>1. Len(s) \in Nat /\ s = [i \in 1..Len(s) |-> s[i]] /\ DOMAIN s = 1..Len(s)
    BY LenProperties
<1>2. ASSUME s = [i \in 1..n |-> Behind(i)]
      PROVE  Len(s) = n /\ \A i \in 1..n : s[i] = Behind(i)
  <2>1. DOMAIN s = 1..n /\ \A i \in 1..n : s[i] = Behind(i)
      BY <1>2
  <2>2. Len(s) = n
      BY <1>1, <2>1
  <2> QED  BY <2>1, <2>2
<1>3. ASSUME Len(s) = n, \A i \in 1..n : s[i] = Behind(i)
      PROVE  s = [i \in 1..n |-> Behind(i)]
    BY <1>1, <1>3
<1> QED  BY <1>2, <1>3

-----------------------------------------------------------------------------
(* The inductive invariant *)

LEMMA InvInit == Init => Inv
<1> SUFFICES ASSUME Init PROVE Inv
    OBVIOUS
<1>1. TypeOK
  <2>1. closed \in BOOLEAN
      BY DEF Init
  <2>2. {} \in Option(Spans) /\ {} \in Option(Option(Spans)) /\ {} \in Option(Answers)
        /\ {} \in Option(Option(Pairs)) /\ {} \in Option({"name", "address", "given"})
      BY DEF Option
  <2>3. inbox \in Seq(Items) /\ buffer \in Seq(Items) /\ behind \in 0..MaxBehind
      BY HandshakeAssumption DEF Init
  <2> QED  BY <2>1, <2>2, <2>3 DEF Init, TypeOK, Items
<1>2. ArrivalInv /\ PhaseInv /\ ReadyInv /\ TlsInv /\ NothingBehindIsLost
    BY DEF Init, ArrivalInv, PhaseInv, ReadyInv, TlsInv, NothingBehindIsLost
<1> QED  BY <1>1, <1>2 DEF Inv

\* connect() gives up: with an error, or because it was dropped.
LEMMA InvGiveUp ==
    ASSUME Inv, pc # "ready", pc' \in {"failed", "dropped"},
           UNCHANGED <<config, verified, offered, buffer, outgoing, incoming, supervise, task,
                       inbox, behind, answer, closed>>,
           wiring' \in {"none", "framed", "split"}
    PROVE  Inv'
<1>1. TypeOK'
    BY DEF Inv, TypeOK
<1>2. ArrivalInv'
    BY DEF Inv, ArrivalInv
<1>3. PhaseInv'
    BY DEF Inv, PhaseInv, HeartbeatHeader
<1>4. ReadyInv' /\ NothingBehindIsLost'
    BY DEF ReadyInv, NothingBehindIsLost
<1>5. TlsInv'
    BY DEF Inv, TlsInv, server_name
<1> QED  BY <1>1, <1>2, <1>3, <1>4, <1>5 DEF Inv

LEMMA InvOpenTcp == ASSUME Inv, OpenTcp PROVE Inv'
<1>1. CASE pc' = "failed"
    BY <1>1, InvGiveUp DEF OpenTcp, Fail, clientVars, serverVars, Inv, TypeOK
<1>2. CASE pc' # "failed"
  <2>1. /\ pc = "tcp" /\ pc' = IF config.use_tls THEN "tls" ELSE "connect"
        /\ UNCHANGED <<config, verified, offered, wiring, buffer, outgoing, incoming,
                       supervise, task, inbox, behind, answer, closed>>
      BY <1>2 DEF OpenTcp, Fail, clientVars, serverVars
  <2>2. pc' \in {"tls", "connect"}
      BY <2>1
  <2>3. TypeOK'
      BY <2>1, <2>2 DEF Inv, TypeOK
  <2>4. ArrivalInv' /\ PhaseInv' /\ ReadyInv' /\ NothingBehindIsLost'
      BY <2>1, <2>2 DEF Inv, ArrivalInv, PhaseInv, ReadyInv, NothingBehindIsLost
  <2>5. TlsInv'
      BY <2>1 DEF Inv, PhaseInv, TlsInv
  <2> QED  BY <2>3, <2>4, <2>5 DEF Inv
<1> QED  BY <1>1, <1>2

LEMMA InvOpenTls == ASSUME Inv, OpenTls PROVE Inv'
<1>1. CASE pc' = "failed"
    BY <1>1, InvGiveUp DEF OpenTls, Fail, clientVars, serverVars, Inv, TypeOK
<1>2. CASE pc' # "failed"
  <2>1. /\ pc = "tls" /\ pc' = "connect" /\ verified' = server_name
        /\ UNCHANGED <<config, offered, wiring, buffer, outgoing, incoming,
                       supervise, task, inbox, behind, answer, closed>>
      BY <1>2 DEF OpenTls, Fail, clientVars, serverVars
  <2>2. server_name \in Option({"name", "address", "given"})
      BY ConfigFacts DEF Inv, TypeOK
  <2>3. TypeOK'
      BY <2>1, <2>2 DEF Inv, TypeOK
  <2>4. ArrivalInv' /\ PhaseInv' /\ ReadyInv' /\ NothingBehindIsLost'
      BY <2>1 DEF Inv, ArrivalInv, PhaseInv, ReadyInv, NothingBehindIsLost
  <2>5. TlsInv'
      BY <2>1 DEF TlsInv, server_name
  <2> QED  BY <2>3, <2>4, <2>5 DEF Inv
<1> QED  BY <1>1, <1>2

LEMMA InvSendConnect == ASSUME Inv, SendConnect PROVE Inv'
<1>1. /\ pc = "connect"
      /\ wiring' = IF beats THEN "split" ELSE "framed"
      /\ UNCHANGED <<config, verified, buffer, outgoing, incoming, supervise, task,
                     inbox, behind, answer, closed>>
    BY DEF SendConnect, serverVars
<1>2. wiring' \in {"none", "framed", "split"}
    BY <1>1
<1>3. CASE pc' = "failed" /\ UNCHANGED offered
    BY <1>1, <1>2, <1>3, InvGiveUp
<1>4. CASE pc' = "reply" /\ offered' = {HeartbeatHeader}
  <2>1. TypeOK'
    <3>1. offered' \in Option(Option(Pairs))
        BY <1>4, ConfigFacts DEF Inv, TypeOK, Option
    <3> QED  BY <1>1, <1>2, <1>4, <3>1 DEF Inv, TypeOK
  <2>2. ArrivalInv'
      BY <1>1, <1>4 DEF Inv, PhaseInv, ArrivalInv
  <2>3. PhaseInv'
      BY <1>1, <1>4 DEF Inv, PhaseInv, HeartbeatHeader, beats
  <2>4. ReadyInv' /\ NothingBehindIsLost'
      BY <1>4 DEF ReadyInv, NothingBehindIsLost
  <2>5. TlsInv'
      BY <1>1, <1>4 DEF Inv, TlsInv, server_name
  <2> QED  BY <2>1, <2>2, <2>3, <2>4, <2>5 DEF Inv
<1> QED  BY <1>3, <1>4 DEF SendConnect

\* The answer is read: what it came with is all still there.
LEMMA InvReadReply == ASSUME Inv, ReadReply PROVE Inv'
<1>a. /\ pc = "reply" /\ inbox # << >>
      /\ UNCHANGED <<config, verified, wiring, offered, behind, answer, closed>>
    BY DEF ReadReply
<1>b. inbox \in Seq(Items) /\ Len(inbox) \in Nat /\ behind \in 0..MaxBehind /\ MaxBehind \in Nat
    BY HandshakeAssumption DEF Inv, TypeOK, Items
<1>c. /\ answer # {} /\ Len(inbox) = behind + 1 /\ answer = {inbox[1]}
      /\ \A i \in 1..behind : inbox[i + 1] = Behind(i)
    BY <1>a DEF Inv, ArrivalInv
<1>d. PICK r \in 1..Len(inbox) :
        buffer' = SubSeq(inbox, 2, r) /\ inbox' = SubSeq(inbox, r + 1, Len(inbox))
    BY DEF ReadReply
<1>e. /\ buffer' \in Seq(Items) /\ Len(buffer') = r - 1
      /\ \A i \in 1..(r - 1) : buffer'[i] = inbox[i + 1]
    BY <1>b, <1>d, SubSeqProperties
<1>f. /\ inbox' \in Seq(Items) /\ Len(inbox') = Len(inbox) - r
      /\ \A i \in 1..(Len(inbox) - r) : inbox'[i] = inbox[r + i]
    BY <1>b, <1>d, SubSeqProperties
<1>g. PICK a \in Answers : answer = {a}
    BY <1>c DEF Inv, TypeOK, Option
<1>h. Head(inbox) = a
  <2>1. Head(inbox) = inbox[1]
      BY <1>a, <1>b, HeadTailProperties
  <2>2. inbox[1] = a
      BY <1>c, <1>g
  <2> QED  BY <2>1, <2>2
<1>1. ArrivalInv'
  <2>1. pc' # "reply"
      BY DEF ReadReply, Established
  <2> QED  BY <1>a, <1>c, <2>1 DEF Inv, ArrivalInv
<1>2. TlsInv'
  <2>1. pc' # "connect"
      BY DEF ReadReply, Established
  <2> QED  BY <1>a, <2>1 DEF Inv, TlsInv, server_name
<1>3. CASE Accepts(a)
  <2>1. Established(a)
      BY <1>3, <1>h DEF ReadReply
  <2>2. a \in Connected /\ a.hb \in Option(Pairs)
      BY <1>3, AcceptedType
  <2>3. /\ pc' = "ready"
        /\ outgoing' = negotiate(PairOf(config.heartbeat)[1], PairOf(a.hb)[2])
        /\ incoming' = negotiate(PairOf(a.hb)[1], PairOf(config.heartbeat)[2])
        /\ task' = IF wiring = "split" THEN {outgoing'} ELSE {}
        /\ supervise' = IF config.auto_heartbeat THEN incoming' ELSE {}
      BY <2>1 DEF Established
  <2>4. ReadyInv'
    <3>1. answer' = {a} /\ config' = config /\ wiring' = wiring
        BY <1>a, <1>g
    <3> QED  BY <1>3, <2>2, <2>3, <3>1 DEF ReadyInv
  <2>5. TypeOK'
    <3>1. outgoing' \in Option(Spans) /\ incoming' \in Option(Spans)
      <4>1. config.heartbeat \in Option(Pairs)
          BY ConfigFacts DEF Inv, TypeOK
      <4> QED  BY <2>2, <2>3, <4>1, PairType, NegotiateType
    <3>2. supervise' \in Option(Spans) /\ task' \in Option(Option(Spans))
        BY <2>3, <3>1 DEF Option
    <3> QED  BY <1>a, <1>e, <1>f, <2>3, <3>1, <3>2 DEF Inv, TypeOK, Items
  <2>6. PhaseInv'
    <3>1. offered # {}
        BY <1>c DEF Inv, ArrivalInv
    <3> QED  BY <1>a, <2>3, <3>1 DEF Inv, PhaseInv, HeartbeatHeader, beats
  <2>7. NothingBehindIsLost'
    <3>1. buffer' \o inbox' \in Seq(Items) /\ Len(buffer' \o inbox') = behind
      <4>1. /\ buffer' \o inbox' \in Seq(Items)
            /\ Len(buffer' \o inbox') = Len(buffer') + Len(inbox')
          BY <1>e, <1>f, ConcatProperties
      <4>2. (r - 1) + (Len(inbox) - r) = behind
          BY <1>b, <1>c
      <4> QED  BY <1>e, <1>f, <4>1, <4>2
    <3>2. ASSUME NEW i \in 1..behind
          PROVE  (buffer' \o inbox')[i] = Behind(i)
      <4>1. CASE i <= r - 1
          BY <1>b, <1>c, <1>e, <1>f, <4>1, ConcatProperties
      <4>2. CASE i > r - 1
        <5>1. (buffer' \o inbox')[i] = inbox'[i - (r - 1)]
            BY <1>b, <1>c, <1>e, <1>f, <4>2, ConcatProperties
        <5>2. i - (r - 1) \in 1..(Len(inbox) - r) /\ r + (i - (r - 1)) = i + 1
            BY <1>b, <1>c, <4>2
        <5> QED  BY <1>c, <1>f, <5>1, <5>2
      <4>3. i <= r - 1 \/ i > r - 1
          BY <1>b
      <4> QED  BY <4>1, <4>2, <4>3
    <3>3. buffer' \o inbox' = [i \in 1..behind |-> Behind(i)]
      <4>1. behind \in Nat
          BY <1>b
      <4> QED  BY <3>1, <3>2, <4>1, BehindSeq
    <3> QED  BY <1>a, <3>3 DEF NothingBehindIsLost
  <2> QED  BY <1>1, <1>2, <2>4, <2>5, <2>6, <2>7 DEF Inv
<1>4. CASE ~Accepts(a)
  <2>1. pc' = "failed" /\ UNCHANGED <<outgoing, incoming, supervise, task>>
      BY <1>4, <1>h DEF ReadReply
  <2>2. TypeOK'
      BY <1>a, <1>e, <1>f, <2>1 DEF Inv, TypeOK, Items
  <2>3. PhaseInv'
      BY <1>a, <2>1 DEF Inv, PhaseInv, HeartbeatHeader
  <2>4. ReadyInv' /\ NothingBehindIsLost'
      BY <2>1 DEF ReadyInv, NothingBehindIsLost
  <2> QED  BY <1>1, <1>2, <2>2, <2>3, <2>4 DEF Inv
<1> QED  BY <1>3, <1>4

LEMMA InvAnswer == ASSUME Inv, Answer PROVE Inv'
<1>1. PICK a \in Answers : answer' = {a} /\ inbox' = Append(inbox, a)
    BY DEF Answer
<1>2. /\ offered # {} /\ answer = {}
      /\ UNCHANGED <<config, verified, pc, offered, wiring, buffer, outgoing, incoming,
                     supervise, task, behind, closed>>
    BY DEF Answer, clientVars
<1>3. inbox = << >> /\ behind = 0
    BY <1>2 DEF Inv, ArrivalInv
<1>4. inbox' = <<a>>
    BY <1>1, <1>3
<1>5. pc # "ready"
    BY <1>2 DEF Inv, ReadyInv
<1>6. TypeOK'
  <2>1. inbox' \in Seq(Items) /\ answer' \in Option(Answers)
      BY <1>1, <1>4 DEF Items, Option
  <2> QED  BY <1>2, <2>1 DEF Inv, TypeOK, Items
<1>7. ArrivalInv'
  <2>1. inbox'[1] = a /\ Len(inbox') = 1
      BY <1>4
  <2> QED  BY <1>1, <1>2, <1>3, <2>1 DEF ArrivalInv
<1>8. PhaseInv' /\ TlsInv'
    BY <1>2 DEF Inv, PhaseInv, TlsInv, HeartbeatHeader, beats, server_name
<1>9. ReadyInv' /\ NothingBehindIsLost'
    BY <1>2, <1>5 DEF ReadyInv, NothingBehindIsLost
<1> QED  BY <1>6, <1>7, <1>8, <1>9 DEF Inv

LEMMA InvGoOn == ASSUME Inv, GoOn PROVE Inv'
<1>1. /\ answer # {} /\ behind < MaxBehind /\ behind' = behind + 1
      /\ inbox' = Append(inbox, Behind(behind + 1))
      /\ UNCHANGED <<config, verified, pc, offered, wiring, buffer, outgoing, incoming,
                     supervise, task, answer, closed>>
    BY DEF GoOn, clientVars
<1>2. /\ inbox \in Seq(Items) /\ buffer \in Seq(Items) /\ behind \in 0..MaxBehind
      /\ MaxBehind \in Nat /\ Len(inbox) \in Nat /\ Len(buffer) \in Nat
    BY HandshakeAssumption DEF Inv, TypeOK, Items
<1>3. Behind(behind + 1) \in Items /\ behind' \in 0..MaxBehind
    BY <1>1, <1>2 DEF Items
<1>4. /\ inbox' \in Seq(Items) /\ Len(inbox') = Len(inbox) + 1
      /\ \A i \in 1..Len(inbox) : inbox'[i] = inbox[i]
      /\ inbox'[Len(inbox) + 1] = Behind(behind + 1)
    BY <1>1, <1>2, <1>3, AppendProperties
<1>5. TypeOK'
    BY <1>1, <1>3, <1>4 DEF Inv, TypeOK, Items
<1>6. ArrivalInv'
  <2>1. ASSUME pc = "reply"
        PROVE  /\ Len(inbox') = behind' + 1 /\ answer = {inbox'[1]}
               /\ \A i \in 1..behind' : inbox'[i + 1] = Behind(i)
    <3>1. /\ Len(inbox) = behind + 1 /\ answer = {inbox[1]}
          /\ \A i \in 1..behind : inbox[i + 1] = Behind(i)
        BY <1>1, <2>1 DEF Inv, ArrivalInv
    <3>2. Len(inbox') = behind' + 1 /\ inbox'[1] = inbox[1]
        BY <1>1, <1>2, <1>4, <3>1
    <3>3. ASSUME NEW i \in 1..behind' PROVE inbox'[i + 1] = Behind(i)
      <4>1. CASE i = behind + 1
          BY <1>4, <3>1, <4>1
      <4>2. CASE i # behind + 1
        <5>1. i \in 1..behind /\ i + 1 \in 1..Len(inbox)
            BY <1>1, <1>2, <3>1, <4>2
        <5> QED  BY <1>4, <3>1, <5>1
      <4> QED  BY <4>1, <4>2
    <3> QED  BY <3>1, <3>2, <3>3
  <2> QED  BY <1>1, <2>1 DEF Inv, ArrivalInv
<1>7. PhaseInv' /\ TlsInv'
    BY <1>1 DEF Inv, PhaseInv, TlsInv, HeartbeatHeader, beats, server_name
<1>8. ReadyInv'
    BY <1>1 DEF Inv, ReadyInv
<1>9. NothingBehindIsLost'
  <2> SUFFICES ASSUME pc = "ready"
               PROVE  buffer \o inbox' = [i \in 1..(behind + 1) |-> Behind(i)]
      BY <1>1 DEF NothingBehindIsLost
  <2>1. buffer \o inbox \in Seq(Items) /\ buffer \o inbox' \in Seq(Items)
      BY <1>2, <1>4, ConcatProperties
  <2>2. /\ Len(buffer) + Len(inbox) = behind
        /\ \A i \in 1..behind : (buffer \o inbox)[i] = Behind(i)
    <3>1. buffer \o inbox = [i \in 1..behind |-> Behind(i)]
        BY DEF Inv, NothingBehindIsLost
    <3>2. behind \in Nat /\ Len(buffer \o inbox) = Len(buffer) + Len(inbox)
        BY <1>2, ConcatProperties
    <3> QED  BY <2>1, <3>1, <3>2, BehindSeq
  <2>3. Len(buffer \o inbox') = behind + 1
    <3>1. Len(buffer \o inbox') = Len(buffer) + Len(inbox')
        BY <1>2, <1>4, ConcatProperties
    <3> QED  BY <1>2, <1>4, <2>2, <3>1
  <2>4. ASSUME NEW i \in 1..(behind + 1) PROVE (buffer \o inbox')[i] = Behind(i)
    <3>1. CASE i <= Len(buffer)
      <4>1. (buffer \o inbox')[i] = buffer[i] /\ (buffer \o inbox)[i] = buffer[i]
          BY <1>2, <1>4, <2>2, <2>3, <3>1, ConcatProperties
      <4>2. i \in 1..behind
          BY <1>2, <2>2, <3>1
      <4> QED  BY <2>2, <4>1, <4>2
    <3>2. CASE i > Len(buffer) /\ i # behind + 1
      <4>1. i \in 1..behind /\ i - Len(buffer) \in 1..Len(inbox)
          BY <1>2, <2>2, <3>2
      <4>2. (buffer \o inbox')[i] = inbox'[i - Len(buffer)]
          BY <1>2, <1>4, <2>2, <3>2, ConcatProperties
      <4>3. (buffer \o inbox)[i] = inbox[i - Len(buffer)]
          BY <1>2, <2>2, <3>2, <4>1, ConcatProperties
      <4> QED  BY <1>4, <2>2, <4>1, <4>2, <4>3
    <3>3. CASE i = behind + 1
      <4>1. i - Len(buffer) = Len(inbox) + 1
          BY <1>2, <2>2, <3>3
      <4>2. (buffer \o inbox')[i] = inbox'[i - Len(buffer)]
          BY <1>2, <1>4, <2>2, <3>3, <4>1, ConcatProperties
      <4> QED  BY <1>4, <3>3, <4>1, <4>2
    <3>4. i <= Len(buffer) \/ i > Len(buffer)
        BY <1>2
    <3> QED  BY <3>1, <3>2, <3>3, <3>4
  <2>5. behind + 1 \in Nat
      BY <1>2
  <2> QED  BY <2>1, <2>3, <2>4, <2>5, BehindSeq
<1> QED  BY <1>5, <1>6, <1>7, <1>8, <1>9 DEF Inv

\* A step that touches nothing but the server's end of the stream.
LEMMA InvStutter ==
    ASSUME Inv, closed' \in BOOLEAN,
           UNCHANGED <<config, verified, pc, wiring, offered, inbox, buffer, behind, answer,
                       outgoing, incoming, supervise, task>>
    PROVE  Inv'
<1>1. TypeOK'
    BY DEF Inv, TypeOK
<1>2. ArrivalInv' /\ NothingBehindIsLost'
    BY DEF Inv, ArrivalInv, NothingBehindIsLost
<1>3. PhaseInv' /\ TlsInv'
    BY DEF Inv, PhaseInv, TlsInv, HeartbeatHeader, beats, server_name
<1>4. ReadyInv'
    BY DEF Inv, ReadyInv
<1> QED  BY <1>1, <1>2, <1>3, <1>4 DEF Inv

LEMMA InvNext == Inv /\ [Next]_vars => Inv'
<1> SUFFICES ASSUME Inv, [Next]_vars PROVE Inv'
    OBVIOUS
<1>0. wiring \in {"none", "framed", "split"} /\ closed \in BOOLEAN
    BY DEF Inv, TypeOK
<1>1. CASE OpenTcp
    BY <1>1, InvOpenTcp
<1>2. CASE OpenTls
    BY <1>2, InvOpenTls
<1>3. CASE SendConnect
    BY <1>3, InvSendConnect
<1>4. CASE ReadReply
    BY <1>4, InvReadReply
<1>5. CASE ReadNothing
    BY <1>0, <1>5, InvGiveUp DEF ReadNothing, Fail, clientVars, serverVars
<1>6. CASE DropConnect
    BY <1>0, <1>6, InvGiveUp DEF DropConnect, clientVars, serverVars
<1>7. CASE Answer
    BY <1>7, InvAnswer
<1>8. CASE GoOn
    BY <1>8, InvGoOn
<1>9. CASE Close
  <2>1. closed' \in BOOLEAN
      BY <1>9 DEF Close
  <2> QED  BY <1>9, <2>1, InvStutter DEF Close, clientVars
<1>10. CASE UNCHANGED vars
    BY <1>0, <1>10, InvStutter DEF vars
<1> QED
    BY <1>1, <1>2, <1>3, <1>4, <1>5, <1>6, <1>7, <1>8, <1>9, <1>10 DEF Next, Client

LEMMA InvHolds == Spec => []Inv
BY InvInit, InvNext, PTL DEF Spec

-----------------------------------------------------------------------------
(* What follows *)

\* Every variable keeps its type; in particular negotiate never hands an
\* interval of zero to tokio's interval, which would panic.
THEOREM TypeCorrect == Spec => []TypeOK
<1>1. Inv => TypeOK
    BY DEF Inv
<1> QED  BY <1>1, InvHolds, PTL

\* A connection that is to beat on its own does, at the negotiated interval,
\* and not when the server declined; one that is not has neither a task nor
\* supervision: for all intervals, the choice of beats made before the
\* handshake is the right one after it.
THEOREM ChoiceSuits == Spec => []AutomaticIsHonoured
<1>1. Inv => AutomaticIsHonoured
  <2> SUFFICES ASSUME Inv, pc = "ready"
               PROVE  /\ config.auto_heartbeat /\ outgoing # {} => task # {}
                      /\ task \subseteq {outgoing}
                      /\ config.auto_heartbeat => supervise = incoming
                      /\ ~config.auto_heartbeat => task = {} /\ supervise = {}
      BY DEF AutomaticIsHonoured
  <2>1. PICK a \in Connected :
          /\ outgoing = negotiate(PairOf(config.heartbeat)[1], PairOf(a.hb)[2])
          /\ task = IF wiring = "split" THEN {outgoing} ELSE {}
          /\ supervise = IF config.auto_heartbeat THEN incoming ELSE {}
      BY DEF Inv, ReadyInv
  <2>2. wiring = IF beats THEN "split" ELSE "framed"
      BY DEF Inv, PhaseInv
  <2>3. ASSUME config.auto_heartbeat, outgoing # {} PROVE beats
    <3>1. PairOf(config.heartbeat)[1] # 0
        BY <2>1, <2>3 DEF negotiate
    <3>2. config.heartbeat \in Option(Pairs)
        BY ConfigFacts DEF Inv, TypeOK
    <3>3. config.heartbeat # {}
        BY <3>1 DEF PairOf
    <3>4. PairOf(config.heartbeat) \in config.heartbeat
        BY <3>2, <3>3 DEF PairOf, Option
    <3>5. PairOf(config.heartbeat)[1] \in Nat
        BY <3>2, PairType, HandshakeAssumption
    <3>6. PairOf(config.heartbeat)[1] > 0
        BY <3>1, <3>5
    <3> QED  BY <2>3, <3>4, <3>6 DEF beats
  <2>4. ~config.auto_heartbeat => ~beats
      BY DEF beats
  <2> QED  BY <2>1, <2>2, <2>3, <2>4
<1> QED  BY <1>1, InvHolds, PTL

\* Both ends come to the same intervals whenever the CONNECT frame asks for
\* what the client takes itself to have requested.
THEOREM AgreeAsRequested == Spec => [](RequestedIsOffered => EndsAgree)
<1>1. Inv => (RequestedIsOffered => EndsAgree)
  <2> SUFFICES ASSUME Inv, RequestedIsOffered, pc = "ready",
                      NEW header \in offered, NEW b \in answer
               PROVE  LET c == PairOf(header)
                          s == PairOf(b.hb)
                          agreed(x, y) == IF x * y = 0 THEN {} ELSE {MaxOf(x, y)}
                      IN  outgoing = agreed(c[1], s[2]) /\ incoming = agreed(s[1], c[2])
      BY DEF EndsAgree
  <2>1. PICK a \in Connected :
          /\ answer = {a} /\ Accepts(a)
          /\ outgoing = negotiate(PairOf(config.heartbeat)[1], PairOf(a.hb)[2])
          /\ incoming = negotiate(PairOf(a.hb)[1], PairOf(config.heartbeat)[2])
      BY DEF Inv, ReadyInv
  <2>2. b = a /\ header = config.heartbeat
      BY <2>1 DEF RequestedIsOffered
  <2>3. a.hb \in Option(Pairs) /\ config.heartbeat \in Option(Pairs)
      BY <2>1, AcceptedType, ConfigFacts DEF Inv, TypeOK, Answers
  <2>4. /\ PairOf(config.heartbeat)[1] \in Intervals /\ PairOf(a.hb)[2] \in Intervals
        /\ PairOf(a.hb)[1] \in Intervals /\ PairOf(config.heartbeat)[2] \in Intervals
      BY <2>3, PairType
  <2> QED  BY <2>1, <2>2, <2>4, NegotiateByProduct
<1> QED  BY <1>1, InvHolds, PTL

\* Without a heart-beat header among the custom ones, that is always.
THEOREM EndsComeToAgree == CustomBeats = {} => (Spec => []EndsAgree)
<1> SUFFICES ASSUME CustomBeats = {} PROVE Spec => []EndsAgree
    OBVIOUS
<1>1. Inv => RequestedIsOffered
  <2> SUFFICES ASSUME Inv, offered # {} PROVE offered = {config.heartbeat}
      BY DEF RequestedIsOffered
  <2>1. config.custom = {}
      BY ConfigFacts DEF Inv, TypeOK, Option
  <2> QED  BY <2>1 DEF Inv, PhaseInv, HeartbeatHeader
<1> QED  BY <1>1, InvHolds, AgreeAsRequested, PTL

\* establish spawns the pump last: no failed or dropped connect() leaves one.
THEOREM TaskHasTransport == Spec => []NoTaskWithoutTransport
<1>1. Inv => NoTaskWithoutTransport
    BY DEF Inv, PhaseInv, NoTaskWithoutTransport
<1> QED  BY <1>1, InvHolds, PTL

\* However the bytes are cut into reads, every frame the server sent behind
\* its answer is still there for the transport, in order.
THEOREM BehindIsKept == Spec => []NothingBehindIsLost
<1>1. Inv => NothingBehindIsLost
    BY DEF Inv
<1> QED  BY <1>1, InvHolds, PTL

\* With use_tls the server's name is verified before CONNECT is sent.
THEOREM PasscodeIsCovered == Spec => []NothingInTheClear
<1>1. Inv => NothingInTheClear
  <2> SUFFICES ASSUME Inv, config.use_tls, offered # {}
               PROVE  /\ verified # {}
                      /\ config.tls_server_name # {} => verified = config.tls_server_name
      BY DEF NothingInTheClear
  <2>1. verified = server_name /\ server_name # {}
      BY ConfigFacts DEF Inv, TypeOK, TlsInv
  <2> QED  BY <2>1 DEF server_name
<1> QED  BY <1>1, InvHolds, PTL
=============================================================================
