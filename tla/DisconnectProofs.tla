-------------------------- MODULE DisconnectProofs --------------------------
(***************************************************************************)
(* Proofs about Disconnect, for any receipt ids, any number of frames      *)
(* before, of calls and of pushed messages, supervised or not.             *)
(*                                                                         *)
(* AnswerIsTrue is not inductive: it says nothing of the receipts that are *)
(* still on their way, whom they answer, or of a SEND behind a DISCONNECT. *)
(***************************************************************************)
EXTENDS Disconnect, SequenceTheorems, TLAPS

\* The server has handled some DISCONNECT.
ByeProcessed == \E j \in 1..processed : accepted[j].command = "DISCONNECT"

\* The server has left some frame unhandled, for good.
Refused == server = "closed" /\ processed < Len(accepted)

\* What is in the socket are the first frames handed over.
PrefixInv ==
    /\ Len(delivered) <= Len(accepted)
    /\ \A i \in 1..Len(delivered) : delivered[i] = accepted[i]

\* No SEND stands behind a DISCONNECT.
OrderInv ==
    \A i, j \in 1..Len(accepted) :
        accepted[i].command = "DISCONNECT" /\ accepted[j].command = "SEND" => j < i

\* What an answer on its way says of the server, whoever will read it.
InboxInv ==
    \A i \in 1..Len(inbox) :
        /\ inbox[i] \in {Receipt(id) : id \in Byes} => ByeProcessed
        /\ inbox[i] = Error => Refused

\* What disconnect has made of the answers.
ReturnInv ==
    /\ ret = "ok" \/ pc = "close" \/ sock # "open" => ByeProcessed
    /\ ret = "refused" => Refused

Inv == TypeOK /\ PrefixInv /\ OrderInv /\ InboxInv /\ ReturnInv

-----------------------------------------------------------------------------
(* Sequences and frames *)

LEMMA SeqFacts ==
    ASSUME TypeOK
    PROVE  /\ Len(accepted) \in Nat /\ DOMAIN accepted = 1..Len(accepted)
           /\ Len(delivered) \in Nat /\ processed \in Nat /\ processed <= Len(delivered)
           /\ Len(inbox) \in Nat
           /\ \A i \in 1..Len(accepted) : accepted[i] \in ToServer
<1>1. /\ accepted \in Seq(ToServer) /\ delivered \in Seq(ToServer)
      /\ processed \in 0..Len(delivered)
      /\ inbox \in Seq({Receipt(id) : id \in AppReceipts \cup Byes} \cup {Error, Message})
    BY DEF TypeOK
<1>2. Len(accepted) \in Nat /\ DOMAIN accepted = 1..Len(accepted) /\ Len(delivered) \in Nat
      /\ Len(inbox) \in Nat
    BY <1>1, LenProperties
<1>3. \A i \in 1..Len(accepted) : accepted[i] \in ToServer
    BY <1>1, ElementOfSeq
<1> QED  BY <1>1, <1>2, <1>3

\* A frame is a SEND that asks for no receipt or for one of the
\* application's, or a DISCONNECT that asks for its own.
LEMMA FrameCases ==
    ASSUME NEW f \in ToServer
    PROVE  \/ f.command = "SEND" /\ f.receipt = {}
           \/ f.command = "SEND" /\ \E a \in AppReceipts : f.receipt = {a}
           \/ f.command = "DISCONNECT" /\ \E id \in Byes : f.receipt = {id}
BY DEF ToServer, Send, DisconnectFrame, Option

\* The Sink takes one frame more, behind the others.
LEMMA AcceptEffect ==
    ASSUME TypeOK, NEW f \in ToServer, P!Accept(f)
    PROVE  /\ accepted' \in Seq(ToServer) /\ Len(accepted') = Len(accepted) + 1
           /\ \A i \in 1..Len(accepted) : accepted'[i] = accepted[i]
           /\ accepted'[Len(accepted) + 1] = f
           /\ delivered' = delivered
<1>1. accepted \in Seq(ToServer) /\ accepted' = Append(accepted, f) /\ delivered' = delivered
    BY DEF TypeOK, P!Accept
<1> QED  BY <1>1, AppendProperties

LEMMA DeliverEffect ==
    ASSUME TypeOK, PrefixInv, P!Deliver
    PROVE  /\ delivered' \in Seq(ToServer) /\ Len(delivered') = Len(delivered) + 1
           /\ Len(delivered') <= Len(accepted) /\ accepted' = accepted
           /\ \A i \in 1..Len(delivered') : delivered'[i] = accepted[i]
<1> DEFINE n == Len(delivered) + 1
<1>1. /\ delivered \in Seq(ToServer) /\ accepted' = accepted
      /\ Len(delivered) < Len(accepted) /\ delivered' = Append(delivered, accepted[n])
    BY DEF TypeOK, P!Deliver
<1>2. Len(delivered) \in Nat /\ Len(accepted) \in Nat /\ n \in 1..Len(accepted)
    BY <1>1, SeqFacts
<1>3. accepted[n] \in ToServer
    BY <1>2, SeqFacts
<1>4. /\ delivered' \in Seq(ToServer) /\ Len(delivered') = n
      /\ \A i \in 1..Len(delivered) : delivered'[i] = delivered[i]
      /\ delivered'[n] = accepted[n]
    BY <1>1, <1>3, AppendProperties
<1>5. \A i \in 1..n : i \in 1..Len(delivered) \/ i = n
    BY <1>2
<1> QED  BY <1>1, <1>2, <1>4, <1>5 DEF PrefixInv

\* What a step does to the frames handed over and to how far the server is.
LEMMA FrameSteps ==
    ASSUME TypeOK, [Next]_vars
    PROVE  \/ /\ \E r \in Option(AppReceipts) : P!Accept(Send(r))
              /\ ~Disconnecting /\ UNCHANGED <<processed, server>>
           \/ /\ \E id \in Byes : P!Accept(DisconnectFrame(id))
              /\ UNCHANGED <<processed, server>>
           \/ P!Deliver /\ UNCHANGED <<processed, server>>
           \/ Process
           \/ /\ UNCHANGED <<accepted, delivered, processed>>
              /\ server = "closed" => server' = "closed"
<1>1. CASE AppSend
    BY <1>1 DEF AppSend, serverVars
<1>2. CASE SendDisconnect
  <2>1. bye \subseteq Byes
      BY DEF TypeOK, Option
  <2> QED  BY <1>2, <2>1 DEF SendDisconnect, serverVars
<1>3. CASE Deliver
    BY <1>3 DEF Deliver, serverVars
<1>4. CASE Process
    BY <1>4
<1>5. CASE AppRead \/ NextFrame \/ Push
    BY <1>5 DEF AppRead, NextFrame, Push
<1>6. CASE Refuse \/ GoAway
    BY <1>6 DEF Refuse, GoAway
<1>7. CASE Flushed \/ NextNone \/ NextTimeout \/ FalseAlarm \/ Close \/ Cancel \/ Shutdown
    BY <1>7 DEF Flushed, NextNone, NextTimeout, FalseAlarm, Close, Cancel, Shutdown, serverVars
<1>8. CASE \E id \in Byes : Call(id)
    BY <1>8 DEF Call, serverVars
<1>9. CASE UNCHANGED vars
    BY <1>9 DEF vars
<1> QED
    BY <1>1, <1>2, <1>3, <1>4, <1>5, <1>6, <1>7, <1>8, <1>9 DEF Next, Client

\* The server's next frame is one of those handed over.
LEMMA ProcessEffect ==
    ASSUME TypeOK, PrefixInv, Process
    PROVE  /\ UNCHANGED <<accepted, delivered, server, pushes, clientVars>>
           /\ server = "up" /\ processed' = processed + 1 /\ processed' <= Len(delivered)
           /\ processed' \in 1..Len(accepted)
           /\ delivered[processed + 1] = accepted[processed + 1]
           /\ accepted[processed + 1] \in ToServer
<1>1. /\ UNCHANGED <<accepted, delivered, server, pushes, clientVars>>
      /\ server = "up" /\ processed' = processed + 1 /\ processed < Len(delivered)
    BY DEF Process
<1>2. processed + 1 \in 1..Len(delivered) /\ processed + 1 \in 1..Len(accepted)
    BY <1>1, SeqFacts DEF PrefixInv
<1> QED  BY <1>1, <1>2, SeqFacts DEF PrefixInv

\* Neither fact about the server is ever undone.
LEMMA FactsStand ==
    ASSUME TypeOK, PrefixInv, [Next]_vars
    PROVE  (ByeProcessed => ByeProcessed') /\ (Refused => Refused')
<1>1. /\ Len(accepted) \in Nat /\ processed \in Nat /\ processed <= Len(accepted)
    BY SeqFacts DEF PrefixInv
<1>a. \A i \in 1..processed : i \in 1..Len(accepted)
    BY <1>1
<1>2. ASSUME NEW f \in ToServer, P!Accept(f), UNCHANGED <<processed, server>>
      PROVE  (ByeProcessed => ByeProcessed') /\ (Refused => Refused')
  <2>1. /\ Len(accepted') = Len(accepted) + 1
        /\ \A i \in 1..Len(accepted) : accepted'[i] = accepted[i]
      BY <1>2, AcceptEffect
  <2> QED  BY <1>1, <1>a, <1>2, <2>1 DEF ByeProcessed, Refused
<1>3. CASE \E r \in Option(AppReceipts) : P!Accept(Send(r)) /\ UNCHANGED <<processed, server>>
    BY <1>2, <1>3 DEF ToServer
<1>4. CASE \E id \in Byes : P!Accept(DisconnectFrame(id)) /\ UNCHANGED <<processed, server>>
    BY <1>2, <1>4 DEF ToServer
<1>5. CASE P!Deliver /\ UNCHANGED <<processed, server>>
    BY <1>5 DEF P!Deliver, ByeProcessed, Refused
<1>6. CASE Process
  <2>1. accepted' = accepted /\ server = "up" /\ processed' = processed + 1
      BY <1>6, ProcessEffect
  <2>2. \A i \in 1..processed : i \in 1..processed'
      BY <1>1, <2>1
  <2> QED  BY <2>1, <2>2 DEF ByeProcessed, Refused
<1>7. CASE UNCHANGED <<accepted, delivered, processed>> /\ (server = "closed" => server' = "closed")
    BY <1>7 DEF ByeProcessed, Refused
<1> QED  BY <1>3, <1>4, <1>5, <1>6, <1>7, FrameSteps

-----------------------------------------------------------------------------
(* The invariant *)

LEMMA FramesNext ==
    ASSUME TypeOK, PrefixInv, OrderInv, [Next]_vars
    PROVE  /\ PrefixInv' /\ OrderInv'
           /\ (accepted \in Seq(ToServer) /\ delivered \in Seq(ToServer))'
           /\ (processed \in 0..Len(delivered))'
<1> DEFINE Types ==
        /\ accepted \in Seq(ToServer) /\ delivered \in Seq(ToServer)
        /\ processed \in 0..Len(delivered)
<1>1. Types /\ Len(accepted) \in Nat /\ Len(delivered) \in Nat /\ DOMAIN accepted = 1..Len(accepted)
    BY SeqFacts DEF TypeOK
<1>2. ASSUME NEW f \in ToServer, P!Accept(f), UNCHANGED processed,
             f.command = "SEND" => ~Disconnecting
      PROVE  PrefixInv' /\ OrderInv' /\ Types'
  <2>1. /\ accepted' \in Seq(ToServer) /\ Len(accepted') = Len(accepted) + 1
        /\ \A i \in 1..Len(accepted) : accepted'[i] = accepted[i]
        /\ accepted'[Len(accepted) + 1] = f
        /\ delivered' = delivered
      BY <1>2, AcceptEffect
  <2>2. PrefixInv'
    <3>1. Len(delivered) <= Len(accepted') /\ \A i \in 1..Len(delivered) : i \in 1..Len(accepted)
        BY <1>1, <2>1 DEF PrefixInv
    <3> QED  BY <2>1, <3>1 DEF PrefixInv
  <2>3. OrderInv'
    <3> SUFFICES ASSUME NEW i \in 1..(Len(accepted) + 1), NEW j \in 1..(Len(accepted) + 1),
                        accepted'[i].command = "DISCONNECT", accepted'[j].command = "SEND"
                 PROVE  j < i
        BY <2>1 DEF OrderInv
    <3>1. CASE i \in 1..Len(accepted)
      <4>1. accepted[i].command = "DISCONNECT" /\ Disconnecting
          BY <1>1, <2>1, <3>1 DEF Disconnecting
      <4>2. j # Len(accepted) + 1
          BY <1>2, <2>1, <4>1
      <4>3. j \in 1..Len(accepted)
          BY <1>1, <4>2
      <4> QED  BY <2>1, <3>1, <4>1, <4>3 DEF OrderInv
    <3>2. CASE i = Len(accepted) + 1
      <4>1. j # i
          BY <2>1, <3>2
      <4> QED  BY <1>1, <3>2, <4>1
    <3> QED  BY <1>1, <3>1, <3>2
  <2> QED  BY <1>1, <1>2, <2>1, <2>2, <2>3
<1>3. CASE /\ \E r \in Option(AppReceipts) : P!Accept(Send(r))
           /\ ~Disconnecting /\ UNCHANGED <<processed, server>>
    BY <1>2, <1>3 DEF ToServer
<1>4. CASE \E id \in Byes : P!Accept(DisconnectFrame(id)) /\ UNCHANGED <<processed, server>>
  <2>1. PICK id \in Byes : P!Accept(DisconnectFrame(id)) /\ UNCHANGED <<processed, server>>
      BY <1>4
  <2>2. DisconnectFrame(id) \in ToServer /\ DisconnectFrame(id).command # "SEND"
      BY DEF ToServer, DisconnectFrame
  <2> QED  BY <1>2, <2>1, <2>2
<1>5. CASE P!Deliver /\ UNCHANGED <<processed, server>>
  <2>1. /\ delivered' \in Seq(ToServer) /\ Len(delivered') = Len(delivered) + 1
        /\ Len(delivered') <= Len(accepted) /\ accepted' = accepted
        /\ \A i \in 1..Len(delivered') : delivered'[i] = accepted[i]
      BY <1>5, DeliverEffect
  <2>2. PrefixInv' /\ OrderInv'
      BY <2>1 DEF PrefixInv, OrderInv
  <2> QED  BY <1>1, <1>5, <2>1, <2>2
<1>6. CASE Process
  <2>1. /\ accepted' = accepted /\ delivered' = delivered
        /\ processed' = processed + 1 /\ processed' <= Len(delivered)
      BY <1>6, ProcessEffect
  <2> QED  BY <1>1, <2>1 DEF PrefixInv, OrderInv
<1>7. CASE UNCHANGED <<accepted, delivered, processed>>
    BY <1>1, <1>7 DEF PrefixInv, OrderInv
<1> QED  BY <1>3, <1>4, <1>5, <1>6, <1>7, FrameSteps

Answers == {Receipt(id) : id \in AppReceipts \cup Byes} \cup {Error, Message}

\* What x says of the server is so.
Says(x) ==
    /\ x \in {Receipt(id) : id \in Byes} => ByeProcessed
    /\ x = Error => Refused

\* The answer to a frame: none, or a receipt that is true when it is sent.
LEMMA ProcessAnswers ==
    ASSUME TypeOK, PrefixInv, Process
    PROVE  UNCHANGED inbox \/ \E x \in Answers : inbox' = Append(inbox, x) /\ Says(x)'
<1> DEFINE f == accepted[processed + 1]
           r == f.receipt
<1>1. f \in ToServer /\ processed' = processed + 1 /\ processed \in Nat /\ accepted' = accepted
    BY ProcessEffect, SeqFacts
<1>2. /\ inbox \in Seq(Answers)
      /\ inbox' = inbox \o (IF r = {} THEN << >> ELSE <<Receipt(CHOOSE id \in r : TRUE)>>)
    BY ProcessEffect DEF Process, TypeOK, Answers
<1>3. CASE r = {}
    BY <1>2, <1>3, ConcatEmptySeq
<1>4. ASSUME NEW id \in AppReceipts \cup Byes, r = {id}, id \in Byes => f.command = "DISCONNECT"
      PROVE  \E x \in Answers : inbox' = Append(inbox, x) /\ Says(x)'
  <2>1. r # {} /\ (CHOOSE i \in r : TRUE) = id
      BY <1>4
  <2>2. inbox' = inbox \o <<Receipt(id)>>
      BY <1>2, <2>1
  <2>3. Receipt(id) \in Answers /\ inbox' = Append(inbox, Receipt(id))
      BY <1>2, <2>2, AppendIsConcat, ZenonT(30) DEF Answers
  <2>4. id \in Byes => ByeProcessed'
    <3>1. processed + 1 \in 1..processed'
        BY <1>1
    <3> QED  BY <1>1, <1>4, <3>1 DEF ByeProcessed
  <2>5. Receipt(id) # Error /\ (Receipt(id) \in {Receipt(i) : i \in Byes} => id \in Byes)
      BY DEF Receipt, Error
  <2>6. Says(Receipt(id))'
      BY <2>4, <2>5 DEF Says, Receipt, Error
  <2> QED  BY <2>3, <2>6
<1> QED
  <2>1. CASE \E a \in AppReceipts : r = {a}
    <3>1. PICK a \in AppReceipts : r = {a}
        BY <2>1
    <3>2. a \notin Byes
        BY DisconnectAssumption
    <3> QED  BY <1>4, <3>1, <3>2
  <2>2. CASE f.command = "DISCONNECT" /\ \E id \in Byes : r = {id}
      BY <1>4, <2>2
  <2> QED  BY <1>1, <1>3, <2>1, <2>2, FrameCases

\* What a step does to the answers on their way: nothing, one is read, or one
\* that is true is sent.
LEMMA InboxSteps ==
    ASSUME TypeOK, PrefixInv, [Next]_vars
    PROVE  \/ UNCHANGED inbox
           \/ inbox # << >> /\ inbox' = Tail(inbox)
           \/ \E x \in Answers : inbox' = Append(inbox, x) /\ Says(x)'
<1>1. CASE Process
    BY <1>1, ProcessAnswers
<1>2. CASE Refuse
  <2>1. inbox' = Append(inbox, Error) /\ Error \in Answers
      BY <1>2 DEF Refuse, Answers
  <2>2. Refused'
    <3>1. /\ server' = "closed" /\ processed' = processed /\ accepted' = accepted
          /\ processed < Len(delivered)
        BY <1>2 DEF Refuse
    <3>2. processed < Len(accepted)
        BY <3>1, SeqFacts DEF PrefixInv
    <3> QED  BY <3>1, <3>2 DEF Refused
  <2>3. Error \notin {Receipt(id) : id \in Byes}
      BY DEF Error, Receipt
  <2>4. Says(Error)'
      BY <2>2, <2>3 DEF Says, Error, Receipt
  <2> QED  BY <2>1, <2>4
<1>3. CASE Push
  <2>1. inbox' = Append(inbox, Message) /\ Message \in Answers
      BY <1>3 DEF Push, Answers
  <2>2. Says(Message)'
      BY DEF Says, Message, Error, Receipt
  <2> QED  BY <2>1, <2>2
<1>4. CASE AppRead \/ NextFrame
    BY <1>4 DEF AppRead, NextFrame
<1>5. CASE AppSend \/ SendDisconnect \/ Deliver \/ GoAway
    BY <1>5 DEF AppSend, SendDisconnect, Deliver, GoAway, serverVars
<1>6. CASE Flushed \/ NextNone \/ NextTimeout \/ FalseAlarm \/ Close \/ Cancel \/ Shutdown
    BY <1>6 DEF Flushed, NextNone, NextTimeout, FalseAlarm, Close, Cancel, Shutdown, serverVars
<1>7. CASE \E id \in Byes : Call(id)
    BY <1>7 DEF Call, serverVars
<1>8. CASE UNCHANGED vars
    BY <1>8 DEF vars
<1> QED
    BY <1>1, <1>2, <1>3, <1>4, <1>5, <1>6, <1>7, <1>8 DEF Next, Client

LEMMA InboxNext ==
    ASSUME TypeOK, PrefixInv, InboxInv, [Next]_vars
    PROVE  InboxInv' /\ inbox' \in Seq(Answers)
<1>1. inbox \in Seq(Answers) /\ Len(inbox) \in Nat
    BY SeqFacts DEF TypeOK, Answers
<1>2. \A i \in 1..Len(inbox) : Says(inbox[i])
    BY DEF InboxInv, Says
<1>3. ASSUME NEW i \in 1..Len(inbox) PROVE
         /\ inbox[i] \in {Receipt(id) : id \in Byes} => ByeProcessed'
         /\ inbox[i] = Error => Refused'
    BY <1>2, FactsStand DEF Says
<1>4. SUFFICES ASSUME NEW i \in 1..Len(inbox'), inbox' \in Seq(Answers)
               PROVE  /\ inbox'[i] \in {Receipt(id) : id \in Byes} => ByeProcessed'
                      /\ inbox'[i] = Error => Refused'
  <2>1. inbox' \in Seq(Answers)
    <3>1. CASE UNCHANGED inbox
        BY <1>1, <3>1
    <3>2. CASE inbox # << >> /\ inbox' = Tail(inbox)
        BY <1>1, <3>2, HeadTailProperties
    <3>3. CASE \E x \in Answers : inbox' = Append(inbox, x)
        BY <1>1, <3>3, AppendProperties
    <3> QED  BY <3>1, <3>2, <3>3, InboxSteps
  <2> QED  BY <2>1 DEF InboxInv, Receipt, Error
<1>5. CASE UNCHANGED inbox
    BY <1>3, <1>5
<1>6. CASE inbox # << >> /\ inbox' = Tail(inbox)
  <2>1. Len(inbox') = Len(inbox) - 1 /\ \A j \in 1..Len(inbox') : inbox'[j] = inbox[j + 1]
      BY <1>1, <1>6, HeadTailProperties
  <2>2. i + 1 \in 1..Len(inbox) /\ inbox'[i] = inbox[i + 1]
      BY <1>1, <2>1
  <2> QED  BY <1>3, <2>2
<1>7. CASE \E x \in Answers : inbox' = Append(inbox, x) /\ Says(x)'
  <2>1. PICK x \in Answers : inbox' = Append(inbox, x) /\ Says(x)'
      BY <1>7
  <2>2. /\ Len(inbox') = Len(inbox) + 1 /\ inbox'[Len(inbox) + 1] = x
        /\ \A j \in 1..Len(inbox) : inbox'[j] = inbox[j]
      BY <1>1, <2>1, AppendProperties
  <2>3. CASE i \in 1..Len(inbox)
      BY <1>3, <2>2, <2>3
  <2>4. CASE i = Len(inbox) + 1
      BY <2>1, <2>2, <2>4 DEF Says, Receipt, Error
  <2> QED  BY <1>1, <2>2, <2>3, <2>4
<1> QED  BY <1>5, <1>6, <1>7, InboxSteps

\* disconnect goes on to the close only with its own receipt, and reports a
\* refusal only with an ERROR in hand.
LEMMA ReturnNext ==
    ASSUME TypeOK, PrefixInv, InboxInv, ReturnInv, [Next]_vars
    PROVE  ReturnInv'
<1>0. (ByeProcessed => ByeProcessed') /\ (Refused => Refused')
    BY FactsStand
<1>a. ASSUME ret' = ret \/ ret' \in {"none", "err", "cancelled"},
             pc' = "close" => pc = "close", sock' # "open" => sock # "open"
      PROVE  ReturnInv'
    BY <1>0, <1>a DEF ReturnInv
<1>1. CASE NextFrame
  <2>1. inbox # << >> /\ sock' = sock
      BY <1>1 DEF NextFrame
  <2>2. Head(inbox) = inbox[1] /\ 1 \in 1..Len(inbox)
    <3>1. inbox \in Seq(Answers)
        BY DEF TypeOK, Answers
    <3> QED  BY <2>1, <3>1
  <2>3. CASE Head(inbox) \in {Receipt(id) : id \in bye}
    <3>1. bye \subseteq Byes
        BY DEF TypeOK, Option
    <3>2. ByeProcessed
        BY <2>2, <2>3, <3>1 DEF InboxInv
    <3>3. Head(inbox).command = "RECEIPT"
      <4>1. PICK id \in bye : Head(inbox) = Receipt(id)
          BY <2>3
      <4>2. Receipt(id).command = "RECEIPT"
          BY DEF Receipt
      <4> QED  BY <4>1, <4>2
    <3>4. ret' = ret
        BY <1>1, <2>3, <3>3 DEF NextFrame
    <3> QED  BY <1>0, <3>2, <3>4 DEF ReturnInv
  <2>4. CASE Head(inbox).command = "ERROR" /\ Head(inbox) \notin {Receipt(id) : id \in bye}
    <3>1. ret' = "refused" /\ pc' = "idle"
        BY <1>1, <2>4 DEF NextFrame, Return
    <3>2. Head(inbox) = Error
      <4>1. inbox \in Seq(Answers)
          BY DEF TypeOK, Answers
      <4>2. Head(inbox) \in Answers
          BY <2>1, <4>1, HeadTailProperties
      <4> QED  BY <2>4, <4>2 DEF Answers, Receipt, Message, Error
    <3>3. Refused
        BY <2>2, <3>2 DEF InboxInv
    <3> QED  BY <1>0, <2>1, <3>1, <3>3 DEF ReturnInv
  <2>5. CASE Head(inbox).command # "ERROR" /\ Head(inbox) \notin {Receipt(id) : id \in bye}
    <3>1. UNCHANGED <<pc, ret>>
        BY <1>1, <2>5 DEF NextFrame
    <3> QED  BY <1>a, <2>1, <3>1
  <2> QED  BY <2>3, <2>4, <2>5
<1>2. CASE Close
  <2>1. ByeProcessed
      BY <1>2 DEF Close, ReturnInv
  <2>2. ret' # "refused"
      BY <1>2 DEF Close, Return
  <2> QED  BY <1>0, <2>1, <2>2 DEF ReturnInv
<1>3. CASE SendDisconnect \/ Flushed \/ NextNone \/ NextTimeout \/ FalseAlarm \/ Cancel
    BY <1>3, <1>a DEF SendDisconnect, Flushed, NextNone, NextTimeout, FalseAlarm, Cancel, Return
<1>4. CASE \E id \in Byes : Call(id)
    BY <1>4, <1>a DEF Call
<1>5. CASE Shutdown
    BY <1>5, <1>a DEF Shutdown
<1>6. CASE AppSend \/ AppRead \/ Deliver \/ Process \/ Refuse \/ Push \/ GoAway \/ UNCHANGED vars
  <2>1. UNCHANGED <<pc, ret, sock>>
      BY <1>6 DEF AppSend, AppRead, Deliver, Process, Refuse, Push, GoAway, vars, clientVars
  <2> QED  BY <1>a, <2>1
<1> QED  BY <1>1, <1>2, <1>3, <1>4, <1>5, <1>6 DEF Next, Client

\* The rest of TypeOK.
ScalarType ==
    /\ server \in {"up", "closed", "mute"} /\ pushes \in 0..MaxPushes
    /\ pc \in {"idle", "send", "flush", "wait", "close"} /\ bye \in Option(Byes)
    /\ calls \in 0..MaxCalls
    /\ ret \in {"none", "ok", "err", "refused", "cancelled"}
    /\ sock \in {"open", "closing", "shut"}

LEMMA ScalarNext == ASSUME ScalarType, [Next]_vars PROVE ScalarType'
<1>0. {} \in Option(Byes) /\ \A id \in Byes : {id} \in Option(Byes)
    BY DEF Option
<1>1. CASE SendDisconnect \/ Flushed \/ NextNone \/ NextTimeout \/ FalseAlarm \/ Cancel \/ NextFrame
    BY <1>0, <1>1
    DEF SendDisconnect, Flushed, NextNone, NextTimeout, FalseAlarm, Cancel, NextFrame, Return, ScalarType,
        serverVars
<1>2. CASE Close \/ Shutdown
    BY <1>0, <1>2 DEF Close, Shutdown, Return, ScalarType, serverVars
<1>3. CASE \E id \in Byes : Call(id)
    BY <1>0, <1>3, DisconnectAssumption DEF Call, ScalarType, serverVars
<1>4. CASE AppSend \/ AppRead \/ Deliver \/ Process
    BY <1>4 DEF AppSend, AppRead, Deliver, Process, ScalarType, clientVars, serverVars
<1>5. CASE Push
    BY <1>5, DisconnectAssumption DEF Push, ScalarType, clientVars
<1>6. CASE Refuse \/ GoAway
    BY <1>6 DEF Refuse, GoAway, ScalarType, clientVars
<1>7. CASE UNCHANGED vars
    BY <1>7 DEF ScalarType, vars
<1> QED  BY <1>1, <1>2, <1>3, <1>4, <1>5, <1>6, <1>7 DEF Next, Client

-----------------------------------------------------------------------------
(* The theorems *)

LEMMA InvInit == Init => Inv
<1> SUFFICES ASSUME Init PROVE Inv
    OBVIOUS
<1>1. /\ accepted = << >> /\ delivered = << >> /\ inbox = << >> /\ processed = 0
      /\ ret = "none" /\ pc = "idle" /\ sock = "open"
    BY DEF Init, P!Init
<1>2. TypeOK
    BY <1>1, DisconnectAssumption DEF Init, TypeOK, Option
<1>3. PrefixInv /\ OrderInv /\ InboxInv /\ ReturnInv
    BY <1>1 DEF PrefixInv, OrderInv, InboxInv, ReturnInv
<1> QED  BY <1>2, <1>3 DEF Inv

LEMMA InvNext == Inv /\ [Next]_vars => Inv'
<1> SUFFICES ASSUME Inv, [Next]_vars PROVE Inv'
    OBVIOUS
<1>1. TypeOK /\ PrefixInv /\ OrderInv /\ InboxInv /\ ReturnInv
    BY DEF Inv
<1>2. /\ PrefixInv' /\ OrderInv'
      /\ (accepted \in Seq(ToServer) /\ delivered \in Seq(ToServer))'
      /\ (processed \in 0..Len(delivered))'
    BY <1>1, FramesNext
<1>3. InboxInv' /\ inbox' \in Seq(Answers)
    BY <1>1, InboxNext
<1>4. ReturnInv'
    BY <1>1, ReturnNext
<1>5. ScalarType'
    BY <1>1, ScalarNext DEF TypeOK, ScalarType
<1>6. TypeOK'
    BY <1>2, <1>3, <1>5 DEF TypeOK, ScalarType, Answers, ToServer, Send, DisconnectFrame, Option,
       Receipt, Error, Message
<1> QED  BY <1>2, <1>3, <1>4, <1>6 DEF Inv

LEMMA InvHolds == Spec => []Inv
BY InvInit, InvNext, PTL DEF Spec

\* Every reachable state is well typed, and the server is never ahead of what
\* it was sent.
THEOREM TypeCorrect == Spec => []TypeOK
<1>1. Inv => TypeOK
    BY DEF Inv
<1> QED  BY <1>1, InvHolds, PTL

\* disconnect returns Ok, and shuts the socket, only when every frame sent
\* before has been processed, and reports a refusal only when one never will
\* be: for any receipts in flight, dropped calls and retries under any ids.
THEOREM DisconnectIsHonest == Spec => []AnswerIsTrue
<1>1. Inv => AnswerIsTrue
  <2> SUFFICES ASSUME Inv PROVE AnswerIsTrue
      OBVIOUS
  <2>1. /\ Len(accepted) \in Nat /\ DOMAIN accepted = 1..Len(accepted)
        /\ processed \in Nat /\ processed <= Len(accepted)
      BY SeqFacts DEF Inv, PrefixInv
  <2>2. ASSUME ByeProcessed, NEW i \in DOMAIN accepted, accepted[i].command = "SEND"
        PROVE  i <= processed
    <3>1. PICK j \in 1..processed : accepted[j].command = "DISCONNECT"
        BY <2>2 DEF ByeProcessed
    <3>2. i < j
        BY <2>1, <2>2, <3>1 DEF Inv, OrderInv
    <3> QED  BY <2>1, <3>1, <3>2
  <2>3. ret = "refused" => processed < Len(accepted)
      BY DEF Inv, ReturnInv, Refused
  <2> QED  BY <2>2, <2>3 DEF Inv, ReturnInv, AnswerIsTrue
<1> QED  BY <1>1, InvHolds, PTL
=============================================================================
