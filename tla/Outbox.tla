------------------------------- MODULE Outbox -------------------------------
(***************************************************************************)
(* What a heart-beating connection promises the task that writes to it:    *)
(* items are taken one at a time, each is settled before the next is       *)
(* taken, an item is written only if every earlier one was, and a verdict, *)
(* once given, stands.                                                     *)
(*                                                                         *)
(* The promise is the one the documentation of ClientTransport makes       *)
(* ("send completes once the message has reached the socket and reports    *)
(* any write error itself") and the comment on the channel in establish    *)
(* ("the sink settles each item before accepting the next one").           *)
(***************************************************************************)
EXTENDS Naturals, Sequences

VARIABLE verdict  \* verdict[n] is what became of the n-th item accepted

\* A new item is accepted only when every earlier one has been settled.
Accept ==
    /\ \A n \in DOMAIN verdict : verdict[n] # "open"
    /\ verdict' = Append(verdict, "open")

\* An item reaches the socket only behind all the items before it.
Deliver(n) ==
    /\ verdict[n] = "open"
    /\ \A m \in 1..(n - 1) : verdict[m] = "ok"
    /\ verdict' = [verdict EXCEPT ![n] = "ok"]

\* An item is given up: its write failed, or the pump was gone.
GiveUp(n) ==
    /\ verdict[n] = "open"
    /\ verdict' = [verdict EXCEPT ![n] = "failed"]

Init == verdict = << >>

Next ==
    \/ Accept
    \/ \E n \in DOMAIN verdict : Deliver(n) \/ GiveUp(n)

Spec == Init /\ [][Next]_verdict
=============================================================================
