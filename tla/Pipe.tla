-------------------------------- MODULE Pipe --------------------------------
(***************************************************************************)
(* What every connection, beating or not, promises of the frames handed to *)
(* its Sink: they reach the socket in the order they were accepted, none   *)
(* skipped, none twice. How many may be on their way is left open.         *)
(* Both transports are shown to implement it, and Disconnect builds on it. *)
(***************************************************************************)
EXTENDS Naturals, Sequences

CONSTANT Item  \* what may be handed over

VARIABLES
    accepted,  \* the items handed to the Sink
    delivered  \* those of them that are wholly in the socket

Accept(x) ==
    /\ accepted' = Append(accepted, x)
    /\ UNCHANGED delivered

Deliver ==
    /\ Len(delivered) < Len(accepted)
    /\ delivered' = Append(delivered, accepted[Len(delivered) + 1])
    /\ UNCHANGED accepted

Init == accepted = << >> /\ delivered = << >>

Next == (\E x \in Item : Accept(x)) \/ Deliver

Spec == Init /\ [][Next]_<<accepted, delivered>>
=============================================================================
