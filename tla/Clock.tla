------------------------------- MODULE Clock -------------------------------
(* Discrete time, for KeepAlive and Supervision. *)
EXTENDS Naturals

CONSTANT MaxTime  \* bound: the clock

ASSUME ClockAssumption == MaxTime \in Nat

VARIABLE now  \* the clock
=============================================================================
