---------------------------- MODULE MCHandshake ----------------------------
(* Handshake on a small instance: see the MCHandshake*.cfg files. *)
EXTENDS Handshake

\* A heart-beat header of the application's own, for both directions.
OneCustomBeat == {<<1, 1>>}
=============================================================================
