---------------------------- MODULE MCWritePump ----------------------------
(* WritePump on a small instance: see the MCWritePump*.cfg files. *)
EXTENDS WritePump
=============================================================================
