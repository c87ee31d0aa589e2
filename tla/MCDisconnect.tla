---------------------------- MODULE MCDisconnect ----------------------------
(* Disconnect on a small instance: see the MCDisconnect*.cfg files. *)
EXTENDS Disconnect
=============================================================================
