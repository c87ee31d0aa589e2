---------------------------- MODULE MCKeepAlive ----------------------------
(* KeepAlive on a small instance: see MCKeepAlive.cfg. *)
EXTENDS KeepAlive
=============================================================================
