--------------------------- MODULE MCSupervision ---------------------------
(* Supervision on a small instance: see the MCSupervision*.cfg files. *)
EXTENDS Supervision
=============================================================================
