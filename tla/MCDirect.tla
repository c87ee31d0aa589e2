------------------------------ MODULE MCDirect ------------------------------
(* Direct on a small instance: see the MCDirect*.cfg files. *)
EXTENDS Direct
=============================================================================
