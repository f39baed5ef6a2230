------------------------------- MODULE MCCork -------------------------------
(* Cork on a small instance. *)
EXTENDS Cork

CONSTANTS w1, w2, w3
=============================================================================
