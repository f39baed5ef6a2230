------------------------------- MODULE MCRing -------------------------------
(* Ring on a small instance. *)
EXTENDS Ring

CONSTANTS w1, w2, r1, r2
=============================================================================
