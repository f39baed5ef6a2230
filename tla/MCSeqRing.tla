----------------------------- MODULE MCSeqRing ------------------------------
(* SeqRing on a small instance. *)
EXTENDS SeqRing

CONSTANTS w1, w2, r1
=============================================================================
