----------------------------- MODULE MCMapChan ------------------------------
(* MapChan on a small instance. *)
EXTENDS MapChan

CONSTANTS w1, w2, s1, s2
=============================================================================
