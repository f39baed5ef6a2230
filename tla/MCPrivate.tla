----------------------------- MODULE MCPrivate ------------------------------
(* Private on a small instance: bob's connection is replaced by another. *)
EXTENDS Private, TLC

CONSTANTS c1, c2, c3, alice, bob

Reconnect == c1 :> alice @@ c2 :> bob @@ c3 :> bob
=============================================================================
