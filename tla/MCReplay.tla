------------------------------ MODULE MCReplay ------------------------------
(* Replay on a small instance: two codecs, a joiner of one.                  *)
EXTENDS Replay

CONSTANTS s1, s2, j1, json, msgpack

JustOne == j1 :> json
=============================================================================
