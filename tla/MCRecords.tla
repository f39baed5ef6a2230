----------------------------- MODULE MCRecords ------------------------------
(* Records on a small instance: somebody who may be muted in the room by one *)
(* moderator, and everywhere by another.                                     *)
EXTENDS Records, TLC

CONSTANTS h1, h2, k1, p1, room

OneEach  == h1 :> {<< <<room, k1>>, 1 >>} @@ h2 :> {<< <<Global, k1>>, 0 >>}
Speaker  == p1 :> k1
=============================================================================
