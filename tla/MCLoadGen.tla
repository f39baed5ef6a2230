----------------------------- MODULE MCLoadGen ------------------------------
(* LoadGen on a small instance, and who speaks in a crowd of up to eight.    *)
EXTENDS LoadGen

SomeSamples == 0 .. 18
SomeRanks   == {<<0, 1>>, <<1, 2>>, <<9, 10>>, <<1, 1>>}

Crowd(n, s, rooms) == INSTANCE LoadGen WITH Conns <- n, Speakers <- s, Channels <- rooms

\* The choice of who speaks, for other crowds than the run's.
ASSUME SpeakersSpread ==
  \A n \in 1 .. 8, rooms \in 1 .. 4 : \A s \in 0 .. n : Crowd(n, s, rooms)!SpreadEvenly
=============================================================================
