---------------------------- MODULE MCRateLimit -----------------------------
(* RateLimit on small instances. *)
EXTENDS RateLimit, TLC

\* Connections are interchangeable, and so are buckets.
Symmetry == Permutations(Clients) \cup Permutations(Buckets)
=============================================================================
