------------------------------ MODULE MCNngPool ------------------------------
(* Instances of NngPool for TLC. *)
EXTENDS NngPool, TLC

CONSTANTS w1, w2, w3, m, d, u1, u2, p1, p2, x1, x2

Sym == Permutations(Workers) \cup Permutations(Pools) \cup Permutations(Clients)
       \cup Permutations(Closers)
=============================================================================
