---------------------------- MODULE MCQueryStream ----------------------------
(* Instances of QueryStream for TLC. *)
EXTENDS QueryStream, TLC

CONSTANTS e1, e2, w1, w2, c1, c2

Sym == Permutations(Entries) \cup Permutations(Conns) \cup Permutations(Workers)
=============================================================================
