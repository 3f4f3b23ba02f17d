--------------------------- MODULE MCRuntimeRegistry ---------------------------
(* Instances of RuntimeRegistry for TLC: a database in memory with one
   connection, and one in a file with two. *)
EXTENDS RuntimeRegistry, TLC

CONSTANTS m1, f1, cm, cf1, cf2, a1, a2

Connections == cm :> m1 @@ cf1 :> f1 @@ cf2 :> f1
RegistrySym == Permutations({cf1, cf2}) \cup Permutations(Addresses)
=============================================================================
