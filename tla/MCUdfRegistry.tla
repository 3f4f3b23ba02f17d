---------------------------- MODULE MCUdfRegistry ----------------------------
(* Instances of UdfRegistry for TLC: overloads of one name, a name with the same
   hash and one of another bucket; registrations share evaluators. *)
EXTENDS UdfRegistry

CONSTANTS r1, r2, r3, r4, r5, n1, n2, n3, b1, b2

Overloads == r1 :> n1 @@ r2 :> n1 @@ r3 :> n1 @@ r4 :> n2 @@ r5 :> n3
Shared    == r1 :> b1 @@ r2 :> b1 @@ r3 :> b1 @@ r4 :> b2 @@ r5 :> b2
Collide   == n1 :> 0 @@ n2 :> 0 @@ n3 :> 1

UdfSym == Permutations({r1, r2, r3})

(* without the registrations for which an index could not be allocated *)
ExplainSpec == UdfInit /\ [][UdfNext /\ Len(list') <= 2 * Len(index')]_udfRegistryVars
=============================================================================
