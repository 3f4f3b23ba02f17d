---------------------------- MODULE MCAggregates ----------------------------
(* Instances of Aggregates for TLC. *)
EXTENDS Aggregates, TLC

CONSTANTS r, w, s1, s2, s3, o1, o2, o3, o4, x1, x2, x3

(* rowwise and chunk callbacks, with and without copy and combine; states that
   are changed in place need a copy callback *)
Callbacks == {{}, {"combine"}, {"update_chunk", "combine_chunk"}, {"combine_chunk", "copy_chunk"},
              {"combine", "copy", "in_place"},
              {"update_chunk", "combine_chunk", "copy_chunk", "in_place"}}

Sym == Permutations(Slots) \cup Permutations(Objects)
       \cup Permutations(InputRows \ NullRows)
=============================================================================
