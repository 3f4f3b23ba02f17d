------------------------------ MODULE MCColumns ------------------------------
(* Columns of nested types for TLC, with the values an R function may return
   for them. *)
EXTENDS Integers, SequencesExt

CONSTANTS a, b

Integer == [k |-> "int"]
Text == [k |-> "text"]
List(t) == [k |-> "list", of |-> <<t>>]
Array(t) == [k |-> "array", of |-> <<t>>, n |-> 2]
Struct(s) == [k |-> "struct", of |-> s]
MapOf(x, y) == [k |-> "map", of |-> <<x, y>>]
Union(s) == [k |-> "union", of |-> s]

NaInteger == -9

Absent == <<"null">>
Leaf(x) == <<"leaf", x>>
Seq1(x) == <<"seq", <<x>>>>
Seq2(x, y) == <<"seq", <<x, y>>>>

(* the first values of a type, fit ones first *)
RECURSIVE Some(_)
Some(t) ==
  CASE t.k = "int" -> <<Leaf(1), Absent, Leaf(2)>>
    [] t.k = "text" -> <<Leaf(a), Absent, Leaf(b)>>
    [] OTHER ->
  LET x == Some(t.of[1]) IN
  CASE t.k = "list" -> <<Seq2(x[1], x[2]), Absent, Seq1(x[3]), <<"seq", <<>>>>>>
                     \o IF t.of[1].k = "struct" THEN <<Seq1(x[4])>> ELSE <<>>
    [] t.k = "array" -> <<Seq2(x[1], x[2]), Absent, Seq2(x[3], x[1]), Seq1(x[1])>>
    [] t.k = "struct" ->
         LET y == Some(t.of[2]) IN
         <<<<"struct", <<x[1], y[2]>>>>, Absent, <<"struct", <<x[2], y[3]>>>>,
           <<"unnamed", <<x[1], y[2]>>>>, <<"struct", <<x[1]>>>>, <<"struct", <<x[1], y[2], x[2]>>>>,
           <<"unnamed", <<x[1]>>>>>>
    [] t.k = "map" ->
         LET y == Some(t.of[2]) IN
         <<<<"map", <<x[1], x[3]>>, <<y[2], y[3]>>>>, Absent, <<"map", <<x[1]>>, <<y[1]>>>>,
           <<"map", <<x[1], x[1]>>, <<y[1], y[3]>>>>, <<"map", <<x[2]>>, <<y[1]>>>>,
           <<"map", <<x[1]>>, <<>>>>>>
    [] t.k = "union" ->
         LET y == Some(t.of[2]) IN
         <<<<"union", 2, y[1]>>, Absent, <<"union", 1, x[3]>>, <<"union", 1, Absent>>, <<"union", 3, x[1]>>>>

Values(t) == Range(Some(t))
Third(t) == Some(t)[3]

ColumnTypes ==
  {Integer, Text, List(Integer), List(List(Text)), Array(List(Integer)), List(Array(Text)),
   Struct(<<Integer, List(Text)>>), List(Struct(<<Text, Integer>>)), MapOf(Text, List(Integer)),
   Union(<<Integer, List(Text)>>), List(Union(<<Integer, Text>>)), Struct(<<Array(Text), Union(<<Integer, Text>>)>>)}
=============================================================================
