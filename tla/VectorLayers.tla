------------------------------ MODULE VectorLayers ------------------------------
(***************************************************************************)
(* One layer of a column of a nested type: what its rows are, given the    *)
(* rows of its children.  Writing and reading a vector of DuckDB's         *)
(* (tools/ext/src/rducks_rc.c), the wire vector made of it                 *)
(* (tools/ext/src/rducks_ripc.c), its values at an R worker and the wire   *)
(* vector made of values (R/native_chunk.R).                               *)
(*                                                                         *)
(* A type is a record with a kind k; "int" and "text" stand for the scalar *)
(* types whose R vectors can and cannot confuse a value with NA.  A vector *)
(* has its NULL rows, the data of its rows (a leaf, a list entry <<offset, *)
(* length>> or a union tag), the size of a list's child and its children;  *)
(* rows count from 0.  A MAP's entry struct, which is never NULL, is left  *)
(* out: its children are the keys and the values.  The bytes of a wire     *)
(* vector are abstracted: it has its number of rows, its NULL rows, data   *)
(* and children.                                                           *)
(***************************************************************************)
EXTENDS Integers, SequencesExt, FiniteSetsExt

CONSTANT Least    (* NA_integer_ to R, INT_MIN to DuckDB                   *)

Null == <<"null">>
Tag == [k |-> "tag"]

(* A STRUCT in R is a list with names, <<"struct", fields>>, or without,
   <<"unnamed", fields>>; field i has the name or the position i.  A list may have
   further fields, which nobody reads.  Values of DuckDB's have names. *)
HasFields(t, x) == DOMAIN t.of \subseteq DOMAIN x[2]

(* the members of a union follow its tags *)
Children(t) ==
  CASE t.k \in {"list", "array", "struct", "map"} -> t.of
    [] t.k = "union" -> <<Tag>> \o t.of
    [] OTHER -> <<>>

(* what child c of a union has in a row with the value x *)
Member(x, c) ==
  IF c = 1 THEN <<"leaf", x[2] - 1>> ELSE IF c = x[2] + 1 THEN x[3] ELSE Null

(*---------------------- rducks_rc_write_direct_output --------------------*)

Empty(children) == [null |-> {}, data |-> <<>>, size |-> 0, child |-> children]

SetNull(v, row) == [v EXCEPT !.null = @ \cup {row}]
SetValid(v, row) == [v EXCEPT !.null = @ \ {row}]
Store(v, row, x) ==
  [v EXCEPT !.data = [r \in DOMAIN @ \cup {row} |-> IF r = row THEN x ELSE @[r]]]

(* duckdb_list_vector_set_size, once len elements follow the last *)
Committed(v, len) == [v EXCEPT !.size = @ + len]

(* the rows of child c that a row with the value x has written *)
Share(t, x, c) ==
  CASE t.k \in {"list", "map"} -> IF x = Null THEN <<>> ELSE x[c + 1]
    [] t.k = "array" -> IF x = Null THEN [j \in 1 .. t.n |-> Null] ELSE x[2]
    [] t.k = "struct" -> <<IF x = Null THEN Null ELSE x[2][c]>>
    [] t.k = "union" -> <<IF x = Null THEN Null ELSE Member(x, c)>>

(* the first of them *)
First(t, v, row) ==
  CASE t.k \in {"list", "map"} -> v.size
    [] t.k = "array" -> row * t.n
    [] OTHER -> row

(* c after n steps *)
InTurn(Step(_, _), c, n) ==
  LET After[j \in 0 .. n] == IF j = 0 THEN c ELSE Step(After[j - 1], j) IN After[n]

Marked(v, row, x) == IF x = Null THEN SetNull(v, row) ELSE SetValid(v, row)
Count(x) == IF x = Null THEN 0 ELSE Len(x[2])

(* a row of the vector v, whose children are then the given ones *)
WriteRow(t, v, row, x, children) ==
  LET new == [Marked(v, row, x) EXCEPT !.child = children] IN
  CASE t.k \in {"list", "map"} -> Store(Committed(new, Count(x)), row, <<v.size, Count(x)>>)
    [] t.k \in {"array", "struct", "union"} -> new
    [] OTHER -> IF x = Null THEN new ELSE Store(new, row, x[2])

(*--------------------------- rducks_rc_direct_arg ------------------------*)

(* a row of the vector v, where read[c][r] is row r of child c *)
ReadRow(t, v, row, read) ==
  LET Elements(c, at, len) == [j \in 1 .. len |-> read[c][at + j - 1]] IN
  IF row \in v.null THEN Null
  ELSE CASE t.k = "list" -> <<"seq", Elements(1, v.data[row][1], v.data[row][2])>>
         [] t.k = "map" -> <<"map", Elements(1, v.data[row][1], v.data[row][2]),
                                    Elements(2, v.data[row][1], v.data[row][2])>>
         [] t.k = "array" -> <<"seq", Elements(1, row * t.n, t.n)>>
         [] t.k = "struct" -> <<"struct", [i \in DOMAIN t.of |-> read[i][row]]>>
         [] t.k = "union" ->
              IF row \in v.child[1].null THEN Null
              ELSE LET i == v.child[1].data[row] + 1 IN
                   IF i \notin DOMAIN t.of THEN Null ELSE <<"union", i, read[i + 1][row]>>
         [] t.k = "int" /\ v.data[row] = Least -> Null
         [] OTHER -> <<"leaf", v.data[row]>>

(*--------------------- rducks_quack_vector_from_duckdb -------------------*)

Below(n) == 0 .. n - 1
Valid(v, n) == Below(n) \ v.null

(* a child has the rows that entries refer to *)
Extent(v, n) == Max({0} \cup {v.data[r][1] + v.data[r][2] : r \in Valid(v, n)})
ChildRows(t, v, n) ==
  CASE t.k \in {"list", "map"} -> Extent(v, n)
    [] t.k = "array" -> n * t.n
    [] OTHER -> n

Encoded(t, v, n, children) ==
  [rows  |-> n,
   null  |-> v.null \cap Below(n),
   data  |-> IF t.k \in {"list", "map"}
             THEN [r \in Below(n) |-> IF r \in v.null THEN <<0, 0>> ELSE v.data[r]]
             ELSE Restrict(v.data, DOMAIN v.data \cap Below(n)),
   child |-> children]

(*----------------------- rducks_native_array_to_values -------------------*)

(* the values of the wire vector w, where parts has those of its children *)
Decoded(t, w, parts) ==
  LET Elements(c, r) == SubSeq(parts[c], w.data[r][1] + 1, w.data[r][1] + w.data[r][2])
      Value(r) ==
        CASE t.k = "list" -> <<"seq", Elements(1, r)>>
          [] t.k = "map" -> <<"map", Elements(1, r), Elements(2, r)>>
          [] t.k = "array" -> <<"seq", SubSeq(parts[1], r * t.n + 1, (r + 1) * t.n)>>
          [] t.k = "struct" -> <<"struct", [i \in DOMAIN t.of |-> parts[i][r + 1]]>>
          [] t.k = "union" -> LET i == parts[1][r + 1][2] + 1 IN <<"union", i, parts[i + 1][r + 1]>>
          [] t.k = "int" /\ w.data[r] = Least -> Null
          [] OTHER -> <<"leaf", w.data[r]>>
  IN [i \in 1 .. w.rows |-> IF i - 1 \in w.null THEN Null ELSE Value(i - 1)]

(*---------------------- rducks_native_array_from_values ------------------*)

(* the part F(x) of the values xs that are not NULL *)
Parts(F(_), xs) == [i \in DOMAIN xs |-> IF xs[i] = Null THEN Null ELSE F(xs[i])]
Flat(F(_), xs) == FlattenSeq([i \in DOMAIN xs |-> IF xs[i] = Null THEN <<>> ELSE F(xs[i])])

(* x[[field]] of a row x: a list without names has no such field *)
ByName(x, c) == IF x[1] = "unnamed" THEN Null ELSE x[2][c]

(* the values of child c, where xs are those of the column *)
ChildValues(t, xs, c) ==
  CASE t.k \in {"list", "map"} -> Flat(LAMBDA x : x[c + 1], xs)
    [] t.k = "array" ->
         FlattenSeq([i \in DOMAIN xs |-> IF xs[i] = Null THEN [j \in 1 .. t.n |-> Null] ELSE xs[i][2]])
    [] t.k = "struct" -> Parts(LAMBDA x : ByName(x, c), xs)
    [] t.k = "union" -> Parts(LAMBDA x : Member(x, c), xs)

Lengths(xs) == [i \in DOMAIN xs |-> Count(xs[i])]

(* mutant: the offsets are one row behind *)
OffsetBehind(lens, i) ==
  LET Sum[j \in -1 .. Len(lens)] == IF j < 1 THEN 0 ELSE Sum[j - 1] + lens[j] IN Sum[i - 2]

(* how many elements the rows before row i have *)
Offset(lens, i) ==
  LET Sum[j \in 0 .. Len(lens)] == IF j = 0 THEN 0 ELSE Sum[j - 1] + lens[j] IN Sum[i - 1]

Packed(t, xs, children) ==
  [rows  |-> Len(xs),
   null  |-> {i - 1 : i \in {j \in DOMAIN xs : xs[j] = Null}},
   data  |-> CASE t.k \in {"list", "map"} ->
                    [r \in Below(Len(xs)) |-> <<Offset(Lengths(xs), r + 1), Lengths(xs)[r + 1]>>]
               [] t.k \in {"array", "struct", "union"} -> <<>>
               [] OTHER -> [r \in {i - 1 : i \in {j \in DOMAIN xs : xs[j] # Null}} |-> xs[r + 1][2]],
   child |-> children]

(*------------------ rducks_quack_write_vector_to_duckdb ------------------*)

(* the tags of valid rows name members, arrays have their size *)
Fitting(t, w) ==
  /\ t.k = "union" =>
       \A r \in Valid(w.child[1], w.rows) : w.child[1].data[r] \in 0 .. Len(t.of) - 1
  /\ t.k = "array" => w.child[1].rows = w.rows * t.n

Received(t, w, children) ==
  [null  |-> w.null,
   data  |-> w.data,
   size  |-> IF t.k \in {"list", "map"} THEN w.child[1].rows ELSE 0,
   child |-> children]
=============================================================================
