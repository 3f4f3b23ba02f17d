------------------------------ MODULE DuckVectors ------------------------------
(***************************************************************************)
(* DuckDB's vectors as the direct evaluator fills and reads them           *)
(* (tools/ext/src/rducks_rc.c): R values are written row by row into a     *)
(* vector of a nested type, and rows of a vector become R values.          *)
(*                                                                         *)
(* VectorLayers has the types and vectors, and how a row is read.          *)
(***************************************************************************)
EXTENDS VectorLayers

CONSTANTS
  Types,        (* the types of columns                                     *)
  Offered(_),   (* the values an R function returns for each, fit or not    *)
  MaxRows,
  MaxSlice

VARIABLES
  type,
  rows,         (* the values the rows have, as R sees them                 *)
  vec,          (* the vector                                               *)
  owner         (* "R" writes it; "DuckDB" has made an input of it          *)

vars == <<type, rows, vec, owner>>

(*------------------------------- the vectors -----------------------------*)

RECURSIVE NewVector(_)
NewVector(t) == Empty([i \in DOMAIN Children(t) |-> NewVector(Children(t)[i])])

(*-------------------------------- writing --------------------------------*)

(* the values the writer refuses: the chunk then fails as a whole *)
RECURSIVE Accepts(_, _)
Accepts(t, x) ==
  x # Null =>
    CASE t.k = "list" -> \A i \in DOMAIN x[2] : Accepts(t.of[1], x[2][i])
      [] t.k = "array" -> /\ Len(x[2]) = t.n
                          /\ \A i \in DOMAIN x[2] : Accepts(t.of[1], x[2][i])
      [] t.k = "struct" -> /\ HasFields(t, x)
                           /\ \A i \in DOMAIN t.of : Accepts(t.of[i], x[2][i])
      [] t.k = "map" -> /\ Len(x[2]) = Len(x[3]) /\ IsInjective(x[2])
                        /\ \A i \in DOMAIN x[2] : /\ x[2][i] # Null
                                                  /\ Accepts(t.of[1], x[2][i])
                                                  /\ Accepts(t.of[2], x[3][i])
      [] t.k = "union" -> x[2] \in DOMAIN t.of /\ Accepts(t.of[x[2]], x[3])
      [] OTHER -> TRUE

(* the value that DuckDB then has: every STRUCT has its names and no other fields *)
RECURSIVE Stored(_, _)
Stored(t, x) ==
  IF x = Null THEN Null
  ELSE LET Each(s, c) == [i \in DOMAIN s |-> Stored(t.of[c], s[i])] IN
    CASE t.k \in {"list", "array"} -> <<"seq", Each(x[2], 1)>>
      [] t.k = "struct" -> <<"struct", [i \in DOMAIN t.of |-> Stored(t.of[i], x[2][i])]>>
      [] t.k = "map" -> <<"map", Each(x[2], 1), Each(x[3], 2)>>
      [] t.k = "union" -> <<"union", x[2], Stored(t.of[x[2]], x[3])>>
      [] OTHER -> x

RECURSIVE Write(_, _, _, _)
Write(t, v, row, x) ==
  LET Child(c) ==
        LET ys == Share(t, x, c) IN
        InTurn(LAMBDA w, j : Write(Children(t)[c], w, First(t, v, row) + j - 1, ys[j]),
               v.child[c], Len(ys))
  IN WriteRow(t, v, row, x, [c \in DOMAIN v.child |-> Child(c)])

(* the rows xs of a new vector *)
WriteAll(t, xs) == InTurn(LAMBDA v, j : Write(t, v, j - 1, xs[j]), NewVector(t), Len(xs))

(*-------------------------------- reading --------------------------------*)

RECURSIVE Read(_, _, _)
Read(t, v, row) ==
  ReadRow(t, v, row, [c \in DOMAIN v.child |-> [r \in Nat |-> Read(Children(t)[c], v.child[c], r)]])

ColumnNulls(v, n) == [i \in 1 .. n |-> i - 1 \in v.null]
ColumnValues(t, v, n) == [i \in 1 .. n |-> Read(t, v, i - 1)]

(*------------------------------ the behaviour ----------------------------*)

Init ==
  /\ type \in Types /\ rows = <<>>
  /\ vec = NewVector(type)
  /\ owner = "R"

(* the next row of a result *)
Put(x) ==
  /\ owner = "R" /\ Len(rows) < MaxRows /\ Accepts(type, x)
  /\ vec' = Write(type, vec, Len(rows), x)
  /\ rows' = Append(rows, Stored(type, x))
  /\ UNCHANGED <<type, owner>>

(* an INTEGER of DuckDB's that is R's NA *)
PutLeast ==
  /\ type.k = "int" /\ Len(rows) < MaxRows
  /\ vec' = Store(SetValid(vec, Len(rows)), Len(rows), Least)
  /\ rows' = Append(rows, Null)
  /\ owner' = "DuckDB"
  /\ UNCHANGED type

(* the rows s of a vector: entries keep their offsets into the child, in any
   order and more than once, and those of NULL rows are left to chance *)
RECURSIVE Sliced(_, _, _)
Sliced(t, v, s) ==
  LET new == [v EXCEPT !.null = {i - 1 : i \in {j \in DOMAIN s : s[j] \in v.null}},
                       !.data = [i \in {j - 1 : j \in {k \in DOMAIN s : s[k] \in DOMAIN v.data}} |->
                                   v.data[s[i + 1]]]]
  IN CASE t.k \in {"list", "map"} ->
            [new EXCEPT !.data = [i \in DOMAIN @ |-> IF i \in new.null THEN <<7, 7>> ELSE @[i]]]
       [] t.k = "array" ->
            [new EXCEPT !.child[1] = Sliced(t.of[1], @,
               [i \in 1 .. t.n * Len(s) |-> s[((i - 1) \div t.n) + 1] * t.n + ((i - 1) % t.n)])]
       [] OTHER -> [new EXCEPT !.child = [i \in DOMAIN @ |-> Sliced(Children(t)[i], @[i], s)]]

Slice(s) ==
  /\ owner = "R" /\ rows # <<>>
  /\ vec' = Sliced(type, vec, s)
  /\ rows' = [i \in DOMAIN s |-> rows[s[i] + 1]]
  /\ owner' = "DuckDB"
  /\ UNCHANGED type

Done == owner = "DuckDB" /\ UNCHANGED vars

Next ==
  \/ Done
  \/ \E x \in Offered(type) : Put(x)
  \/ PutLeast
  \/ \E n \in 1 .. MaxSlice : \E s \in [1 .. n -> 0 .. Len(rows) - 1] : Slice(s)

Spec == Init /\ [][Next]_vars

(*------------------------------- properties ------------------------------*)

(* part of WireFaithful: every row that was written reads back as the value that was written,
   its STRUCTs with names, whatever was written after it in the children it shares with other rows
   (rducks_rc_write_direct_output against rducks_rc_direct_arg). *)
RoundTrip == ColumnValues(type, vec, Len(rows)) = rows
=============================================================================
