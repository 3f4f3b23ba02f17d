----------------------------- MODULE QuackVectors -----------------------------
(***************************************************************************)
(* The way of a column to an R worker and back: the extension encodes a    *)
(* vector of DuckDB (tools/ext/src/rducks_ripc.c), the worker decodes it   *)
(* into R values and encodes its results (R/native_chunk.R and             *)
(* R/quack_bridge.R), and the extension writes them into a vector.         *)
(*                                                                         *)
(* VectorLayers has the conversions of one layer of a column.              *)
(***************************************************************************)
EXTENDS DuckVectors

(* entries beyond the child are refused *)
RECURSIVE Encodable(_, _, _)
Encodable(t, v, n) ==
  /\ t.k \in {"list", "map"} => \A r \in Valid(v, n) : v.data[r][1] + v.data[r][2] <= v.size
  /\ \A i \in DOMAIN v.child : Encodable(Children(t)[i], v.child[i], ChildRows(t, v, n))

RECURSIVE Encode(_, _, _)
Encode(t, v, n) ==
  Encoded(t, v, n, [c \in DOMAIN v.child |-> Encode(Children(t)[c], v.child[c], ChildRows(t, v, n))])

RECURSIVE ToValues(_, _)
ToValues(t, w) == Decoded(t, w, [c \in DOMAIN w.child |-> ToValues(Children(t)[c], w.child[c])])

RECURSIVE FromValues(_, _)
FromValues(t, xs) ==
  Packed(t, xs, [c \in DOMAIN Children(t) |-> FromValues(Children(t)[c], ChildValues(t, xs, c))])

(*------------------ rducks_quack_write_vector_to_duckdb ------------------*)

RECURSIVE Writable(_, _)
Writable(t, w) ==
  Fitting(t, w) /\ \A i \in DOMAIN w.child : Writable(Children(t)[i], w.child[i])

RECURSIVE WriteBack(_, _)
WriteBack(t, w) ==
  Received(t, w, [c \in DOMAIN w.child |-> WriteBack(Children(t)[c], w.child[c])])

(*------------------------------- properties ------------------------------*)

(* Rows written from R read back unchanged (RoundTrip), and a column that DuckDB
   hands to the extension reaches an R worker with the values
   the direct evaluator would have read from it, whatever order, slack and
   leftovers its list entries have, and the same values as results come back to
   DuckDB unchanged (rducks_quack_vector_from_duckdb, the conversions
   of R/native_chunk.R and rducks_quack_write_vector_to_duckdb). *)
WireFaithful ==
  LET n == Len(rows)
      back == FromValues(type, rows)
  IN
  /\ RoundTrip
  /\ Encodable(type, vec, n)
  /\ ToValues(type, Encode(type, vec, n)) = rows
  /\ Writable(type, back)
  /\ ColumnValues(type, WriteBack(type, back), n) = rows
=============================================================================
