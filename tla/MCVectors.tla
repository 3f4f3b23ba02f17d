----------------------------- MODULE MCVectors -----------------------------
(* An instance for TLC of the evaluation of scalar UDFs on UNION columns. *)
EXTENDS ScalarEvaluation, MCColumns

Unions == {t \in ColumnTypes : t.k = "union"}
=============================================================================
