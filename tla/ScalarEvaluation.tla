--------------------------- MODULE ScalarEvaluation ---------------------------
(***************************************************************************)
(* What a scalar UDF makes of a chunk: on the R thread directly, row by    *)
(* row or with one call for the chunk or for several chunks (rducks_rc.c), *)
(* or in an R worker that gets and returns wire vectors (R/ipc_worker.R    *)
(* with R/aaa_eval_scalar.R and R/aaa_eval_vectorized.R).                  *)
(*                                                                         *)
(* RowEvaluation has the R calls, once the arguments are prepared.         *)
(*                                                                         *)
(* The UDF has two arguments, the column of DuckVectors and one of         *)
(* INTEGERs with a NULL, and returns the type of the first.  The shapes of *)
(* results that are written in bulk are left out, as shortcuts of what is  *)
(* modelled here.                                                          *)
(***************************************************************************)
EXTENDS QuackVectors

CONSTANT Poisoned(_)    (* the value of a type at which a picky function fails *)

(* the R functions: what each makes of a first argument; a short one, given a
   chunk, returns a row less *)
Fails == <<"error">>
Constant(x) == <<"constant", x>>
Functions ==
  {<<"same">>, <<"strict">>, <<"picky">>, <<"short">>} \cup {Constant(x) : x \in Offered(type)}

Apply(f, x) ==
  IF f[1] = "constant" THEN f[2]
  ELSE IF \/ f[1] = "strict" /\ x = Null
          \/ f[1] = "picky" /\ x = Poisoned(type) THEN Fails
  ELSE x

(* rducks_check_value: what a return value has to be *)
RECURSIVE Checks(_, _)
Checks(t, x) ==
  x # Null =>
    CASE t.k = "list" -> \A i \in DOMAIN x[2] : Checks(t.of[1], x[2][i])
      [] t.k = "array" -> Len(x[2]) = t.n /\ \A i \in DOMAIN x[2] : Checks(t.of[1], x[2][i])
      [] t.k = "struct" -> HasFields(t, x) /\ \A i \in DOMAIN t.of : Checks(t.of[i], x[2][i])
      [] t.k = "map" -> /\ Len(x[2]) = Len(x[3])
                        /\ \A c \in 1 .. 2 : \A i \in DOMAIN x[2] : Checks(t.of[c], x[c + 1][i])
      [] t.k = "union" -> x[2] \in DOMAIN t.of /\ Checks(t.of[x[2]], x[3])
      [] OTHER -> TRUE

Fits(y) == Checks(type, y)

INSTANCE RowEvaluation WITH Missing <- Null

(* Called for each row, the direct evaluator also writes it before the next. *)
ByRow == INSTANCE RowEvaluation WITH Missing <- Null, Fits <- LAMBDA y : Checks(type, y) /\ Accepts(type, y)

(*-------------------------------- arguments ------------------------------*)

IntColumn == [k |-> "int"]
Second == FoldLeftDomain(LAMBDA v, i : Write(IntColumn, v, i - 1, IF i = 2 THEN Null ELSE <<"leaf", i>>),
                         NewVector(IntColumn), [i \in 1 .. MaxRows |-> i])

(* a chunk of n rows *)
DataChunk(v, w, n) == [n |-> n, types |-> <<type, IntColumn>>, columns |-> <<v, w>>]

(* rducks_rc_direct_prepare_inputs: a bit of the vector says what is NULL *)
Prepared(chunk) ==
  LET nulls == [c \in DOMAIN chunk.columns |-> ColumnNulls(chunk.columns[c], chunk.n)] IN
  [columns |-> [c \in DOMAIN chunk.columns |->
                  ColumnValues(chunk.types[c], chunk.columns[c], chunk.n)],
   top     |-> [i \in 1 .. chunk.n |-> \E c \in DOMAIN nulls : nulls[c][i]]]

(* rducks_native_prepared_inputs: the decoded value does; a UNION never is *)
WorkerNull(t, x) == t.k # "union" /\ x = Null

(* rducks_ipc_worker_fast_plan: what arrived says it, for plain scalars *)
Planned(mode, chunk) ==
  mode = "vectorized" /\ \A c \in DOMAIN chunk.types : chunk.types[c].k \in {"int", "text"}

WorkerPrepared(mode, chunk) ==
  LET wire == [c \in DOMAIN chunk.columns |->
                 Encode(chunk.types[c], chunk.columns[c], chunk.n)]
      values == [c \in DOMAIN wire |-> ToValues(chunk.types[c], wire[c])]
      IsNull(c, i) == IF Planned(mode, chunk) THEN i - 1 \in wire[c].null
                      ELSE WorkerNull(chunk.types[c], values[c][i])
  IN
  [columns |-> values,
   top     |-> [i \in 1 .. chunk.n |-> \E c \in DOMAIN wire : IsNull(c, i)]]

(*-------------------------------- the paths ------------------------------*)

(* the rows of a result, written one by one and read by DuckDB *)
Written(ys) == WriteAll(type, ys)
Delivered(res) ==
  IF res.ok /\ \A i \in DOMAIN res.out : Accepts(type, res.out[i])
  THEN [res EXCEPT !.out = ColumnValues(type, Written(@), Len(@))]
  ELSE Abort(res)

Direct(mode, p, f, prep) ==
  Delivered(IF mode = "scalar" THEN ByRow!EachRow(p, f, prep) ELSE OneCall(p, f, prep))

(* rducks_ipc_worker_eval_quack_chunk, and the result written back *)
Worker(mode, p, f, prep) ==
  LET res == IF mode = "scalar" THEN EachRow(p, f, prep) ELSE OneCall(p, f, prep)
      wire == FromValues(type, res.out)
  IN IF res.ok /\ Writable(type, wire)
     THEN [res EXCEPT !.out = ColumnValues(type, WriteBack(type, wire), Rows(prep))]
     ELSE Abort(res)

(* chunks that are coalesced into one call *)
Batched(p, f, preps) ==
  LET parts == BatchCall(p, f, preps) IN [k \in DOMAIN preps |-> Delivered(parts[k])]

(*------------------------------- properties ------------------------------*)

This == DataChunk(vec, Second, Len(rows))

(* what becomes of errors matters to the functions that have some *)
Cases == {c \in Policies \X Functions :
            c[1].error = "return_null" => c[2][1] \in {"strict", "picky"}}

(* a STRUCT somewhere in x is a list without names *)
RECURSIVE Nameless(_, _)
Nameless(t, x) ==
  x # Null /\
    CASE t.k \in {"list", "array"} -> \E i \in DOMAIN x[2] : Nameless(t.of[1], x[2][i])
      [] t.k = "struct" -> x[1] = "unnamed" \/ \E i \in DOMAIN t.of : Nameless(t.of[i], x[2][i])
      [] t.k = "map" -> \E c \in 1 .. 2 : \E i \in DOMAIN x[c + 1] : Nameless(t.of[c], x[c + 1][i])
      [] t.k = "union" -> Nameless(t.of[x[2]], x[3])
      [] OTHER -> FALSE

(* what the paths are known to differ in, see PlansAgree: only the R thread
   refuses a MAP with a NULL key or a key twice, only a worker makes NULLs of the
   fields of a STRUCT that R returned as a list without names, a worker misses a
   NULL UNION and, called for each row, takes an INTEGER that is R's NA for a NULL *)
Comparable(mode, p, f) ==
  /\ f[1] = "constant" /\ Checks(type, f[2]) => Accepts(type, f[2]) /\ ~Nameless(type, f[2])
  /\ type.k = "union" /\ p.null = "default" => vec.null = {}
  /\ type.k = "int" /\ mode = "scalar" => Range(vec.data) \cap {Least} = {}

(* part of EvaluatorsAgree: a chunk that is coalesced with others gets the rows
   it would have got alone, wherever NULLs keep rows of any of them from R
   (rducks_rc_direct_prepare_inputs_batch, rducks_rc_write_direct_results_slice). *)
BatchSliced ==
  type.k \in {"int", "text"} =>
    \A p \in {q \in Policies : q.error = "rethrow"} : \A f \in {<<"same">>, <<"strict">>, <<"picky">>} :
      \A cut \in 1 .. Len(rows) - 1 :
        LET Part(m, n) == LET s == [i \in 1 .. n |-> m + i - 1] IN
                          DataChunk(Sliced(type, vec, s), Sliced(IntColumn, Second, s), n)
            chunks == <<Part(0, cut), Part(cut, Len(rows) - cut)>>
            preps == <<Prepared(chunks[1]), Prepared(chunks[2])>>
            alone == <<Direct("vectorized", p, f, preps[1]), Direct("vectorized", p, f, preps[2])>>
            both == Batched(p, f, preps)
        IN (alone[1].ok /\ alone[2].ok) =>
             \A k \in 1 .. 2 : both[k].ok /\ both[k].out = alone[k].out

(* For every function and policy, a worker calls R with the arguments the
   R thread would have used and the query gets the same rows or fails as well;
   and, for a function of rows whose errors are not turned into NULLs, calling
   it for each row, once for the chunk or once for several chunks makes no
   difference. *)
EvaluatorsAgree ==
  LET here == Prepared(This) IN
  /\ BatchSliced
  /\ \A mode \in {"scalar", "vectorized"} :
       LET there == WorkerPrepared(mode, This) IN
       \A c \in Cases : Comparable(mode, c[1], c[2]) =>
         Direct(mode, c[1], c[2], here) = Worker(mode, c[1], c[2], there)
  /\ \A p \in {q \in Policies : q.error = "rethrow"} : \A f \in Functions \ {<<"short">>} :
       LET one == Direct("scalar", p, f, here)
           all == Direct("vectorized", p, f, here)
       IN one.ok = all.ok /\ one.out = all.out

(* docs/EXECUTION_PLANS.md: execution plans "do not change the SQL semantics of
   a scalar UDF".  They do where Comparable says so: a query's rows depend on
   whether R or a worker evaluates the UDF. *)
PlansAgree ==
  \A c \in Cases : \A mode \in {"scalar", "vectorized"} :
    LET here == Direct(mode, c[1], c[2], Prepared(This))
        there == Worker(mode, c[1], c[2], WorkerPrepared(mode, This))
    IN here.ok = there.ok /\ here.out = there.out
=============================================================================
