----------------------------- MODULE RowEvaluation -----------------------------
(***************************************************************************)
(* The R calls a scalar UDF makes for prepared arguments, for any R        *)
(* function and any values: a call for each row (rducks_rc.c and           *)
(* R/aaa_eval_scalar.R), one for the rows of a chunk, or one for those of  *)
(* several chunks (R/aaa_eval_vectorized.R).                               *)
(*                                                                         *)
(* Prepared arguments are columns of values, and for each row whether SQL  *)
(* passes a NULL.  ScalarEvaluation has how they come about and what       *)
(* becomes of the results.                                                 *)
(***************************************************************************)
EXTENDS Integers, SequencesExt

CONSTANTS
  Missing,      (* the value of a row that is NULL                        *)
  Fails,        (* an R error                                               *)
  Apply(_, _),  (* what an R function makes of its first argument           *)
  Fits(_)       (* rducks_check_value accepts what it returned              *)

Policies == [null : {"default", "special"}, error : {"rethrow", "return_null"}]

Rows(prep) == Len(prep.top)
Arguments(prep, i) == [c \in DOMAIN prep.columns |-> prep.columns[c][i]]

(* R is not asked about a row of which an argument is NULL *)
Skipped(p, prep, i) == p.null = "default" /\ prep.top[i]

(* Each evaluation is ok or has failed, and has the rows of its result and the
   arguments R was called with. *)
Nothing == [ok |-> TRUE, out |-> <<>>, seen |-> <<>>]
Emit(acc, y) == [acc EXCEPT !.out = Append(@, y)]
Abort(acc) == [acc EXCEPT !.ok = FALSE, !.out = <<>>]

(*------------------------------ row by row -------------------------------*)

(* the result of one call for a row *)
Called(p, f, acc, args) ==
  LET y == Apply(f, args[1])
      now == [acc EXCEPT !.seen = Append(@, args)]
  IN IF y = Fails THEN IF p.error = "return_null" THEN Emit(now, Missing) ELSE Abort(now)
     ELSE IF Fits(y) THEN Emit(now, y) ELSE Abort(now)

NextRow(p, f, prep, acc, i) ==
  IF ~acc.ok THEN acc
  ELSE IF Skipped(p, prep, i) THEN Emit(acc, Missing)
  ELSE Called(p, f, acc, Arguments(prep, i))

EachRow(p, f, prep) ==
  LET Upto[i \in 0 .. Rows(prep)] ==
        IF i = 0 THEN Nothing ELSE NextRow(p, f, prep, Upto[i - 1], i)
  IN Upto[Rows(prep)]

(*------------------------------- one call --------------------------------*)

(* rducks_vectorized_eval_prepared_chunk: one call for the rows evaluated *)
EvalRows(p, prep) ==
  LET At[i \in 0 .. Rows(prep)] ==
        IF i = 0 THEN <<>> ELSE IF Skipped(p, prep, i) THEN At[i - 1] ELSE Append(At[i - 1], i)
  IN At[Rows(prep)]

(* mutant: the results of the rows evaluated come first *)
ScatterFirst(ys, at, n) == [i \in 1 .. n |-> IF i \in DOMAIN at THEN ys[i] ELSE Missing]

Scatter(ys, at, n) ==
  [i \in 1 .. n |-> IF \E j \in DOMAIN at : at[j] = i
                    THEN ys[CHOOSE j \in DOMAIN at : at[j] = i] ELSE Missing]

(* a "short" function returns a row less *)
OneCall(p, f, prep) ==
  LET at == EvalRows(p, prep)
      args == [j \in DOMAIN at |-> Arguments(prep, at[j])]
      all == [j \in DOMAIN at |-> Apply(f, args[j][1])]
      ys == IF f[1] = "short" THEN Front(all) ELSE all
      nulls == [i \in 1 .. Rows(prep) |-> Missing]
  IN IF at = <<>> THEN [ok |-> TRUE, out |-> nulls, seen |-> <<>>]
     ELSE IF Contains(all, Fails)
     THEN IF p.error = "return_null" THEN [ok |-> TRUE, out |-> nulls, seen |-> args]
          ELSE [ok |-> FALSE, out |-> <<>>, seen |-> args]
     ELSE IF Len(ys) # Len(at) \/ \E j \in DOMAIN ys : ~Fits(ys[j])
     THEN [ok |-> FALSE, out |-> <<>>, seen |-> args]
     ELSE [ok |-> TRUE, out |-> Scatter(ys, at, Rows(prep)), seen |-> args]

(*----------------------------- several chunks ----------------------------*)

(* rducks_rc_direct_prepare_inputs_batch: the columns of the chunks one after
   the other *)
BatchPrepared(preps) ==
  [columns |-> [c \in DOMAIN preps[1].columns |->
                  FlattenSeq([k \in DOMAIN preps |-> preps[k].columns[c]])],
   top     |-> FlattenSeq([k \in DOMAIN preps |-> preps[k].top])]

(* the rows of the chunks before chunk k *)
RowsBefore(preps, k) ==
  LET Sum[j \in 0 .. Len(preps)] == IF j = 0 THEN 0 ELSE Sum[j - 1] + Rows(preps[j])
  IN Sum[k - 1]

(* rducks_rc_vectorized_batch_execute_impl: one call, and each chunk its rows of
   the result *)
BatchCall(p, f, preps) ==
  LET res == OneCall(p, f, BatchPrepared(preps)) IN
  [k \in DOMAIN preps |->
     IF res.ok THEN [res EXCEPT !.out = SubSeq(@, RowsBefore(preps, k) + 1,
                                               RowsBefore(preps, k) + Rows(preps[k]))]
     ELSE res]
=============================================================================
