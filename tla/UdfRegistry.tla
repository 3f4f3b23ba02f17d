------------------------------ MODULE UdfRegistry ------------------------------
(***************************************************************************)
(* The scalar UDFs of one runtime (tools/ext/src/rducks_udf_sql.c and the  *)
(* registry of rducks_runtime.c): the R thread registers functions with    *)
(* DuckDB and enters their metadata in a list and a hash index of names,   *)
(* any thread looks a name up, and whichever thread drops the last use of  *)
(* a replaced function destroys its metadata.                              *)
(*                                                                         *)
(* Types, specifications and error texts are abstracted: a registration is *)
(* refused or not.  Client pools are NngPool's.  A refresh of the runtime, *)
(* which empties the registry, is never reached (see RuntimeRegistry).     *)
(***************************************************************************)
EXTENDS PreservedRelease, SequencesExt

CONSTANTS
  Registrations, (* each made at most once                                  *)
  NoUdf,
  Names,         (* SQL names                                               *)
  NameOf,        (* the name of each registration                           *)
  EvaluatorOf,   (* the R evaluator bundle of each; two may share one       *)
  HashOf,        (* rducks_runtime_udf_name_hash                            *)
  LeastBuckets   (* 64 in the code: the fewest buckets of an index          *)

ASSUME UdfAssumption ==
  /\ NoUdf \notin Registrations /\ LeastBuckets \in Nat \ {0}
  /\ NameOf \in [Registrations -> Names] /\ HashOf \in [Names -> Nat]
  /\ EvaluatorOf \in [Registrations -> Objects \ {NoObject}]

VARIABLES
  life,         (* of each registration's metadata                          *)
  list,         (* udf_registry_head, newest first                          *)
  index,        (* udf_registry_buckets: <<>> before the first, else chains *)
  size,         (* udf_registry_size                                        *)
  calling,      (* the UDF each DuckDB thread executes                      *)
  precious,     (* the R objects kept alive                                 *)
  records       (* of each name, R's record of a registration               *)

udfRegistryVars == <<life, list, index, size, calling, precious, records>>

UdfInit ==
  /\ life = [u \in Registrations |-> "none"]
  /\ list = <<>> /\ index = <<>> /\ size = 0
  /\ calling = [t \in Threads |-> NoUdf]
  /\ precious = EmptyHeap
  /\ records = [n \in Names |-> NoUdf]

(*-------------------------------- the index ------------------------------*)

Named(n, u) == NameOf[u] = n
Bucket(ix, n) == (HashOf[n] % Len(ix)) + 1

(* rducks_runtime_udf_bucket_count: doubled until there are two for each UDF *)
Doubled[k \in Nat] == IF k = 0 THEN LeastBuckets ELSE 2 * Doubled[k - 1]
BucketCount(n) == Doubled[Min({k \in 0 .. n : Doubled[k] >= 2 * n})]

Inserted(ix, u) == [ix EXCEPT ![Bucket(ix, NameOf[u])] = <<u>> \o @]

NoChains(count) == [b \in 1 .. count |-> <<>>]

(* from the head of the list on, each at the front of its chain *)
Rebuilt(l) ==
  LET From[k \in 0 .. Len(l)] ==
        IF k = 0 THEN NoChains(BucketCount(Len(l))) ELSE Inserted(From[k - 1], l[k])
  IN From[Len(l)]

(* the places in a chain of the UDFs of a name *)
PlacesOf(chain, n) == {i \in DOMAIN chain : Named(n, chain[i])}

(* rducks_runtime_find_udf_locked: the first of its chain, or of the list as
   long as there is no index *)
FindUdf(n) ==
  LET chain == IF index = <<>> THEN list ELSE index[Bucket(index, n)] IN
  IF PlacesOf(chain, n) = {} THEN NoUdf ELSE chain[Min(PlacesOf(chain, n))]

(*------------------------------ registration -----------------------------*)

(* rducks_register_r_scalar is refused: nothing is kept of it but the drain,
   whether a check fails or DuckDB does, whose function then owned it. *)
Refuse(u) ==
  /\ life[u] = "none"
  /\ precious' = Drained(precious)
  /\ UNCHANGED <<life, list, index, size, calling, records>>

(* mutant: the evaluator is not preserved *)
RegisterUnheld(u) ==
  /\ life[u] = "none" /\ \A v \in Registrations : life[v] # "callable"
  /\ precious' = Drained(precious)
  /\ life' = [life EXCEPT ![u] = "callable"]
  /\ UNCHANGED <<list, index, size, calling, records>>

(* From here on DuckDB calls the function, before it is in the registry. *)
RegisterUdf(u) ==
  /\ life[u] = "none" /\ \A v \in Registrations : life[v] # "callable"
  /\ precious' = Preserved(Drained(precious), EvaluatorOf[u])
  /\ life' = [life EXCEPT ![u] = "callable"]
  /\ UNCHANGED <<list, index, size, calling, records>>

(* rducks_runtime_register_udf; then R records the registration.  Without memory
   for a larger index the UDF goes into the one there is, or into none. *)
Enlist(u) ==
  /\ life[u] = "callable"
  /\ life' = [life EXCEPT ![u] = "listed"]
  /\ list' = <<u>> \o list /\ size' = size + 1
  /\ \/ /\ index # <<>> /\ size' <= 2 * Len(index)
        /\ index' = Inserted(index, u)
     \/ /\ index = <<>> \/ size' > 2 * Len(index)
        /\ \/ index' = Rebuilt(list')
           \/ index' = IF index = <<>> THEN <<>> ELSE Inserted(index, u)
  /\ records' = [records EXCEPT ![NameOf[u]] = u]
  /\ UNCHANGED <<calling, precious>>

(*------------------------------- execution -------------------------------*)

Call(t, u) ==
  /\ calling[t] = NoUdf /\ life[u] \in {"callable", "listed"}
  /\ calling' = [calling EXCEPT ![t] = u]
  /\ UNCHANGED <<life, list, index, size, precious, records>>

CallReturns(t) ==
  /\ calling[t] # NoUdf
  /\ calling' = [calling EXCEPT ![t] = NoUdf]
  /\ UNCHANGED <<life, list, index, size, precious, records>>

(* rducks_udf_stat, rducks_reset_udf_stats: a lookup, after a drain *)
Inspect ==
  /\ precious.queue # <<>>
  /\ precious' = Drained(precious)
  /\ UNCHANGED <<life, list, index, size, calling, records>>

(*------------------------------- destruction -----------------------------*)

(* mutant: the chains keep the UDF *)
UnlistOnly(u) ==
  /\ life[u] = "listed" /\ \A t \in Threads : calling[t] # u
  /\ life' = [life EXCEPT ![u] = "unlisted"]
  /\ list' = RemoveFirst(list, u) /\ size' = size - 1
  /\ UNCHANGED <<index, calling, precious, records>>

(* rducks_r_scalar_meta_destroy, once the function is replaced or the database
   closed and nobody executes it: rducks_runtime_unregister_udf *)
Unlist(u) ==
  /\ life[u] = "listed" /\ \A t \in Threads : calling[t] # u
  /\ life' = [life EXCEPT ![u] = "unlisted"]
  /\ list' = RemoveFirst(list, u) /\ size' = size - 1
  /\ index' = IF index = <<>> THEN <<>>
              ELSE [index EXCEPT ![Bucket(index, NameOf[u])] = RemoveFirst(@, u)]
  /\ UNCHANGED <<calling, precious, records>>

(* the evaluator is given up by the thread that destroys *)
DestroyUdf(t, u) ==
  /\ life[u] = "unlisted"
  /\ life' = [life EXCEPT ![u] = "destroyed"]
  /\ precious' \in GivenUp(precious, t, EvaluatorOf[u])
  /\ UNCHANGED <<list, index, size, calling, records>>

UdfDone ==
  /\ \A u \in Registrations : life[u] = "destroyed"
  /\ precious.queue = <<>> /\ \A t \in Threads : calling[t] = NoUdf
  /\ UNCHANGED udfRegistryVars

UdfNext ==
  \/ \E u \in Registrations : Refuse(u) \/ RegisterUdf(u) \/ Enlist(u) \/ Unlist(u)
  \/ \E t \in Threads : CallReturns(t) \/ \E u \in Registrations : Call(t, u) \/ DestroyUdf(t, u)
  \/ Inspect \/ UdfDone

UdfSpec == UdfInit /\ [][UdfNext]_udfRegistryVars
-----------------------------------------------------------------------------
Listed == {u \in Registrations : life[u] = "listed"}

(* The list and the hash index hold the same UDFs, each once and where its name
   leads, whether an index could be rebuilt or not. *)
IndexExact ==
  /\ ToSet(list) = Listed /\ IsInjective(list) /\ size = Len(list)
  /\ index # <<>> =>
       /\ \A b \in DOMAIN index :
            /\ IsInjective(index[b])
            /\ \A u \in ToSet(index[b]) : b = Bucket(index, NameOf[u])
       /\ UNION {ToSet(index[b]) : b \in DOMAIN index} = Listed

(* A lookup fails for no registered name, finds no other name and never meets
   metadata that was destroyed. *)
LookupExact ==
  /\ IndexExact
  /\ \A n \in Names :
       LET due == {u \in Listed : Named(n, u)} IN
       IF due = {} THEN FindUdf(n) = NoUdf ELSE FindUdf(n) \in due

(* "Returns the R-side registration metadata together with native execution
   counters for a DuckDB scalar UDF" (R/explain.R): as long as the UDF that R
   recorded for a name is registered, the counters are its own. *)
ExplainsItsRecord ==
  \A n \in Names : records[n] \in Listed => FindUdf(n) = records[n]

(* An evaluator is on R's precious list once for every registration that may
   still call it, for every release that waits for the R thread and for every
   one that was given up: no live UDF loses its closure, none is kept twice. *)
EvaluatorsHeld ==
  \A o \in Objects \ {NoObject} :
    precious.preserved[o] =
      Cardinality({u \in Registrations : life[u] \in {"callable", "listed", "unlisted"} /\ EvaluatorOf[u] = o})
      + Waiting(precious, o)
=============================================================================
