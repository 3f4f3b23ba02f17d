----------------------------- MODULE MCQuery -------------------------------
(* Instances for TLC of three views of a query: of QueryStream, which executes it, of
   ScalarCalls, the chunks of a scalar UDF in it, and of ScalarEvaluation, the values
   of one chunk.  In each behaviour one of them takes steps. *)
EXTENDS MCQueryStream, ScalarCalls, MCColumns

CONSTANTS r, t1, t2

VARIABLES type, rows, vec, turn, part

(* a managed query belongs to a stream that the R thread serves, and only the
   concurrent backend has those; IPC UDFs run on the multiprocess one *)
Queries ==
  {q \in [mode : {"R", "RIPC"}, typed : BOOLEAN, managed : BOOLEAN, service : BOOLEAN,
          backend : Backends] :
     /\ q.managed => q.service /\ q.backend = "concurrent" /\ q.mode = "R"
     /\ q.mode = "RIPC" => q.backend = "multiprocess" /\ ~q.service}
OneQuery == CHOOSE q \in Queries : TRUE

Data == INSTANCE ScalarEvaluation WITH
  Types <- ColumnTypes, Offered <- Values, Poisoned <- Third, owner <- turn,
  MaxRows <- 3, MaxSlice <- 2, Least <- NaInteger

dataVars == <<type, rows, vec, turn>>

QueriesInit ==
  /\ Init /\ QueryInit /\ Data!Init
  /\ part \in {"streams", "query", "data"}
  /\ part # "streams" => connection = c1 /\ ~managedPlan
  /\ part # "query" => plan = OneQuery
  /\ part # "data" => type = Integer

QueriesNext ==
  \/ part = "streams" /\ Next /\ UNCHANGED <<queryVars, dataVars, part>>
  \/ part = "query" /\ QueryNext /\ UNCHANGED <<vars, dataVars, part>>
  \/ part = "data" /\ Data!Next /\ UNCHANGED <<vars, queryVars, part>>

(* The fairness is QueryStream's. *)
QueriesSpec == QueriesInit /\ [][QueriesNext]_<<vars, queryVars, dataVars, part>> /\ Fairness

(* What ScalarEvaluation states. *)
WireFaithful    == part = "data" => Data!WireFaithful
EvaluatorsAgree == part = "data" => Data!EvaluatorsAgree
=============================================================================
