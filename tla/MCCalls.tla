------------------------------- MODULE MCCalls -------------------------------
(* Instances for TLC of the functions DuckDB calls: of NngPool, which exchanges their
   chunks with worker processes, of Aggregates and of UdfRegistry.  In each behaviour
   one of them takes steps. *)
EXTENDS MCNngPool, Aggregates, MCUdfRegistry

VARIABLES part

(* rowwise and chunk callbacks, with and without copy and combine; states that
   are changed in place need a copy callback *)
Callbacks == {{}, {"combine"}, {"update_chunk", "combine_chunk"}, {"combine_chunk", "copy_chunk"},
              {"combine", "copy", "in_place"},
              {"update_chunk", "combine_chunk", "copy_chunk", "in_place"}}
OneBundle == CHOOSE b \in Callbacks : TRUE

(* The R values of aggregates go by the names of the closers and the pools,
   their states and the overloads of one name by those of the workers, the input
   rows by those of pools and clients, so that the same permutations serve. *)
CallValues  == Closers \cup Pools
CallObjects == CallValues \cup {b1, b2}
CallRows    == Pools \cup Clients

CallsInit ==
  /\ Init /\ AggInit /\ UdfInit
  /\ part \in {"pools", "aggregate", "udfs"}
  /\ part # "aggregate" => bundle = OneBundle

(* bounds: of the threads that execute registered UDFs, since any one of them keeps a
   UDF from being destroyed, and of the releases of evaluators that another thread
   leaves to the R thread or gives up *)
OnlyOneExecutes == calling[RThread] = NoUdf
TwoWait == MapThenSumSet(LAMBDA o : Waiting(precious, o), Objects) <= 2

CallsNext ==
  \/ part = "pools" /\ Next /\ UNCHANGED <<aggVars, udfRegistryVars, part>>
  \/ part = "aggregate" /\ AggNext /\ UNCHANGED <<vars, udfRegistryVars, part>>
  \/ part = "udfs" /\ UdfNext /\ OnlyOneExecutes' /\ TwoWait' /\ UNCHANGED <<vars, aggVars, part>>

CallsSpec == CallsInit /\ [][CallsNext]_<<vars, aggVars, udfRegistryVars, part>>
=============================================================================
