------------------------------ MODULE ScalarCalls ------------------------------
(***************************************************************************)
(* One query SELECT f(i) FROM rducks_parallel_range(n)                     *)
(* (tools/ext/src/rducks_parallel.c and rducks_scalar_dispatch.c): DuckDB  *)
(* threads take chunks of the range from a shared cursor and call the      *)
(* scalar UDF f, which goes to a worker process, to the R thread's queue,  *)
(* or is evaluated at once.                                                *)
(*                                                                         *)
(* The queue is what CallbackContract says of it: a request is evaluated   *)
(* by the R thread while that drains, or given up.  Exchanges with worker  *)
(* processes are NngPool's.  Cancellation and resets of the statistics are *)
(* left out.                                                               *)
(***************************************************************************)
EXTENDS DuckThreads, Naturals, FiniteSets

CONSTANTS
  Total,      (* the rows of the range                                     *)
  Chunk,      (* RDUCKS_PARALLEL_RANGE_CHUNK                               *)
  Backends,   (* of "single", "concurrent" and "multiprocess"              *)
  Plans       (* the queries: mode, typed, managed, service, backend       *)

ASSUME CallAssumption ==
  /\ RThread \notin OtherThreads /\ Total \in Nat /\ Chunk \in Nat \ {0}
  /\ Plans \subseteq [mode : {"R", "RIPC"}, typed : BOOLEAN, managed : BOOLEAN,
                      service : BOOLEAN, backend : Backends]

VARIABLES
  plan,       (* of the query; its backend may be changed                  *)
  next,       (* the cursor of the range                                   *)
  pc, start,  (* of each thread, and the first row of its chunk            *)
  inR,        (* the threads whose evaluation runs R, each with the chunk  *)
  evaluated,  (* how often each row was evaluated without an error         *)
  stats,      (* the statistics of the registered UDF                      *)
  failed      (* an error was set                                          *)

queryVars == <<plan, next, pc, start, inR, evaluated, stats, failed>>

Rows == 0 .. Total - 1

QueryInit ==
  /\ plan \in Plans
  /\ next = 0
  /\ pc = [t \in Threads |-> IF plan.managed /\ t = RThread THEN "pumping" ELSE "range"]
  /\ start = [t \in Threads |-> 0]
  /\ inR = {}
  /\ evaluated = [r \in Rows |-> 0]
  /\ stats = [chunks |-> 0, rows |-> 0, direct |-> 0, queued |-> 0, evaluator |-> 0]
  /\ failed = FALSE

GoTo(t, l) == pc' = [pc EXCEPT ![t] = l]

(*------------------------------- the range -------------------------------*)

(* mutant: load, and store later *)
TakeChunkLoaded(t) ==
  /\ pc[t] = "range"
  /\ start' = [start EXCEPT ![t] = next]
  /\ next' \in {next, next + Chunk}
  /\ GoTo(t, IF next >= Total THEN "done" ELSE "called")
  /\ UNCHANGED <<plan, inR, evaluated, stats, failed>>

(* DuckDB runs at most as many threads as there are rows *)
TakeChunk(t) ==
  /\ pc[t] = "range"
  /\ start' = [start EXCEPT ![t] = next]
  /\ next' = next + Chunk
  /\ GoTo(t, IF next >= Total THEN "done" ELSE "called")
  /\ UNCHANGED <<plan, inR, evaluated, stats, failed>>

ChunkOf(t) == {r \in Rows : start[t] <= r /\ r < start[t] + Chunk}

(* DuckDB stops a query that has failed *)
Quit(t) ==
  /\ failed /\ pc[t] = "range"
  /\ GoTo(t, "done")
  /\ UNCHANGED <<plan, next, start, inR, evaluated, stats, failed>>

(*------------------------------- dispatch --------------------------------*)

Recorded(t, queued) ==
  [chunks    |-> stats.chunks + 1,
   rows      |-> stats.rows + Cardinality(ChunkOf(t)),
   direct    |-> IF queued THEN stats.direct ELSE stats.direct + 1,
   queued    |-> IF queued THEN stats.queued + 1 ELSE stats.queued,
   evaluator |-> stats.evaluator]

(* The evaluator is counted in the metadata it runs with, which for an untyped
   UDF is a copy. *)
Counted(s) == IF plan.typed THEN [s EXCEPT !.evaluator = @ + 1] ELSE s

FailChunk(t) ==
  /\ failed' = TRUE
  /\ GoTo(t, "range")

(* to a worker process, by the calling thread *)
ToWorker(t) ==
  /\ pc[t] = "called" /\ plan.mode = "RIPC"
  /\ stats' = Counted(Recorded(t, t # RThread))
  /\ \/ /\ evaluated' = [r \in Rows |-> IF r \in ChunkOf(t) THEN evaluated[r] + 1 ELSE evaluated[r]]
        /\ GoTo(t, "range") /\ UNCHANGED failed
     \/ FailChunk(t) /\ UNCHANGED evaluated
  /\ UNCHANGED <<plan, next, start, inR>>

Concurrent == plan.backend = "concurrent"
InProcess(t) == pc[t] = "called" /\ plan.mode = "R"
(* an unmanaged query while the R thread serves a stream is refused *)
Recursive == ~plan.managed /\ plan.service

Refused(t) ==
  /\ InProcess(t)
  /\ Recursive \/ (t # RThread /\ ~Concurrent)
  /\ FailChunk(t)
  /\ UNCHANGED <<plan, next, start, inR, evaluated, stats>>

(* mutant: whichever thread calls evaluates *)
DirectAnywhere(t) ==
  /\ InProcess(t) /\ ~Recursive /\ ~Concurrent
  /\ stats' = Counted(Recorded(t, FALSE))
  /\ inR' = inR \cup {[by |-> t, of |-> t]}
  /\ GoTo(t, "evaluating")
  /\ UNCHANGED <<plan, next, start, evaluated, failed>>

Direct(t) ==
  /\ InProcess(t) /\ ~Recursive /\ ~Concurrent /\ t = RThread
  /\ stats' = Counted(Recorded(t, FALSE))
  /\ inR' = inR \cup {[by |-> t, of |-> t]}
  /\ GoTo(t, "evaluating")
  /\ UNCHANGED <<plan, next, start, evaluated, failed>>

(* The R thread leaves its own chunk to a helper and drains until it is
   answered. *)
Queue(t) ==
  /\ InProcess(t) /\ ~Recursive /\ Concurrent
  /\ stats' = Recorded(t, TRUE)
  /\ GoTo(t, "queued")
  /\ UNCHANGED <<plan, next, start, inR, evaluated, failed>>

Drains == pc[RThread] \in {"queued", "pumping"}

Serve(t) ==
  /\ Drains /\ inR = {} /\ pc[t] = "queued"
  /\ stats' = Counted(stats)
  /\ inR' = {[by |-> RThread, of |-> t]}
  /\ UNCHANGED <<plan, next, pc, start, evaluated, failed>>

(* Nobody has begun to evaluate it: a deadline or an error, which the R thread
   hears of when it has drained.  The chunks of a managed query have none. *)
GiveUp(t) ==
  /\ pc[t] = "queued" /\ ~plan.managed
  /\ \A e \in inR : e.of # t
  /\ t = RThread => inR = {}
  /\ FailChunk(t)
  /\ UNCHANGED <<plan, next, start, inR, evaluated, stats>>

(*-------------------------------- evaluation -----------------------------*)

Evaluated(e) ==
  /\ inR' = inR \ {e}
  /\ \/ /\ evaluated' = [r \in Rows |-> IF r \in ChunkOf(e.of) THEN evaluated[r] + 1 ELSE evaluated[r]]
        /\ GoTo(e.of, "range") /\ UNCHANGED failed
     \/ FailChunk(e.of) /\ UNCHANGED evaluated
  /\ UNCHANGED <<plan, next, start, stats>>

(* The function may change the plan of its connection, but not under an open
   stream. *)
ChangePlan(b) ==
  /\ inR # {} /\ ~plan.managed /\ ~plan.service
  /\ plan' = [plan EXCEPT !.backend = b]
  /\ UNCHANGED <<next, pc, start, inR, evaluated, stats, failed>>

Executors == IF plan.managed THEN OtherThreads ELSE Threads
Ended == \A t \in Executors : pc[t] = "done"

QueryDone == Ended /\ UNCHANGED queryVars

QueryNext ==
  \/ \E t \in Threads :
       \/ TakeChunk(t) \/ Quit(t) \/ ToWorker(t) \/ Refused(t) \/ Direct(t) \/ Queue(t)
       \/ Serve(t) \/ GiveUp(t)
  \/ \E e \in inR : Evaluated(e)
  \/ \E b \in Backends : ChangePlan(b)
  \/ QueryDone

QuerySpec == QueryInit /\ [][QueryNext]_queryVars
-----------------------------------------------------------------------------
(* Whatever threads share the range, and although the plan changes under way, no
   row is evaluated twice, and all are when the query ends without an error; then
   the statistics, those of a typed UDF, tell where its chunks went and that each
   was evaluated. *)
RowsOnce ==
  /\ \A r \in Rows : evaluated[r] <= 1 /\ (Ended /\ ~failed => evaluated[r] = 1)
  /\ stats.chunks = stats.direct + stats.queued
  /\ Ended /\ ~failed =>
       stats.rows = Total /\ (plan.typed => stats.evaluator = stats.chunks)

(* R is entered by the R thread alone, once at a time: never inside a service
   that was not asked to, and never by a DuckDB thread that found the queue
   turned off. *)
OnlyRThreadInR ==
  /\ \A e \in inR : e.by = RThread /\ plan.mode = "R" /\ ~Recursive
  /\ Cardinality(inR) <= 1

=============================================================================
