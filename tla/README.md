# Rducks: a verification development

Rducks is a DuckDB extension that lets SQL call R. DuckDB executes a query on
many threads; R may be entered by one, the *recorded R thread*. Everything that
is hard in Rducks follows from that: a chunk that arrives on another thread is
handed over, waits, times out, is cancelled or is sent to a worker process, while
the R thread may itself be inside DuckDB, waiting for that very query.

This directory holds TLA+ modules of the parts where that happens, the TLC
configurations that check them, and TLAPS proofs of what matters most. Paths
below are relative to the repository; `ext/` stands for `tools/ext/src/`.

## 1. Inventory

For each component: its state, its operations, what it interacts with, what is
hard, and what makes it correct.

| component | state | operations | interacts with |
|---|---|---|---|
| callback queue, `ext/rducks_worker_queue.c` | list of requests, cancel generation, gauges, per-UDF pending count, stop flag and error of each query owner | submit and wait, withdraw, drain (R thread, pump of one query, self test), coalesce, evaluate, publish, interrupt, spawn and join the helper | scalar dispatch submits; query streams pump and stop; R is entered from here |
| streamed R queries, `ext/rducks_query_stream.c`, `R/query_stream.R` | list of entries, the runtime's stream connection and its busy flag, the service marks, the owner being prepared, the driver thread and its command, the scheduler guard | open, next, close, finalizer, unwind; the driver's execute, fetch, close | pumps and stops the queue; a release or a refresh takes its entries and its connections; bind of a scalar captures its owner |
| native NNG client pool, `ext/rducks_nng.c`, its users in `ext/rducks_ripc.c` and `ext/rducks_runtime.c` | references, pending count, closing flag, sockets and client mutexes of each pool; the slot of each UDF; two process-wide gauges | acquire, admit, exchange, release; create, replace, destroy, quiesce | DuckDB threads exchange while the R thread detaches pools |
| preserved-release queue, `ext/rducks_runtime.c` | detached list of R objects to release | enqueue from any thread, drain on the R thread | aggregates and table functions |
| aggregates, `ext/rducks_aggregate.c` | an R object per state, preserved | init, update by row and by chunk, copy, combine, finalize, destroy | DuckDB's aggregate callbacks; the release queue |
| table functions and table streams, `ext/rducks_table.c`, `R/register.R` | bind, its stream and reference count, one scan's chunk and position, the closed flag in R | bind, retain, scan, end, close, release | DuckDB's table callbacks; the user's `next_batch` and `close`, which may run queries; the release queue |
| runtime registry and lifecycle, `tools/ext/rducks_extension.c`, `ext/rducks_surfaces.c` | entries by database address, generation, `registration_surface_ready`, two connections | LOAD (get or create, reopen, refresh, register surfaces), release, stale alias detachment, the handshake of the R thread | every SQL function looks its entry up by token and generation |
| UDF registry, `ext/rducks_runtime.c` | list and hash of UDFs by name | register, rebuild, find, unregister | explanation and reset of counters find UDFs by name |
| scalar dispatch, `ext/rducks_scalar_dispatch.c` | none of its own | choose direct, queued, managed or IPC evaluation | queue, pool, direct evaluator |
| recorded R thread, `ext/rducks_threads.c` | thread identity, stack limits | record, compare | everything that enters R |
| parallel range tables, `ext/rducks_parallel.c` | one atomic cursor | claim 1024 rows | DuckDB scans |
| direct R evaluator, `ext/rducks_rc.c` | none | vectors to R objects and back | R |
| types and UDF SQL surface, `ext/rducks_types.c`, `ext/rducks_udf_sql.c`, `ext/rducks_util.c`, `R/types.R`, `R/type_check.R` | type descriptors | parse, build, compare, register | registration |
| execution plans and anchors, `R/execution_plan.R`, `R/connection.R` | anchors, tokens, plan of each runtime | enable, release, set plan, finalizers | providers, queue, streams, pools |
| NNG provider and R worker loop, `R/provider_nng.R`, `R/ipc_*.R` | daemons, endpoints, providers of a runtime | start, stop, configure, serve | pools |
| registration from R, `R/register.R`, `R/native_bridge.R` | registration records | check, register, drop | SQL surface |
| R value and mode semantics, `R/aaa_eval_*.R`, `R/*_semantics.R`, `R/exotic_classes.R` and others | none | null handling, recycling, return checks | evaluators |
| Quack codecs, `src/*.c` | none | chunk and scalar encodings | IPC |
| package plumbing, compatibility patch, vendored libraries | | | not core logic |

### What is hard, and what makes each part correct

*Callback queue.* A request lives on the stack of the thread that waits for it.
Drains, a 30 s timeout, an interrupt that advances a generation, the stop of one
query and the R thread's own helper all race for it. Correct means: the list
holds just the pending requests; what a drainer holds a pointer to is still on
a stack; only the right drainer takes a request; a call reported as cancelled
was not evaluated; an answer belongs to its own input; R is not entered for a
stopped query; the gauges agree with the requests; unmanaged calls return
although nobody drains.

*Query streams.* R may leave any operation by a long jump. The driver, the pump,
the callbacks and the guard that keeps siblings from changing DuckDB's scheduler
must be undone in one order. Correct means: no callback outlives the guard or
enters R in a teardown; an entry is freed once, by whoever claims it; no
pointer to a freed entry or owner; one query per connection; teardowns end.

*NNG pool.* Requests hold a reference while a quiesce detaches the pool and
waits. Correct means: what somebody can touch is allocated, one closer per pool,
counters that return to zero on every failure path, a closer that wakes.

*Objects.* R objects may be released by the R thread only, but states and binds
are dropped by any thread. Correct means: preserved exactly as often as held;
no row lost or shared by accident; the user's close called once, in time.

*Scalar calls.* Many DuckDB threads share one range and one UDF, and each chunk
chooses its way by itself. Correct means: R is entered by one thread, once at a
time; no row is lost or evaluated twice although a function changes the plan.

*UDF registry.* Names are found through a hash that is rebuilt as it grows, while
any thread may drop a replaced function. Correct means: a lookup finds a live UDF
of its name, and an evaluator is kept alive as often as it is needed.

*Values.* A nested value crosses from R into shared child vectors, to a worker and
back. Correct means: rows read back as they were written, and whoever evaluates a
function, the query gets the same rows.

*Lifecycle.* Entries are found by the raw address of a database, which may be
used again. Correct means: no operation meets connections or metadata of another
database, and what R holds by token and generation is refused afterwards.

## 2. Modules

| module | models | status |
|---|---|---|
| `WorkerQueue` | the callback queue, one action per critical section | checked; all of its safety is proved |
| `CallLease` | where one call is: home, asking, lent, answered; shared by the next two | abstract |
| `CallbackContract` | what the queue promises to those who submit | abstract |
| `WorkerQueueContract` | the refinement mapping of `WorkerQueue` to `CallbackContract` | checked and proved |
| `QueryStream` | streams, over `CallLease` in the place of the queue | checked; all of its safety is proved |
| `ScalarCalls` | a query over a parallel range: cursor, dispatch, evaluation, statistics | checked and proved |
| `NngPool` | client pools, UDF slots, gauges | checked; proved for typed local UDFs |
| `DuckThreads` | the recorded R thread and DuckDB's | used by three modules |
| `PreservedRelease` | the release queue, as operators on a heap record | used by the next three |
| `Aggregates` | aggregate states and their objects | checked; its safety is proved |
| `TableStreams` | binds, scans, the stack of R frames, close | checked; all of its safety is proved |
| `UdfRegistry` | registration, list and hash index, lookup, destruction | checked; all of its safety is proved |
| `RuntimeRegistry` | LOAD, runtime entries, attachments, release, finalizers | checked; all of its safety but the refuted `EnableFindsRuntime` is proved |
| `Provider` | worker processes: start in attempts, registration, the workers' memory, release by nested finalizers | checked; all of its safety but the refuted `ReleaseCompletes` is proved |
| `VectorLayers` | one layer of a nested column: how a row is written and read, how a vector is encoded, decoded, packed and received | checked through the next two; that values survive is proved |
| `DuckVectors` | nested vectors as the direct evaluator writes and reads them | checked; that rows read back is proved about its layers |
| `QuackVectors` | the way of a column to a worker and back | checked; proved as far as it is about values |
| `RowEvaluation` | R calls for prepared arguments, of any function and values: by row, at once, for several chunks | checked through the next; that they agree is proved |
| `ScalarEvaluation` | a scalar UDF on a chunk: here, at a worker, by row, chunk or batch | checked |
| `*Proofs` | theorems: see section 4 | |
| `MC*` | model values and small inputs for TLC | |

Composition: `QueryStream` and `ScalarCalls` use the queue by what it promises.
`WorkerQueue` implements `CallbackContract`, of which `CallLease` is the part that
concerns where a call is; `QueryStream` EXTENDS that part, so the stream module need
not carry the list, the lock and the counters. `PreservedRelease` is one heap for
aggregates, table streams and UDFs. `ScalarEvaluation` stands on `QuackVectors`,
which stands on `DuckVectors` and with it on `VectorLayers`, and on an INSTANCE of `RowEvaluation`, with its
functions, values and checks for the constants of that module. `VectorLayers` and
`RowEvaluation` have no recursive operator, so that theorems can be about them; the recursion
over a type is in `DuckVectors` and `QuackVectors`. `MCQuery` (streams, chunks and values of a query),
`MCCalls` (pools, aggregates, registered UDFs) and `MCSession` (table streams, providers,
runtimes) let TLC check components that share no state in one run: in each behaviour one
of them takes steps, so the run has the sum and not the product of their states. Where
two of them have symmetric sets, one set of model values stands for both, so that one
group of permutations serves.

### How state and actions correspond to the code

*WorkerQueue.* A thread has one request at a time, a local variable of the
submitting function, so the request is named by its thread and its fields are
functions on threads. `pc` is the place in `rducks_queue_submit_request`, `dpc`
the place in `rducks_queue_drain_impl`, `mode` what the R thread does: in R,
polling for its helper, lingering, joining, or pumping a stream. What happens
under `queue_lock` without a loop is one action. The search for coalescing
peers is the loop under the lock: it is taken one node per step with `lockHolder`
set, and every other action that needs the lock waits. A timeout may fire at any
time after the deadline was armed; a failing clock is a choice in the same step. What the
R thread evaluated for its helper it writes into the helper's output itself, in a drain
(`Collect`, `Returned`) or after the join (`Join`); that may fail, and then the
drain or the submission reports an error although R was called.

*QueryStream.* `rpc` is the place of the R thread in an operation, `cur` its
entry, `todo` what a release or refresh still has to destroy, `via` the way in
(bridge, SQL function, administration). `driver`, `command`, `commandDone` are
the hand-shake with the driver thread. A jump may happen at each step in which R
code or a check runs, and unwinds by the code's cleanup. R calls the extension from its
top level or from R code that an operation runs (`RMayCall`: a callback, a batch or a
check). Of an operation so called only the refusals are the code's own guards
(`ServiceIsActive`, `PlanFree`): a second operation under the first has no frame of its
own, and needs none as long as every one is refused, which is what `PlanFitsStreams`
states of every state in which such code runs. A scalar bind captures the owner being prepared only on
the connection it is prepared on (`Captures`).

*ScalarCalls.* `next` is the atomic cursor of `rducks_parallel.c`; it may overshoot
the end, and a thread that takes nothing is done. The way of a chunk is chosen in
`Refused`, `Direct`, `Queue` and `ToWorker` as in `rducks_scalar_dispatch.c`. A queued
chunk is served by the R thread or given up, as `CallbackContract` has it.
`ChangePlan` is what an R function may do to its own connection meanwhile.

*NngPool.* `wpc` and `cpc` are the places of requests and of closers; `slot` is
`ripc_client_pool` of a UDF. `runtimeLock` is held over the two steps "find the
UDF" and "take a reference". Pools are storage that is used again. A UDF of
`Dynamic` has no declared argument types: its calls work on a copy of the metadata.

*PreservedRelease, Aggregates, TableStreams.* The heap record counts how often
an object is preserved, holds the queue of nodes, and what leaked because no node
could be allocated. An R object of an aggregate is the set of rows folded into
it, so that a lost or shared row shows. The R thread of `TableStreams` is a stack
of frames, because `next_batch` and `close` are the user's and may run queries
that enter Rducks, drain, and close other streams before they return.

*UdfRegistry.* `list` is the chain of `udf_registry_head`, newest first; `index` the
buckets, empty before the first registration. A registration preserves its
evaluator, is handed to DuckDB and is then listed, with an unwinding at each
failure; the index is rebuilt from the list in its order, one insertion after another; a replaced function lives on while a thread executes it.

*RuntimeRegistry.* `entries` is `g_runtime_entries`, an entry's `home` the database its
connections were opened on, which the code does not know. `db[d].surfaces` says how
far a LOAD came in registering SQL functions, `db[d].entry` which entry they carry.
`attached` and `anchors` are the two stores of `R/execution_plan.R`. LOAD,
`rducks_enable` and a registration are one step each, because they run on the R
thread and only finalizers could come between, which commute with them;
`rducks_release` is three, because a finalizer may take away another attachment
after it has looked whether its own is the last.

*Provider.* The R thread is a stack of frames, as in `TableStreams`, because it waits
for workers with R calls that may collect garbage, and the finalizer of a connection
releases its runtime on top of what was going on. A frame has the operation, its
request and the endpoints it has still to go to. A try of a request is refused,
answered, answered too late, or given up while the request is on its way (`late`).
A peer is a process of ours without or with the worker loop, or a worker of the user.
`memory` is a worker's registry with its order, and a history of all it was taught.

*VectorLayers, DuckVectors, QuackVectors, RowEvaluation, ScalarEvaluation.* A vector has its NULL rows, its data
and its children, as in DuckDB: the rows of a list share one child, in which an
entry is an offset and a length. Each row R writes is a step; then DuckDB makes an
input of the vector, with its list entries in any order, with gaps and leftovers.
The conversions are recursive operators over types: each applies one layer of
`VectorLayers` (`WriteRow`, `ReadRow`, `Encoded`, `Decoded`, `Packed`, `Received`) to what it makes
of the children. `Share` is what a row writes into a child, NULL or not, and `First` where: a list
goes on where the last one ended, which `Committed` records. "int" and "text" stand for
the scalar types whose R vectors can and cannot confuse a value with NA. The UDF has
a second argument with a NULL, so that a row can be skipped for it. Where R is called,
`RowEvaluation` follows the loops of the code with recursive functions over rows and
chunks; it knows of a value only whether `Fits` accepts it.

## 3. Runs

| run | module, cfg | question |
|---|---|---|
| `queue_managed` | `MCWorkerQueue`, `QueueManaged.cfg` | does each drain take its own requests, is a stopped query kept out of R, and do calls return under fairness? |
| `queue_repeat` | `MCWorkerQueueContract`, `QueueRepeat.cfg` | over repeated calls and two generations: are list, gauges, loans and batches right, can the join block, and is the contract kept? |
| `query` | `MCQuery`, `Query.cfg` | streams: all their safety, and the end of teardowns and interrupted operations. Chunks: every row once, R entered by its thread. Values: do they survive their way, and do the evaluators agree? |
| `calls` | `MCCalls`, `Calls.cfg` | pools: references, ownership, counters, wake-ups with three requests and two closers. UDFs: does a name find one of its UDFs, is the evaluator alive? Aggregates: preservation and rows, with six sets of callbacks |
| `session` | `MCSession`, `Session.cfg` | table streams: binds, scans, closes, nested drains. Providers: is a UDF that may be called known to its workers, is no worker process forgotten? Runtimes: is each database served by its own, does a release spare what others use? |
| `stream_garbage` | `MCQueryStream`, `StreamGarbage.cfg` | finding: a collected handle whose close was refused leaves its stream open |
| `pools_dynamic` | `MCNngPool`, `PoolsDynamic.cfg` | finding: an untyped UDF uses a pool that a quiesce has freed |
| `aggregates_repeat` | `MCAggregates`, `AggRepeat.cfg` | finding: a target named twice in one combine loses rows |
| `udf_explain` | `MCUdfRegistry`, `UdfExplain.cfg` | finding: the counters of `rducks_explain_udf` are those of another overload than the rest of its row |
| `registry_enable` | `MCRuntimeRegistry`, `RegistryEnable.cfg` | finding: no connection can be enabled after the final release of a file that stays open |
| `releases` | `MCSession`, `Releases.cfg` | finding: a release of another runtime in the middle of a release makes it fail half way |
| `plans` | `MCVectors`, `DataPlans.cfg` | finding: a UNION that is NULL is skipped here and passed to R by a worker |

What the passing runs show, property by property:

* Queue: `QueueLinksPending` (the list holds just the pending requests, once),
  `RunningIsBorrowed` (what a drainer points to is on the stack of a waiting thread),
  `GaugesExact` (the guarded decrements hide nothing), `BatchUniform`, `RightDrainer`,
  `JoinNeverSelfBlocked`, `NoEvaluationAfterStop`, `ContractKept` (the refinement),
  `LegacyCallReturns`, `StoppedCallReturns`.
* Streams: `QueryCovered` (the guard is held and the connection open for as long as
  the driver or a callback lives), `OneQueryPerConnection`, `NothingLeftBehind` (nothing
  points to a freed entry; back in R nothing is left over), `PlanFitsStreams` (a plan
  is not changed under a stream, and R code that runs inside an operation is refused
  whatever it asks), `CallsBelong` (a call carries the owner of its own query, and a bind on
  another connection captures no owner), `NoCallbackInTeardown`,
  `TeardownEnds`, `InterruptReturns`.
* Pools: `InUseIsAlive`, `SoleOwner`, `CountsExact` (references, pending requests within
  `ipc_max_pending`, the two process-wide gauges), `SleeperAwaited` (a sleeping closer
  has a request whose release will wake it: with the scheduling of those requests
  that is why a quiesce ends). Queries: `RowsOnce`, `OnlyRThreadInR`.
* Objects: `PreserveExact` of aggregates and of table streams, `NothingLost`,
  `InUseIsHeld`, `ClosedInTime`, `ExactOrError`, `EvaluatorsHeld`.
* Registered UDFs: `LookupExact` (a lookup finds a live UDF of the name if there is one; which
  of several is another matter, see section 5).
* Lifecycle: `ServesItsDatabase`, `AnchorsHold`, `ReleaseSparesOthers`.
* Providers: `CallableIsServed` (wherever a chunk of a registered UDF is sent, a worker
  serves that knows it, until it has crashed or has learnt `RegistryMax` others),
  `NoWorkerAstray` (no process stays behind that no release will stop).
* Values: `WireFaithful` (with its part `RoundTrip`), `EvaluatorsAgree` (with
  `BatchSliced`).

### Bounds, and why they are enough

* Queue: a worker and the helper are a seed and a peer, or one request that is
  popped and one that is withdrawn or arrives between the two critical sections of a
  batch; in `queue_managed` a self-test drainer runs beside the R thread.
  `BatchMaxRequests = 2`, `BatchMaxRows = 3` and `DrainMax = 2` put each limit within
  reach of two requests of one and two rows. `MaxCalls` bounds submissions of one
  thread; with 2, a request is reused while a drainer may still be about it. `MaxGen`
  bounds interrupts; with 1, two requests differ in their generations. Counters are
  bounded only by these. The theorems lift all of these bounds for safety; liveness
  speaks of one thread, and a drain, a batch and a stop need no third.
* Streams: two entries are enough for a stream and one that fails beside it, is
  queued behind it in a release, or takes over its connection; two connections for
  a refresh; two workers for a batch whose callbacks are at different stages.
* Calls: three requests against `MaxPending = 2` exceed the limit; two pools and two
  UDFs, one external and untyped, let a slot be replaced while the old pool drains.
* Registered UDFs: five registrations of three names, two of one hash, grow an index that
  starts at `LeastBuckets = 1` (64 in the code) twice, so that chains are turned and
  turned back. One thread executes them (`OnlyOneExecutes`), it or the R thread destroys them, and
  at most two of its releases wait or have leaked (`TwoWait`).
* Queries: five rows in chunks of two end in a short chunk, and three threads
  overshoot the end twice.
* Aggregates: three states are a copy, a merge into it, and a bystander; four
  objects leave a fresh one for each result; three rows, one with a NULL argument.
  `MaxOwed` bounds releases that other threads leave for the R thread (table streams
  leave several).
* Table streams: `MaxBatches` batches of a stream; `MaxDepth = 3` frames, which is a
  scan whose `next_batch` runs a query whose drain runs a close that drains.
* Providers: a runtime with two workers of its own and one with a worker of the user;
  two UDFs with `RegistryMax = 1` (4096 in the code), so that the second makes a worker
  forget the first; `MaxAttempts = 2` starts of two processes each
  (`MaxProcesses = 4`). At a time, one process has crashed (`OneCrashes`) and one has requests that it
  will serve late (`OneIsLate`), of which there may be two, in either order. The tries of a
  request are not bounded.
* Runtimes: a database in memory and one in a file with two connections, at two
  addresses, so that they are open together or one after the other at one address;
  `MaxEntries = 3` is one entry more than databases.
* Values: three rows of one column of each kind of nesting, with values that do not fit,
  NULLs at each depth, empty lists, repeated keys, and structs with a field missing, with
  one too many, and without names; slices of up to `MaxSlice = 2` entries.

Deadlock is checked except in the queue, where all threads may have used up
`MaxCalls` and the program rests.

### Fairness

Two runs have liveness properties, `queue_managed` and `query`.

* A thread that can take a step of its own goes on (weak fairness of each
  submitter, drainer and driver): the operating system schedules it. Nothing makes
  DuckDB submit, R drain, or anybody stop a stream.
* Strong fairness of the end of the R thread's poll: `ext/rducks_worker_queue.c`
  spins a bounded number of times and an idle window, so other steps in between
  cannot keep it there for ever.
* R callbacks return. An interrupted query starts finitely many further callbacks,
  since DuckDB checks its interrupt flag between chunks; one that is not interrupted
  may run for ever, and no property says otherwise.

## 4. Proofs

Each theorem holds for every value of the constants that meets the assumptions named
here; TLC evaluates the ASSUMEs of the modules in the runs.

`WorkerQueueProofs`, for any number of threads, drainers, owners and UDFs and any limits
(`ConstantsAssumption`):

* `Invariant`: `Spec => []QueueInv`;
* `TypeCorrect`, `ListIsExact`, `BorrowsAreSafe`: `TypeOK`, `QueueLinksPending` and
  `RunningIsBorrowed`, which follow from it.

`RunningIsBorrowed` alone is not inductive: a drainer at "finishing" may answer a
request only if that request is in its batch, and a thread may go home from
"waiting" only in a state that no drainer gave it. So the invariant adds where
program counters and requests agree (`PcAgrees`), what a drainer's locals are worth
at each place and who holds the lock during a peer search (`DrainerAgrees`), and
that the list holds just the pending requests (`QueueLinksPending`), without which
a pop could take a request that left. Each action has a step; most disturb one or
two conjuncts, and lemmas state what the frame of an action keeps.

On top of these: `BatchesAreUniform`, `DrainersAreRight`, `JoinNeverBlocks`, `StoppedQueriesStayOut`, and `QueueKeepsContract`, the refinement
`Spec => ContractKept`. The steps of the queue are first classified by what they do to
requests (one begins, goes on, returns; a drainer takes one, evaluates, publishes;
or nothing: `StepKinds`), and everything else is shown per kind. The invariant
`LoanInv` adds to `QueueInv` that the R thread is not in a drain while it joins or is
in R (`ModeAgrees`), that the helper submits an unmanaged call (`HelperAgrees`), that a
request is evaluated when its batch is and not before (`EvalsAgree`), and what a
submission is about to return (`AnswersAgree`). For the refinement, a batch is
uniform (so one `Run` of one query covers it), a batch that was answered well was
evaluated, and the part of request k was computed from request k.

In the same module, `GaugesAreExact`: each gauge is the cardinality of a set of
threads. A lemma says what a step that concerns one thread does to the three sets, and
each action is shown to move at most its own thread into or out of them; where a gauge is
decremented behind a `> 0` guard, the thread that leaves its set shows that the guard is
true.

`QueryStreamProofs`, for any streams, workers, connections and limits
(`StreamAssumption`): `QueriesAreCovered`, `ConnectionsAreExclusive`, `NothingIsLeftBehind`,
`PlansFit`, `CallbacksBelong` and `TeardownIsSilent`. None is inductive: an entry that
an error leaves on the R thread's hands is in no list, so the invariant `StreamInv` says of
every place of the R thread who holds each allocated entry (`Places`), on whose behalf the
thread works (`Entrances`), what the runtime's pointers name (`Pointers`), which
entry holds the connection (`Connections`), the plan (`Plans`), the guard and the driver
(`Drivers`), and that a call under way has a driver that waits for it (`CallsOfDrivers`).
Each action has a lemma, with a step for each of these parts. `PlansFit` needs besides that
R code runs only while the service is active (`Served`): a call that entered R has a driver
that waits for it, whose entry is in the list and busy (`CodeIsServed`). Hence an operation
enters, and a plan changes, from outside of all others (`EntersFromOutside`), which is what
the lemmas of the actions start from.

`CallsProofs` has two systems. Client pools: `PoolsInUseAreAlive`, `PoolsHaveOneOwner`, `SleepersAreWoken` and
`CountsAreExact`, for any number of requests, closers, UDFs, pools and clients, under one
assumption: `Dynamic \subseteq External`, an untyped UDF has an external pool. Without it
the first is false, as run `pools_dynamic` shows. The invariant says who may touch
a pool (a request by its reference, a slot, one closer), which of them exclude
each other while `runtimeLock` is held, and that a closer that tested the references
under the pool's lock cannot miss the last release.

Queries over a parallel range, in the same module: `RIsEnteredByItsThread` and `RowsAreEvaluatedOnce`, for any range,
chunk size, threads and plans, with finitely many DuckDB threads (at least one, for the
second: the R thread of a managed query takes no chunks). The invariant says that the
chunks at work are below the cursor and apart, that their rows are not evaluated
yet while they last, and that every row below the cursor is evaluated, at work, or
in a chunk that failed.

`RuntimeProofs`: `AnchorsCorrect`, `ServesCorrect` and `ReleaseCorrect`, for any
databases, connections and addresses (`RegistryAssumption`). `AnchorsHold` is inductive
once it is known that the table of attachments has a place for each connection and that a
release under way is one of a connection. `ServesItsDatabase` is not: whether an entry
that a database finds is its own depends on when the entry's first database was closed and
how far it was loaded. `RegistryInv` says so (`OfHome`, `OneEach`, `Reused`), and that
a database is bound to an entry exactly from `rducks_runtime_token` on (`Bound`). Every
outcome of LOAD is first reduced to one of three moves (it finds an entry, makes one, has
none), which are shown to keep it. `ReleaseSparesOthers` needs besides that the
token of a connection, if any runtime still has it, names the entry of its own catalog
(`TokensInv`), so that the entry a release closes is the one it asked about, and what the
release found stays true until it is over (`ReleaseInv`).

In the same module, `EvaluatorsAreHeld`, for any registrations, objects and threads
(`UdfAssumption`). The holds on an object that the heap does not account for itself are not
changed by a drain, grow by one with a registration and shrink by one when a thread gives
the object up, at once, by a node of the queue or by a leak; the invariant equates them
with the registrations that use the object.

There too, `LookupsAreExact`, for any registrations, names and hash function. `LookupExact` says
what a lookup finds, but not in which order a chain of the index has its UDFs, which
depends on what was registered, released and rebuilt before. The invariant `LookInv` says it:
the list has each live UDF once, newest first, each chain has the UDFs of its hash once,
and of two UDFs in a chain the first came after the last rebuild and the second did not, or is the
newer of two that both came after it, or the older of two that did not come after it
(`Precedes`: a rebuild goes through the list from
the newest and pushes each in front). For the rebuild itself, an induction over the list shows
that its first k UDFs are in the chains, in the reverse order. What a lookup
finds is then the first place in one chain that has the name: a UDF of that name if one is
registered, not necessarily the newest. TLC checked `LookInv` on the
instance of run `calls` first.

There too, `CallsAgree` and `BatchesAgree`, about `RowEvaluation`: for any R function, values and
checks of values (`Fits`), any rows with any of them skipped, and any number of chunks, each of
which may be empty. A call for each row gives what one call for the rows of a chunk gives, and a
call for several chunks gives each of them what a call for it alone gives; all of them
are refused if any row is. Both have two hypotheses, which the code makes necessary: errors
are raised (with "return_null", an error makes one row NULL, or the whole chunk), and the
function gives as many results as it gets rows. The proofs say by induction over rows what
row k has added to the result and to the arguments R saw (`ByRowUpto`, `PicksUpto`), and by
induction over chunks where each chunk is in the columns of the batch (`JoinsUpto`,
`CountsSplit`): every row of the batch is a row of one chunk, and the cut at `RowsBefore`
gives it back.

There too, `ArgumentsArrive`, `ResultsComeBack`, `ResultsAreAccepted` and `RowsReadBack`, about
`VectorLayers`: for columns of any type, however deep, and any number of rows. What a worker
decodes of a wire vector is what the direct evaluator would have read; results a worker encodes
are read from DuckDB's vector unchanged; no wire vector of results is refused; and results that
the direct evaluator writes row by row are read unchanged too. A STRUCT of R is a list that has names, by which a worker takes its fields, or has
none, when the direct evaluator takes them by position and a worker finds nothing; the
theorems about results are about lists with names. The recursive operators
themselves cannot be named in a theorem, so the theorems are about the tree they walk: a
column and its children are nodes of `D`, with a type and a height each, and what `Read`, `Write`,
`Encode`, `ToValues`, `FromValues` and `WriteBack` have at a node is given by their equations
(`ReadOver`, `WriteOver`, `EncodeOver`, `DecodeOver`, `PackOver`, `ReceiveOver`: one layer applied to
the nodes of the children). A column of results has no other hypothesis than that its values are
of its type at every node (`ValueTree`); an argument's vector has in the rows that are not NULL
what DuckDB puts there (`Sound`: entries are pairs of counts, tags name members), and nothing
is said of the others. TLC found these hypotheses true in every state of run `query`. An
induction over heights (`ByHeight`) leaves one layer to show (`LayerArrives`, `RowReturns`), row by
row and kind by kind. What makes it hard are the children that rows of lists share: a child has
at least the rows that entries refer to (`ExtentIs`), the elements of row i begin
after those of the rows before it (`OffsetIs`), and cutting what was joined there gives
the row back (`PartIs`). For rows that are written there is a second induction, over the rows
written so far (`RowsAreWritten`): the vector has the rows written (`HasRows`), its children are what
their own writers have after the elements of those rows (`Fed`, with the places of
`PlacesOfRowsExist`), and the next row changes neither (`RowsStay`).

The inductions over rows, chunks and lists rest on lemmas `LeastElement`, `Induction` and
`Recursion`. The induction theorems of the library take an operator as a parameter, which the
installed back ends cannot instantiate; these speak of sets and functions instead, and follow
from `NatLessThanWellFounded` and `WFMin`.

`PreservedReleaseProofs` has no theorem of a system: it says what each operator of the
release queue does to the holds on an object that the heap does not account for, and is
used by the proofs about UDFs, aggregates and table streams.

`TableStreamsProofs`: `StreamsPreservedExactly`, `StreamsInUseAreHeld`, `StreamsClosedInTime`
and `RowsExactOrError`, for any binds, scans, streams, threads, batches and depth of the
R thread's stack (`TableAssumption`). The hard part is that user code may run below any
frame: `next_batch`, `close` and table functions run queries that enter Rducks, drain, free
and scan. So the invariant `TablesInv` says of each frame on the stack what it relies on
when it goes on (`FrameOK`: the scan is still open, the bind is still free, the
stream it releases is closed, the nodes it detached are of streams no bind holds), and that
no two frames do the same job (`ShapeOK`). A step is shown to change the top of the stack
only (`TopMoves`, `Pushes`) and to leave what the frames under it rely on (`Kept`,
`FrameKept`). With that, a bind counts its references and owns its stream alone (`BindsOK`),
and the holds on a stream are those of its bind and of the detached nodes, of which a
drain takes one at a time (`HoldsOK`). TLC checked `TablesInv` on the instance of run
`session` first.

`AggregatesProofs`: `AggregatesPreserveExactly` and `AggregatesLoseNothing`, for any states,
rows, objects, threads and bundles of callbacks (`AggregateAssumption`: objects that are
changed in place come with a copy callback, as `docs/AGGREGATES.md` asks of the user). The
second has a hypothesis, `~RepeatTargets`: DuckDB names no target twice in one combine. Run
`aggregates_repeat` shows that it is needed. `PreserveExact` becomes inductive once the
work in progress fits the states it names (`Fits`: none of them is destroyed or the
source of one pair and the target of another, and what is still to be copied is an object).
`NothingLost` speaks of the time between two batches only, so the invariant says of every
moment that the rows due to a state are those it holds, or will hold when the results
in hand are stored, and those still to come from the rows, copies and merges that are left
(`Kept`). That a step keeps it rests on who may share an object: a
result is in no state but the one it is for, no object is in two states that are changed in
place, and no state has two results or two moves into it (`Apart`). An object that is not
preserved is in no state, by the first theorem's invariant; so a new object is nobody's
(`FreshFree`). TLC checked this invariant on a small instance first.

`ProviderProofs`: `CallablesAreServed` and `WorkersAreFound`, for any UDFs, runtimes, keys,
endpoints, attempts and limits (`ProviderAssumption`: processes of ours are not the user's,
counts and limits are positive). Neither is inductive. While R waits for a worker, a finalizer
may release another runtime, a request given up may still be served and a worker may crash; so
the invariant `ProviderInv` says what each frame relies on when it goes on (`CallOK`,
`ReleaseOK`): the provider it starts is in the store and not started, its
processes were launched for it (`Its`), and every worker that is no longer to be asked serves
or has crashed (`Ready`) or, in a registration, has heard of the UDF (`Knows`). Two frames are
about two runtimes, and only the outermost registers (`Shape`). A step is shown to confine its
effects to one runtime (`Confined`) and to workers of one provider (`Kept`), which leaves the
other frames what they rely on (`OthersKept`). A stop request can be late only while its
provider is being stopped (`LateOK`), so it ends no other worker's loop. For
the first theorem, a worker's `order` is the end of `heard`, each UDF once (`MemoryOK`): a
UDF that is not known any more has `RegistryMax` newer ones. For the second, a process
that lives belongs to a started provider or to one that a frame is starting (`PeersOK`); with no
frame, the first remains. TLC checked this invariant on two small instances first.

Only model-checked: liveness, which is outside this prover, as is `ENABLED`; and, of the
properties of values, `Encodable` in `WireFaithful`, the reading of a vector that DuckDB has sliced
in `RoundTrip`, and the part of `EvaluatorsAgree` that composes evaluation with conversions. They,
and `WireFaithful` as a whole, are stated with the RECURSIVE operators of `DuckVectors` and
`QuackVectors`, for which the prover has no SMT back end; what is proved is about their layers.

## 5. Findings

* `pools_dynamic`, `ext/rducks_runtime.c`: a call of a UDF without declared argument
  types copies the metadata before it takes the runtime lock, the pointer to the
  client pool included; a quiesce in between finds no reference and frees the pool.
* `aggregates_repeat`, `ext/rducks_aggregate.c`: pairs of a combine are sorted into
  copies and merges by what their targets held *before* the batch. If an empty
  target occurs twice, both sources are copied and the first is lost. That DuckDB
  may name a target twice in a batch is an assumption about DuckDB: its interface
  does not exclude it, and a hash table merged from several parts combines rows of
  one group.
* `stream_garbage`, `R/query_stream.R`: the finalizer of a stream handle tries to
  close once, inside `try()`. If R collects the handle while the bridge is active,
  the close is refused as recursive and never repeated, although
  `docs/EXECUTION_PLANS.md` says that garbage collection closes the stream.
* `registry_enable`, `R/connection.R` and `docs/ARCHITECTURE.md`: the final release of
  a file-backed database closes the runtime's connections and advances its
  generation. The catalog still names that runtime, so `rducks_enable` on this or
  any other connection is refused before LOAD for as long as the database stays
  open; a registration attaches the connection before it fails, and the next
  `rducks_release` is refused as well.
* `releases`, `R/provider_nng.R`: the release of a runtime lists the keys of all
  providers once and reads each record with `get()` outside its `tryCatch`. While it
  waits for workers to stop, the finalizer of a connection of another runtime may
  remove a key of that list; the `get()` then fails, and `rducks_release` ends before it
  removes the anchors of its runtime and closes the connections of a file. Its
  attachment is forgotten by then, so it cannot be repeated.
* `plans`, `R/aaa_eval_scalar.R`: `docs/EXECUTION_PLANS.md` says that plans do not change
  the semantics of a scalar UDF. A worker does not see that a UNION is NULL and calls R
  for it. Three more differences are excepted by `Comparable` in `EvaluatorsAgree`, each named
  in its comment: a STRUCT that R returns as a list without names passes the check of
  results (`R/type_check.R`, 124), is written by position by the direct writer
  (`ext/rducks_rc.c`, 1256), and reaches DuckDB from a worker with all its fields NULL
  (`R/native_chunk.R`, 341); an INTEGER of -2147483648 is NULL to a worker that evaluates by
  row; and a MAP with a NULL key or a key twice is refused by the direct writer but written
  when a worker returns it.
* `udf_explain`, `ext/rducks_runtime.c` and `R/explain.R`: R keeps one record for a name, that
  of the last registration, and `rducks_explain_udf` shows it with counters that it asks for
  by name. The native lookup finds the newest overload, because a registration goes to the front
  of its bucket; but a rebuild goes through the list from its newest UDF and puts each in front,
  which turns the buckets round. Once the index has grown (at the 129th UDF), the counters of
  an overloaded name are those of its oldest UDF. `LookupExact` says only what holds: that
  the UDF found has the name.

Observed while modelling, without a run of their own:

* An entry left not ready by a LOAD that failed half way is returned to whatever
  database is at its address next, without the check for stale aliases that a ready
  entry gets. Without that exception in `ServesItsDatabase` TLC finds it in
  seven steps: a LOAD that fails, a close, a new database at the same address, and
  a LOAD that binds the new catalog to connections of the old database.
* The release of the connections runs as a SQL statement, which DuckDB may execute on
  a thread of its own, where it is refused; the error is swallowed
  (`ReleaseElsewhere`), and the file stays open. A LOAD that failed after the token
  but before the thread functions leaves `rducks_enable` failing in its preflight.
* The evaluator's counts of an untyped UDF go to the copy of its metadata and are
  lost, although `R/explain.R` sums them up as those of the UDF; `RowsOnce` speaks of
  typed UDFs there.
* The maxima of two gauges are reset without regard to updates under way
  (`ext/rducks_runtime.c`, 577-580), so a maximum may be below a value seen later
  (`R/explain.R`, 240-241).
* A user who interrupts the start of a provider (`R/provider_nng.R`, 865-882) leaves it in
  the store unstarted with its processes running: `tryCatch(error = )` does not catch
  interrupts, and a stop of an unstarted provider does not stop daemons.
* Each try of a registration waits at most 0.25 s for its answer (`R/provider_nng.R`, 366),
  so a worker that needs longer to load the packages of a UDF answers to nobody; the
  registration is sent again and again until one is quick enough or `ipc_timeout` is over.
* A quiesce compares the gauge of open pools with a number of external pools that its
  caller names (`ext/rducks_nng.c`, 748): if one of those is dropped meanwhile, a local
  one may stand in for it.

## 6. Not modelled, and why

* Queue: nested R callbacks that re-enter the queue on the R thread (they would make
  the drain a stack of drains, in which each inner one is again the drain that is
  modelled), and drain statistics.
* Scalar dispatch: the refusal of a chunk of a managed query on the R thread
  (`ext/rducks_scalar_dispatch.c`, 117-121). The driver and DuckDB's threads execute such
  a query; the R thread only pumps, so no chunk arrives on it.
* Aggregates: callbacks that return NULL, which leaves a state empty (`docs/AGGREGATES.md`,
  15; `ext/rducks_aggregate.c`, 55-57). A row or two states make an object in the model.
* Streams: errors raised through SQL functions by a long jump, the record of the
  guard's reservation, and the wording of an error when the guard cannot be released
  (`rducks_query_stream.c`, 725; `Unguard` has the failure itself).
* Pools: the choice of a client by load and the verdict of a quiesce, which changes
  no state.
* Tables: results that are data frames; the refusal of a scan on a thread that is not
  the R thread (`rducks_table.c`, 1189-1194), which leaves the stream as it was; the capacity of a data chunk, which is DuckDB's
  and not stated in the repository (`rducks_table.c`, 623).
* Registry: the thread settings and backends of a plan, the processes of a provider
  (`Provider` has those), reconnecting to an open database. Reopening or refreshing a
  ready runtime is reached by no sequence of operations: DuckDB does not enter LOAD
  again once it succeeded in a database. `QueryStream` has what a refresh would do
  to its streams.
* Values: number formats (decimal, interval, UUID, bit, dates), the bytes of frames,
  bulk writes of vectors of one scalar type, and the entry struct of a MAP, which is
  never NULL. They are conversions of one value, which tests reach.
* Type descriptors and R argument checks: pure functions whose results the modules
  take as given. Package plumbing has no state of the running extension.
* Vendored code (NNG, Mbed TLS, the headers of eight DuckDB versions) is external.

## 7. What comes next

1. Scalar conversions against reference definitions over bounded inputs.
2. Of the safety properties that hold, two are not proved as they stand: `WireFaithful` and
   `EvaluatorsAgree`, because they name recursive conversions. The parts that are left are
   `Encodable` and the slices of `RoundTrip`, from an invariant of the steps of `DuckVectors`.
