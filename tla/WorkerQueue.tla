----------------------------- MODULE WorkerQueue -----------------------------
(***************************************************************************)
(* The extension-owned callback queue: DuckDB threads that may not call R  *)
(* hand a stack-allocated request to the recorded R thread and wait for    *)
(* it (tools/ext/src/rducks_worker_queue.c).                               *)
(*                                                                         *)
(* A thread of Threads has at most one request at a time (it is a local    *)
(* variable of the submitting function), so the request is named by its    *)
(* thread.  A critical section of queue_lock is one action; the only       *)
(* critical section that is a loop, the search for coalescing peers, is    *)
(* taken one list node at a time with lockHolder set.  Nested R callbacks  *)
(* that re-enter the queue on the R thread are not modelled.               *)
(***************************************************************************)
EXTENDS Integers, FiniteSets, SequencesExt

CONSTANTS
  Threads,      (* threads that submit: DuckDB workers and the helper       *)
  Helper,       (* the helper the R thread spawns for a chunk of its own    *)
  Drainers,     (* threads that drain: the R thread and self-test drainers  *)
  Main,         (* the recorded R thread                                    *)
  NoDrainer,
  Owners,       (* query owners of managed streams                          *)
  NoOwner,
  Metas,        (* registered UDFs                                          *)
  Calls,        (* the chunks that may arrive: see CallType                 *)
  NoCall,
  NoThread,
  BatchMaxRequests,  (* RDUCKS_QUEUE_BATCH_MAX_REQUESTS                     *)
  BatchMaxRows,      (* RDUCKS_QUEUE_BATCH_MAX_ROWS                         *)
  DrainMax,          (* RDUCKS_QUEUE_DRAIN_MAX_REQUESTS                     *)
  MaxCalls,          (* bound: chunks one thread submits                    *)
  MaxGen             (* bound: user interrupts seen by a legacy wait        *)

(* owner: the query owner captured at bind, or NoOwner; batchable: a static
   coalescing RCV signature; diag: a self-test request that holds no R state,
   and for whose null UDF one of Metas stands *)
CallType == [owner: Owners \cup {NoOwner}, meta: Metas, rows: 0..BatchMaxRows,
             batchable: BOOLEAN, diag: BOOLEAN]

ASSUME ConstantsAssumption ==
  /\ IsFiniteSet(Threads)
  /\ Helper \in Threads
  /\ NoThread \notin Threads
  /\ Main \in Drainers
  /\ NoDrainer \notin Drainers
  /\ NoOwner \notin Owners
  /\ BatchMaxRequests \in Nat \ {0}
  /\ BatchMaxRows \in Nat
  /\ DrainMax \in Nat \ {0}
  /\ MaxCalls \in Nat
  /\ MaxGen \in Nat
  /\ Calls \subseteq CallType
  /\ NoCall \notin Calls
  /\ \A c \in Calls : c.diag => c.owner = NoOwner /\ ~c.batchable

VARIABLES
  queue,        (* queue_head .. queue_tail                                 *)
  lockHolder,   (* the drainer inside the peer search, or NoDrainer         *)
  pc,           (* where each submitting thread is                          *)
  state,        (* request->state, "none" while the thread has no request   *)
  call,         (* the request's meta, owner, input                         *)
  gen,          (* request->cancel_generation                               *)
  result,       (* whose input rc_result_chunk was computed from            *)
  replyOk,      (* request->ok                                              *)
  outcome,      (* what the thread's last submission returned               *)
  evals,        (* history: R evaluations of the current call               *)
  calls,        (* bound: submissions made by each thread                   *)
  cancelGen,    (* runtime->queue_cancel_generation                         *)
  stopping,     (* owner->stopping                                          *)
  ownerError,   (* owner->error is set                                      *)
  stats,        (* queue_submitted, _executed, _timeouts, _pending_current,
                   _running_current; withdrawn is a history count           *)
  metaPending,  (* queue_pending of each UDF                                *)
  workersSeen,  (* queue_worker_submits > 0                                 *)
  mode,         (* what the R thread is doing                               *)
  pumped,       (* the owner whose command the R thread waits for           *)
  interrupted,  (* the local of rducks_queue_submit_scalar_via_worker...    *)
  mainOutcome,  (* what the R thread's last own chunk returned to DuckDB    *)
  dpc,          (* where each drainer is in rducks_queue_drain_impl         *)
  batch, rows, scan, batchOk, fin, drained   (* its locals                  *)

submitVars == <<pc, state, call, gen, result, replyOk, outcome, evals, calls>>
drainVars  == <<dpc, batch, rows, scan, batchOk, fin, drained>>
ownerVars  == <<stopping, ownerError>>
mainVars   == <<mode, pumped, interrupted, mainOutcome>>
vars == <<queue, lockHolder, submitVars, cancelGen, ownerVars, stats,
          metaPending, workersSeen, mainVars, drainVars>>

-----------------------------------------------------------------------------
Init ==
  /\ queue = <<>>
  /\ lockHolder = NoDrainer
  /\ pc = [t \in Threads |-> "idle"]
  /\ state = [t \in Threads |-> "none"]
  /\ call = [t \in Threads |-> NoCall]
  /\ gen = [t \in Threads |-> 0]
  /\ result = [t \in Threads |-> NoThread]
  /\ replyOk = [t \in Threads |-> FALSE]
  /\ outcome = [t \in Threads |-> "none"]
  /\ evals = [t \in Threads |-> 0]
  /\ calls = [t \in Threads |-> 0]
  /\ cancelGen = 0
  /\ stopping = [o \in Owners |-> FALSE]
  /\ ownerError = [o \in Owners |-> FALSE]
  /\ stats = [submitted |-> 0, executed |-> 0, timeouts |-> 0,
              pending |-> 0, running |-> 0, withdrawn |-> 0]
  /\ metaPending = [m \in Metas |-> 0]
  /\ workersSeen = FALSE
  /\ mode = "r"
  /\ pumped = NoOwner
  /\ interrupted = FALSE
  /\ mainOutcome = "none"
  /\ dpc = [d \in Drainers |-> "idle"]
  /\ batch = [d \in Drainers |-> <<>>]
  /\ rows = [d \in Drainers |-> 0]
  /\ scan = [d \in Drainers |-> 0]
  /\ batchOk = [d \in Drainers |-> FALSE]
  /\ fin = [d \in Drainers |-> 0]
  /\ drained = [d \in Drainers |-> 0]

LockFree == lockHolder = NoDrainer

(* the guarded decrement of an unsigned gauge *)
Dec(n) == IF n > 0 THEN n - 1 ELSE 0

(* rducks_queue_request_cancelled; the variant looks at the generation even of
   a managed request *)
CancelledByGeneration(t) == gen[t] # cancelGen
Cancelled(t) ==
  IF call[t].owner # NoOwner THEN stopping[call[t].owner]
                             ELSE gen[t] # cancelGen

-----------------------------------------------------------------------------
(* The submitting thread.                                                  *)

(* A worker thread's chunk reaches rducks_queue_submit_scalar_collect; unless
   it is a self-test's, the queue learns, under its lock, that workers exist.
   (The generation stored here counts only where GenerationSet.) *)
Arrive(t, c) ==
  /\ t # Helper
  /\ pc[t] = "idle" /\ calls[t] < MaxCalls
  /\ LockFree \/ c.diag
  /\ workersSeen' = (workersSeen \/ ~c.diag)
  /\ calls' = [calls EXCEPT ![t] = @ + 1]
  /\ pc' = [pc EXCEPT ![t] = "arriving"]
  /\ call' = [call EXCEPT ![t] = c]
  /\ gen' = [gen EXCEPT ![t] = cancelGen]
  /\ result' = [result EXCEPT ![t] = NoThread]
  /\ outcome' = [outcome EXCEPT ![t] = "none"]
  /\ evals' = [evals EXCEPT ![t] = 0]
  /\ UNCHANGED <<queue, lockHolder, state, replyOk, cancelGen, ownerVars, stats,
                 metaPending, mainVars, drainVars>>

(* The input snapshot of a worker fails: the callback reports an error, nothing
   was submitted. *)
SnapshotFails(t) ==
  /\ pc[t] = "arriving" /\ t # Helper /\ ~call[t].diag
  /\ pc' = [pc EXCEPT ![t] = "idle"]
  /\ call' = [call EXCEPT ![t] = NoCall]
  /\ gen' = [gen EXCEPT ![t] = 0]
  /\ outcome' = [outcome EXCEPT ![t] = "error"]
  /\ UNCHANGED <<queue, lockHolder, state, result, replyOk, evals, calls, cancelGen,
                 ownerVars, stats, metaPending, workersSeen, mainVars, drainVars>>

(* cancel_generation_set: the thread that started this one captured it *)
GenerationSet(t) == t = Helper \/ call[t].diag

(* rducks_queue_submit_request up to its critical section: the cancel
   generation is captured, unless it was before, and the UDF's pending count
   raised. *)
Submit(t) ==
  /\ pc[t] = "arriving"
  /\ pc' = [pc EXCEPT ![t] = "entering"]
  /\ state' = [state EXCEPT ![t] = "PENDING"]
  /\ gen' = IF GenerationSet(t) THEN gen ELSE [gen EXCEPT ![t] = cancelGen]
  /\ metaPending' = [metaPending EXCEPT ![call[t].meta] = @ + 1]
  /\ UNCHANGED <<queue, lockHolder, call, result, replyOk, outcome, evals, calls,
                 cancelGen, ownerVars, stats, workersSeen, mainVars, drainVars>>

Leaving(t, why) ==
  /\ pc' = [pc EXCEPT ![t] = "leaving"]
  /\ outcome' = [outcome EXCEPT ![t] = why]

Admitted(t) == call[t].owner # NoOwner => ~stopping[call[t].owner]

(* Admission: refused once the owner is stopping, or when the monotonic clock
   cannot be read. *)
Reject(t) ==
  /\ pc[t] = "entering" /\ LockFree
  /\ \/ call[t].owner # NoOwner /\ stopping[call[t].owner] /\ Leaving(t, "cancelled")
     \/ Admitted(t) /\ Leaving(t, "error")
  /\ UNCHANGED <<queue, lockHolder, state, call, gen, result, replyOk, evals, calls, cancelGen,
                 ownerVars, stats, metaPending, workersSeen, mainVars, drainVars>>

(* The push, then the first cancellation test of the wait loop, in the same
   critical section: a request whose generation is already stale is linked and
   unlinked before anybody sees it. *)
Push(t) ==
  /\ pc[t] = "entering" /\ LockFree
  /\ Admitted(t)
  /\ IF Cancelled(t)
     THEN /\ state' = [state EXCEPT ![t] = "CANCELLED"]
          /\ stats' = [stats EXCEPT !.submitted = @ + 1, !.withdrawn = @ + 1]
          /\ Leaving(t, "cancelled")
          /\ UNCHANGED queue
     ELSE /\ queue' = Append(queue, t)
          /\ stats' = [stats EXCEPT !.submitted = @ + 1, !.pending = @ + 1]
          /\ pc' = [pc EXCEPT ![t] = "waiting"]
          /\ UNCHANGED <<state, outcome>>
  /\ UNCHANGED <<lockHolder, call, gen, result, replyOk, evals, calls, cancelGen, ownerVars,
                 metaPending, workersSeen, mainVars, drainVars>>

(* rducks_queue_remove_pending_locked; the variant forgets the list *)
CancelInPlace(t) ==
  /\ \E i \in 1..Len(queue) : queue[i] = t
  /\ state' = [state EXCEPT ![t] = "CANCELLED"]
  /\ UNCHANGED queue
Unlink(t) ==
  /\ \E i \in 1..Len(queue) : queue[i] = t /\ queue' = RemoveAt(queue, i)
  /\ state' = [state EXCEPT ![t] = "CANCELLED"]

(* Woken with the request still pending and cancelled. *)
Withdraw(t) ==
  /\ pc[t] = "waiting" /\ LockFree
  /\ state[t] = "PENDING" /\ Cancelled(t)
  /\ Unlink(t)
  /\ stats' = [stats EXCEPT !.pending = Dec(@), !.withdrawn = @ + 1]
  /\ Leaving(t, "cancelled")
  /\ UNCHANGED <<lockHolder, call, gen, result, replyOk, evals, calls, cancelGen, ownerVars,
                 metaPending, workersSeen, mainVars, drainVars>>

(* only unmanaged requests have a deadline *)
NoDeadline(t) == FALSE
HasDeadline(t) == call[t].owner = NoOwner

(* A legacy request still pending 30 s after its push, or whose clock failed. *)
Timeout(t) ==
  /\ pc[t] = "waiting" /\ LockFree
  /\ state[t] = "PENDING" /\ HasDeadline(t) /\ ~Cancelled(t)
  /\ Unlink(t)
  /\ \E clockFailed \in BOOLEAN :
       /\ stats' = [stats EXCEPT !.pending = Dec(@), !.withdrawn = @ + 1,
                                 !.timeouts = IF clockFailed THEN @ ELSE @ + 1]
       /\ Leaving(t, IF clockFailed THEN "error" ELSE "timeout")
  /\ UNCHANGED <<lockHolder, call, gen, result, replyOk, evals, calls, cancelGen, ownerVars,
                 metaPending, workersSeen, mainVars, drainVars>>

(* The thread gives up its stack frame: the request no longer exists. *)
Forget(t) ==
  /\ pc' = [pc EXCEPT ![t] = "idle"]
  /\ state' = [state EXCEPT ![t] = "none"]
  /\ call' = [call EXCEPT ![t] = NoCall]
  /\ gen' = [gen EXCEPT ![t] = 0]
  /\ replyOk' = [replyOk EXCEPT ![t] = FALSE]

(* the variant leaves without lowering the gauge *)
LeaveCounted(t) ==
  /\ pc[t] = "leaving"
  /\ Forget(t)
  /\ UNCHANGED <<queue, lockHolder, result, outcome, evals, calls, cancelGen, ownerVars, stats,
                 metaPending, workersSeen, mainVars, drainVars>>

(* Refused or withdrawn: the pending count is lowered after the unlock. *)
Leave(t) ==
  /\ pc[t] = "leaving"
  /\ metaPending' = [metaPending EXCEPT ![call[t].meta] = Dec(@)]
  /\ Forget(t)
  /\ UNCHANGED <<queue, lockHolder, result, outcome, evals, calls, cancelGen, ownerVars, stats,
                 workersSeen, mainVars, drainVars>>

(* the loop condition of the wait; the variant takes a request that is merely
   being run for an answered one *)
NotPending(t) == state[t] \in {"RUNNING", "DONE"}
Answered(t) == state[t] = "DONE"

(* Woken with the request DONE: the answer is read under the lock and written
   back to DuckDB, which can fail; the helper leaves that to the R thread. *)
Collect(t) ==
  /\ pc[t] = "waiting" /\ LockFree
  /\ Answered(t)
  /\ \E written \in BOOLEAN :
       /\ t = Helper => written
       /\ outcome' = [outcome EXCEPT ![t] = IF replyOk[t] /\ written THEN "ok" ELSE "error"]
  /\ Forget(t)
  /\ UNCHANGED <<queue, lockHolder, result, evals, calls, cancelGen, ownerVars, stats,
                 metaPending, workersSeen, mainVars, drainVars>>

-----------------------------------------------------------------------------
(* A draining thread: the R thread, or a self-test drainer.                *)

(* the owner whose requests d drains: NoOwner is the legacy drain *)
DrainOwner(d) == IF d = Main /\ mode = "pump" THEN pumped ELSE NoOwner

StartDrain(d) ==
  /\ dpc[d] = "idle"
  /\ d = Main => mode \in {"poll", "linger", "pump"}
  /\ dpc' = [dpc EXCEPT ![d] = "draining"]
  /\ drained' = [drained EXCEPT ![d] = 0]
  /\ UNCHANGED <<queue, lockHolder, submitVars, cancelGen, ownerVars, stats, metaPending,
                 workersSeen, mainVars, batch, rows, scan, batchOk, fin>>

(* i is the first list node whose request belongs to owner o; the variant
   takes the head *)
HeadOf(o, i) == i = 1 /\ i \in 1..Len(queue)
FirstOf(o, i) ==
  /\ i \in 1..Len(queue)
  /\ call[queue[i]].owner = o
  /\ \A j \in 1..(i - 1) : call[queue[j]].owner # o

(* what the pop of d takes: for the legacy drain the first unmanaged request,
   and only if an off-R drainer is allowed to run it; the variant lets it run
   anything *)
PoppableByAny(d, i) == FirstOf(DrainOwner(d), i)
Poppable(d, i) ==
  /\ FirstOf(DrainOwner(d), i)
  /\ d # Main => call[queue[i]].diag

(* rducks_queue_request_batchable, asked by the R thread alone *)
Batchable(d, t) == d = Main /\ call[t].batchable

(* rducks_queue_pop_locked and rducks_queue_pop_owner_request *)
Pop(d) ==
  /\ dpc[d] = "draining" /\ drained[d] < DrainMax
  /\ LockFree
  /\ \E i \in 1..Len(queue) :
       LET t == queue[i] IN
       /\ Poppable(d, i)
       /\ queue' = RemoveAt(queue, i)
       /\ state' = [state EXCEPT ![t] = "RUNNING"]
       /\ batch' = [batch EXCEPT ![d] = <<t>>]
       /\ rows' = [rows EXCEPT ![d] = call[t].rows]
       /\ dpc' = [dpc EXCEPT ![d] = IF Batchable(d, t) THEN "popped" ELSE "ready"]
  /\ stats' = [stats EXCEPT !.pending = Dec(@), !.running = @ + 1]
  /\ UNCHANGED <<lockHolder, pc, call, gen, result, replyOk, outcome, evals, calls, cancelGen,
                 ownerVars, metaPending, workersSeen, mainVars, scan, batchOk, fin, drained>>

(* The queue lock is taken a second time to look for peers. *)
BeginPeers(d) ==
  /\ dpc[d] = "popped" /\ LockFree
  /\ lockHolder' = d
  /\ dpc' = [dpc EXCEPT ![d] = "scanning"]
  /\ scan' = [scan EXCEPT ![d] = 1]
  /\ UNCHANGED <<queue, submitVars, cancelGen, ownerVars, stats, metaPending, workersSeen,
                 mainVars, batch, rows, batchOk, fin, drained>>

(* u may join the batch that t opened: same UDF, owner, generation and
   execute path, and its rows still fit; the variants forget the generation and
   the rows *)
PeerOfAnyGeneration(t, u, used) ==
  /\ call[u].meta = call[t].meta
  /\ call[u].owner = call[t].owner
  /\ call[u].batchable = call[t].batchable
  /\ call[u].rows <= BatchMaxRows - used
PeerOfAnySize(t, u, used) ==
  /\ call[u].meta = call[t].meta
  /\ call[u].owner = call[t].owner
  /\ gen[u] = gen[t]
  /\ call[u].batchable = call[t].batchable
Peer(t, u, used) ==
  /\ call[u].meta = call[t].meta
  /\ call[u].owner = call[t].owner
  /\ gen[u] = gen[t]
  /\ call[u].batchable = call[t].batchable
  /\ call[u].rows <= BatchMaxRows - used

(* batch[] of rducks_queue_drain_impl is full *)
BatchFull(d) == Len(batch[d]) >= BatchMaxRequests

(* One list node of rducks_queue_pop_batch_peers_locked. *)
ScanPeer(d) ==
  /\ dpc[d] = "scanning"
  /\ scan[d] <= Len(queue) /\ ~BatchFull(d)
  /\ LET u == queue[scan[d]] IN
     IF Peer(batch[d][1], u, rows[d])
     THEN /\ queue' = RemoveAt(queue, scan[d])
          /\ state' = [state EXCEPT ![u] = "RUNNING"]
          /\ stats' = [stats EXCEPT !.pending = Dec(@), !.running = @ + 1]
          /\ batch' = [batch EXCEPT ![d] = Append(@, u)]
          /\ rows' = [rows EXCEPT ![d] = @ + call[u].rows]
          /\ UNCHANGED scan
     ELSE /\ scan' = [scan EXCEPT ![d] = @ + 1]
          /\ UNCHANGED <<queue, state, stats, batch, rows>>
  /\ UNCHANGED <<lockHolder, pc, call, gen, result, replyOk, outcome, evals, calls, cancelGen,
                 ownerVars, metaPending, workersSeen, mainVars, dpc, batchOk, fin, drained>>

EndPeers(d) ==
  /\ dpc[d] = "scanning"
  /\ scan[d] > Len(queue) \/ BatchFull(d)
  /\ lockHolder' = NoDrainer
  /\ dpc' = [dpc EXCEPT ![d] = "ready"]
  /\ scan' = [scan EXCEPT ![d] = 0]
  /\ UNCHANGED <<queue, submitVars, cancelGen, ownerVars, stats, metaPending, workersSeen,
                 mainVars, batch, rows, batchOk, fin, drained>>

(* rducks_queue_fail_owner: the query of a failed managed callback stops. *)
FailOwner(o) ==
  /\ stopping' = [stopping EXCEPT ![o] = TRUE]
  /\ ownerError' = [ownerError EXCEPT ![o] = TRUE]

(* the batch may not be evaluated: its owner is stopping, or the thread may not
   run R; the variant forgets the owner *)
RefusedOffMain(d) == d # Main /\ ~call[batch[d][1]].diag
Refused(d) ==
  LET c == call[batch[d][1]] IN
  \/ c.owner # NoOwner /\ stopping[c.owner]
  \/ d # Main /\ ~c.diag

(* rducks_queue_execute_on_main and rducks_queue_execute_batch_on_main: the
   requests of the batch are evaluated, unless their owner is stopping or the
   thread may not run them. *)
Evaluate(d) ==
  /\ dpc[d] = "ready"
  /\ \E good \in (IF Refused(d) THEN {FALSE} ELSE BOOLEAN) :
       LET o == call[batch[d][1]].owner IN
       /\ batchOk' = [batchOk EXCEPT ![d] = good]
       /\ evals' = [t \in Threads |->
                      IF ~Refused(d) /\ \E k \in 1..Len(batch[d]) : batch[d][k] = t
                      THEN evals[t] + 1 ELSE evals[t]]
       /\ IF o # NoOwner /\ ~Refused(d) /\ ~good THEN FailOwner(o) ELSE UNCHANGED ownerVars
  /\ dpc' = [dpc EXCEPT ![d] = "finishing"]
  /\ fin' = [fin EXCEPT ![d] = 1]
  /\ UNCHANGED <<queue, lockHolder, pc, state, call, gen, result, replyOk, outcome, calls,
                 cancelGen, stats, metaPending, workersSeen, mainVars, batch, rows, scan,
                 drained>>

(* chunks[k], the part of the evaluated batch that belongs to request k; the
   variant hands out the first part *)
FirstChunk(d, k) == batch[d][1]
ChunkOf(d, k) == batch[d][k]

(* rducks_queue_finish_request, before and inside its critical section *)
FinishMeta(d) ==
  /\ dpc[d] = "finishing"
  /\ metaPending' = [metaPending EXCEPT ![call[batch[d][fin[d]]].meta] = Dec(@)]
  /\ dpc' = [dpc EXCEPT ![d] = "publishing"]
  /\ UNCHANGED <<queue, lockHolder, submitVars, cancelGen, ownerVars, stats, workersSeen,
                 mainVars, batch, rows, scan, batchOk, fin, drained>>

Publish(d) ==
  /\ dpc[d] = "publishing" /\ LockFree
  /\ LET t == batch[d][fin[d]] IN
     /\ state' = [state EXCEPT ![t] = "DONE"]
     /\ replyOk' = [replyOk EXCEPT ![t] = batchOk[d]]
     /\ result' = [result EXCEPT ![t] = IF batchOk[d] THEN ChunkOf(d, fin[d]) ELSE NoThread]
  /\ stats' = [stats EXCEPT !.executed = @ + 1, !.running = Dec(@)]
  /\ IF fin[d] < Len(batch[d])
     THEN /\ dpc' = [dpc EXCEPT ![d] = "finishing"]
          /\ fin' = [fin EXCEPT ![d] = @ + 1]
          /\ UNCHANGED <<batch, rows, batchOk, drained>>
     ELSE /\ dpc' = [dpc EXCEPT ![d] = "draining"]
          /\ drained' = [drained EXCEPT ![d] = @ + Len(batch[d])]
          /\ batch' = [batch EXCEPT ![d] = <<>>]
          /\ rows' = [rows EXCEPT ![d] = 0]
          /\ batchOk' = [batchOk EXCEPT ![d] = FALSE]
          /\ fin' = [fin EXCEPT ![d] = 0]
  /\ UNCHANGED <<queue, lockHolder, pc, call, gen, outcome, evals, calls, cancelGen, ownerVars,
                 metaPending, workersSeen, mainVars, scan>>

(* The pop found nothing, or the drain reached its limit.  A lingering R
   thread whose drain found nothing may have used up its idle window. *)
EndDrain(d) ==
  /\ dpc[d] = "draining" /\ LockFree
  /\ drained[d] >= DrainMax \/ ~\E i \in 1..Len(queue) : Poppable(d, i)
  /\ dpc' = [dpc EXCEPT ![d] = "idle"]
  /\ drained' = [drained EXCEPT ![d] = 0]
  /\ \/ UNCHANGED mode
     \/ d = Main /\ mode = "linger" /\ drained[d] = 0 /\ mode' = "join"
  /\ UNCHANGED <<queue, lockHolder, submitVars, cancelGen, ownerVars, stats, metaPending,
                 workersSeen, pumped, interrupted, mainOutcome, batch, rows, scan, batchOk, fin>>

-----------------------------------------------------------------------------
(* The recorded R thread around its drains.                                *)

(* the R thread is in a poll or wait loop, not inside a drain; the variant lets
   it break out of one *)
Anywhere == TRUE
BetweenDrains == dpc[Main] = "idle"

(* rducks_queue_cancel_request *)
RaiseCancel ==
  /\ cancelGen < MaxGen
  /\ cancelGen' = cancelGen + 1

(* DuckDB runs a chunk on the R thread: a helper submits it while the R thread
   polls. *)
SpawnHelper(c) ==
  /\ mode = "r" /\ pc[Helper] = "idle" /\ calls[Helper] < MaxCalls
  /\ c.owner = NoOwner /\ ~c.diag
  /\ mode' = "poll"
  /\ interrupted' = FALSE /\ mainOutcome' = "none"
  /\ calls' = [calls EXCEPT ![Helper] = @ + 1]
  /\ pc' = [pc EXCEPT ![Helper] = "arriving"]
  /\ call' = [call EXCEPT ![Helper] = c]
  /\ gen' = [gen EXCEPT ![Helper] = cancelGen]
  /\ result' = [result EXCEPT ![Helper] = NoThread]
  /\ outcome' = [outcome EXCEPT ![Helper] = "none"]
  /\ evals' = [evals EXCEPT ![Helper] = 0]
  /\ UNCHANGED <<queue, lockHolder, state, replyOk, cancelGen, ownerVars, stats, metaPending,
                 workersSeen, pumped, drainVars>>

(* A user interrupt is seen by the poll loop, between two drains. *)
PollInterrupted ==
  /\ mode = "poll" /\ BetweenDrains
  /\ RaiseCancel
  /\ interrupted' = TRUE
  /\ mode' = "join"
  /\ UNCHANGED <<queue, lockHolder, submitVars, ownerVars, stats, metaPending, workersSeen,
                 pumped, mainOutcome, drainVars>>

(* The helper is done, or the poll loop has spun its limit. *)
EndPoll ==
  /\ mode = "poll" /\ BetweenDrains /\ LockFree
  /\ mode' = IF workersSeen THEN "linger" ELSE "join"
  /\ UNCHANGED <<queue, lockHolder, submitVars, cancelGen, ownerVars, stats, metaPending,
                 workersSeen, pumped, interrupted, mainOutcome, drainVars>>

(* The helper is joined and its result written back. *)
Join ==
  /\ mode = "join" /\ pc[Helper] = "idle"
  /\ mode' = "r"
  /\ \/ interrupted /\ mainOutcome' = "cancelled"
     \/ ~interrupted /\ mainOutcome' = outcome[Helper]
     \/ ~interrupted /\ outcome[Helper] = "ok" /\ mainOutcome' = "error"
  /\ interrupted' = FALSE
  /\ UNCHANGED <<queue, lockHolder, submitVars, cancelGen, ownerVars, stats, metaPending,
                 workersSeen, pumped, drainVars>>

(* A managed native command is pumped for its owner (rducks_query_stream_driver_wait). *)
BeginPump(o) ==
  /\ mode = "r"
  /\ mode' = "pump" /\ pumped' = o
  /\ UNCHANGED <<queue, lockHolder, submitVars, cancelGen, ownerVars, stats, metaPending,
                 workersSeen, interrupted, mainOutcome, drainVars>>

PumpInterrupted ==
  /\ mode = "pump" /\ BetweenDrains
  /\ ~stopping[pumped]
  /\ FailOwner(pumped)
  /\ UNCHANGED <<queue, lockHolder, submitVars, cancelGen, stats, metaPending, workersSeen,
                 mainVars, drainVars>>

EndPump ==
  /\ mode = "pump" /\ BetweenDrains
  /\ mode' = "r" /\ pumped' = NoOwner
  /\ UNCHANGED <<queue, lockHolder, submitVars, cancelGen, ownerVars, stats, metaPending,
                 workersSeen, interrupted, mainOutcome, drainVars>>

(* rducks_queue_stop_owner, from the close of a stream *)
StopOwner(o) ==
  /\ mode = "r" /\ ~stopping[o]
  /\ stopping' = [stopping EXCEPT ![o] = TRUE]
  /\ UNCHANGED <<queue, lockHolder, submitVars, cancelGen, ownerError, stats, metaPending,
                 workersSeen, mainVars, drainVars>>

(* rducks_queue_self_test_cancel_after, from the thread of the self-test *)
SelfTestCancel(d) ==
  /\ d # Main /\ dpc[d] = "idle"
  /\ RaiseCancel
  /\ UNCHANGED <<queue, lockHolder, submitVars, ownerVars, stats, metaPending, workersSeen,
                 mainVars, drainVars>>

-----------------------------------------------------------------------------
SubmitterStep(t) ==
  \/ SnapshotFails(t) \/ Submit(t)
  \/ Reject(t) \/ Push(t) \/ Withdraw(t) \/ Timeout(t) \/ Leave(t) \/ Collect(t)

DrainStep(d) ==
  \/ StartDrain(d) \/ Pop(d) \/ BeginPeers(d) \/ ScanPeer(d) \/ EndPeers(d)
  \/ Evaluate(d) \/ FinishMeta(d) \/ Publish(d) \/ EndDrain(d)

MainStep ==
  \/ \E c \in Calls : SpawnHelper(c)
  \/ PollInterrupted \/ EndPoll \/ Join
  \/ \E o \in Owners : BeginPump(o) \/ StopOwner(o)
  \/ PumpInterrupted \/ EndPump

Next ==
  \/ \E t \in Threads, c \in Calls : Arrive(t, c)
  \/ \E t \in Threads : SubmitterStep(t)
  \/ \E d \in Drainers : DrainStep(d) \/ SelfTestCancel(d)
  \/ MainStep

Spec == Init /\ [][Next]_vars

(* Scheduling: a thread in the queue's code keeps running, a pending legacy
   request ends up timing out, R callbacks return, the poll loop spins a
   bounded number of times and an empty queue outlasts the idle window.
   Nothing makes DuckDB submit, R drain, or a stream stop. *)
Fairness ==
  /\ \A t \in Threads : WF_vars(SubmitterStep(t))
  /\ \A d \in Drainers : WF_vars(DrainStep(d))
  /\ SF_vars(EndPoll)
  /\ SF_vars(EndDrain(Main) /\ mode' = "join")
  /\ WF_vars(Join)

FairSpec == Spec /\ Fairness
-----------------------------------------------------------------------------
StatsType == [submitted: Nat, executed: Nat, timeouts: Nat, pending: Nat, running: Nat,
              withdrawn: Nat]
Outcomes  == {"none", "ok", "error", "cancelled", "timeout"}

SubmitTypes ==
  /\ pc \in [Threads -> {"idle", "arriving", "entering", "waiting", "leaving"}]
  /\ state \in [Threads -> {"none", "PENDING", "RUNNING", "DONE", "CANCELLED"}]
  /\ call \in [Threads -> Calls \cup {NoCall}]
  /\ gen \in [Threads -> 0..MaxGen]
  /\ result \in [Threads -> Threads \cup {NoThread}]
  /\ replyOk \in [Threads -> BOOLEAN]
  /\ outcome \in [Threads -> Outcomes]
  /\ evals \in [Threads -> Nat]
  /\ calls \in [Threads -> 0..MaxCalls]

SharedTypes ==
  /\ queue \in Seq(Threads)
  /\ lockHolder \in Drainers \cup {NoDrainer}
  /\ cancelGen \in 0..MaxGen
  /\ stopping \in [Owners -> BOOLEAN]
  /\ ownerError \in [Owners -> BOOLEAN]
  /\ stats \in StatsType
  /\ metaPending \in [Metas -> Nat]
  /\ workersSeen \in BOOLEAN
  /\ mode \in {"r", "poll", "linger", "join", "pump"}
  /\ pumped \in Owners \cup {NoOwner}
  /\ interrupted \in BOOLEAN
  /\ mainOutcome \in Outcomes

DrainTypes ==
  /\ dpc \in [Drainers -> {"idle", "draining", "popped", "scanning", "ready", "finishing",
                          "publishing"}]
  /\ batch \in [Drainers -> Seq(Threads)]
  /\ \A d \in Drainers : Len(batch[d]) <= BatchMaxRequests
  /\ rows \in [Drainers -> 0..BatchMaxRows]
  /\ scan \in [Drainers -> Nat]
  /\ batchOk \in [Drainers -> BOOLEAN]
  /\ fin \in [Drainers -> 0..BatchMaxRequests]
  /\ drained \in [Drainers -> Nat]

(* Every variable has its type; batch[] never outgrows its array, nor its rows
   the row limit of one R call. *)
TypeOK == SubmitTypes /\ SharedTypes /\ DrainTypes

(* The positions of d's batch that are not answered yet. *)
Open(d) == IF dpc[d] \in {"finishing", "publishing"} THEN fin[d]..Len(batch[d])
                                                    ELSE 1..Len(batch[d])

(* The list holds exactly the admitted pending requests, each once: no request
   is lost, linked twice, or linked after its thread stopped waiting for it. *)
QueueLinksPending ==
  /\ \A i, j \in 1..Len(queue) : queue[i] = queue[j] => i = j
  /\ \A t \in Threads :
       (\E i \in 1..Len(queue) : queue[i] = t) <=> pc[t] = "waiting" /\ state[t] = "PENDING"

(* A RUNNING request lives on the stack of a thread that is still waiting for
   it: whatever a drainer holds a pointer to, its submitter neither timed out,
   nor was cancelled, nor went home; and no two drainers hold the same one. *)
RunningIsBorrowed ==
  /\ \A d \in Drainers : \A k \in Open(d) :
       /\ state[batch[d][k]] = "RUNNING"
       /\ \A e \in Drainers : \A l \in Open(e) : batch[e][l] = batch[d][k] => e = d /\ l = k
  /\ \A t \in Threads : state[t] = "RUNNING" =>
       /\ pc[t] = "waiting"
       /\ \E d \in Drainers : \E k \in Open(d) : batch[d][k] = t

(* A thread with a request has the request's fields, in a state its own code
   put them in or a drainer may have. *)
PcAgrees ==
  \A t \in Threads :
    /\ pc[t] # "idle" => call[t] \in Calls
    /\ pc[t] \in {"idle", "arriving"} => state[t] = "none"
    /\ pc[t] = "entering" => state[t] = "PENDING"
    /\ pc[t] = "waiting" => state[t] \in {"PENDING", "RUNNING", "DONE"}
    /\ pc[t] = "leaving" => state[t] \in {"PENDING", "CANCELLED"}

(* A drainer's locals agree with where it is. *)
DrainerAgrees ==
  \A d \in Drainers :
    /\ dpc[d] \in {"idle", "draining"} => batch[d] = <<>>
    /\ dpc[d] \in {"popped", "scanning", "ready"} => batch[d] # <<>>
    /\ dpc[d] \in {"finishing", "publishing"} => fin[d] \in 1..Len(batch[d])
    /\ dpc[d] = "scanning" <=> lockHolder = d
    /\ dpc[d] = "scanning" => scan[d] >= 1
    /\ dpc[d] \in {"popped", "scanning"} => d = Main /\ call[batch[d][1]].batchable

(* The inductive invariant behind the safety theorems. *)
QueueInv ==
  TypeOK /\ QueueLinksPending /\ PcAgrees /\ DrainerAgrees /\ RunningIsBorrowed

(* A thread counts towards its UDF's pending gauge from before the push until
   it left, or until a drainer is about to publish its answer. *)
CountsPending(t, m) ==
  /\ pc[t] \in {"entering", "waiting", "leaving"} /\ call[t].meta = m
  /\ state[t] # "DONE"
  /\ ~\E d \in Drainers : dpc[d] = "publishing" /\ batch[d][fin[d]] = t

(* On every path by which a call ends, the gauges of pending and running
   requests and of the calls of each UDF agree with the requests, so the guarded
   decrements never hide a double count; and every submission is pending,
   running, executed or withdrawn. *)
GaugesExact ==
  /\ stats.pending = Cardinality({t \in Threads : pc[t] = "waiting" /\ state[t] = "PENDING"})
  /\ stats.running = Cardinality({t \in Threads : state[t] = "RUNNING"})
  /\ stats.submitted = stats.pending + stats.running + stats.executed + stats.withdrawn
  /\ stats.timeouts <= stats.withdrawn
  /\ \A m \in Metas : metaPending[m] = Cardinality({t \in Threads : CountsPending(t, m)})

(* Coalesced requests are interchangeable: same UDF, query owner and cancel
   generation. *)
BatchUniform ==
  \A d \in Drainers :
    \A k, l \in Open(d) :
      LET t == batch[d][k]  u == batch[d][l] IN
      /\ call[t].meta = call[u].meta /\ call[t].owner = call[u].owner /\ gen[t] = gen[u]
      /\ k # l => call[t].batchable /\ call[u].batchable

(* R state is touched by the recorded R thread alone, and a managed query's
   callbacks only by the pump of that query. *)
RightDrainer ==
  \A d \in Drainers : \A k \in Open(d) :
    LET c == call[batch[d][k]] IN
    /\ d # Main => c.diag
    /\ c.owner = DrainOwner(d)

(* While the R thread joins its helper it drains nothing, so the helper must
   not be in its hands: a request left RUNNING here would never finish. *)
JoinNeverSelfBlocked == mode = "join" => state[Helper] # "RUNNING" /\ batch[Main] = <<>>

(* Once a managed query is stopping, none of its callbacks enters R again. *)
NoEvaluationAfterStop ==
  [][\A t \in Threads :
       evals'[t] > evals[t] => \/ call[t].owner = NoOwner
                              \/ ~stopping[call[t].owner]]_vars

(* Every unmanaged call returns to DuckDB, whether or not the R thread ever
   drains. *)
LegacyCallReturns ==
  \A t \in Threads :
    pc[t] # "idle" /\ call[t].owner = NoOwner ~> pc[t] = "idle"

(* Every managed call returns once its query is stopping, although nothing
   else bounds its wait. *)
StoppedCallReturns ==
  \A t \in Threads, o \in Owners :
    pc[t] # "idle" /\ call[t].owner = o /\ stopping[o] ~> pc[t] = "idle"
=============================================================================
