------------------------------- MODULE NngPool -------------------------------
(***************************************************************************)
(* Client pools of IPC scalar UDFs (tools/ext/src/rducks_nng.c and its     *)
(* users in rducks_ripc.c and rducks_runtime.c): DuckDB threads exchange   *)
(* requests with worker processes over the sockets of a pool, while pools  *)
(* are created by the R thread, detached by a quiesce and destroyed with   *)
(* their UDF.                                                              *)
(*                                                                         *)
(* Pools are storage that is used again.  The choice of a client by load,  *)
(* messages and error texts are abstracted; a quiesce check changes no     *)
(* state, so its verdict is left out.                                      *)
(***************************************************************************)
EXTENDS Naturals, FiniteSets

CONSTANTS
  Workers,      (* threads that execute UDFs                                *)
  Closers,      (* threads that create, quiesce or drop                     *)
  Udfs,         (* scalar UDFs of IPC plans                                 *)
  External,     (* those whose endpoints the user provides                  *)
  Dynamic,      (* those registered without argument types                  *)
  Pools,        (* storage for pools                                        *)
  Clients,      (* the sockets of a pool                                    *)
  MaxPending,   (* max_pending                                              *)
  NoOne

ASSUME PoolAssumption ==
  /\ External \subseteq Udfs /\ Dynamic \subseteq Udfs
  /\ NoOne \notin Workers \cup Pools \cup Udfs
  /\ MaxPending \in Nat \ {0}
  /\ IsFiniteSet(Workers) /\ IsFiniteSet(Closers) /\ IsFiniteSet(Pools)

VARIABLES
  runtimeLock,  (* the worker that holds rducks_runtime_lock over two steps *)
  registry,     (* the UDFs of udf_registry_head                            *)
  slot,         (* ripc_client_pool of each UDF                             *)
  alive, closing, refs, pending,   (* of each pool                          *)
  socket,       (* the open sockets                                         *)
  mutex,        (* who holds the mutex of each client                       *)
  activeOps,    (* g_rducks_nng_active_ops                                  *)
  openPools,    (* g_rducks_nng_open_pools                                  *)
  wpc, wudf, wpool, wclient,       (* each worker                           *)
  cpc, cudf, cpool, todo           (* each closer                           *)

poolVars   == <<alive, closing, refs, pending, socket, mutex>>
gaugeVars  == <<activeOps, openPools>>
udfVars    == <<registry, slot>>
workerVars == <<wpc, wudf, wpool, wclient>>
closerVars == <<cpc, cudf, cpool, todo>>
vars == <<runtimeLock, udfVars, poolVars, gaugeVars, workerVars, closerVars>>

Init ==
  /\ runtimeLock = NoOne /\ registry = {} /\ slot = [u \in Udfs |-> NoOne]
  /\ alive = [p \in Pools |-> FALSE] /\ closing = [p \in Pools |-> FALSE]
  /\ refs = [p \in Pools |-> 0] /\ pending = [p \in Pools |-> 0]
  /\ socket = {} /\ mutex = [x \in Pools \X Clients |-> NoOne]
  /\ activeOps = 0 /\ openPools = 0
  /\ wpc = [w \in Workers |-> "home"] /\ wudf = [w \in Workers |-> NoOne]
  /\ wpool = [w \in Workers |-> NoOne] /\ wclient = [w \in Workers |-> NoOne]
  /\ cpc = [c \in Closers |-> "home"] /\ cudf = [c \in Closers |-> NoOne]
  /\ cpool = [c \in Closers |-> NoOne] /\ todo = [c \in Closers |-> {}]

Move(w, l) == wpc' = [wpc EXCEPT ![w] = l] /\ UNCHANGED <<wudf, wpool, wclient>>
Home(w) ==
  /\ wpc' = [wpc EXCEPT ![w] = "home"] /\ wudf' = [wudf EXCEPT ![w] = NoOne]
  /\ wpool' = [wpool EXCEPT ![w] = NoOne] /\ wclient' = [wclient EXCEPT ![w] = NoOne]

-----------------------------------------------------------------------------
(* A request: rducks_ripc_execute                                          *)

(* A UDF without a pool fails and changes nothing. *)
NotConfigured(w, u) ==
  /\ wpc[w] = "home" /\ runtimeLock = NoOne
  /\ slot[u] = NoOne /\ u \notin Dynamic
  /\ UNCHANGED vars

(* The UDF's pool is looked up under the runtime lock. *)
Find(w, u) ==
  /\ wpc[w] = "home" /\ runtimeLock = NoOne
  /\ u \in registry \ Dynamic /\ slot[u] # NoOne
  /\ runtimeLock' = w
  /\ wpc' = [wpc EXCEPT ![w] = "found"] /\ wudf' = [wudf EXCEPT ![w] = u]
  /\ wpool' = [wpool EXCEPT ![w] = slot[u]]
  /\ UNCHANGED <<udfVars, poolVars, gaugeVars, wclient, closerVars>>

(* A call of a UDF without argument types works on a copy of the metadata that
   it takes without the lock, and the pool it looks up is the copy's. *)
Copy(w, u) ==
  /\ wpc[w] = "home" /\ u \in registry \cap Dynamic
  /\ wpc' = [wpc EXCEPT ![w] = "copied"] /\ wudf' = [wudf EXCEPT ![w] = u]
  /\ wpool' = [wpool EXCEPT ![w] = slot[u]]
  /\ UNCHANGED <<runtimeLock, udfVars, poolVars, gaugeVars, wclient, closerVars>>

FindCopied(w) ==
  /\ wpc[w] = "copied" /\ runtimeLock = NoOne
  /\ IF wpool[w] = NoOne THEN Home(w) /\ UNCHANGED runtimeLock
     ELSE Move(w, "found") /\ runtimeLock' = w
  /\ UNCHANGED <<udfVars, poolVars, gaugeVars, closerVars>>

Acquire(w) ==
  /\ wpc[w] = "found"
  /\ runtimeLock' = NoOne
  /\ IF closing[wpool[w]] THEN Home(w) /\ UNCHANGED refs
     ELSE refs' = [refs EXCEPT ![wpool[w]] = @ + 1] /\ Move(w, "acquired")
  /\ UNCHANGED <<udfVars, alive, closing, pending, socket, mutex, gaugeVars, closerVars>>

(* The pending gauge is raised first and taken back when that was too much. *)
Fits(p) == pending[p] + 1 <= MaxPending

Admit(w) ==
  /\ wpc[w] = "acquired"
  /\ pending' = [pending EXCEPT ![wpool[w]] = @ + 1]
  /\ Move(w, IF Fits(wpool[w]) THEN "admitted" ELSE "uncounting")
  /\ UNCHANGED <<runtimeLock, udfVars, alive, closing, refs, socket, mutex, gaugeVars, closerVars>>

(* enter_op, never declined: quiescing is set and cleared under its lock *)
EnterOp(w) ==
  /\ wpc[w] = "admitted"
  /\ activeOps' = activeOps + 1
  /\ \E c \in Clients : wclient' = [wclient EXCEPT ![w] = c]
  /\ wpc' = [wpc EXCEPT ![w] = "locking"]
  /\ UNCHANGED <<runtimeLock, udfVars, poolVars, openPools, wudf, wpool, closerVars>>

LockClient(w) ==
  /\ wpc[w] = "locking" /\ mutex[<<wpool[w], wclient[w]>>] = NoOne
  /\ mutex' = [mutex EXCEPT ![<<wpool[w], wclient[w]>>] = w]
  /\ Move(w, "exchanging")
  /\ UNCHANGED <<runtimeLock, udfVars, alive, closing, refs, pending, socket, gaugeVars, closerVars>>

(* The socket is opened if it has to be; a failed dial, send or receive leaves
   it closed. *)
Exchange(w) ==
  LET x == <<wpool[w], wclient[w]>> IN
  /\ wpc[w] = "exchanging"
  /\ socket' \in {socket \cup {x}, socket \ {x}}
  /\ mutex' = [mutex EXCEPT ![x] = NoOne]
  /\ Move(w, "leaving")
  /\ UNCHANGED <<runtimeLock, udfVars, alive, closing, refs, pending, gaugeVars, closerVars>>

(* The variant does so although enter_op refused. *)
LeaveOpTwice(w) ==
  /\ wpc[w] \in {"leaving", "uncounting"}
  /\ activeOps' = activeOps - 1
  /\ Move(w, IF wpc[w] = "leaving" THEN "uncounting" ELSE "releasing")
  /\ UNCHANGED <<runtimeLock, udfVars, poolVars, openPools, closerVars>>
LeaveOp(w) ==
  /\ wpc[w] = "leaving"
  /\ activeOps' = activeOps - 1
  /\ Move(w, "uncounting")
  /\ UNCHANGED <<runtimeLock, udfVars, poolVars, openPools, closerVars>>

(* the variant forgets it *)
UncountNot(w) ==
  /\ wpc[w] = "uncounting"
  /\ Move(w, "releasing")
  /\ UNCHANGED <<runtimeLock, udfVars, poolVars, gaugeVars, closerVars>>
Uncount(w) ==
  /\ wpc[w] = "uncounting"
  /\ pending' = [pending EXCEPT ![wpool[w]] = @ - 1]
  /\ Move(w, "releasing")
  /\ UNCHANGED <<runtimeLock, udfVars, alive, closing, refs, socket, mutex, gaugeVars, closerVars>>

(* The last reference to a closing pool wakes the closer that waits for it; the
   variant looks before it lets go of its own. *)
WakesEarly(p) == closing[p] /\ refs[p] = 0
Wakes(p) == closing[p] /\ refs[p] = 1

Release(w) ==
  /\ wpc[w] = "releasing"
  /\ refs' = [refs EXCEPT ![wpool[w]] = @ - 1]
  /\ cpc' = [c \in Closers |-> IF cpc[c] = "asleep" /\ cpool[c] = wpool[w] /\ Wakes(wpool[w])
                                THEN "awake" ELSE cpc[c]]
  /\ Home(w)
  /\ UNCHANGED <<runtimeLock, udfVars, alive, closing, pending, socket, mutex, gaugeVars,
                 cudf, cpool, todo>>

-----------------------------------------------------------------------------
(* A new pool: rducks_ripc_configure_meta_on_main, rducks_nng_client_pool_new *)

Step(c, l) == cpc' = [cpc EXCEPT ![c] = l] /\ UNCHANGED <<cudf, cpool, todo>>

Create(c, u, p) ==
  /\ cpc[c] = "home" /\ \A d \in Closers : cudf[d] = NoOne
  /\ u \notin registry /\ ~alive[p]
  /\ activeOps' = activeOps + 1
  /\ alive' = [alive EXCEPT ![p] = TRUE]
  /\ cpc' = [cpc EXCEPT ![c] = "creating"]
  /\ cudf' = [cudf EXCEPT ![c] = u] /\ cpool' = [cpool EXCEPT ![c] = p]
  /\ UNCHANGED <<runtimeLock, udfVars, closing, refs, pending, socket, mutex, openPools,
                 workerVars, todo>>

(* every client is connected, or the pool is given up *)
Created(c) ==
  /\ cpc[c] = "creating"
  /\ socket' = socket \cup ({cpool[c]} \X Clients)
  /\ openPools' = openPools + 1
  /\ Step(c, "created")
  /\ UNCHANGED <<runtimeLock, udfVars, alive, closing, refs, pending, mutex, activeOps, workerVars>>

CreateFailed(c) ==
  /\ cpc[c] = "creating"
  /\ alive' = [alive EXCEPT ![cpool[c]] = FALSE]
  /\ cpool' = [cpool EXCEPT ![c] = NoOne]
  /\ cpc' = [cpc EXCEPT ![c] = "created"]
  /\ UNCHANGED <<runtimeLock, udfVars, closing, refs, pending, socket, mutex, gaugeVars,
                 workerVars, cudf, todo>>

CreateLeaves(c) ==
  /\ cpc[c] = "created"
  /\ activeOps' = activeOps - 1
  /\ Step(c, "publishing")
  /\ UNCHANGED <<runtimeLock, udfVars, poolVars, openPools, workerVars>>

(* The UDF gets its pool and is registered; one without a pool is not. *)
Publish(c) ==
  /\ cpc[c] = "publishing" /\ runtimeLock = NoOne
  /\ IF cpool[c] = NoOne THEN UNCHANGED udfVars
     ELSE slot' = [slot EXCEPT ![cudf[c]] = cpool[c]] /\ registry' = registry \cup {cudf[c]}
  /\ cpc' = [cpc EXCEPT ![c] = "home"]
  /\ cudf' = [cudf EXCEPT ![c] = NoOne] /\ cpool' = [cpool EXCEPT ![c] = NoOne]
  /\ UNCHANGED <<runtimeLock, poolVars, gaugeVars, workerVars, todo>>

-----------------------------------------------------------------------------
(* The end of a pool                                                       *)

Detach(c, U) ==
  /\ todo' = [todo EXCEPT ![c] = {slot[u] : u \in U} \ {NoOne}]
  /\ cpc' = [cpc EXCEPT ![c] = "destroying"]
  /\ UNCHANGED <<cudf, cpool>>

(* rducks_nng_quiesce detaches the pools of the local UDFs under the runtime
   lock, some of them when memory runs out.  The variants do not take the lock,
   or leave the pointers. *)
QuiesceUnlocked(c) ==
  /\ cpc[c] = "home"
  /\ \E U \in SUBSET (registry \ External) :
       Detach(c, U) /\ slot' = [u \in Udfs |-> IF u \in U THEN NoOne ELSE slot[u]]
  /\ UNCHANGED <<runtimeLock, registry, poolVars, gaugeVars, workerVars>>
QuiesceKeeping(c) ==
  /\ cpc[c] = "home" /\ runtimeLock = NoOne
  /\ \E U \in SUBSET (registry \ External) : Detach(c, U)
  /\ UNCHANGED <<runtimeLock, udfVars, poolVars, gaugeVars, workerVars>>
Quiesce(c) ==
  /\ cpc[c] = "home" /\ runtimeLock = NoOne
  /\ \E U \in SUBSET (registry \ External) :
       Detach(c, U) /\ slot' = [u \in Udfs |-> IF u \in U THEN NoOne ELSE slot[u]]
  /\ UNCHANGED <<runtimeLock, registry, poolVars, gaugeVars, workerVars>>

(* DuckDB drops the function once nobody executes it: rducks_r_scalar_meta_destroy. *)
DropUdf(c, u) ==
  /\ cpc[c] = "home" /\ runtimeLock = NoOne
  /\ u \in registry /\ \A w \in Workers : wudf[w] # u
  /\ registry' = registry \ {u}
  /\ Detach(c, {u}) /\ slot' = [slot EXCEPT ![u] = NoOne]
  /\ UNCHANGED <<runtimeLock, poolVars, gaugeVars, workerVars>>

(* rducks_nng_client_pool_destroy: no new reference, then wait for the last.
   The variant does not wait. *)
BeginClose(c, p) ==
  /\ cpc[c] = "destroying" /\ p \in todo[c]
  /\ closing' = [closing EXCEPT ![p] = TRUE]
  /\ cpool' = [cpool EXCEPT ![c] = p]
  /\ todo' = [todo EXCEPT ![c] = @ \ {p}]
  /\ cpc' = [cpc EXCEPT ![c] = "awake"]
  /\ UNCHANGED <<runtimeLock, udfVars, alive, refs, pending, socket, mutex, gaugeVars,
                 workerVars, cudf>>

AwaitNobody(c) ==
  /\ cpc[c] = "awake"
  /\ Step(c, "drained")
  /\ UNCHANGED <<runtimeLock, udfVars, poolVars, gaugeVars, workerVars>>
AwaitRefs(c) ==
  /\ cpc[c] = "awake"
  /\ Step(c, IF refs[cpool[c]] = 0 THEN "drained" ELSE "asleep")
  /\ UNCHANGED <<runtimeLock, udfVars, poolVars, gaugeVars, workerVars>>

CloseEnters(c) ==
  /\ cpc[c] = "drained"
  /\ activeOps' = activeOps + 1
  /\ Step(c, "freeing")
  /\ UNCHANGED <<runtimeLock, udfVars, poolVars, openPools, workerVars>>

FreePool(c) ==
  /\ cpc[c] = "freeing"
  /\ \A x \in Clients : mutex[<<cpool[c], x>>] = NoOne
  /\ socket' = socket \ ({cpool[c]} \X Clients)
  /\ alive' = [alive EXCEPT ![cpool[c]] = FALSE]
  /\ closing' = [closing EXCEPT ![cpool[c]] = FALSE]
  /\ cpool' = [cpool EXCEPT ![c] = NoOne]
  /\ cpc' = [cpc EXCEPT ![c] = "freed"]
  /\ UNCHANGED <<runtimeLock, udfVars, refs, pending, mutex, gaugeVars, workerVars, cudf, todo>>

CountDone(c) ==
  /\ cpc[c] = "freed"
  /\ openPools' = openPools - 1
  /\ Step(c, "closed")
  /\ UNCHANGED <<runtimeLock, udfVars, poolVars, activeOps, workerVars>>

CloseLeaves(c) ==
  /\ cpc[c] = "closed"
  /\ activeOps' = activeOps - 1
  /\ Step(c, "destroying")
  /\ UNCHANGED <<runtimeLock, udfVars, poolVars, openPools, workerVars>>

Destroyed(c) ==
  /\ cpc[c] = "destroying" /\ todo[c] = {}
  /\ Step(c, "home")
  /\ UNCHANGED <<runtimeLock, udfVars, poolVars, gaugeVars, workerVars>>

-----------------------------------------------------------------------------
WorkerStep(w) ==
  \/ FindCopied(w) \/ Acquire(w) \/ Admit(w) \/ EnterOp(w) \/ LockClient(w) \/ Exchange(w)
  \/ LeaveOp(w) \/ Uncount(w) \/ Release(w)

CloserStep(c) ==
  \/ Created(c) \/ CreateFailed(c) \/ CreateLeaves(c) \/ Publish(c)
  \/ AwaitRefs(c) \/ CloseEnters(c) \/ FreePool(c) \/ CountDone(c) \/ CloseLeaves(c)
  \/ Destroyed(c) \/ \E p \in Pools : BeginClose(c, p)

Next ==
  \/ \E w \in Workers : WorkerStep(w) \/ \E u \in Udfs : Find(w, u) \/ Copy(w, u) \/ NotConfigured(w, u)
  \/ \E c \in Closers :
       \/ CloserStep(c) \/ Quiesce(c)
       \/ \E u \in Udfs : DropUdf(c, u) \/ \E p \in Pools : Create(c, u, p)

Spec == Init /\ [][Next]_vars
-----------------------------------------------------------------------------
InPool == {"acquired", "admitted", "locking", "exchanging", "leaving", "uncounting", "releasing"}
InOp   == {"locking", "exchanging", "leaving"}
Admitted(p) == {w \in Workers : wpool[w] = p /\ wpc[w] \in {"admitted"} \cup InOp}

(* Every variable has its type: counters never wrap below zero. *)
TypeOK ==
  /\ runtimeLock \in Workers \cup {NoOne}
  /\ registry \subseteq Udfs /\ slot \in [Udfs -> Pools \cup {NoOne}]
  /\ alive \in [Pools -> BOOLEAN] /\ closing \in [Pools -> BOOLEAN]
  /\ refs \in [Pools -> Nat] /\ pending \in [Pools -> Nat]
  /\ socket \subseteq Pools \X Clients /\ mutex \in [Pools \X Clients -> Workers \cup {NoOne}]
  /\ activeOps \in Nat /\ openPools \in Nat
  /\ wpc \in [Workers -> InPool \cup {"home", "copied", "found"}]
  /\ wudf \in [Workers -> Udfs \cup {NoOne}] /\ wpool \in [Workers -> Pools \cup {NoOne}]
  /\ wclient \in [Workers -> Clients \cup {NoOne}]
  /\ cpc \in [Closers -> {"home", "creating", "created", "publishing", "destroying", "awake",
                          "asleep", "drained", "freeing", "freed", "closed"}]
  /\ cudf \in [Closers -> Udfs \cup {NoOne}] /\ cpool \in [Closers -> Pools \cup {NoOne}]
  /\ todo \in [Closers -> SUBSET Pools]

(* A pool that a request or a closer can still touch is not freed. *)
InUseIsAlive ==
  /\ \A w \in Workers : wpc[w] \notin {"home", "copied"} => alive[wpool[w]]
  /\ \A c \in Closers : \A p \in todo[c] \cup ({cpool[c]} \ {NoOne}) : alive[p]
  /\ \A u \in Udfs : slot[u] # NoOne => alive[slot[u]]

(* A pool is destroyed once: it belongs to one UDF or to one closer. *)
SoleOwner ==
  /\ \A u, v \in Udfs : slot[u] # NoOne /\ slot[u] = slot[v] => u = v
  /\ \A c \in Closers : \A p \in todo[c] \cup ({cpool[c]} \ {NoOne}) :
       /\ \A u \in Udfs : slot[u] # p
       /\ \A d \in Closers : p \in todo[d] \/ cpool[d] = p => c = d
  /\ \A c \in Closers : cpool[c] \notin todo[c]

(* The counters say what they count, so that a quiesce can succeed again, and no
   more requests of one pool than ipc_max_pending are admitted at once. *)
CountsExact ==
  /\ \A p \in Pools :
       /\ refs[p] = Cardinality({w \in Workers : wpool[w] = p /\ wpc[w] \in InPool})
       /\ pending[p] = Cardinality({w \in Workers : wpool[w] = p /\
                                      wpc[w] \in {"admitted", "uncounting"} \cup InOp})
  /\ \A p \in Pools : Cardinality(Admitted(p)) <= MaxPending
  /\ activeOps = Cardinality({w \in Workers : wpc[w] \in InOp})
                 + Cardinality({c \in Closers : cpc[c] \in {"creating", "created", "freeing",
                                                            "freed", "closed"}})
  /\ openPools = Cardinality({p \in Pools : alive[p]})
                 - Cardinality({c \in Closers : cpc[c] = "creating"})
                 + Cardinality({c \in Closers : cpc[c] = "freed"})

(* A closer that sleeps has a request to wait for, whose release will wake it:
   neither a release just before the wait nor one that was refused a place is
   lost, so that destroying a pool, and with it a quiesce, comes to its end. *)
SleeperAwaited ==
  \A c \in Closers : cpc[c] = "asleep" => closing[cpool[c]] /\ refs[cpool[c]] > 0
=============================================================================
