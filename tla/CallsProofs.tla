------------------------------ MODULE CallsProofs ------------------------------
(***************************************************************************)
(* Proofs about NngPool, for any numbers of threads, UDFs and pools: a     *)
(* pool in use is not freed, a pool is destroyed once, the counters are    *)
(* exact and no closer sleeps for ever on a pool nobody uses.  The first   *)
(* needs what the code takes for granted: only UDFs with external          *)
(* endpoints, which no quiesce touches, work on copies.                    *)
(*                                                                         *)
(* And about ScalarCalls, for any range, chunk size, number of threads     *)
(* and set of queries: R is entered by the R thread alone, once at a time, *)
(* and every row of the range is evaluated once.                           *)
(***************************************************************************)
EXTENDS NngPool, ScalarCalls, TLAPS, FiniteSetTheorems

Registers == {"creating", "created", "publishing"}
Waits     == {"awake", "asleep", "drained", "freeing"}
Holders(p) == {w \in Workers : wpool[w] = p /\ wpc[w] \in InPool}

(* what the steps of the core read and write has its type *)
Typed ==
  /\ registry \subseteq Udfs /\ slot \in [Udfs -> Pools \cup {NoOne}]
  /\ alive \in [Pools -> BOOLEAN] /\ closing \in [Pools -> BOOLEAN]
  /\ wpc \in [Workers -> InPool \cup {"home", "copied", "found"}]
  /\ wudf \in [Workers -> Udfs \cup {NoOne}] /\ wpool \in [Workers -> Pools \cup {NoOne}]
  /\ cpc \in [Closers -> Registers \cup Waits \cup {"home", "destroying", "freed", "closed"}]
  /\ cudf \in [Closers -> Udfs \cup {NoOne}] /\ cpool \in [Closers -> Pools \cup {NoOne}]
  /\ todo \in [Closers -> SUBSET Pools]

(* The worker that has found a pool holds the lock until it has a reference. *)
LockHeld == \A w \in Workers : wpc[w] = "found" => runtimeLock = w

(* A pool that a worker is about to take a reference to is still its UDF's. *)
Looking ==
  \A w \in Workers :
    /\ wpc[w] \in {"copied", "found"} => wudf[w] \in registry /\ slot[wudf[w]] = wpool[w]
    /\ wpc[w] = "copied" => wudf[w] \in Dynamic
    /\ wpc[w] \in {"found"} \cup InPool => wpool[w] # NoOne

(* One UDF at a time is being registered, and gets its pool with its place. *)
Registering ==
  /\ \A u \in Udfs : slot[u] # NoOne => u \in registry
  /\ \A c \in Closers :
       /\ cpc[c] \in Registers <=> cudf[c] # NoOne
       /\ cudf[c] \notin registry
       /\ \A d \in Closers : cudf[c] # NoOne /\ cudf[d] # NoOne => c = d

(* the references to a pool, as a function *)
RefsExact == refs = [p \in Pools |-> Cardinality(Holders(p))]

(* what a closer has at each place; nobody uses a new pool or a drained one *)
Places ==
  \A c \in Closers :
    /\ cpc[c] \in {"creating"} \cup Waits => cpool[c] # NoOne
    /\ cpc[c] \in {"home", "destroying", "freed", "closed"} => cpool[c] = NoOne
    /\ cpc[c] \in {"home"} \cup Registers => todo[c] = {}
    /\ cpc[c] \in Waits => closing[cpool[c]]
    /\ cpc[c] \in {"creating", "drained", "freeing"} => refs[cpool[c]] = 0

CoreInv == Typed /\ LockHeld /\ Looking /\ Registering /\ RefsExact /\ Places /\ SoleOwner /\ InUseIsAlive

coreVars == <<runtimeLock, registry, slot, alive, closing, refs, wpc, wudf, wpool,
              cpc, cudf, cpool, todo>>

(* The steps of a worker with a reference, and those of a closer that only go
   on, look alike to the core. *)
Inside(w) ==
  /\ wpc[w] \in InPool
  /\ \E l \in InPool : wpc' = [wpc EXCEPT ![w] = l]
  /\ UNCHANGED <<runtimeLock, registry, slot, alive, closing, refs, wudf, wpool,
                 cpc, cudf, cpool, todo>>

GoesOn(c, l) ==
  \/ cpc[c] = "creating" /\ l = "created"
  \/ cpc[c] = "created" /\ l = "publishing"
  \/ cpc[c] = "awake" /\ l = "asleep" /\ refs[cpool[c]] # 0
  \/ cpc[c] = "awake" /\ l = "drained" /\ refs[cpool[c]] = 0
  \/ cpc[c] = "drained" /\ l = "freeing"
  \/ cpc[c] = "freed" /\ l = "closed"
  \/ cpc[c] = "closed" /\ l = "destroying"
  \/ cpc[c] = "destroying" /\ l = "home" /\ todo[c] = {}

Moves(c) ==
  /\ \E l \in Registers \cup Waits \cup {"home", "destroying", "closed"} :
       GoesOn(c, l) /\ cpc' = [cpc EXCEPT ![c] = l]
  /\ UNCHANGED <<runtimeLock, registry, slot, alive, closing, refs, wpc, wudf, wpool,
                 cudf, cpool, todo>>

WorkerCore(w) ==
  \/ Inside(w) \/ FindCopied(w) \/ Acquire(w) \/ Release(w)
  \/ \E u \in Udfs : Find(w, u) \/ Copy(w, u)

CloserCore(c) ==
  \/ Moves(c) \/ CreateFailed(c) \/ Publish(c) \/ Quiesce(c) \/ FreePool(c)
  \/ \E p \in Pools : BeginClose(c, p)
  \/ \E u \in Udfs : DropUdf(c, u) \/ \E p \in Pools : Create(c, u, p)

LEMMA InsideSteps ==
  ASSUME NEW w \in Workers,
         Admit(w) \/ EnterOp(w) \/ LockClient(w) \/ Exchange(w) \/ LeaveOp(w) \/ Uncount(w)
  PROVE  Inside(w)
<1> USE DEF Inside, InPool, Move, udfVars, poolVars, gaugeVars, workerVars, closerVars
<1>1. CASE Admit(w)
  BY <1>1 DEF Admit
<1>2. CASE EnterOp(w)
  BY <1>2 DEF EnterOp
<1>3. CASE LockClient(w)
  BY <1>3 DEF LockClient
<1>4. CASE Exchange(w)
  BY <1>4 DEF Exchange
<1>5. CASE LeaveOp(w) \/ Uncount(w)
  BY <1>5 DEF LeaveOp, Uncount
<1> QED BY <1>1, <1>2, <1>3, <1>4, <1>5

LEMMA MoveSteps ==
  ASSUME NEW c \in Closers,
         Created(c) \/ CreateLeaves(c) \/ AwaitRefs(c) \/ CloseEnters(c) \/ CountDone(c)
         \/ CloseLeaves(c) \/ Destroyed(c)
  PROVE  Moves(c)
<1> USE DEF Moves, GoesOn, Registers, Waits, Step, udfVars, poolVars, gaugeVars, workerVars
<1>1. CASE Created(c)
  BY <1>1 DEF Created
<1>2. CASE CreateLeaves(c)
  BY <1>2 DEF CreateLeaves
<1>3. CASE AwaitRefs(c)
  BY <1>3 DEF AwaitRefs
<1>4. CASE CloseEnters(c)
  BY <1>4 DEF CloseEnters
<1>5. CASE CountDone(c)
  BY <1>5 DEF CountDone
<1>6. CASE CloseLeaves(c)
  BY <1>6 DEF CloseLeaves
<1>7. CASE Destroyed(c)
  BY <1>7 DEF Destroyed
<1> QED BY <1>1, <1>2, <1>3, <1>4, <1>5, <1>6, <1>7

LEMMA CoreSteps ==
  ASSUME [Next]_vars
  PROVE  \/ UNCHANGED coreVars
         \/ \E w \in Workers : WorkerCore(w)
         \/ \E c \in Closers : CloserCore(c)
<1>1. CASE UNCHANGED vars
  BY <1>1 DEF vars, coreVars, udfVars, poolVars, workerVars, closerVars
<1>2. ASSUME NEW w \in Workers, WorkerStep(w)
      PROVE  WorkerCore(w)
  BY <1>2, InsideSteps DEF WorkerStep, WorkerCore
<1>3. ASSUME NEW w \in Workers, NEW u \in Udfs, Find(w, u) \/ Copy(w, u)
      PROVE  WorkerCore(w)
  BY <1>3 DEF WorkerCore
<1>4. ASSUME NEW w \in Workers, NEW u \in Udfs, NotConfigured(w, u)
      PROVE  UNCHANGED vars
  BY <1>4 DEF NotConfigured
<1>5. ASSUME NEW c \in Closers, CloserStep(c)
      PROVE  CloserCore(c)
  BY <1>5, MoveSteps DEF CloserStep, CloserCore
<1>6. ASSUME NEW c \in Closers,
             Quiesce(c) \/ \E u \in Udfs : DropUdf(c, u) \/ \E p \in Pools : Create(c, u, p)
      PROVE  CloserCore(c)
  BY <1>6 DEF CloserCore
<1> QED BY <1>1, <1>2, <1>3, <1>4, <1>5, <1>6 DEF Next

(*------------------------ one lemma for each part ------------------------*)

LEMMA TypedStep ==
  ASSUME PoolAssumption, CoreInv, [Next]_vars
  PROVE  Typed'
<1> USE DEF CoreInv, Typed
<1>1. CASE UNCHANGED coreVars
  BY <1>1 DEF coreVars
<1>2. ASSUME NEW w \in Workers, WorkerCore(w)
      PROVE  Typed'
  <2> USE DEF udfVars, closerVars
  <2>1. CASE Inside(w)
    BY <2>1 DEF Inside
  <2>2. CASE FindCopied(w) \/ Acquire(w)
    BY <2>2 DEF FindCopied, Acquire, Move, Home, poolVars, InPool
  <2>3. CASE Release(w)
    <3>1. cpc' \in [Closers -> Registers \cup Waits \cup {"home", "destroying", "freed", "closed"}]
      BY <2>3 DEF Release, Waits
    <3> QED BY <2>3, <3>1 DEF Release, Home
  <2>4. ASSUME NEW u \in Udfs, Find(w, u) \/ Copy(w, u)
        PROVE  Typed'
    BY <2>4 DEF Find, Copy, poolVars
  <2> QED BY <1>2, <2>1, <2>2, <2>3, <2>4 DEF WorkerCore
<1>3. ASSUME NEW c \in Closers, CloserCore(c)
      PROVE  Typed'
  <2> USE DEF udfVars, workerVars, poolVars, Registers, Waits
  <2>1. CASE Moves(c)
    BY <2>1 DEF Moves
  <2>2. CASE CreateFailed(c) \/ FreePool(c)
    BY <2>2 DEF CreateFailed, FreePool
  <2>3. CASE Publish(c)
    BY <2>3 DEF Publish, Registering
  <2>4. CASE Quiesce(c)
    BY <2>4 DEF Quiesce, Detach
  <2>5. ASSUME NEW p \in Pools, BeginClose(c, p)
        PROVE  Typed'
    BY <2>5 DEF BeginClose
  <2>6. ASSUME NEW u \in Udfs, DropUdf(c, u)
        PROVE  Typed'
    BY <2>6 DEF DropUdf, Detach
  <2>7. ASSUME NEW u \in Udfs, NEW p \in Pools, Create(c, u, p)
        PROVE  Typed'
    BY <2>7 DEF Create
  <2> QED BY <1>3, <2>1, <2>2, <2>3, <2>4, <2>5, <2>6, <2>7 DEF CloserCore
<1> QED BY <1>1, <1>2, <1>3, CoreSteps

(* Only a worker takes the lock, and lets go of it with its step from "found". *)
LEMMA LockStep ==
  ASSUME PoolAssumption, CoreInv, [Next]_vars
  PROVE  LockHeld'
<1> USE DEF CoreInv, Typed, LockHeld, PoolAssumption
<1>1. CASE UNCHANGED coreVars
  BY <1>1 DEF coreVars
<1>2. ASSUME NEW w \in Workers, WorkerCore(w)
      PROVE  LockHeld'
  <2>1. CASE Inside(w)
    BY <2>1 DEF Inside, InPool
  <2>2. CASE FindCopied(w) \/ Acquire(w)
    BY <2>2 DEF FindCopied, Acquire, Move, Home
  <2>3. CASE Release(w)
    BY <2>3 DEF Release, Home
  <2>4. ASSUME NEW u \in Udfs, Find(w, u) \/ Copy(w, u)
        PROVE  LockHeld'
    BY <2>4 DEF Find, Copy
  <2> QED BY <1>2, <2>1, <2>2, <2>3, <2>4 DEF WorkerCore
<1>3. ASSUME NEW c \in Closers, CloserCore(c)
      PROVE  LockHeld'
  <2> UNCHANGED <<runtimeLock, wpc>>
    BY <1>3
    DEF CloserCore, Moves, CreateFailed, Publish, Quiesce, FreePool, BeginClose, DropUdf, Create,
        workerVars
  <2> QED OBVIOUS
<1> QED BY <1>1, <1>2, <1>3, CoreSteps

(* The lock keeps a quiesce from a pool that was found, and the execution of the
   UDF keeps a drop from it; a copy's pool is external and so not quiesced. *)
LEMMA LookingStep ==
  ASSUME PoolAssumption, Dynamic \subseteq External, CoreInv, [Next]_vars
  PROVE  Looking'
<1> USE DEF CoreInv, Typed, Looking, PoolAssumption
<1>1. CASE UNCHANGED coreVars
  BY <1>1 DEF coreVars
<1>2. ASSUME NEW w \in Workers, WorkerCore(w)
      PROVE  Looking'
  <2> USE DEF udfVars
  <2>1. CASE Inside(w)
    BY <2>1 DEF Inside, InPool
  <2>2. CASE FindCopied(w)
    BY <2>2 DEF FindCopied, Move, Home, InPool
  <2>3. CASE Acquire(w)
    BY <2>3 DEF Acquire, Move, Home, InPool
  <2>4. CASE Release(w)
    BY <2>4 DEF Release, Home, InPool
  <2>5. ASSUME NEW u \in Udfs, Find(w, u) \/ Copy(w, u)
        PROVE  Looking'
    BY <2>5 DEF Find, Copy, InPool
  <2> QED BY <1>2, <2>1, <2>2, <2>3, <2>4, <2>5 DEF WorkerCore
<1>3. ASSUME NEW c \in Closers, CloserCore(c)
      PROVE  Looking'
  <2> USE DEF udfVars, workerVars
  <2>1. CASE Moves(c) \/ CreateFailed(c) \/ FreePool(c)
    BY <2>1 DEF Moves, CreateFailed, FreePool
  <2>2. CASE Publish(c)
    BY <2>2 DEF Publish, Registering
  <2>3. CASE Quiesce(c)
    BY <2>3 DEF Quiesce, Detach, LockHeld
  <2>4. ASSUME NEW p \in Pools, BeginClose(c, p)
        PROVE  Looking'
    BY <2>4 DEF BeginClose
  <2>5. ASSUME NEW u \in Udfs, DropUdf(c, u)
        PROVE  Looking'
    BY <2>5 DEF DropUdf, Detach
  <2>6. ASSUME NEW u \in Udfs, NEW p \in Pools, Create(c, u, p)
        PROVE  Looking'
    BY <2>6 DEF Create
  <2> QED BY <1>3, <2>1, <2>2, <2>3, <2>4, <2>5, <2>6 DEF CloserCore
<1> QED BY <1>1, <1>2, <1>3, CoreSteps

LEMMA RegisteringStep ==
  ASSUME PoolAssumption, CoreInv, [Next]_vars
  PROVE  Registering'
<1> USE DEF CoreInv, Typed, Registering, PoolAssumption
<1>1. CASE UNCHANGED coreVars
  BY <1>1 DEF coreVars
<1>2. ASSUME NEW w \in Workers, WorkerCore(w)
      PROVE  Registering'
  <2> USE DEF udfVars, closerVars
  <2>1. CASE Inside(w) \/ FindCopied(w) \/ Acquire(w) \/ \E u \in Udfs : Find(w, u) \/ Copy(w, u)
    <3> UNCHANGED <<registry, slot, cpc, cudf>>
      BY <2>1 DEF Inside, FindCopied, Acquire, Find, Copy
    <3> QED OBVIOUS
  <2>2. CASE Release(w)
    <3> UNCHANGED <<registry, slot, cudf>>
      BY <2>2 DEF Release
    <3> \A c \in Closers : cpc[c] \in Registers <=> cpc'[c] \in Registers
      BY <2>2 DEF Release, Registers
    <3> QED OBVIOUS
  <2> QED BY <1>2, <2>1, <2>2 DEF WorkerCore
<1>3. ASSUME NEW c \in Closers, CloserCore(c)
      PROVE  Registering'
  <2> USE DEF udfVars, Registers
  <2>1. CASE Moves(c)
    BY <2>1 DEF Moves, GoesOn, Waits
  <2>2. CASE CreateFailed(c) \/ FreePool(c)
    BY <2>2 DEF CreateFailed, FreePool
  <2>3. CASE Publish(c)
    BY <2>3 DEF Publish
  <2>4. CASE Quiesce(c)
    BY <2>4 DEF Quiesce, Detach
  <2>5. ASSUME NEW p \in Pools, BeginClose(c, p)
        PROVE  Registering'
    BY <2>5 DEF BeginClose
  <2>6. ASSUME NEW u \in Udfs, DropUdf(c, u)
        PROVE  Registering'
    BY <2>6 DEF DropUdf, Detach
  <2>7. ASSUME NEW u \in Udfs, NEW p \in Pools, Create(c, u, p)
        PROVE  Registering'
    BY <2>7 DEF Create
  <2> QED BY <1>3, <2>1, <2>2, <2>3, <2>4, <2>5, <2>6, <2>7 DEF CloserCore
<1> QED BY <1>1, <1>2, <1>3, CoreSteps

(* The references to a pool are counted as workers come and go. *)
LEMMA HoldersFinite ==
  ASSUME PoolAssumption, NEW p
  PROVE  IsFiniteSet(Holders(p)) /\ Cardinality(Holders(p)) \in Nat
<1>1. Holders(p) \in SUBSET Workers
  BY DEF Holders
<1>2. IsFiniteSet(Holders(p))
  BY <1>1, FS_Subset DEF PoolAssumption
<1> QED BY <1>2, FS_CardinalityType

(* a worker that holds a reference is counted *)
LEMMA HeldIsCounted ==
  ASSUME PoolAssumption, CoreInv, NEW w \in Workers, wpc[w] \in InPool
  PROVE  wpool[w] \in Pools /\ refs[wpool[w]] \in Nat \ {0}
<1>1. wpool[w] \in Pools
  BY DEF CoreInv, Typed, Looking
<1>2. w \in Holders(wpool[w])
  BY DEF Holders
<1>3. Cardinality(Holders(wpool[w])) # 0
  BY <1>2, HoldersFinite, FS_EmptySet
<1> QED BY <1>1, <1>3, HoldersFinite DEF CoreInv, RefsExact

(* a pool without references has no worker *)
LEMMA UnheldIsFree ==
  ASSUME PoolAssumption, CoreInv, NEW p \in Pools, refs[p] = 0,
         NEW w \in Workers, wpc[w] \in InPool
  PROVE  wpool[w] # p
BY HeldIsCounted

LEMMA RefsStep ==
  ASSUME PoolAssumption, CoreInv, [Next]_vars
  PROVE  RefsExact'
<1> USE DEF CoreInv, Typed
<1> DEFINE Same == \A p \in Pools : Holders(p)' = Holders(p)
<1>1. ASSUME UNCHANGED refs, Same
      PROVE  RefsExact'
  BY <1>1 DEF RefsExact
<1>2. CASE UNCHANGED coreVars
  BY <1>2, <1>1 DEF coreVars, Holders
<1>3. ASSUME NEW w \in Workers, WorkerCore(w)
      PROVE  RefsExact'
  <2>1. CASE Inside(w)
    BY <2>1, <1>1 DEF Inside, Holders
  <2>2. CASE FindCopied(w)
    BY <2>2, <1>1 DEF FindCopied, Move, Home, Holders, InPool, poolVars
  <2>3. ASSUME Acquire(w), closing[wpool[w]]
        PROVE  RefsExact'
    BY <2>3, <1>1 DEF Acquire, Home, Holders, InPool
  <2>4. ASSUME Acquire(w), ~closing[wpool[w]]
        PROVE  RefsExact'
    <3>1. PICK p \in Pools : p = wpool[w]
      BY <2>4 DEF Acquire, Looking
    <3>2. wpc' = [wpc EXCEPT ![w] = "acquired"] /\ wpool' = wpool
      BY <2>4 DEF Acquire, Move
    <3>3. w \notin Holders(p) /\ Holders(p)' = Holders(p) \cup {w}
      BY <2>4, <3>1, <3>2 DEF Acquire, Holders, InPool
    <3>4. ASSUME NEW q \in Pools, q # p
          PROVE  Holders(q)' = Holders(q)
      BY <2>4, <3>1, <3>2, <3>4 DEF Acquire, Holders, InPool
    <3>5. IsFiniteSet(Holders(p))
      BY HoldersFinite
    <3>6. Cardinality(Holders(p)') = Cardinality(Holders(p)) + 1
      BY <3>3, <3>5, FS_AddElement
    <3>7. refs' = [refs EXCEPT ![p] = @ + 1]
      BY <2>4, <3>1 DEF Acquire
    <3> QED BY <3>4, <3>6, <3>7 DEF RefsExact
  <2>5. CASE Release(w)
    <3>1. PICK p \in Pools : p = wpool[w]
      BY <2>5 DEF Release, Looking, InPool
    <3>2. wpc' = [wpc EXCEPT ![w] = "home"] /\ wpool' = [wpool EXCEPT ![w] = NoOne]
      BY <2>5 DEF Release, Home
    <3>3. w \in Holders(p) /\ Holders(p)' = Holders(p) \ {w}
      BY <2>5, <3>1, <3>2 DEF Release, Holders, InPool
    <3>4. ASSUME NEW q \in Pools, q # p
          PROVE  Holders(q)' = Holders(q)
      BY <3>1, <3>2, <3>4 DEF Holders, InPool
    <3>5. IsFiniteSet(Holders(p))
      BY HoldersFinite
    <3>6. Cardinality(Holders(p)') = Cardinality(Holders(p)) - 1
      BY <3>3, <3>5, FS_RemoveElement
    <3>7. refs' = [refs EXCEPT ![p] = @ - 1]
      BY <2>5, <3>1 DEF Release
    <3> QED BY <3>4, <3>6, <3>7 DEF RefsExact
  <2>6. ASSUME NEW u \in Udfs, Find(w, u) \/ Copy(w, u)
        PROVE  RefsExact'
    BY <2>6, <1>1 DEF Find, Copy, Holders, InPool, poolVars
  <2> QED BY <1>3, <2>1, <2>2, <2>3, <2>4, <2>5, <2>6 DEF WorkerCore
<1>4. ASSUME NEW c \in Closers, CloserCore(c)
      PROVE  RefsExact'
  <2>1. UNCHANGED <<refs, wpc, wpool>>
    BY <1>4
    DEF CloserCore, Moves, CreateFailed, Publish, Quiesce, FreePool, BeginClose, DropUdf, Create,
        workerVars, poolVars
  <2> QED BY <2>1, <1>1 DEF Holders
<1> QED BY <1>2, <1>3, <1>4, CoreSteps

(* A closer that takes the pools of some UDFs is their only owner. *)
LEMMA TakesPools ==
  ASSUME SoleOwner, Typed, NoOne \notin Pools, NEW c \in Closers, NEW U \in SUBSET Udfs,
         cpool[c] = NoOne, cpool' = cpool,
         todo' = [todo EXCEPT ![c] = {slot[u] : u \in U} \ {NoOne}],
         slot' = [u \in Udfs |-> IF u \in U THEN NoOne ELSE slot[u]]
  PROVE  SoleOwner'
<1> DEFINE Has(d, p) == p \in todo[d] \cup ({cpool[d]} \ {NoOne})
<1>1. \A u, v \in Udfs : slot'[u] # NoOne /\ slot'[u] = slot'[v] => u = v
  BY DEF SoleOwner
<1>2. ASSUME NEW d \in Closers, NEW p, Has(d, p)'
      PROVE  \/ d = c /\ p # NoOne /\ \E u \in U : p = slot[u]
             \/ d # c /\ Has(d, p)
  BY <1>2 DEF Typed
<1>3. ASSUME NEW d \in Closers, NEW p, Has(d, p)'
      PROVE  \A u \in Udfs : slot'[u] # p
  <2>1. CASE d = c /\ p # NoOne /\ \E u \in U : p = slot[u]
    BY <2>1 DEF SoleOwner
  <2>2. CASE d # c /\ Has(d, p)
    <3>1. p # NoOne
      BY <2>2 DEF Typed
    <3> QED BY <2>2, <3>1 DEF SoleOwner
  <2> QED BY <1>2, <1>3, <2>1, <2>2
<1>4. ASSUME NEW d \in Closers, NEW e \in Closers, NEW p, Has(d, p)', Has(e, p)'
      PROVE  d = e
  <2>1. CASE d = c /\ e # c
    BY <1>2, <1>4, <2>1 DEF SoleOwner
  <2>2. CASE d # c /\ e = c
    BY <1>2, <1>4, <2>2 DEF SoleOwner
  <2>3. CASE d # c /\ e # c
    <3>1. Has(d, p) /\ Has(e, p)
      BY <1>2, <1>4, <2>3
    <3> QED BY <3>1 DEF SoleOwner
  <2> QED BY <2>1, <2>2, <2>3
<1>5. ASSUME NEW d \in Closers, NEW e \in Closers, NEW p, Has(d, p)', p \in todo'[e] \/ cpool'[e] = p
      PROVE  d = e
  <2>1. p # NoOne
    BY <1>2, <1>5 DEF Typed
  <2> QED BY <1>4, <1>5, <2>1
<1>6. \A d \in Closers : cpool'[d] \notin todo'[d]
  BY DEF SoleOwner, Typed
<1> QED BY <1>1, <1>3, <1>5, <1>6 DEF SoleOwner

LEMMA OwnerStep ==
  ASSUME PoolAssumption, CoreInv, [Next]_vars
  PROVE  SoleOwner'
<1> USE DEF CoreInv, Typed, PoolAssumption
<1>1. ASSUME UNCHANGED <<slot, cpool, todo>>
      PROVE  SoleOwner'
  BY <1>1 DEF SoleOwner
<1>2. CASE UNCHANGED coreVars
  BY <1>2, <1>1 DEF coreVars
<1>3. ASSUME NEW w \in Workers, WorkerCore(w)
      PROVE  SoleOwner'
  BY <1>3, <1>1
  DEF WorkerCore, Inside, FindCopied, Acquire, Release, Find, Copy, udfVars, closerVars
<1>4. ASSUME NEW c \in Closers, CloserCore(c)
      PROVE  SoleOwner'
  <2> USE DEF udfVars, poolVars, workerVars
  <2>1. CASE Moves(c)
    BY <2>1, <1>1 DEF Moves
  <2>2. CASE CreateFailed(c) \/ FreePool(c)
    BY <2>2 DEF CreateFailed, FreePool, SoleOwner
  <2>3. CASE Publish(c)
    <3>1. CASE cpool[c] = NoOne
      BY <2>3, <3>1 DEF Publish, SoleOwner
    <3>2. CASE cpool[c] # NoOne
      <4>1. /\ slot' = [slot EXCEPT ![cudf[c]] = cpool[c]]
            /\ cpool' = [cpool EXCEPT ![c] = NoOne] /\ UNCHANGED todo
        BY <2>3, <3>2 DEF Publish
      <4>2. todo[c] = {}
        BY <2>3 DEF Publish, Places, Registers
      <4> HIDE DEF CoreInv
      <4>3. Typed /\ SoleOwner
        BY DEF CoreInv
      <4> QED BY <3>2, <4>1, <4>2, <4>3 DEF SoleOwner
    <3> QED BY <3>1, <3>2
  <2>4. CASE Quiesce(c)
    <3>1. cpool[c] = NoOne
      BY <2>4 DEF Quiesce, Places
    <3>2. PICK U \in SUBSET (registry \ External) :
            Detach(c, U) /\ slot' = [u \in Udfs |-> IF u \in U THEN NoOne ELSE slot[u]]
      BY <2>4 DEF Quiesce
    <3> QED BY <3>1, <3>2, TakesPools DEF Detach
  <2>5. ASSUME NEW p \in Pools, BeginClose(c, p)
        PROVE  SoleOwner'
    BY <2>5 DEF BeginClose, SoleOwner, Places
  <2>6. ASSUME NEW u \in Udfs, DropUdf(c, u)
        PROVE  SoleOwner'
    <3>1. cpool[c] = NoOne
      BY <2>6 DEF DropUdf, Places
    <3>2. slot' = [v \in Udfs |-> IF v \in {u} THEN NoOne ELSE slot[v]]
      BY <2>6 DEF DropUdf
    <3>3. {u} \in SUBSET Udfs /\ cpool' = cpool
          /\ todo' = [todo EXCEPT ![c] = {slot[v] : v \in {u}} \ {NoOne}]
      BY <2>6 DEF DropUdf, Detach
    <3>4. SoleOwner /\ Typed /\ NoOne \notin Pools
      OBVIOUS
    <3> HIDE DEF CoreInv, Typed
    <3> QED BY <3>1, <3>2, <3>3, <3>4, TakesPools
  <2>7. ASSUME NEW u \in Udfs, NEW p \in Pools, Create(c, u, p)
        PROVE  SoleOwner'
    <3>1. /\ \A v \in Udfs : slot[v] # p
          /\ \A d \in Closers : p \notin todo[d] /\ cpool[d] # p
      BY <2>7 DEF Create, InUseIsAlive
    <3>2. todo[c] = {} /\ cpool' = [cpool EXCEPT ![c] = p] /\ UNCHANGED <<slot, todo>>
      BY <2>7 DEF Create, Places
    <3> HIDE DEF CoreInv
    <3>3. Typed /\ SoleOwner
      BY DEF CoreInv
    <3> QED BY <3>1, <3>2, <3>3 DEF SoleOwner
  <2> QED BY <1>4, <2>1, <2>2, <2>3, <2>4, <2>5, <2>6, <2>7 DEF CloserCore
<1> QED BY <1>2, <1>3, <1>4, CoreSteps

(* Nobody gets a new reference to a pool that is being closed or created, and
   the one place where its references may have ended is when it is taken. *)
LEMMA PlacesStep ==
  ASSUME PoolAssumption, CoreInv, [Next]_vars
  PROVE  Places'
<1> USE DEF CoreInv, Typed, PoolAssumption
<1>1. CASE UNCHANGED coreVars
  BY <1>1 DEF coreVars, Places
<1>2. ASSUME NEW w \in Workers, WorkerCore(w)
      PROVE  Places'
  <2> USE DEF udfVars, closerVars, poolVars
  <2>1. ASSUME UNCHANGED <<cpc, cpool, todo, closing>>,
               \A c \in Closers : cpool[c] # NoOne /\ refs[cpool[c]] = 0 => refs'[cpool[c]] = 0
        PROVE  Places'
    BY <2>1 DEF Places, Waits
  <2>2. CASE Inside(w) \/ FindCopied(w) \/ \E u \in Udfs : Find(w, u) \/ Copy(w, u)
    <3> UNCHANGED <<cpc, cpool, todo, closing, refs>>
      BY <2>2 DEF Inside, FindCopied, Find, Copy
    <3> QED BY <2>1
  <2>3. CASE Acquire(w)
    <3>1. UNCHANGED <<cpc, cpool, todo, closing>>
      BY <2>3 DEF Acquire
    <3>2. \A c \in Closers : cpool[c] # wpool[w]
      BY <2>3 DEF Acquire, Looking, SoleOwner
    <3>3. refs' = refs \/ refs' = [refs EXCEPT ![wpool[w]] = @ + 1]
      BY <2>3 DEF Acquire
    <3>4. refs = [p \in Pools |-> refs[p]]
      BY DEF RefsExact
    <3> QED BY <2>1, <3>1, <3>2, <3>3, <3>4
  <2>4. CASE Release(w)
    <3>1. UNCHANGED <<cpool, todo, closing>>
      BY <2>4 DEF Release
    <3>2. refs' = [refs EXCEPT ![wpool[w]] = @ - 1] /\ refs[wpool[w]] \in Nat \ {0}
      BY <2>4, HeldIsCounted DEF Release, InPool
    <3>3. refs = [p \in Pools |-> refs[p]]
      BY DEF RefsExact
    <3>4. \A c \in Closers : cpool[c] # NoOne /\ refs[cpool[c]] = 0 => refs'[cpool[c]] = 0
      BY <3>2, <3>3
    <3>5. \A c \in Closers : cpc'[c] = cpc[c] \/ (cpc[c] = "asleep" /\ cpc'[c] = "awake")
      BY <2>4 DEF Release
    <3> QED BY <3>1, <3>4, <3>5 DEF Places, Waits, Registers
  <2> QED BY <1>2, <2>2, <2>3, <2>4 DEF WorkerCore
<1>3. ASSUME NEW c \in Closers, CloserCore(c)
      PROVE  Places'
  <2> USE DEF udfVars, poolVars, workerVars, Registers, Waits
  <2>1. CASE Moves(c)
    BY <2>1 DEF Moves, GoesOn, Places
  <2>2. CASE CreateFailed(c)
    BY <2>2 DEF CreateFailed, Places
  <2>3. CASE Publish(c)
    BY <2>3 DEF Publish, Places
  <2>4. CASE Quiesce(c)
    BY <2>4 DEF Quiesce, Detach, Places
  <2>5. ASSUME NEW p \in Pools, BeginClose(c, p)
        PROVE  Places'
    BY <2>5 DEF BeginClose, Places
  <2>6. ASSUME NEW u \in Udfs, DropUdf(c, u)
        PROVE  Places'
    BY <2>6 DEF DropUdf, Detach, Places
  <2>7. CASE FreePool(c)
    <3>1. \A d \in Closers : d # c /\ cpool[d] # NoOne => cpool[d] # cpool[c]
      BY <2>7 DEF FreePool, SoleOwner
    <3> QED BY <2>7, <3>1 DEF FreePool, Places
  <2>8. ASSUME NEW u \in Udfs, NEW p \in Pools, Create(c, u, p)
        PROVE  Places'
    <3>1. Holders(p) = {}
      BY <2>8 DEF Create, Holders, InUseIsAlive, InPool
    <3>2. refs[p] = 0
      BY <3>1, FS_EmptySet DEF RefsExact
    <3> QED BY <2>8, <3>2 DEF Create, Places
  <2> QED BY <1>3, <2>1, <2>2, <2>3, <2>4, <2>5, <2>6, <2>7, <2>8 DEF CloserCore
<1> QED BY <1>1, <1>2, <1>3, CoreSteps

(* A pool is freed where nobody has it: not a worker, for it has no references
   and is no longer its UDF's, and no other closer. *)
LEMMA AliveStep ==
  ASSUME PoolAssumption, Dynamic \subseteq External, CoreInv, [Next]_vars
  PROVE  InUseIsAlive'
<1> USE DEF CoreInv, Typed, PoolAssumption
<1>1. CASE UNCHANGED coreVars
  BY <1>1 DEF coreVars, InUseIsAlive
<1>2. ASSUME NEW w \in Workers, WorkerCore(w)
      PROVE  InUseIsAlive'
  <2> USE DEF udfVars, closerVars, poolVars
  <2>1. UNCHANGED <<alive, slot, cpool, todo>>
    BY <1>2 DEF WorkerCore, Inside, FindCopied, Acquire, Release, Find, Copy
  <2>2. ASSUME NEW v \in Workers, wpc'[v] \notin {"home", "copied"}
        PROVE  alive[wpool'[v]]
    <3>1. CASE Inside(w)
      BY <2>2, <3>1 DEF Inside, InUseIsAlive, InPool
    <3>2. CASE FindCopied(w)
      BY <2>2, <3>2 DEF FindCopied, Move, Home, InUseIsAlive, Looking
    <3>3. CASE Acquire(w)
      BY <2>2, <3>3 DEF Acquire, Move, Home, InUseIsAlive
    <3>4. CASE Release(w)
      BY <2>2, <3>4 DEF Release, Home, InUseIsAlive
    <3>5. ASSUME NEW u \in Udfs, Find(w, u) \/ Copy(w, u)
          PROVE  alive[wpool'[v]]
      BY <2>2, <3>5 DEF Find, Copy, InUseIsAlive
    <3> QED BY <1>2, <3>1, <3>2, <3>3, <3>4, <3>5 DEF WorkerCore
  <2> HIDE DEF CoreInv, Typed
  <2>3. InUseIsAlive
    BY DEF CoreInv
  <2> QED BY <2>1, <2>2, <2>3 DEF InUseIsAlive
<1>3. ASSUME NEW c \in Closers, CloserCore(c)
      PROVE  InUseIsAlive'
  <2> USE DEF udfVars, poolVars, workerVars
  <2>1. CASE Moves(c)
    BY <2>1 DEF Moves, InUseIsAlive
  <2>2. ASSUME CreateFailed(c) \/ FreePool(c)
        PROVE  InUseIsAlive'
    <3>1. /\ UNCHANGED <<slot, wpc, wpool, todo>>
          /\ alive' = [alive EXCEPT ![cpool[c]] = FALSE]
          /\ cpool' = [cpool EXCEPT ![c] = NoOne]
      BY <2>2 DEF CreateFailed, FreePool
    <3>2. cpool[c] \in Pools /\ refs[cpool[c]] = 0
      BY <2>2 DEF CreateFailed, FreePool, Places, Waits
    <3>3. ASSUME NEW w \in Workers, wpc[w] \notin {"home", "copied"}
          PROVE  wpool[w] # cpool[c]
      <4>1. CASE wpc[w] \in InPool
        BY <3>2, <4>1, UnheldIsFree
      <4>2. CASE wpc[w] = "found"
        BY <3>2, <4>2 DEF Looking, SoleOwner
      <4> QED BY <3>3, <4>1, <4>2
    <3>4. ASSUME NEW d \in Closers, NEW p \in Pools,
                 p \in todo'[d] \cup ({cpool'[d]} \ {NoOne})
          PROVE  p # cpool[c]
      BY <3>1, <3>2, <3>4 DEF SoleOwner
    <3>5. \A u \in Udfs : slot[u] # cpool[c]
      BY <3>2 DEF SoleOwner
    <3> QED BY <3>1, <3>3, <3>4, <3>5 DEF InUseIsAlive
  <2>3. CASE Publish(c)
    BY <2>3 DEF Publish, InUseIsAlive
  <2>4. CASE Quiesce(c)
    BY <2>4 DEF Quiesce, Detach, InUseIsAlive
  <2>5. ASSUME NEW p \in Pools, BeginClose(c, p)
        PROVE  InUseIsAlive'
    BY <2>5 DEF BeginClose, InUseIsAlive
  <2>6. ASSUME NEW u \in Udfs, DropUdf(c, u)
        PROVE  InUseIsAlive'
    BY <2>6 DEF DropUdf, Detach, InUseIsAlive
  <2>7. ASSUME NEW u \in Udfs, NEW p \in Pools, Create(c, u, p)
        PROVE  InUseIsAlive'
    BY <2>7 DEF Create, InUseIsAlive
  <2> QED BY <1>3, <2>1, <2>2, <2>3, <2>4, <2>5, <2>6, <2>7 DEF CloserCore
<1> QED BY <1>1, <1>2, <1>3, CoreSteps

LEMMA CoreInit == ASSUME PoolAssumption, Init PROVE CoreInv
<1>1. Typed /\ LockHeld /\ Looking /\ Registering /\ SoleOwner /\ InUseIsAlive
  BY DEF Init, PoolAssumption, Typed, LockHeld, Looking, Registering, SoleOwner, InUseIsAlive,
         InPool, Registers
<1>2. \A p \in Pools : Holders(p) = {}
  BY DEF Init, Holders, InPool
<1>3. RefsExact
  BY <1>2, FS_EmptySet DEF Init, RefsExact
<1>4. Places
  BY DEF Init, Places, Registers, Waits
<1> QED BY <1>1, <1>3, <1>4 DEF CoreInv

LEMMA CoreStep ==
  ASSUME PoolAssumption, Dynamic \subseteq External, CoreInv, [Next]_vars
  PROVE  CoreInv'
BY TypedStep, LockStep, LookingStep, RegisteringStep, RefsStep, OwnerStep, PlacesStep, AliveStep
DEF CoreInv

(* Where every UDF that works on copies is external, the core keeps its
   invariant. *)
LEMMA CoreHolds ==
  ASSUME Dynamic \subseteq External
  PROVE  Spec => []CoreInv
<1>1. Init => CoreInv
  BY CoreInit, PoolAssumption
<1>2. CoreInv /\ [Next]_vars => CoreInv'
  BY CoreStep, PoolAssumption
<1> QED BY <1>1, <1>2, PTL DEF Spec

(* A pool that a request or a closer can still touch is not freed, however
   requests, quiesces, drops and registrations interleave (rducks_nng.c and
   rducks_ripc.c). *)
THEOREM PoolsInUseAreAlive ==
  ASSUME Dynamic \subseteq External
  PROVE  Spec => []InUseIsAlive
<1>1. CoreInv => InUseIsAlive
  BY DEF CoreInv
<1> QED BY <1>1, CoreHolds, PTL

(* A pool is destroyed once: it has one UDF or one closer (rducks_nng_quiesce,
   rducks_r_scalar_meta_destroy). *)
THEOREM PoolsHaveOneOwner ==
  ASSUME Dynamic \subseteq External
  PROVE  Spec => []SoleOwner
<1>1. CoreInv => SoleOwner
  BY DEF CoreInv
<1> QED BY <1>1, CoreHolds, PTL

(*------------------------------- the sleepers ----------------------------*)

(* A closer falls asleep while there are references, and the release of the
   last one wakes it. *)
LEMMA SleeperStep ==
  ASSUME PoolAssumption, CoreInv, CoreInv', SleeperAwaited, [Next]_vars
  PROVE  SleeperAwaited'
<1> DEFINE Referred == \A c \in Closers : cpc[c] = "asleep" => refs[cpool[c]] > 0
<1>1. Referred' => SleeperAwaited'
  BY DEF CoreInv, Places, SleeperAwaited, Waits
<1>2. /\ \A p \in Pools : refs[p] \in Nat
      /\ \A c \in Closers : cpc[c] = "asleep" => cpool[c] \in Pools
  BY HoldersFinite DEF CoreInv, Typed, Places, RefsExact, Waits
<1>3. Referred /\ cpc = [c \in Closers |-> cpc[c]] /\ refs = [p \in Pools |-> refs[p]]
  BY DEF SleeperAwaited, CoreInv, Typed, RefsExact
<1>4. ASSUME UNCHANGED refs, UNCHANGED cpool,
             \A c \in Closers : cpc'[c] = "asleep" => cpc[c] = "asleep"
      PROVE  Referred'
  BY <1>3, <1>4
<1>5. CASE UNCHANGED coreVars
  <2> UNCHANGED <<refs, cpool, cpc>>
    BY <1>5 DEF coreVars
  <2> QED BY <1>1, <1>4
<1>6. ASSUME NEW w \in Workers, WorkerCore(w)
      PROVE  Referred'
  <2>1. CASE Inside(w) \/ FindCopied(w) \/ \E u \in Udfs : Find(w, u) \/ Copy(w, u)
    <3> UNCHANGED <<refs, cpool, cpc>>
      BY <2>1 DEF Inside, FindCopied, Find, Copy, poolVars, closerVars
    <3> QED BY <1>4
  <2>2. CASE Acquire(w)
    <3>1. UNCHANGED <<cpc, cpool>> /\ (refs' = refs \/ refs' = [refs EXCEPT ![wpool[w]] = @ + 1])
      BY <2>2 DEF Acquire, closerVars
    <3> QED BY <1>2, <1>3, <3>1
  <2>3. CASE Release(w)
    <3>1. /\ refs' = [refs EXCEPT ![wpool[w]] = @ - 1] /\ UNCHANGED cpool
          /\ cpc' = [c \in Closers |-> IF cpc[c] = "asleep" /\ cpool[c] = wpool[w] /\ Wakes(wpool[w])
                                        THEN "awake" ELSE cpc[c]]
      BY <2>3 DEF Release
    <3>2. ASSUME NEW c \in Closers, cpc'[c] = "asleep"
          PROVE  refs'[cpool[c]] > 0
      <4>1. cpc[c] = "asleep" /\ cpool[c] \in Pools /\ refs[cpool[c]] > 0
        BY <1>2, <1>3, <3>1, <3>2
      <4>2. closing[cpool[c]]
        BY <4>1 DEF SleeperAwaited
      <4>3. cpool[c] = wpool[w] => refs[cpool[c]] # 1
        BY <3>1, <3>2, <4>1, <4>2 DEF Wakes
      <4> QED BY <1>2, <1>3, <3>1, <4>1, <4>3
    <3> QED BY <3>1, <3>2
  <2> QED BY <1>6, <2>1, <2>2, <2>3 DEF WorkerCore
<1>7. ASSUME NEW c \in Closers, CloserCore(c)
      PROVE  Referred'
  <2>1. CASE Moves(c)
    <3>1. PICK l \in Registers \cup Waits \cup {"home", "destroying", "closed"} :
            GoesOn(c, l) /\ cpc' = [cpc EXCEPT ![c] = l]
      BY <2>1 DEF Moves
    <3>2. UNCHANGED <<refs, cpool>>
      BY <2>1 DEF Moves
    <3>3. l = "asleep" => refs[cpool[c]] # 0 /\ cpool[c] \in Pools
      BY <3>1 DEF GoesOn, CoreInv, Typed, Places, Waits
    <3> QED BY <1>2, <1>3, <3>1, <3>2, <3>3
  <2>2. ASSUME ~Moves(c)
        PROVE  /\ UNCHANGED refs
               /\ \A d \in Closers : cpc'[d] = "asleep" => cpc[d] = "asleep" /\ cpool'[d] = cpool[d]
    <3> USE <1>3 DEF Typed, CoreInv, poolVars
    <3>1. CASE CreateFailed(c) \/ Publish(c) \/ Quiesce(c) \/ FreePool(c)
      BY <3>1 DEF CreateFailed, Publish, Quiesce, FreePool, Detach
    <3>2. ASSUME NEW p \in Pools, BeginClose(c, p)
          PROVE  UNCHANGED refs /\ \A d \in Closers : cpc'[d] = "asleep" => cpc[d] = "asleep" /\ cpool'[d] = cpool[d]
      BY <3>2 DEF BeginClose
    <3>3. ASSUME NEW u \in Udfs, DropUdf(c, u)
          PROVE  UNCHANGED refs /\ \A d \in Closers : cpc'[d] = "asleep" => cpc[d] = "asleep" /\ cpool'[d] = cpool[d]
      BY <3>3 DEF DropUdf, Detach
    <3>4. ASSUME NEW u \in Udfs, NEW p \in Pools, Create(c, u, p)
          PROVE  UNCHANGED refs /\ \A d \in Closers : cpc'[d] = "asleep" => cpc[d] = "asleep" /\ cpool'[d] = cpool[d]
      BY <3>4 DEF Create
    <3> QED BY <1>7, <2>2, <3>1, <3>2, <3>3, <3>4 DEF CloserCore
  <2> QED BY <1>3, <2>1, <2>2
<1> QED BY <1>1, <1>5, <1>6, <1>7, CoreSteps

(* A closer sleeps only while a request will wake it (rducks_nng_client_pool_release,
   rducks_nng_client_pool_destroy). *)
THEOREM SleepersAreWoken ==
  ASSUME Dynamic \subseteq External
  PROVE  Spec => []SleeperAwaited
<1>1. Init => SleeperAwaited
  BY DEF Init, SleeperAwaited
<1>2. CoreInv /\ CoreInv' /\ SleeperAwaited /\ [Next]_vars => SleeperAwaited'
  BY SleeperStep, PoolAssumption
<1> QED BY <1>1, <1>2, CoreHolds, PTL DEF Spec

(*------------------------------- the counters ----------------------------*)

PoolCounted(p) == {w \in Workers : wpool[w] = p /\ wpc[w] \in {"admitted", "uncounting"} \cup InOp}
PendingExact == pending = [p \in Pools |-> Cardinality(PoolCounted(p))]
Bounded == \A p \in Pools : Cardinality(Admitted(p)) <= MaxPending

LEMMA CountedFinite ==
  ASSUME PoolAssumption, NEW p
  PROVE  /\ IsFiniteSet(PoolCounted(p)) /\ Cardinality(PoolCounted(p)) \in Nat
         /\ IsFiniteSet(Admitted(p)) /\ Cardinality(Admitted(p)) \in Nat
         /\ Cardinality(Admitted(p)) <= Cardinality(PoolCounted(p))
<1>1. PoolCounted(p) \in SUBSET Workers /\ Admitted(p) \in SUBSET PoolCounted(p)
  BY DEF PoolCounted, Admitted, InOp
<1>2. IsFiniteSet(PoolCounted(p))
  BY <1>1, FS_Subset DEF PoolAssumption
<1>3. IsFiniteSet(Admitted(p)) /\ Cardinality(Admitted(p)) <= Cardinality(PoolCounted(p))
  BY <1>1, <1>2, FS_Subset
<1> QED BY <1>2, <1>3, FS_CardinalityType

(* The steps that count a request in and out, and the others. *)
LEMMA AdmitCounts ==
  ASSUME PoolAssumption, CoreInv, PendingExact, Bounded, NEW w \in Workers, Admit(w)
  PROVE  PendingExact' /\ Bounded'
<1> USE DEF Typed
<1>0. Typed
  BY DEF CoreInv
<1>1. PICK p \in Pools : p = wpool[w]
  BY <1>0 DEF Admit, CoreInv, Looking, InPool
<1>2. /\ wpc[w] = "acquired" /\ wpool' = wpool
      /\ wpc' = [wpc EXCEPT ![w] = IF Fits(p) THEN "admitted" ELSE "uncounting"]
      /\ pending' = [pending EXCEPT ![p] = @ + 1]
  BY <1>1 DEF Admit, Move
<1>3. w \notin PoolCounted(p) /\ PoolCounted(p)' = PoolCounted(p) \cup {w}
  BY <1>0, <1>1, <1>2 DEF PoolCounted, InOp
<1>4. \A q \in Pools : q # p => PoolCounted(q)' = PoolCounted(q) /\ Admitted(q)' = Admitted(q)
  BY <1>0, <1>1, <1>2 DEF PoolCounted, Admitted, InOp
<1>5. IsFiniteSet(PoolCounted(p)) /\ IsFiniteSet(Admitted(p))
  BY CountedFinite
<1>6. Cardinality(PoolCounted(p)') = Cardinality(PoolCounted(p)) + 1
  BY <1>3, <1>5, FS_AddElement
<1>7. PendingExact'
  BY <1>2, <1>4, <1>6 DEF PendingExact
<1>8. CASE Fits(p)
  <2>1. w \notin Admitted(p) /\ Admitted(p)' = Admitted(p) \cup {w}
    BY <1>0, <1>1, <1>2, <1>8 DEF Admitted, InOp
  <2>2. Cardinality(Admitted(p)') = Cardinality(Admitted(p)) + 1
    BY <1>5, <2>1, FS_AddElement
  <2>3. Cardinality(Admitted(p)) + 1 <= MaxPending
    BY <1>8, CountedFinite DEF Fits, PendingExact, PoolAssumption
  <2> QED BY <1>4, <1>7, <2>2, <2>3 DEF Bounded
<1>9. CASE ~Fits(p)
  <2>1. Admitted(p)' = Admitted(p)
    BY <1>0, <1>1, <1>2, <1>9 DEF Admitted, InOp
  <2> QED BY <1>4, <1>7, <2>1 DEF Bounded
<1> QED BY <1>8, <1>9

LEMMA UncountCounts ==
  ASSUME PoolAssumption, CoreInv, PendingExact, Bounded, NEW w \in Workers, Uncount(w)
  PROVE  PendingExact' /\ Bounded'
<1> USE DEF Typed
<1>0. Typed
  BY DEF CoreInv
<1>1. PICK p \in Pools : p = wpool[w]
  BY <1>0 DEF Uncount, CoreInv, Looking, InPool
<1>2. /\ wpc[w] = "uncounting" /\ wpool' = wpool
      /\ wpc' = [wpc EXCEPT ![w] = "releasing"]
      /\ pending' = [pending EXCEPT ![p] = @ - 1]
  BY <1>1 DEF Uncount, Move
<1>3. w \in PoolCounted(p) /\ PoolCounted(p)' = PoolCounted(p) \ {w}
  BY <1>0, <1>1, <1>2 DEF PoolCounted, InOp
<1>4. /\ \A q \in Pools : q # p => PoolCounted(q)' = PoolCounted(q)
      /\ \A q \in Pools : Admitted(q)' = Admitted(q)
  BY <1>0, <1>1, <1>2 DEF PoolCounted, Admitted, InOp
<1>5. IsFiniteSet(PoolCounted(p))
  BY CountedFinite
<1>6. Cardinality(PoolCounted(p)') = Cardinality(PoolCounted(p)) - 1
  BY <1>3, <1>5, FS_RemoveElement
<1>7. PendingExact'
  BY <1>2, <1>4, <1>6 DEF PendingExact
<1> QED BY <1>4, <1>7 DEF Bounded

(* a worker that leaves the places where it is counted with its count *)
LEMMA LeaveCounts ==
  ASSUME PoolAssumption, CoreInv, PendingExact, Bounded, NEW w \in Workers, LeaveOp(w)
  PROVE  PendingExact' /\ Bounded'
<1> USE DEF Typed
<1>0. Typed
  BY DEF CoreInv
<1>1. /\ wpc[w] = "leaving" /\ wpool' = wpool /\ pending' = pending
      /\ wpc' = [wpc EXCEPT ![w] = "uncounting"]
  BY DEF LeaveOp, Move, poolVars
<1>2. \A p \in Pools : PoolCounted(p)' = PoolCounted(p) /\ Admitted(p)' \in SUBSET Admitted(p)
  BY <1>0, <1>1 DEF PoolCounted, Admitted, InOp
<1>3. \A p \in Pools : Cardinality(Admitted(p)') <= Cardinality(Admitted(p))
  BY <1>2, CountedFinite, FS_Subset
<1>4. \A p \in Pools : /\ Cardinality(Admitted(p)) \in Nat
                       /\ IsFiniteSet(Admitted(p)')
  BY <1>2, CountedFinite, FS_Subset
<1>5. \A p \in Pools : Cardinality(Admitted(p)') \in Nat
  BY <1>4, FS_CardinalityType
<1>6. Bounded'
  BY <1>3, <1>4, <1>5 DEF Bounded, PoolAssumption
<1> QED BY <1>1, <1>2, <1>6 DEF PendingExact

LEMMA PendingStep ==
  ASSUME PoolAssumption, CoreInv, PendingExact, Bounded, [Next]_vars
  PROVE  PendingExact' /\ Bounded'
<1>0. Typed
  BY DEF CoreInv
<1>1. ASSUME UNCHANGED pending,
             \A p \in Pools : PoolCounted(p)' = PoolCounted(p) /\ Admitted(p)' = Admitted(p)
      PROVE  PendingExact' /\ Bounded'
  BY <1>1 DEF PendingExact, Bounded
<1>2. ASSUME UNCHANGED <<pending, wpc, wpool>>
      PROVE  PendingExact' /\ Bounded'
  BY <1>1, <1>2 DEF PoolCounted, Admitted
<1>3. ASSUME NEW w \in Workers, WorkerStep(w)
      PROVE  PendingExact' /\ Bounded'
  <2>1. ASSUME UNCHANGED pending, NEW l, wpc' = [wpc EXCEPT ![w] = l],
               \/ wpc[w] \notin {"admitted", "uncounting"} \cup InOp /\ l \notin {"admitted", "uncounting"} \cup InOp
                  /\ \A v \in Workers : v # w => wpool'[v] = wpool[v]
               \/ wpc[w] \in {"admitted"} \cup InOp /\ l \in InOp /\ wpool' = wpool
        PROVE  PendingExact' /\ Bounded'
    <3>1. \A p \in Pools : PoolCounted(p)' = PoolCounted(p) /\ Admitted(p)' = Admitted(p)
      BY <1>0, <2>1 DEF Typed, PoolCounted, Admitted, InOp
    <3> QED BY <1>1, <2>1, <3>1
  <2>2. CASE FindCopied(w)
    BY <1>0, <2>1, <2>2 DEF FindCopied, Move, Home, InOp, poolVars, Typed
  <2>3. CASE Acquire(w)
    BY <1>0, <2>1, <2>3 DEF Acquire, Move, Home, InOp, Typed
  <2>4. CASE EnterOp(w)
    BY <2>1, <2>4 DEF EnterOp, InOp, poolVars
  <2>5. CASE LockClient(w) \/ Exchange(w)
    BY <2>1, <2>5 DEF LockClient, Exchange, Move, InOp
  <2>6. CASE Release(w)
    BY <1>0, <2>1, <2>6 DEF Release, Home, InOp, Typed
  <2> QED BY <1>3, <2>2, <2>3, <2>4, <2>5, <2>6, AdmitCounts, UncountCounts, LeaveCounts DEF WorkerStep
<1>4. ASSUME NEW w \in Workers, NEW u \in Udfs, Find(w, u) \/ Copy(w, u)
      PROVE  PendingExact' /\ Bounded'
  <2>1. UNCHANGED pending /\ \A p \in Pools : PoolCounted(p)' = PoolCounted(p) /\ Admitted(p)' = Admitted(p)
    BY <1>0, <1>4 DEF Find, Copy, Typed, PoolCounted, Admitted, InOp, poolVars
  <2> QED BY <1>1, <2>1
<1>5. ASSUME NEW w \in Workers, NEW u \in Udfs, NotConfigured(w, u)
      PROVE  PendingExact' /\ Bounded'
  BY <1>2, <1>5 DEF NotConfigured, vars, poolVars, workerVars
<1>6. ASSUME NEW c \in Closers, CloserStep(c) \/ Quiesce(c)
      PROVE  PendingExact' /\ Bounded'
  <2> UNCHANGED <<pending, wpc, wpool>>
    BY <1>6
    DEF CloserStep, Created, CreateFailed, CreateLeaves, Publish, AwaitRefs, CloseEnters, FreePool,
        CountDone, CloseLeaves, Destroyed, BeginClose, Quiesce, poolVars, workerVars
  <2> QED BY <1>2
<1>7. ASSUME NEW c \in Closers, NEW u \in Udfs, DropUdf(c, u) \/ \E p \in Pools : Create(c, u, p)
      PROVE  PendingExact' /\ Bounded'
  <2> UNCHANGED <<pending, wpc, wpool>>
    BY <1>7 DEF DropUdf, Create, poolVars, workerVars
  <2> QED BY <1>2
<1>8. CASE UNCHANGED vars
  BY <1>2, <1>8 DEF vars, poolVars, workerVars
<1> QED BY <1>3, <1>4, <1>5, <1>6, <1>7, <1>8 DEF Next

(* The operations and the open pools are counted by places. *)
OpClosers == {"creating", "created", "freeing", "freed", "closed"}
WorkersAt(L) == {w \in Workers : wpc[w] \in L}
ClosersAt(L) == {c \in Closers : cpc[c] \in L}
AlivePools   == {p \in Pools : alive[p]}

OpsExact  == activeOps = Cardinality(WorkersAt(InOp)) + Cardinality(ClosersAt(OpClosers))
OpenExact == openPools = Cardinality(AlivePools) - Cardinality(ClosersAt({"creating"}))
                         + Cardinality(ClosersAt({"freed"}))

LEMMA PlacesFinite ==
  ASSUME PoolAssumption, NEW L
  PROVE  /\ IsFiniteSet(WorkersAt(L)) /\ Cardinality(WorkersAt(L)) \in Nat
         /\ IsFiniteSet(ClosersAt(L)) /\ Cardinality(ClosersAt(L)) \in Nat
         /\ IsFiniteSet(AlivePools) /\ Cardinality(AlivePools) \in Nat
<1>1. /\ WorkersAt(L) \in SUBSET Workers /\ ClosersAt(L) \in SUBSET Closers
      /\ AlivePools \in SUBSET Pools
  BY DEF WorkersAt, ClosersAt, AlivePools
<1>2. IsFiniteSet(WorkersAt(L)) /\ IsFiniteSet(ClosersAt(L)) /\ IsFiniteSet(AlivePools)
  BY <1>1, FS_Subset DEF PoolAssumption
<1> QED BY <1>2, FS_CardinalityType

(* one of the members of a set comes, goes or stays *)
LEMMA CountMove ==
  ASSUME NEW S, NEW A \in SUBSET S, NEW B \in SUBSET S, IsFiniteSet(A), NEW x \in S,
         \A y \in S : y # x => (y \in A <=> y \in B)
  PROVE  /\ (x \in A <=> x \in B) => Cardinality(B) = Cardinality(A)
         /\ x \notin A /\ x \in B => Cardinality(B) = Cardinality(A) + 1
         /\ x \in A /\ x \notin B => Cardinality(B) = Cardinality(A) - 1
<1>1. ASSUME x \in A <=> x \in B
      PROVE  Cardinality(B) = Cardinality(A)
  <2>1. A = B
    BY <1>1
  <2> QED BY <2>1
<1>2. ASSUME x \notin A, x \in B
      PROVE  Cardinality(B) = Cardinality(A) + 1
  <2>1. B = A \cup {x}
    BY <1>2
  <2> QED BY <1>2, <2>1, FS_AddElement
<1>3. ASSUME x \in A, x \notin B
      PROVE  Cardinality(B) = Cardinality(A) - 1
  <2>1. B = A \ {x}
    BY <1>3
  <2> QED BY <1>3, <2>1, FS_RemoveElement
<1> QED BY <1>1, <1>2, <1>3

(* a step of one worker keeps the count of operations *)
LEMMA OpsWorker ==
  ASSUME PoolAssumption, Typed, OpsExact, NEW w \in Workers, NEW l, wpc' = [wpc EXCEPT ![w] = l],
         ClosersAt(OpClosers)' = ClosersAt(OpClosers),
         \/ (wpc[w] \in InOp <=> l \in InOp) /\ activeOps' = activeOps
         \/ wpc[w] \notin InOp /\ l \in InOp /\ activeOps' = activeOps + 1
         \/ wpc[w] \in InOp /\ l \notin InOp /\ activeOps' = activeOps - 1
  PROVE  OpsExact'
<1> DEFINE A == WorkersAt(InOp)
<1> DEFINE B == WorkersAt(InOp)'
<1>1. A \in SUBSET Workers /\ B \in SUBSET Workers /\ IsFiniteSet(A) /\ Cardinality(A) \in Nat
      /\ Cardinality(ClosersAt(OpClosers)) \in Nat
  BY PlacesFinite DEF WorkersAt
<1>2. /\ \A v \in Workers : v # w => (v \in A <=> v \in B)
      /\ w \in A <=> wpc[w] \in InOp
      /\ w \in B <=> l \in InOp
  BY DEF WorkersAt, Typed, InOp
<1>3. /\ activeOps = Cardinality(A) + Cardinality(ClosersAt(OpClosers))
      /\ OpsExact' <=> activeOps' = Cardinality(B) + Cardinality(ClosersAt(OpClosers))
  BY DEF OpsExact
<1> HIDE DEF A, B
<1>4. /\ (wpc[w] \in InOp <=> l \in InOp) => Cardinality(B) = Cardinality(A)
      /\ wpc[w] \notin InOp /\ l \in InOp => Cardinality(B) = Cardinality(A) + 1
      /\ wpc[w] \in InOp /\ l \notin InOp => Cardinality(B) = Cardinality(A) - 1
  BY <1>1, <1>2, CountMove
<1> QED BY <1>1, <1>3, <1>4

(* and so does a step of one closer *)
LEMMA ClosersMove ==
  ASSUME PoolAssumption, Typed, NEW c \in Closers, NEW l, cpc' = [cpc EXCEPT ![c] = l], NEW L
  PROVE  LET B == {d \in Closers : cpc'[d] \in L} IN
         /\ (cpc[c] \in L <=> l \in L) => Cardinality(B) = Cardinality(ClosersAt(L))
         /\ cpc[c] \notin L /\ l \in L => Cardinality(B) = Cardinality(ClosersAt(L)) + 1
         /\ cpc[c] \in L /\ l \notin L => Cardinality(B) = Cardinality(ClosersAt(L)) - 1
<1> DEFINE A == ClosersAt(L)
<1> DEFINE B == {d \in Closers : cpc'[d] \in L}
<1>1. A \in SUBSET Closers /\ B \in SUBSET Closers /\ IsFiniteSet(A)
  BY PlacesFinite DEF ClosersAt
<1>2. /\ \A d \in Closers : d # c => (d \in A <=> d \in B)
      /\ c \in A <=> cpc[c] \in L
      /\ c \in B <=> l \in L
  BY DEF ClosersAt, Typed
<1> HIDE DEF A, B
<1>3. /\ (cpc[c] \in L <=> l \in L) => Cardinality(B) = Cardinality(A)
      /\ cpc[c] \notin L /\ l \in L => Cardinality(B) = Cardinality(A) + 1
      /\ cpc[c] \in L /\ l \notin L => Cardinality(B) = Cardinality(A) - 1
  BY <1>1, <1>2, CountMove
<1> QED BY <1>3 DEF A, B

LEMMA OpsCloser ==
  ASSUME PoolAssumption, Typed, OpsExact, NEW c \in Closers, NEW l, cpc' = [cpc EXCEPT ![c] = l],
         wpc' = wpc,
         \/ (cpc[c] \in OpClosers <=> l \in OpClosers) /\ activeOps' = activeOps
         \/ cpc[c] \notin OpClosers /\ l \in OpClosers /\ activeOps' = activeOps + 1
         \/ cpc[c] \in OpClosers /\ l \notin OpClosers /\ activeOps' = activeOps - 1
  PROVE  OpsExact'
<1> DEFINE n == Cardinality(WorkersAt(InOp))
<1> DEFINE m == Cardinality(ClosersAt(OpClosers))
<1> DEFINE k == Cardinality({d \in Closers : cpc'[d] \in OpClosers})
<1>1. n \in Nat /\ m \in Nat /\ activeOps = n + m
  BY PlacesFinite DEF OpsExact
<1>2. OpsExact' <=> activeOps' = n + k
  BY DEF OpsExact, WorkersAt, ClosersAt, OpClosers
<1>3. /\ (cpc[c] \in OpClosers <=> l \in OpClosers) => k = m
      /\ cpc[c] \notin OpClosers /\ l \in OpClosers => k = m + 1
      /\ cpc[c] \in OpClosers /\ l \notin OpClosers => k = m - 1
  BY ClosersMove
<1> HIDE DEF n, m, k
<1> QED BY <1>1, <1>2, <1>3

LEMMA OpsStep ==
  ASSUME PoolAssumption, CoreInv, OpsExact, [Next]_vars
  PROVE  OpsExact'
<1>0. Typed
  BY DEF CoreInv
<1>1. ASSUME NEW w \in Workers, WorkerStep(w)
      PROVE  OpsExact'
  <2> USE DEF InOp, Move, Home, closerVars, gaugeVars, ClosersAt
  <2> SUFFICES /\ ClosersAt(OpClosers)' = ClosersAt(OpClosers)
               /\ \E l : wpc' = [wpc EXCEPT ![w] = l]
                    /\ \/ (wpc[w] \in InOp <=> l \in InOp) /\ activeOps' = activeOps
                       \/ wpc[w] \notin InOp /\ l \in InOp /\ activeOps' = activeOps + 1
                       \/ wpc[w] \in InOp /\ l \notin InOp /\ activeOps' = activeOps - 1
    <3> HIDE DEF InOp, ClosersAt
    <3> QED BY <1>0, OpsWorker
  <2>1. CASE FindCopied(w)
    BY <2>1 DEF FindCopied
  <2>2. CASE Acquire(w)
    BY <2>2 DEF Acquire
  <2>3. CASE Admit(w)
    <3>1. /\ wpc[w] = "acquired" /\ UNCHANGED <<activeOps, cpc>>
          /\ wpc' = [wpc EXCEPT ![w] = "admitted"] \/ wpc' = [wpc EXCEPT ![w] = "uncounting"]
      BY <2>3 DEF Admit
    <3>2. CASE wpc' = [wpc EXCEPT ![w] = "admitted"]
      BY <3>1, <3>2
    <3>3. CASE wpc' = [wpc EXCEPT ![w] = "uncounting"]
      BY <3>1, <3>3
    <3> QED BY <3>1, <3>2, <3>3
  <2>4. CASE EnterOp(w)
    BY <2>4 DEF EnterOp
  <2>5. CASE LockClient(w)
    BY <2>5 DEF LockClient
  <2>6. CASE Exchange(w)
    BY <2>6 DEF Exchange
  <2>7. CASE LeaveOp(w)
    <3>1. /\ wpc[w] = "leaving" /\ activeOps' = activeOps - 1 /\ UNCHANGED cpc
          /\ wpc' = [wpc EXCEPT ![w] = "uncounting"]
      BY <2>7 DEF LeaveOp
    <3>2. wpc[w] \in InOp /\ "uncounting" \notin InOp
      BY <3>1
    <3>3. ClosersAt(OpClosers)' = ClosersAt(OpClosers)
      BY <3>1
    <3> HIDE DEF InOp, ClosersAt
    <3> QED BY <3>1, <3>2, <3>3
  <2>8. CASE Uncount(w)
    <3>1. /\ wpc[w] = "uncounting" /\ UNCHANGED <<activeOps, cpc>>
          /\ wpc' = [wpc EXCEPT ![w] = "releasing"]
      BY <2>8 DEF Uncount
    <3>2. wpc[w] \notin InOp /\ "releasing" \notin InOp
      BY <3>1
    <3>3. ClosersAt(OpClosers)' = ClosersAt(OpClosers)
      BY <3>1
    <3> HIDE DEF InOp, ClosersAt
    <3> QED BY <3>1, <3>2, <3>3
  <2>9. CASE Release(w)
    <3>1. activeOps' = activeOps /\ wpc' = [wpc EXCEPT ![w] = "home"] /\ wpc[w] = "releasing"
      BY <2>9 DEF Release
    <3>2. ClosersAt(OpClosers)' = ClosersAt(OpClosers)
      BY <2>9 DEF Release, OpClosers
    <3>3. wpc[w] \notin InOp /\ "home" \notin InOp
      BY <3>1
    <3> HIDE DEF InOp, ClosersAt
    <3> QED BY <3>1, <3>2, <3>3
  <2> QED BY <1>1, <2>1, <2>2, <2>3, <2>4, <2>5, <2>6, <2>7, <2>8, <2>9 DEF WorkerStep
<1>2. ASSUME NEW w \in Workers, NEW u \in Udfs, Find(w, u) \/ Copy(w, u)
      PROVE  OpsExact'
  <2>1. /\ ClosersAt(OpClosers)' = ClosersAt(OpClosers) /\ activeOps' = activeOps
        /\ wpc[w] = "home" /\ \E l \in {"found", "copied"} : wpc' = [wpc EXCEPT ![w] = l]
    BY <1>2 DEF Find, Copy, gaugeVars, closerVars, ClosersAt
  <2>2. wpc[w] \notin InOp /\ "found" \notin InOp /\ "copied" \notin InOp
    BY <2>1 DEF InOp
  <2> QED BY <1>0, <2>1, <2>2, OpsWorker
<1>3. ASSUME NEW c \in Closers,
             CloserStep(c) \/ Quiesce(c) \/ \E u \in Udfs : DropUdf(c, u) \/ \E p \in Pools : Create(c, u, p)
      PROVE  OpsExact'
  <2> USE DEF OpClosers, Step, workerVars, gaugeVars
  <2> SUFFICES /\ wpc' = wpc
               /\ \E l : cpc' = [cpc EXCEPT ![c] = l]
                    /\ \/ (cpc[c] \in OpClosers <=> l \in OpClosers) /\ activeOps' = activeOps
                       \/ cpc[c] \notin OpClosers /\ l \in OpClosers /\ activeOps' = activeOps + 1
                       \/ cpc[c] \in OpClosers /\ l \notin OpClosers /\ activeOps' = activeOps - 1
    <3> HIDE DEF OpClosers
    <3> QED BY <1>0, OpsCloser
  <2>1. CASE Created(c) \/ CreateFailed(c) \/ CountDone(c)
    BY <2>1 DEF Created, CreateFailed, CountDone
  <2>2. CASE CreateLeaves(c) \/ CloseLeaves(c)
    BY <2>2 DEF CreateLeaves, CloseLeaves
  <2>3. CASE CloseEnters(c)
    BY <2>3 DEF CloseEnters
  <2>4. CASE AwaitRefs(c)
    <3>1. /\ cpc[c] = "awake" /\ UNCHANGED <<activeOps, wpc>>
          /\ cpc' = [cpc EXCEPT ![c] = "drained"] \/ cpc' = [cpc EXCEPT ![c] = "asleep"]
      BY <2>4 DEF AwaitRefs
    <3>2. CASE cpc' = [cpc EXCEPT ![c] = "drained"]
      BY <3>1, <3>2
    <3>3. CASE cpc' = [cpc EXCEPT ![c] = "asleep"]
      BY <3>1, <3>3
    <3> QED BY <3>1, <3>2, <3>3
  <2>5. CASE Publish(c) \/ FreePool(c) \/ Destroyed(c)
    BY <2>5 DEF Publish, FreePool, Destroyed
  <2>6. CASE \E p \in Pools : BeginClose(c, p)
    <3>1. /\ cpc[c] = "destroying" /\ UNCHANGED <<activeOps, wpc>>
          /\ cpc' = [cpc EXCEPT ![c] = "awake"]
      BY <2>6 DEF BeginClose
    <3>2. cpc[c] \notin OpClosers /\ "awake" \notin OpClosers
      BY <3>1
    <3> HIDE DEF OpClosers
    <3> QED BY <3>1, <3>2
  <2>7. CASE Quiesce(c) \/ \E u \in Udfs : DropUdf(c, u)
    <3>1. /\ cpc[c] = "home" /\ UNCHANGED <<activeOps, wpc>>
          /\ cpc' = [cpc EXCEPT ![c] = "destroying"]
      BY <2>7 DEF Quiesce, DropUdf, Detach
    <3>2. cpc[c] \notin OpClosers /\ "destroying" \notin OpClosers
      BY <3>1
    <3> HIDE DEF OpClosers
    <3> QED BY <3>1, <3>2
  <2>8. CASE \E u \in Udfs, p \in Pools : Create(c, u, p)
    BY <2>8 DEF Create
  <2> QED BY <1>3, <2>1, <2>2, <2>3, <2>4, <2>5, <2>6, <2>7, <2>8 DEF CloserStep
<1>4. ASSUME UNCHANGED vars
      PROVE  OpsExact'
  BY <1>4 DEF vars, gaugeVars, workerVars, closerVars, OpsExact, WorkersAt, ClosersAt
<1>5. ASSUME NEW w \in Workers, NEW u \in Udfs, NotConfigured(w, u)
      PROVE  UNCHANGED vars
  BY <1>5 DEF NotConfigured
<1> QED BY <1>1, <1>2, <1>3, <1>4, <1>5 DEF Next

(* The open pools: those that are alive, without one that is being created and
   with one that has just been freed. *)
LEMMA OpenCloser ==
  ASSUME PoolAssumption, Typed, OpenExact, NEW c \in Closers, NEW l, cpc' = [cpc EXCEPT ![c] = l],
         \/ /\ cpc[c] = "home" /\ l = "creating" /\ openPools' = openPools
            /\ \E p \in Pools : ~alive[p] /\ alive' = [alive EXCEPT ![p] = TRUE]
         \/ cpc[c] = "creating" /\ l = "created" /\ openPools' = openPools + 1 /\ alive' = alive
         \/ /\ cpc[c] = "creating" /\ l = "created" /\ openPools' = openPools
            /\ \E p \in Pools : alive[p] /\ alive' = [alive EXCEPT ![p] = FALSE]
         \/ /\ cpc[c] = "freeing" /\ l = "freed" /\ openPools' = openPools
            /\ \E p \in Pools : alive[p] /\ alive' = [alive EXCEPT ![p] = FALSE]
         \/ cpc[c] = "freed" /\ l = "closed" /\ openPools' = openPools - 1 /\ alive' = alive
         \/ /\ {cpc[c], l} \cap {"creating", "freed"} = {}
            /\ openPools' = openPools /\ alive' = alive
  PROVE  OpenExact'
<1> DEFINE n == Cardinality(AlivePools)
<1> DEFINE n1 == Cardinality(AlivePools')
<1> DEFINE k == Cardinality(ClosersAt({"creating"}))
<1> DEFINE k1 == Cardinality({d \in Closers : cpc'[d] \in {"creating"}})
<1> DEFINE f == Cardinality(ClosersAt({"freed"}))
<1> DEFINE f1 == Cardinality({d \in Closers : cpc'[d] \in {"freed"}})
<1>1. n \in Nat /\ k \in Nat /\ f \in Nat /\ openPools = n - k + f
  BY PlacesFinite DEF OpenExact
<1>2. OpenExact' <=> openPools' = n1 - k1 + f1
  BY DEF OpenExact, ClosersAt
<1>3. /\ (cpc[c] = "creating" <=> l = "creating") => k1 = k
      /\ cpc[c] # "creating" /\ l = "creating" => k1 = k + 1
      /\ cpc[c] = "creating" /\ l # "creating" => k1 = k - 1
  BY ClosersMove
<1>4. /\ (cpc[c] = "freed" <=> l = "freed") => f1 = f
      /\ cpc[c] # "freed" /\ l = "freed" => f1 = f + 1
      /\ cpc[c] = "freed" /\ l # "freed" => f1 = f - 1
  BY ClosersMove
<1>5. ASSUME NEW p \in Pools
      PROVE
      /\ alive' = alive => n1 = n
      /\ ~alive[p] /\ alive' = [alive EXCEPT ![p] = TRUE] => n1 = n + 1
      /\ alive[p] /\ alive' = [alive EXCEPT ![p] = FALSE] => n1 = n - 1
  <2> DEFINE A == AlivePools
  <2> DEFINE B == AlivePools'
  <2>1. A \in SUBSET Pools /\ B \in SUBSET Pools /\ IsFiniteSet(A)
    BY PlacesFinite DEF AlivePools
  <2>2. alive' = alive => A = B
    BY DEF AlivePools
  <2>3. ~alive[p] /\ alive' = [alive EXCEPT ![p] = TRUE] =>
          p \notin A /\ p \in B /\ \A q \in Pools : q # p => (q \in A <=> q \in B)
    BY DEF AlivePools, Typed
  <2>4. alive[p] /\ alive' = [alive EXCEPT ![p] = FALSE] =>
          p \in A /\ p \notin B /\ \A q \in Pools : q # p => (q \in A <=> q \in B)
    BY DEF AlivePools, Typed
  <2>5. ASSUME ~alive[p], alive' = [alive EXCEPT ![p] = TRUE]
        PROVE  n1 = n + 1
    <3> HIDE DEF A, B
    <3>1. Cardinality(B) = Cardinality(A) + 1
      BY <2>1, <2>3, <2>5, CountMove
    <3> QED BY <3>1 DEF A, B
  <2>6. ASSUME alive[p], alive' = [alive EXCEPT ![p] = FALSE]
        PROVE  n1 = n - 1
    <3> HIDE DEF A, B
    <3>1. Cardinality(B) = Cardinality(A) - 1
      BY <2>1, <2>4, <2>6, CountMove
    <3> QED BY <3>1 DEF A, B
  <2> QED BY <2>2, <2>5, <2>6
<1>e. alive' = alive => n1 = n
  BY DEF AlivePools
<1> HIDE DEF n, n1, k, k1, f, f1
<1>6. CASE cpc[c] = "home" /\ l = "creating"
  BY <1>1, <1>2, <1>3, <1>4, <1>5, <1>e, <1>6
<1>7. CASE cpc[c] = "creating" /\ l = "created"
  BY <1>1, <1>2, <1>3, <1>4, <1>5, <1>e, <1>7
<1>8. CASE cpc[c] = "freeing" /\ l = "freed"
  BY <1>1, <1>2, <1>3, <1>4, <1>5, <1>e, <1>8
<1>9. CASE cpc[c] = "freed" /\ l = "closed"
  BY <1>1, <1>2, <1>3, <1>4, <1>5, <1>e, <1>9
<1>10. CASE {cpc[c], l} \cap {"creating", "freed"} = {} /\ openPools' = openPools /\ alive' = alive
  <2>1. cpc[c] # "creating" /\ l # "creating" /\ cpc[c] # "freed" /\ l # "freed"
    BY <1>10
  <2> QED BY <1>1, <1>2, <1>3, <1>4, <1>e, <1>10, <2>1
<1> QED BY <1>6, <1>7, <1>8, <1>9, <1>10

LEMMA OpenStep ==
  ASSUME PoolAssumption, CoreInv, OpenExact, [Next]_vars
  PROVE  OpenExact'
<1>0. Typed
  BY DEF CoreInv
<1>1. ASSUME UNCHANGED <<openPools, alive, cpc>>
      PROVE  OpenExact'
  BY <1>1 DEF OpenExact, AlivePools, ClosersAt
<1>2. ASSUME NEW w \in Workers, WorkerStep(w)
      PROVE  OpenExact'
  <2>1. CASE Release(w)
    <3>1. UNCHANGED <<openPools, alive>>
      BY <2>1 DEF Release, gaugeVars
    <3>2. ClosersAt({"creating"})' = ClosersAt({"creating"}) /\ ClosersAt({"freed"})' = ClosersAt({"freed"})
      BY <2>1 DEF Release, ClosersAt
    <3> QED BY <3>1, <3>2 DEF OpenExact, AlivePools
  <2>2. CASE ~Release(w)
    <3> UNCHANGED <<openPools, alive, cpc>>
      BY <1>2, <2>2
      DEF WorkerStep, FindCopied, Acquire, Admit, EnterOp, LockClient, Exchange, LeaveOp, Uncount,
          poolVars, gaugeVars, closerVars
    <3> QED BY <1>1
  <2> QED BY <2>1, <2>2
<1>3. ASSUME NEW w \in Workers, NEW u \in Udfs, Find(w, u) \/ Copy(w, u) \/ NotConfigured(w, u)
      PROVE  OpenExact'
  <2> UNCHANGED <<openPools, alive, cpc>>
    BY <1>3 DEF Find, Copy, NotConfigured, vars, poolVars, gaugeVars, closerVars
  <2> QED BY <1>1
<1>4. ASSUME NEW c \in Closers,
             CloserStep(c) \/ Quiesce(c) \/ \E u \in Udfs : DropUdf(c, u) \/ \E p \in Pools : Create(c, u, p)
      PROVE  OpenExact'
  <2> USE DEF Step, poolVars, gaugeVars
  <2>0. ASSUME NEW l, cpc' = [cpc EXCEPT ![c] = l], UNCHANGED <<openPools, alive>>,
               cpc[c] \notin {"creating", "freed"}, l \notin {"creating", "freed"}
        PROVE  OpenExact'
    <3>1. {cpc[c], l} \cap {"creating", "freed"} = {}
      BY <2>0
    <3> QED BY <1>0, <2>0, <3>1, OpenCloser
  <2>1. CASE Created(c)
    <3>1. /\ cpc[c] = "creating" /\ cpc' = [cpc EXCEPT ![c] = "created"]
          /\ openPools' = openPools + 1 /\ alive' = alive
      BY <2>1 DEF Created
    <3> QED BY <1>0, <3>1, OpenCloser
  <2>2. CASE CreateFailed(c)
    <3>1. /\ cpc[c] = "creating" /\ cpc' = [cpc EXCEPT ![c] = "created"]
          /\ openPools' = openPools /\ alive' = [alive EXCEPT ![cpool[c]] = FALSE]
      BY <2>2 DEF CreateFailed
    <3>2. cpool[c] \in Pools /\ alive[cpool[c]]
      BY <1>0, <3>1 DEF CoreInv, Typed, Places, InUseIsAlive
    <3> QED BY <1>0, <3>1, <3>2, OpenCloser
  <2>3. CASE FreePool(c)
    <3>1. /\ cpc[c] = "freeing" /\ cpc' = [cpc EXCEPT ![c] = "freed"]
          /\ openPools' = openPools /\ alive' = [alive EXCEPT ![cpool[c]] = FALSE]
      BY <2>3 DEF FreePool
    <3>2. cpool[c] \in Pools /\ alive[cpool[c]]
      BY <1>0, <3>1 DEF CoreInv, Typed, Places, InUseIsAlive, Waits
    <3> QED BY <1>0, <3>1, <3>2, OpenCloser
  <2>4. CASE CountDone(c)
    <3>1. /\ cpc[c] = "freed" /\ cpc' = [cpc EXCEPT ![c] = "closed"]
          /\ openPools' = openPools - 1 /\ alive' = alive
      BY <2>4 DEF CountDone
    <3> QED BY <1>0, <3>1, OpenCloser
  <2>5. CASE \E u \in Udfs, p \in Pools : Create(c, u, p)
    <3>1. PICK p \in Pools : \E u \in Udfs : Create(c, u, p)
      BY <2>5
    <3>2. /\ cpc[c] = "home" /\ cpc' = [cpc EXCEPT ![c] = "creating"]
          /\ openPools' = openPools /\ ~alive[p] /\ alive' = [alive EXCEPT ![p] = TRUE]
      BY <3>1 DEF Create
    <3> QED BY <1>0, <3>2, OpenCloser
  <2>6. CASE CreateLeaves(c) \/ Publish(c) \/ CloseEnters(c) \/ CloseLeaves(c) \/ Destroyed(c)
    BY <2>0, <2>6 DEF CreateLeaves, Publish, CloseEnters, CloseLeaves, Destroyed
  <2>7. CASE AwaitRefs(c)
    <3>1. /\ cpc[c] = "awake" /\ UNCHANGED <<openPools, alive>>
          /\ \/ cpc' = [cpc EXCEPT ![c] = "drained"]
             \/ cpc' = [cpc EXCEPT ![c] = "asleep"]
      BY <2>7 DEF AwaitRefs
    <3>2. {cpc[c], "drained", "asleep"} \cap {"creating", "freed"} = {}
      BY <3>1
    <3> QED BY <2>0, <3>1, <3>2
  <2>8. CASE Quiesce(c) \/ \E u \in Udfs : DropUdf(c, u)
    <3>1. cpc[c] = "home" /\ cpc' = [cpc EXCEPT ![c] = "destroying"] /\ UNCHANGED <<openPools, alive>>
      BY <2>8 DEF Quiesce, DropUdf, Detach
    <3>2. {cpc[c], "destroying"} \cap {"creating", "freed"} = {}
      BY <3>1
    <3> QED BY <2>0, <3>1, <3>2
  <2>9. CASE \E p \in Pools : BeginClose(c, p)
    <3>1. cpc[c] = "destroying" /\ cpc' = [cpc EXCEPT ![c] = "awake"] /\ UNCHANGED <<openPools, alive>>
      BY <2>9 DEF BeginClose
    <3>2. {cpc[c], "awake"} \cap {"creating", "freed"} = {}
      BY <3>1
    <3> QED BY <2>0, <3>1, <3>2
  <2> QED BY <1>4, <2>1, <2>2, <2>3, <2>4, <2>5, <2>6, <2>7, <2>8, <2>9 DEF CloserStep
<1>5. CASE UNCHANGED vars
  BY <1>1, <1>5 DEF vars, poolVars, gaugeVars, closerVars
<1> QED BY <1>2, <1>3, <1>4, <1>5 DEF Next

Counts == PendingExact /\ Bounded /\ OpsExact /\ OpenExact

LEMMA CountsInit == ASSUME PoolAssumption, Init PROVE Counts
<1>1. /\ \A p \in Pools : PoolCounted(p) = {} /\ Admitted(p) = {}
      /\ WorkersAt(InOp) = {} /\ ClosersAt(OpClosers) = {}
      /\ ClosersAt({"creating"}) = {} /\ ClosersAt({"freed"}) = {} /\ AlivePools = {}
  BY DEF Init, PoolCounted, Admitted, WorkersAt, ClosersAt, AlivePools, InOp, OpClosers
<1>2. Cardinality({}) = 0
  BY FS_EmptySet
<1>3. pending = [p \in Pools |-> 0] /\ activeOps = 0 /\ openPools = 0 /\ 0 <= MaxPending
  BY DEF Init, PoolAssumption
<1>4. PendingExact
  BY <1>1, <1>2, <1>3 DEF PendingExact
<1>5. Bounded
  BY <1>1, <1>2, <1>3 DEF Bounded
<1>6. OpsExact
  BY <1>1, <1>2, <1>3 DEF OpsExact
<1>7. OpenExact
  BY <1>1, <1>2, <1>3 DEF OpenExact
<1> QED BY <1>4, <1>5, <1>6, <1>7 DEF Counts

LEMMA CountsImply == ASSUME CoreInv, Counts PROVE CountsExact
<1>1. \A p \in Pools : refs[p] = Cardinality(Holders(p)) /\ pending[p] = Cardinality(PoolCounted(p))
  BY DEF CoreInv, Counts, RefsExact, PendingExact
<1>2. \A p \in Pools : Cardinality(Admitted(p)) <= MaxPending
  BY DEF Counts, Bounded
<1>3. activeOps = Cardinality(WorkersAt(InOp)) + Cardinality(ClosersAt(OpClosers))
  BY DEF Counts, OpsExact
<1>4. ClosersAt({"creating"}) = {c \in Closers : cpc[c] = "creating"}
  BY DEF ClosersAt
<1>5. ClosersAt({"freed"}) = {c \in Closers : cpc[c] = "freed"}
  BY DEF ClosersAt
<1>6. openPools = Cardinality(AlivePools) - Cardinality({c \in Closers : cpc[c] = "creating"})
                   + Cardinality({c \in Closers : cpc[c] = "freed"})
  BY <1>4, <1>5 DEF Counts, OpenExact
<1> QED BY <1>1, <1>2, <1>3, <1>6
        DEF CountsExact, Holders, PoolCounted, WorkersAt, ClosersAt, AlivePools, OpClosers

(* The reference counts, the pending gauges and the operations and pools that a
   quiesce waits for say what they count, and no pool admits more requests than
   ipc_max_pending (rducks_nng.c). *)
THEOREM CountsAreExact ==
  ASSUME Dynamic \subseteq External
  PROVE  Spec => []CountsExact
<1>1. Init => Counts
  BY CountsInit, PoolAssumption
<1>2. CoreInv /\ Counts /\ [Next]_vars => Counts'
  BY PendingStep, OpsStep, OpenStep, PoolAssumption DEF Counts
<1>3. CoreInv /\ Counts => CountsExact
  BY CountsImply
<1> QED BY <1>1, <1>2, <1>3, CoreHolds, PTL DEF Spec

(*------------------------------ scalar calls -----------------------------*)

RowsPlaces == {"pumping", "range", "called", "queued", "evaluating", "done"}
Holding == {"called", "queued", "evaluating"}

(* a thread that has a chunk *)
Active(t) == pc[t] \in Holding

RowsTyped ==
  /\ plan \in [mode : {"R", "RIPC"}, typed : BOOLEAN, managed : BOOLEAN,
               service : BOOLEAN, backend : Backends]
  /\ next \in Nat /\ failed \in BOOLEAN
  /\ pc \in [Threads -> RowsPlaces] /\ start \in [Threads -> Nat]
  /\ evaluated \in [Rows -> Nat]

(* R evaluates the chunk of a thread that waits for it, and the R thread does
   nothing else meanwhile. *)
Entered ==
  /\ \A e \in inR : /\ e.by = RThread /\ e.of \in Threads
                    /\ pc[e.of] \in {"queued", "evaluating"}
                    /\ plan.mode = "R" /\ ~Recursive
  /\ \A t \in Threads : pc[t] = "queued" => plan.mode = "R" /\ ~Recursive
  /\ \A e, f \in inR : e = f
  /\ inR # {} => pc[RThread] \in {"queued", "pumping", "evaluating"}

(* The chunks under way are behind the cursor, apart from each other, and not
   evaluated yet. *)
Behind == \A t \in Threads : Active(t) => start[t] + Chunk <= next
Apart ==
  \A t, u \in Threads :
    Active(t) /\ Active(u) /\ t # u
    => start[t] + Chunk <= start[u] \/ start[u] + Chunk <= start[t]
Fresh ==
  /\ \A t \in Threads : Active(t) => \A r \in ChunkOf(t) : evaluated[r] = 0
  /\ \A r \in Rows : evaluated[r] <= 1 /\ (r >= next => evaluated[r] = 0)

(* Without an error every row behind the cursor is evaluated or under way, and a
   thread ends only when the cursor has passed the last one. *)
Covered ==
  ~failed =>
    /\ \A r \in Rows : r < next => evaluated[r] = 1 \/ \E t \in Threads : Active(t) /\ r \in ChunkOf(t)
    /\ \A t \in Threads : pc[t] = "done" => next >= Total

(* The R thread serves the stream of a managed query and takes no chunk of it. *)
Pumping == plan.managed => pc[RThread] = "pumping"

RowsInv == Behind /\ Apart /\ Fresh /\ Covered

(* the rows the statistics have counted, and the queued chunks that have not been
   given to an evaluator *)
Counting == {r \in Rows : r < next /\ \A t \in Threads : pc[t] = "called" => r \notin ChunkOf(t)}
Unserved == {t \in Threads : pc[t] = "queued" /\ \A e \in inR : e.of # t}

StatsType ==
  stats \in [chunks : Nat, rows : Nat, direct : Nat, queued : Nat, evaluator : Nat]

StatsInv ==
  /\ StatsType
  /\ stats.chunks = stats.direct + stats.queued
  /\ ~failed => stats.rows = Cardinality(Counting)
  /\ ~failed /\ plan.typed => stats.evaluator + Cardinality(Unserved) = stats.chunks

CallsInv == RowsTyped /\ Pumping /\ Entered /\ RowsInv /\ StatsInv

-----------------------------------------------------------------------------
(* What a step does to the chunks: a thread takes one, keeps it while it moves on,
   leaves it with an error, has it answered, or ends after an error. *)
chunkVars == <<pc, next, start, evaluated, failed>>

Keeps(t) ==
  /\ Active(t) /\ \E l \in Holding : pc' = [pc EXCEPT ![t] = l]
  /\ UNCHANGED <<next, start, evaluated, failed>>
Leaves(t) ==
  /\ Active(t) /\ pc' = [pc EXCEPT ![t] = "range"] /\ failed' = TRUE
  /\ UNCHANGED <<next, start, evaluated>>
Answers(t) ==
  /\ Active(t) /\ pc' = [pc EXCEPT ![t] = "range"]
  /\ evaluated' = [r \in Rows |-> IF r \in ChunkOf(t) THEN evaluated[r] + 1 ELSE evaluated[r]]
  /\ UNCHANGED <<next, start, failed>>
ChunkStep ==
  \/ \E t \in Threads : TakeChunk(t) \/ Keeps(t) \/ Leaves(t) \/ Answers(t) \/ Quit(t)
  \/ UNCHANGED chunkVars

LEMMA StepsClassified ==
  ASSUME Entered, [QueryNext]_queryVars
  PROVE  ChunkStep
<1>1. ASSUME NEW t \in Threads, TakeChunk(t) \/ Quit(t)
      PROVE  ChunkStep
  BY <1>1 DEF ChunkStep
<1>2. ASSUME NEW t \in Threads, ToWorker(t)
      PROVE  Answers(t) \/ Leaves(t)
  BY <1>2 DEF ToWorker, Answers, Leaves, Active, Holding, FailChunk, GoTo
<1>3. ASSUME NEW t \in Threads, Refused(t) \/ GiveUp(t)
      PROVE  Leaves(t)
  BY <1>3 DEF Refused, GiveUp, InProcess, Leaves, Active, Holding, FailChunk, GoTo
<1>4. ASSUME NEW t \in Threads, Direct(t) \/ Queue(t)
      PROVE  Keeps(t)
  BY <1>4 DEF Direct, Queue, InProcess, Keeps, Active, Holding, GoTo
<1>5. ASSUME NEW e \in inR, Evaluated(e)
      PROVE  e.of \in Threads /\ (Answers(e.of) \/ Leaves(e.of))
  BY <1>5 DEF Entered, Evaluated, Answers, Leaves, Active, Holding, FailChunk, GoTo
<1>6. ASSUME \/ \E t \in Threads : Serve(t)
             \/ \E b \in Backends : ChangePlan(b)
             \/ QueryDone \/ UNCHANGED queryVars
      PROVE  UNCHANGED chunkVars
  BY <1>6 DEF Serve, ChangePlan, QueryDone, queryVars, chunkVars
<1> QED BY <1>1, <1>2, <1>3, <1>4, <1>5, <1>6 DEF QueryNext, ChunkStep

(* The types; the plan's mode and service stay, its backend may change. *)
LEMMA PlanStep ==
  ASSUME RowsTyped, [QueryNext]_queryVars
  PROVE  /\ plan' \in [mode : {"R", "RIPC"}, typed : BOOLEAN, managed : BOOLEAN,
                       service : BOOLEAN, backend : Backends]
         /\ plan'.mode = plan.mode /\ plan'.typed = plan.typed
         /\ plan'.managed = plan.managed /\ plan'.service = plan.service
<1>1. ASSUME NEW b \in Backends, ChangePlan(b)
      PROVE  /\ plan' \in [mode : {"R", "RIPC"}, typed : BOOLEAN, managed : BOOLEAN,
                           service : BOOLEAN, backend : Backends]
             /\ plan'.mode = plan.mode /\ plan'.typed = plan.typed
             /\ plan'.managed = plan.managed /\ plan'.service = plan.service
  BY <1>1 DEF ChangePlan, RowsTyped
<1>2. CASE UNCHANGED plan
  BY <1>2 DEF RowsTyped
<1> QED
  BY <1>1, <1>2 DEF QueryNext, queryVars, TakeChunk, Quit, ToWorker, Refused, Direct, Queue, Serve, GiveUp,
                    Evaluated, QueryDone

LEMMA RowsTypedStep ==
  ASSUME CallAssumption, RowsTyped, Entered, [QueryNext]_queryVars
  PROVE  RowsTyped'
<1>1. /\ plan' \in [mode : {"R", "RIPC"}, typed : BOOLEAN, managed : BOOLEAN,
                    service : BOOLEAN, backend : Backends]
      /\ ChunkStep
  BY PlanStep, StepsClassified
<1>2. ASSUME NEW t \in Threads, TakeChunk(t)
      PROVE  RowsTyped'
  BY <1>1, <1>2 DEF CallAssumption, TakeChunk, GoTo, RowsTyped, RowsPlaces, Rows
<1>3. ASSUME NEW t \in Threads, Keeps(t) \/ Leaves(t) \/ Quit(t)
      PROVE  RowsTyped'
  BY <1>1, <1>3 DEF Keeps, Leaves, Quit, GoTo, RowsTyped, RowsPlaces, Rows, Holding
<1>4. ASSUME NEW t \in Threads, Answers(t)
      PROVE  RowsTyped'
  <2>1. evaluated' \in [Rows -> Nat]
    BY <1>4 DEF Answers, RowsTyped
  <2> QED BY <1>1, <1>4, <2>1 DEF Answers, RowsTyped, RowsPlaces, Rows
<1>5. CASE UNCHANGED chunkVars
  BY <1>1, <1>5 DEF chunkVars, RowsTyped, Rows
<1> QED BY <1>1, <1>2, <1>3, <1>4, <1>5 DEF ChunkStep

LEMMA PumpingStep ==
  ASSUME RowsTyped, Pumping, Entered, [QueryNext]_queryVars
  PROVE  Pumping'
<1>1. plan'.managed = plan.managed /\ ChunkStep
  BY PlanStep, StepsClassified
<1>2. ASSUME NEW t \in Threads, TakeChunk(t) \/ Keeps(t) \/ Leaves(t) \/ Answers(t) \/ Quit(t)
      PROVE  /\ \A u \in Threads : u # t => pc'[u] = pc[u]
             /\ pc[t] # "pumping"
  BY <1>2 DEF TakeChunk, Keeps, Leaves, Answers, Quit, GoTo, RowsTyped, Holding, Active
<1> QED BY <1>1, <1>2 DEF ChunkStep, chunkVars, Pumping, Threads

(*----------------------------- who runs R ------------------------------*)

LEMMA EnteredStep ==
  ASSUME CallAssumption, RowsTyped, Entered, [QueryNext]_queryVars
  PROVE  Entered'
<1> DEFINE InPlan == plan.mode = "R" /\ ~Recursive
<1>1. InPlan' <=> InPlan
  BY PlanStep DEF Recursive
<1>2. RThread \in Threads
  BY DEF Threads
<1>3. ASSUME UNCHANGED inR, NEW t \in Threads, NEW l, pc' = [pc EXCEPT ![t] = l],
             \A e \in inR : e.of # t, t = RThread => inR = {}, l = "queued" => InPlan
      PROVE  Entered'
  <2>1. \A u \in Threads : u # t => pc'[u] = pc[u]
    BY <1>3 DEF RowsTyped
  <2> QED BY <1>1, <1>2, <1>3, <2>1 DEF Entered
<1>4. ASSUME NEW t \in Threads, TakeChunk(t) \/ Quit(t) \/ ToWorker(t) \/ Refused(t) \/ Queue(t)
      PROVE  Entered'
  <2>1. /\ UNCHANGED inR /\ pc[t] \in {"range", "called"}
        /\ \E l \in RowsPlaces : pc' = [pc EXCEPT ![t] = l] /\ (l = "queued" => InPlan)
    BY <1>4 DEF TakeChunk, Quit, ToWorker, Refused, Queue, InProcess, FailChunk, GoTo, RowsPlaces
  <2>2. (\A e \in inR : e.of # t) /\ (t = RThread => inR = {})
    BY <2>1 DEF Entered
  <2> QED BY <1>3, <2>1, <2>2
<1>5. ASSUME NEW t \in Threads, GiveUp(t)
      PROVE  Entered'
  BY <1>3, <1>5 DEF GiveUp, FailChunk, GoTo
<1>6. ASSUME NEW t \in Threads, Direct(t)
      PROVE  Entered'
  <2>1. t = RThread /\ pc[RThread] = "called" /\ InPlan
    BY <1>6 DEF Direct, InProcess
  <2>2. inR' = {[by |-> RThread, of |-> RThread]}
    BY <1>6, <2>1 DEF Direct, Entered
  <2>3. pc'[RThread] = "evaluating"
    BY <1>2, <1>6, <2>1 DEF Direct, GoTo, RowsTyped
  <2> QED BY <1>1, <1>2, <2>1, <2>2, <2>3 DEF Entered
<1>7. ASSUME NEW t \in Threads, Serve(t)
      PROVE  Entered'
  <2>1. inR' = {[by |-> RThread, of |-> t]} /\ pc' = pc /\ pc[t] = "queued" /\ Drains
    BY <1>7 DEF Serve
  <2>2. InPlan
    BY <2>1 DEF Entered
  <2> QED BY <1>1, <2>1, <2>2 DEF Entered, Drains
<1>8. ASSUME NEW e \in inR, Evaluated(e)
      PROVE  Entered'
  <2>1. inR' = {} /\ pc' = [pc EXCEPT ![e.of] = "range"]
    BY <1>8 DEF Evaluated, Entered, FailChunk, GoTo
  <2>2. \A t \in Threads : pc'[t] = "queued" => pc[t] = "queued"
    BY <2>1 DEF RowsTyped
  <2> QED BY <1>1, <2>1, <2>2 DEF Entered
<1>9. CASE (\E b \in Backends : ChangePlan(b)) \/ QueryDone \/ UNCHANGED queryVars
  BY <1>1, <1>9 DEF ChangePlan, QueryDone, queryVars, Entered
<1> QED BY <1>4, <1>5, <1>6, <1>7, <1>8, <1>9 DEF QueryNext
(*---------------------------- the range ---------------------------------*)

(* The chunks a thread holds after a step are those it held, or the one it took
   at the cursor. *)
LEMMA HoldersStep ==
  ASSUME RowsTyped, ChunkStep
  PROVE  \/ /\ UNCHANGED <<next, start>>
            /\ \A t \in Threads : Active(t)' => Active(t)
         \/ \E t \in Threads :
              /\ start' = [start EXCEPT ![t] = next] /\ next' = next + Chunk
              /\ \A u \in Threads : u # t => (Active(u)' <=> Active(u))
<1>1. ASSUME NEW t \in Threads, TakeChunk(t)
      PROVE  /\ start' = [start EXCEPT ![t] = next] /\ next' = next + Chunk
             /\ \A u \in Threads : u # t => (Active(u)' <=> Active(u))
  BY <1>1 DEF TakeChunk, GoTo, RowsTyped, Active
<1>2. ASSUME NEW t \in Threads, Keeps(t) \/ Leaves(t) \/ Answers(t) \/ Quit(t)
      PROVE  UNCHANGED <<next, start>> /\ \A u \in Threads : Active(u)' => Active(u)
  BY <1>2 DEF Keeps, Leaves, Answers, Quit, GoTo, RowsTyped, Active, Holding
<1>3. CASE UNCHANGED chunkVars
  BY <1>3 DEF chunkVars, Active
<1> QED BY <1>1, <1>2, <1>3 DEF ChunkStep

LEMMA BehindApartStep ==
  ASSUME CallAssumption, RowsTyped, Behind, Apart, ChunkStep
  PROVE  Behind' /\ Apart'
<1>1. CASE UNCHANGED <<next, start>> /\ \A t \in Threads : Active(t)' => Active(t)
  BY <1>1 DEF Behind, Apart
<1>2. ASSUME NEW t \in Threads,
             start' = [start EXCEPT ![t] = next], next' = next + Chunk,
             \A u \in Threads : u # t => (Active(u)' <=> Active(u))
      PROVE  Behind' /\ Apart'
  <2>1. start'[t] = next /\ \A u \in Threads : u # t => start'[u] = start[u]
    BY <1>2 DEF RowsTyped
  <2>2. \A u \in Threads : start[u] \in Nat /\ next \in Nat /\ Chunk \in Nat
    BY DEF RowsTyped, CallAssumption
  <2>3. Behind'
    BY <1>2, <2>1, <2>2 DEF Behind
  <2>4. ASSUME NEW u \in Threads, NEW v \in Threads, Active(u)', Active(v)', u # v
        PROVE  start'[u] + Chunk <= start'[v] \/ start'[v] + Chunk <= start'[u]
    BY <1>2, <2>1, <2>2, <2>4 DEF Behind, Apart
  <2> QED BY <1>2, <2>3, <2>4 DEF Apart
<1> QED BY <1>1, <1>2, HoldersStep

(* No two chunks under way share a row. *)
LEMMA Disjoint ==
  ASSUME CallAssumption, RowsTyped, Apart, NEW t \in Threads, NEW u \in Threads, t # u,
         Active(t), Active(u), NEW r \in ChunkOf(t)
  PROVE  r \notin ChunkOf(u)
<1>1. r \in Nat /\ Chunk \in Nat /\ start[t] \in Nat /\ start[u] \in Nat
  BY DEF ChunkOf, Rows, CallAssumption, RowsTyped
<1> QED BY <1>1 DEF Apart, ChunkOf

LEMMA FreshStep ==
  ASSUME CallAssumption, RowsTyped, Behind, Apart, Fresh, ChunkStep
  PROVE  Fresh'
<1>1. \A r \in Rows : r \in Nat /\ evaluated[r] \in Nat
  BY DEF Rows, CallAssumption, RowsTyped
<1>2. \A t \in Threads : start[t] \in Nat /\ next \in Nat /\ Chunk \in Nat
  BY DEF RowsTyped, CallAssumption
<1>3. ASSUME NEW t \in Threads, TakeChunk(t)
      PROVE  Fresh'
  <2>1. /\ start'[t] = next /\ next' = next + Chunk /\ evaluated' = evaluated
        /\ \A u \in Threads : u # t => start'[u] = start[u] /\ (Active(u)' <=> Active(u))
    BY <1>3 DEF TakeChunk, GoTo, RowsTyped, Active
  <2>2. \A r \in ChunkOf(t)' : evaluated[r] = 0
    BY <1>1, <1>2, <2>1 DEF ChunkOf, Fresh
  <2>3. \A u \in Threads : u # t => ChunkOf(u)' = ChunkOf(u)
    BY <2>1 DEF ChunkOf
  <2> QED BY <1>1, <1>2, <2>1, <2>2, <2>3 DEF Fresh
<1>4. ASSUME NEW t \in Threads, Answers(t)
      PROVE  Fresh'
  <2>1. /\ UNCHANGED <<next, start>> /\ Active(t) /\ ~Active(t)'
        /\ \A u \in Threads : u # t => (Active(u)' <=> Active(u))
        /\ \A r \in Rows : evaluated'[r] = IF r \in ChunkOf(t) THEN evaluated[r] + 1 ELSE evaluated[r]
    BY <1>4 DEF Answers, RowsTyped, Active, Holding
  <2>2. ASSUME NEW u \in Threads, Active(u)', NEW r \in ChunkOf(u)'
        PROVE  evaluated'[r] = 0
    <3>1. u # t /\ Active(u) /\ r \in ChunkOf(u) /\ r \in Rows
      BY <2>1, <2>2 DEF ChunkOf
    <3>2. r \notin ChunkOf(t)
      BY <2>1, <3>1, Disjoint
    <3> QED BY <2>1, <3>1, <3>2 DEF Fresh
  <2>3. ASSUME NEW r \in Rows
        PROVE  evaluated'[r] <= 1 /\ (r >= next' => evaluated'[r] = 0)
    <3>1. r \in ChunkOf(t) => r < next /\ evaluated[r] = 0
      BY <1>1, <1>2, <2>1 DEF ChunkOf, Behind, Fresh
    <3> QED BY <1>1, <1>2, <2>1, <3>1 DEF Fresh
  <2> QED BY <2>2, <2>3 DEF Fresh
<1>5. ASSUME NEW t \in Threads, Keeps(t) \/ Leaves(t) \/ Quit(t)
      PROVE  Fresh'
  <2>1. /\ UNCHANGED <<next, start, evaluated>>
        /\ \A u \in Threads : Active(u)' => Active(u)
    BY <1>5 DEF Keeps, Leaves, Quit, GoTo, RowsTyped, Active, Holding
  <2> QED BY <2>1 DEF Fresh, ChunkOf
<1>6. CASE UNCHANGED chunkVars
  BY <1>6 DEF chunkVars, Fresh, Active, ChunkOf
<1> QED BY <1>3, <1>4, <1>5, <1>6 DEF ChunkStep

LEMMA CoveredStep ==
  ASSUME CallAssumption, RowsTyped, Fresh, Covered, ChunkStep
  PROVE  Covered'
<1>1. \A r \in Rows : r \in Nat /\ evaluated[r] \in Nat
  BY DEF Rows, CallAssumption, RowsTyped
<1>2. \A t \in Threads : start[t] \in Nat /\ next \in Nat /\ Chunk \in Nat /\ Total \in Nat
  BY DEF RowsTyped, CallAssumption
<1>3. ASSUME NEW t \in Threads, TakeChunk(t), ~failed
      PROVE  Covered'
  <2>1. /\ start'[t] = next /\ next' = next + Chunk /\ evaluated' = evaluated /\ pc[t] = "range"
        /\ \A u \in Threads : u # t => start'[u] = start[u] /\ pc'[u] = pc[u]
        /\ IF next >= Total THEN pc'[t] = "done" ELSE pc'[t] = "called"
    BY <1>3 DEF TakeChunk, GoTo, RowsTyped
  <2>2. \A u \in Threads : pc'[u] = "done" => next' >= Total
    BY <1>2, <1>3, <2>1 DEF Covered
  <2>3. ASSUME NEW r \in Rows, r < next'
        PROVE  evaluated'[r] = 1 \/ \E u \in Threads : Active(u)' /\ r \in ChunkOf(u)'
    <3>1. CASE r < next
      <4>1. evaluated[r] = 1 \/ \E u \in Threads : Active(u) /\ r \in ChunkOf(u)
        BY <1>3, <3>1 DEF Covered
      <4>2. \A u \in Threads : Active(u) => u # t /\ Active(u)' /\ ChunkOf(u)' = ChunkOf(u)
        BY <2>1 DEF Active, Holding, ChunkOf
      <4> QED BY <2>1, <4>1, <4>2
    <3>2. CASE r >= next
      <4>1. next < Total
        BY <1>1, <1>2, <3>2 DEF Rows
      <4>2. pc'[t] = "called" /\ r \in ChunkOf(t)'
        BY <1>1, <1>2, <2>1, <2>3, <3>2, <4>1 DEF ChunkOf
      <4> QED BY <4>2 DEF Active, Holding
    <3> QED BY <1>1, <1>2, <3>1, <3>2
  <2> QED BY <2>2, <2>3 DEF Covered
<1>4. ASSUME NEW t \in Threads, Answers(t), ~failed
      PROVE  Covered'
  <2>1. /\ UNCHANGED <<next, start>> /\ Active(t) /\ pc'[t] = "range"
        /\ \A u \in Threads : u # t => pc'[u] = pc[u]
        /\ \A r \in Rows : evaluated'[r] = IF r \in ChunkOf(t) THEN evaluated[r] + 1 ELSE evaluated[r]
    BY <1>4 DEF Answers, RowsTyped
  <2>2. \A u \in Threads : pc'[u] = "done" => next' >= Total
    BY <1>4, <2>1 DEF Covered
  <2>3. ASSUME NEW r \in Rows, r < next'
        PROVE  evaluated'[r] = 1 \/ \E u \in Threads : Active(u)' /\ r \in ChunkOf(u)'
    <3>1. CASE r \in ChunkOf(t)
      BY <2>1, <3>1 DEF Fresh
    <3>2. CASE r \notin ChunkOf(t)
      <4>1. evaluated[r] = 1 \/ \E u \in Threads : Active(u) /\ r \in ChunkOf(u)
        BY <1>4, <2>1, <2>3 DEF Covered
      <4>2. \A u \in Threads : u # t => (Active(u)' <=> Active(u)) /\ ChunkOf(u)' = ChunkOf(u)
        BY <2>1 DEF Active, ChunkOf
      <4> QED BY <2>1, <3>2, <4>1, <4>2
    <3> QED BY <3>1, <3>2
  <2> QED BY <2>2, <2>3 DEF Covered
<1>5. ASSUME NEW t \in Threads, Keeps(t), ~failed
      PROVE  Covered'
  <2>1. /\ UNCHANGED <<next, start, evaluated>>
        /\ \A u \in Threads : (Active(u)' <=> Active(u)) /\ (pc'[u] = "done" => pc[u] = "done")
    BY <1>5 DEF Keeps, RowsTyped, Active, Holding
  <2> QED BY <1>5, <2>1 DEF Covered, ChunkOf
<1>6. ASSUME NEW t \in Threads, Leaves(t) \/ Quit(t)
      PROVE  Covered'
  BY <1>6 DEF Leaves, Quit, Covered
<1>7. CASE UNCHANGED chunkVars
  BY <1>7 DEF chunkVars, Covered, Active, ChunkOf
<1>8. failed /\ (\E t \in Threads : TakeChunk(t) \/ Answers(t) \/ Keeps(t)) => Covered'
  BY DEF TakeChunk, Answers, Keeps, Covered
<1> QED BY <1>3, <1>4, <1>5, <1>6, <1>7, <1>8 DEF ChunkStep
(*--------------------------- the statistics -----------------------------*)

LEMMA RowsFinite ==
  ASSUME CallAssumption
  PROVE  IsFiniteSet(Rows) /\ Cardinality(Rows) = Total
<1>1. 0 \in Int /\ Total - 1 \in Int
  BY DEF CallAssumption
<1>2. IsFiniteSet(0 .. Total - 1)
      /\ Cardinality(0 .. Total - 1) = IF 0 > Total - 1 THEN 0 ELSE Total - 1 - 0 + 1
  BY <1>1, FS_Interval
<1> QED BY <1>2 DEF Rows, CallAssumption

LEMMA ChunkFinite ==
  ASSUME CallAssumption, NEW t \in Threads
  PROVE  /\ ChunkOf(t) \subseteq Rows /\ IsFiniteSet(ChunkOf(t))
         /\ Cardinality(ChunkOf(t)) \in Nat
<1>1. ChunkOf(t) \subseteq Rows
  BY DEF ChunkOf
<1> QED BY <1>1, RowsFinite, FS_Subset, FS_CardinalityType

(* Calls and evaluations are all that changes the statistics. *)
Calls(t) ==
  /\ pc[t] = "called"
  /\ \/ \E q \in BOOLEAN : stats' = Counted(Recorded(t, q)) /\ inR' \in {inR, inR \cup {[by |-> t, of |-> t]}}
        /\ pc' \in {[pc EXCEPT ![t] = "range"], [pc EXCEPT ![t] = "evaluating"]}
     \/ stats' = Recorded(t, TRUE) /\ inR' = inR /\ pc' = [pc EXCEPT ![t] = "queued"]
  /\ UNCHANGED <<next, start>>

LEMMA CallsClassified ==
  ASSUME RowsTyped, Entered, [QueryNext]_queryVars
  PROVE  \/ \E t \in Threads : Calls(t) \/ Serve(t)
         \/ UNCHANGED stats /\ (failed' \/ UNCHANGED <<pc, next, start, inR>>
                               \/ \E t \in Threads : TakeChunk(t) \/ \E e \in inR : Evaluated(e))
<1>1. ASSUME NEW t \in Threads, ToWorker(t)
      PROVE  Calls(t)
  BY <1>1 DEF ToWorker, Calls, FailChunk, GoTo
<1>2. ASSUME NEW t \in Threads, Direct(t) \/ Queue(t)
      PROVE  Calls(t)
  BY <1>2 DEF Direct, Queue, InProcess, Calls, GoTo
<1>3. ASSUME NEW t \in Threads, Refused(t) \/ GiveUp(t) \/ Quit(t)
      PROVE  UNCHANGED stats /\ failed'
  BY <1>3 DEF Refused, GiveUp, Quit, FailChunk
<1>4. ASSUME (\E b \in Backends : ChangePlan(b)) \/ QueryDone \/ UNCHANGED queryVars
      PROVE  UNCHANGED stats /\ UNCHANGED <<pc, next, start, inR>>
  BY <1>4 DEF ChangePlan, QueryDone, queryVars
<1>5. ASSUME NEW t \in Threads, TakeChunk(t)
      PROVE  UNCHANGED stats
  BY <1>5 DEF TakeChunk
<1>6. ASSUME NEW e \in inR, Evaluated(e)
      PROVE  UNCHANGED stats /\ e.of \in Threads
  BY <1>6 DEF Evaluated, Entered
<1> QED BY <1>1, <1>2, <1>3, <1>4, <1>5, <1>6 DEF QueryNext

LEMMA TotalsStep ==
  ASSUME CallAssumption, RowsTyped, Entered, StatsType, stats.chunks = stats.direct + stats.queued,
         [QueryNext]_queryVars
  PROVE  StatsType' /\ stats'.chunks = stats'.direct + stats'.queued
<1>1. ASSUME NEW t \in Threads, NEW q \in BOOLEAN
      PROVE  LET s == Recorded(t, q) IN
             /\ s \in [chunks : Nat, rows : Nat, direct : Nat, queued : Nat, evaluator : Nat]
             /\ s.chunks = s.direct + s.queued
  BY ChunkFinite DEF Recorded, StatsType
<1>2. ASSUME NEW s \in [chunks : Nat, rows : Nat, direct : Nat, queued : Nat, evaluator : Nat],
             s.chunks = s.direct + s.queued
      PROVE  /\ Counted(s) \in [chunks : Nat, rows : Nat, direct : Nat, queued : Nat, evaluator : Nat]
             /\ Counted(s).chunks = Counted(s).direct + Counted(s).queued
  BY <1>2 DEF Counted
<1>3. ASSUME NEW t \in Threads, Calls(t)
      PROVE  StatsType' /\ stats'.chunks = stats'.direct + stats'.queued
  <2>1. ASSUME NEW q \in BOOLEAN, stats' = Counted(Recorded(t, q))
        PROVE  StatsType' /\ stats'.chunks = stats'.direct + stats'.queued
    BY <1>1, <1>2, <2>1 DEF StatsType
  <2>2. ASSUME stats' = Recorded(t, TRUE)
        PROVE  StatsType' /\ stats'.chunks = stats'.direct + stats'.queued
    BY <1>1, <2>2 DEF StatsType
  <2> QED BY <1>3, <2>1, <2>2 DEF Calls
<1>4. ASSUME NEW t \in Threads, Serve(t)
      PROVE  StatsType' /\ stats'.chunks = stats'.direct + stats'.queued
  BY <1>2, <1>4 DEF Serve, StatsType
<1>5. CASE UNCHANGED stats
  BY <1>5 DEF StatsType
<1> QED BY <1>3, <1>4, <1>5, CallsClassified

(* the rows counted *)
LEMMA CountingStep ==
  ASSUME CallAssumption, RowsTyped, Entered, Behind, Apart, StatsType,
         ~failed => stats.rows = Cardinality(Counting), [QueryNext]_queryVars
  PROVE  ~failed' => stats'.rows = Cardinality(Counting')
<1>1. /\ \A t \in Threads : start[t] \in Nat /\ next \in Nat /\ Chunk \in Nat /\ Total \in Nat
      /\ Rows \subseteq Nat
  BY DEF RowsTyped, CallAssumption, Rows
<1>2. failed => failed'
  <2>1. ChunkStep
    BY StepsClassified
  <2> QED BY <2>1 DEF ChunkStep, TakeChunk, Keeps, Leaves, Answers, Quit, chunkVars
<1>3. ASSUME NEW t \in Threads, Calls(t)
      PROVE  ~failed' => stats'.rows = Cardinality(Counting')
  <2>1. stats'.rows = stats.rows + Cardinality(ChunkOf(t))
    <3>1. ASSUME NEW q \in BOOLEAN
          PROVE  /\ Recorded(t, q).rows = stats.rows + Cardinality(ChunkOf(t))
                 /\ Counted(Recorded(t, q)).rows = stats.rows + Cardinality(ChunkOf(t))
      BY DEF Counted, Recorded
    <3> QED BY <1>3, <3>1 DEF Calls
  <2>2. /\ pc[t] = "called" /\ pc'[t] # "called" /\ UNCHANGED <<next, start>>
        /\ \A u \in Threads : u # t => pc'[u] = pc[u]
    BY <1>3 DEF Calls, RowsTyped
  <2>3. ASSUME NEW r \in ChunkOf(t)
        PROVE  r \in Counting'
    <3>1. Active(t) /\ r \in Rows
      BY <2>2 DEF Active, Holding, ChunkOf
    <3>2. r < next
      BY <1>1, <3>1 DEF Behind, ChunkOf
    <3>3. \A u \in Threads : u # t /\ pc[u] = "called" => r \notin ChunkOf(u)
      BY <3>1, Disjoint DEF Active, Holding
    <3> QED BY <2>2, <3>1, <3>2, <3>3 DEF Counting, ChunkOf
  <2>4. \A r \in Rows : r \in Counting' <=> (r \in Counting \/ r \in ChunkOf(t))
    BY <2>2, <2>3 DEF Counting, ChunkOf
  <2>5. Counting \subseteq Rows /\ Counting' \subseteq Rows /\ ChunkOf(t) \subseteq Rows
    BY DEF Counting, ChunkOf, Rows
  <2>6. Counting' = Counting \cup ChunkOf(t) /\ Counting \cap ChunkOf(t) = {}
    BY <2>2, <2>4, <2>5 DEF Counting
  <2>7. IsFiniteSet(Counting) /\ IsFiniteSet(ChunkOf(t))
    BY <2>5, RowsFinite, FS_Subset
  <2>8. Cardinality(Counting') = Cardinality(Counting) + Cardinality(ChunkOf(t))
    <3>1. Cardinality(Counting \cup ChunkOf(t))
          = Cardinality(Counting) + Cardinality(ChunkOf(t)) - Cardinality(Counting \cap ChunkOf(t))
      BY <2>7, FS_Union
    <3>2. Cardinality(Counting) \in Nat /\ Cardinality(ChunkOf(t)) \in Nat
      BY <2>7, FS_CardinalityType
    <3>3. Cardinality(Counting \cap ChunkOf(t)) = 0
      BY <2>6, FS_EmptySet
    <3>4. Cardinality(Counting') = Cardinality(Counting \cup ChunkOf(t))
      BY <2>6
    <3> QED BY <3>1, <3>2, <3>3, <3>4
  <2> QED BY <1>2, <2>1, <2>8
<1>4. ASSUME NEW t \in Threads, TakeChunk(t)
      PROVE  ~failed' => stats'.rows = Cardinality(Counting')
  <2>1. /\ start'[t] = next /\ next' = next + Chunk /\ pc[t] = "range"
        /\ \A u \in Threads : u # t => start'[u] = start[u] /\ pc'[u] = pc[u]
        /\ IF next >= Total THEN pc'[t] = "done" ELSE pc'[t] = "called"
    BY <1>4 DEF TakeChunk, GoTo, RowsTyped
  <2>2. ASSUME NEW r \in Rows
        PROVE  r \in Counting' <=> r \in Counting
    <3>1. \A u \in Threads : u # t => ChunkOf(u)' = ChunkOf(u)
      BY <2>1 DEF ChunkOf
    <3>2. CASE r < next
      <4>1. r \notin ChunkOf(t)' /\ r < next'
        BY <1>1, <2>1, <3>2 DEF ChunkOf
      <4> QED BY <2>1, <3>1, <3>2, <4>1 DEF Counting
    <3>3. CASE r >= next
      <4>1. pc'[t] = "called" \/ r >= Total
        BY <1>1, <2>1, <3>3
      <4>2. r < Total
        BY <1>1 DEF Rows
      <4>3. r < next' => r \in ChunkOf(t)'
        BY <1>1, <2>1, <3>3 DEF ChunkOf
      <4>4. ~(r < next)
        BY <1>1, <3>3
      <4> QED BY <1>1, <4>1, <4>2, <4>3, <4>4 DEF Counting
    <3> QED BY <1>1, <3>2, <3>3
  <2>3. Counting' = Counting
    BY <2>2 DEF Counting, Rows
  <2> QED BY <1>2, <1>4, <2>3 DEF TakeChunk
<1>5. ASSUME \/ UNCHANGED <<pc, next, start, stats>>
             \/ \E t \in Threads : Serve(t)
             \/ \E e \in inR : Evaluated(e)
      PROVE  ~failed' => stats'.rows = Cardinality(Counting')
  <2>1. UNCHANGED <<next, start>> /\ stats'.rows = stats.rows
    BY <1>5 DEF Serve, Evaluated, Counted, StatsType
  <2>2. \A u \in Threads : pc'[u] = "called" <=> pc[u] = "called"
    BY <1>5 DEF Serve, Evaluated, FailChunk, GoTo, Entered, RowsTyped
  <2>3. Counting' = Counting
    BY <2>1, <2>2 DEF Counting, ChunkOf, Rows
  <2> QED BY <1>2, <2>1, <2>3
<1> QED BY <1>3, <1>4, <1>5, CallsClassified
(* A chunk is counted by the evaluator when the call is made, unless it is queued;
   then when it is served. *)
LEMMA UnservedStep ==
  ASSUME CallAssumption, IsFiniteSet(OtherThreads), RowsTyped, Entered, StatsType,
         ~failed /\ plan.typed => stats.evaluator + Cardinality(Unserved) = stats.chunks,
         [QueryNext]_queryVars
  PROVE  ~failed' /\ plan'.typed => stats'.evaluator + Cardinality(Unserved') = stats'.chunks
<1>1. plan'.typed = plan.typed
  BY PlanStep
<1>2. failed => failed'
  <2>1. ChunkStep
    BY StepsClassified
  <2> QED BY <2>1 DEF ChunkStep, TakeChunk, Keeps, Leaves, Answers, Quit, chunkVars
<1>3. IsFiniteSet(Unserved)
  <2>1. IsFiniteSet(Threads)
    BY FS_AddElement DEF Threads
  <2> QED BY <2>1, FS_Subset DEF Unserved
<1>4. Cardinality(Unserved) \in Nat
  BY <1>3, FS_CardinalityType
<1>5. stats.evaluator \in Nat /\ stats.chunks \in Nat
  BY DEF StatsType
<1>6. ASSUME NEW t \in Threads, Calls(t), ~failed, plan.typed
      PROVE  stats'.evaluator + Cardinality(Unserved') = stats'.chunks
  <2>1. pc[t] = "called" /\ \A u \in Threads : u # t => pc'[u] = pc[u]
    BY <1>6 DEF Calls, RowsTyped
  <2>2. \A e \in inR : e.of # t
    BY <2>1 DEF Entered
  <2>3. t \notin Unserved
    BY <2>1 DEF Unserved
  <2>4. ASSUME NEW q \in BOOLEAN, stats' = Counted(Recorded(t, q)), pc'[t] # "queued",
               inR' \in {inR, inR \cup {[by |-> t, of |-> t]}}
        PROVE  stats'.evaluator + Cardinality(Unserved') = stats'.chunks
    <3>1. stats'.evaluator = stats.evaluator + 1 /\ stats'.chunks = stats.chunks + 1
      BY <1>6, <2>4 DEF Counted, Recorded
    <3>2. Unserved' = Unserved
      BY <2>1, <2>3, <2>4 DEF Unserved
    <3> QED BY <1>4, <1>5, <1>6, <3>1, <3>2
  <2>5. ASSUME stats' = Recorded(t, TRUE), inR' = inR, pc'[t] = "queued"
        PROVE  stats'.evaluator + Cardinality(Unserved') = stats'.chunks
    <3>1. stats'.evaluator = stats.evaluator /\ stats'.chunks = stats.chunks + 1
      BY <2>5 DEF Recorded
    <3>2. Unserved' = Unserved \cup {t}
      BY <2>1, <2>2, <2>5 DEF Unserved
    <3>3. Cardinality(Unserved') = Cardinality(Unserved) + 1
      BY <1>3, <2>3, <3>2, FS_AddElement
    <3> QED BY <1>4, <1>5, <1>6, <3>1, <3>3
  <2>6. CASE stats' = Recorded(t, TRUE) /\ inR' = inR /\ pc' = [pc EXCEPT ![t] = "queued"]
    BY <2>5, <2>6 DEF RowsTyped
  <2>7. CASE \E q \in BOOLEAN : stats' = Counted(Recorded(t, q)) /\ inR' \in {inR, inR \cup {[by |-> t, of |-> t]}}
               /\ pc' \in {[pc EXCEPT ![t] = "range"], [pc EXCEPT ![t] = "evaluating"]}
    <3>1. PICK q \in BOOLEAN :
            /\ stats' = Counted(Recorded(t, q)) /\ inR' \in {inR, inR \cup {[by |-> t, of |-> t]}}
            /\ pc' \in {[pc EXCEPT ![t] = "range"], [pc EXCEPT ![t] = "evaluating"]}
      BY <2>7
    <3>2. pc'[t] # "queued"
      BY <3>1 DEF RowsTyped
    <3> QED BY <2>4, <3>1, <3>2
  <2> QED BY <1>6, <2>6, <2>7 DEF Calls
<1>7. ASSUME NEW t \in Threads, Serve(t), ~failed, plan.typed
      PROVE  stats'.evaluator + Cardinality(Unserved') = stats'.chunks
  <2>1. stats'.evaluator = stats.evaluator + 1 /\ stats'.chunks = stats.chunks
    BY <1>7 DEF Serve, Counted, StatsType
  <2>2. inR = {} /\ inR' = {[by |-> RThread, of |-> t]} /\ pc' = pc /\ pc[t] = "queued"
    BY <1>7 DEF Serve
  <2>3. t \in Unserved /\ Unserved' = Unserved \ {t}
    BY <2>2 DEF Unserved
  <2>4. Cardinality(Unserved') = Cardinality(Unserved) - 1
    BY <1>3, <2>3, FS_RemoveElement
  <2> QED BY <1>4, <1>5, <1>7, <2>1, <2>4
<1>8. ASSUME UNCHANGED stats,
             \/ UNCHANGED <<pc, next, start, inR>>
             \/ \E t \in Threads : TakeChunk(t)
             \/ \E e \in inR : Evaluated(e)
      PROVE  Unserved' = Unserved
  <2>1. CASE UNCHANGED <<pc, next, start, inR>>
    BY <2>1 DEF Unserved
  <2>2. ASSUME NEW t \in Threads, TakeChunk(t)
        PROVE  Unserved' = Unserved
    BY <2>2 DEF TakeChunk, GoTo, RowsTyped, Unserved
  <2>3. ASSUME NEW e \in inR, Evaluated(e)
        PROVE  Unserved' = Unserved
    <3>1. inR = {e} /\ inR' = {} /\ e.of \in Threads /\ pc' = [pc EXCEPT ![e.of] = "range"]
      BY <2>3 DEF Evaluated, Entered, FailChunk, GoTo
    <3>2. pc'[e.of] = "range" /\ \A u \in Threads : u # e.of => pc'[u] = pc[u]
      BY <3>1 DEF RowsTyped
    <3> QED BY <3>1, <3>2 DEF Unserved
  <2> QED BY <1>8, <2>1, <2>2, <2>3
<1> QED BY <1>1, <1>2, <1>6, <1>7, <1>8, CallsClassified

-----------------------------------------------------------------------------
LEMMA InitCalls ==
  ASSUME CallAssumption, QueryInit
  PROVE  CallsInv
<1>1. RowsTyped /\ Pumping
  BY DEF CallAssumption, QueryInit, RowsTyped, RowsPlaces, Pumping, Threads
<1>2. \A t \in Threads : pc[t] \in {"pumping", "range"}
  BY DEF QueryInit
<1>3. Entered
  BY <1>2 DEF QueryInit, Entered
<1>4. Behind /\ Apart
  BY <1>2 DEF Behind, Apart, Active, Holding
<1>5. Fresh
  BY <1>2 DEF Fresh, Active, Holding, QueryInit
<1>6. Covered
  BY <1>2 DEF Covered, QueryInit, Rows, CallAssumption
<1>7. StatsInv
  <2>1. StatsType /\ stats.chunks = 0 /\ stats.direct = 0 /\ stats.queued = 0 /\ stats.rows = 0
        /\ stats.evaluator = 0
    BY DEF QueryInit, StatsType
  <2>2. Counting = {}
    <3>1. next = 0 /\ \A r \in Rows : ~(r < 0)
      BY DEF QueryInit, Rows, CallAssumption
    <3> QED BY <3>1 DEF Counting
  <2>3. Unserved = {}
    BY <1>2 DEF Unserved
  <2> QED BY <2>1, <2>2, <2>3, FS_EmptySet DEF StatsInv
<1> QED BY <1>1, <1>3, <1>4, <1>5, <1>6, <1>7 DEF CallsInv, RowsInv

LEMMA StepCalls ==
  ASSUME CallAssumption, IsFiniteSet(OtherThreads), CallsInv, [QueryNext]_queryVars
  PROVE  CallsInv'
<1>1. RowsTyped /\ Pumping /\ Entered /\ Behind /\ Apart /\ Fresh /\ Covered /\ StatsInv
  BY DEF CallsInv, RowsInv
<1>2. ChunkStep
  BY <1>1, StepsClassified
<1>3. RowsTyped' /\ Pumping' /\ Entered'
  BY <1>1, RowsTypedStep, PumpingStep, EnteredStep
<1>4. Behind' /\ Apart' /\ Fresh' /\ Covered'
  BY <1>1, <1>2, BehindApartStep, FreshStep, CoveredStep
<1>5. StatsInv'
  <2>1. StatsType' /\ stats'.chunks = stats'.direct + stats'.queued
    BY <1>1, TotalsStep DEF StatsInv
  <2>2. ~failed' => stats'.rows = Cardinality(Counting')
    BY <1>1, CountingStep DEF StatsInv
  <2>3. ~failed' /\ plan'.typed => stats'.evaluator + Cardinality(Unserved') = stats'.chunks
    BY <1>1, UnservedStep DEF StatsInv
  <2> QED BY <2>1, <2>2, <2>3 DEF StatsInv
<1> QED BY <1>3, <1>4, <1>5 DEF CallsInv, RowsInv

LEMMA OnceAtATime ==
  ASSUME CallsInv
  PROVE  OnlyRThreadInR
<1>1. CASE inR = {}
  BY <1>1, FS_EmptySet DEF OnlyRThreadInR
<1>2. ASSUME NEW e \in inR
      PROVE  OnlyRThreadInR
  <2>1. inR = {e}
    BY <1>2 DEF CallsInv, Entered
  <2>2. Cardinality(inR) = 1
    BY <2>1, FS_Singleton
  <2> QED BY <2>2 DEF CallsInv, Entered, OnlyRThreadInR
<1> QED BY <1>1, <1>2

(* When the query ends, some executor has seen the end of the range, and no chunk
   is under way. *)
LEMMA EndedIsComplete ==
  ASSUME CallAssumption, OtherThreads # {}, CallsInv
  PROVE  RowsOnce
<1>1. Rows \subseteq Nat /\ \A r \in Rows : evaluated[r] \in Nat /\ r < Total
  BY DEF CallAssumption, CallsInv, RowsTyped, Rows
<1>2. \A r \in Rows : evaluated[r] <= 1
  BY DEF CallsInv, RowsInv, Fresh
<1>3. ASSUME Ended, ~failed
      PROVE  /\ \A r \in Rows : evaluated[r] = 1
             /\ stats.rows = Total /\ (plan.typed => stats.evaluator = stats.chunks)
  <2>1. PICK t \in Executors : t \in Threads /\ pc[t] = "done"
    BY <1>3 DEF Ended, Executors, Threads
  <2>2. next >= Total /\ next \in Nat /\ Total \in Nat
    BY <1>3, <2>1 DEF CallsInv, RowsInv, Covered, RowsTyped, CallAssumption
  <2>3. \A u \in Threads : pc[u] \in {"done", "pumping"}
    <3>1. ASSUME NEW u \in Threads, u \notin Executors
          PROVE  u = RThread /\ plan.managed
      BY <3>1 DEF Executors, Threads
    <3> QED BY <1>3, <3>1 DEF Ended, CallsInv, Pumping
  <2>4. \A u \in Threads : ~Active(u) /\ pc[u] # "called" /\ pc[u] # "queued"
    BY <2>3 DEF Active, Holding
  <2>5. \A r \in Rows : r < next
    BY <1>1, <2>2
  <2>6. \A r \in Rows : evaluated[r] = 1
    BY <1>3, <2>4, <2>5 DEF CallsInv, RowsInv, Covered
  <2>7. Counting = Rows /\ Unserved = {}
    BY <2>4, <2>5 DEF Counting, Unserved
  <2>8. stats.rows = Total
    BY <1>3, <2>7, RowsFinite DEF CallsInv, StatsInv
  <2>9. plan.typed => stats.evaluator = stats.chunks
    BY <1>3, <2>7, FS_EmptySet DEF CallsInv, StatsInv, StatsType
  <2> QED BY <2>6, <2>8, <2>9
<1> QED BY <1>2, <1>3 DEF RowsOnce, CallsInv, StatsInv

(* R is entered by the R thread alone, once at a time, whatever threads call and
   however the plan changes under way. *)
THEOREM RIsEnteredByItsThread ==
  ASSUME IsFiniteSet(OtherThreads)
  PROVE  QuerySpec => []OnlyRThreadInR
<1>1. QueryInit => CallsInv
  BY CallAssumption, InitCalls
<1>2. CallsInv /\ [QueryNext]_queryVars => CallsInv'
  BY CallAssumption, StepCalls
<1>3. CallsInv => OnlyRThreadInR
  BY OnceAtATime
<1> QED BY <1>1, <1>2, <1>3, PTL DEF QuerySpec

(* Every row of the range is evaluated once, and the statistics of the UDF tell
   so, for any range, chunk size and number of threads, if DuckDB has a thread
   besides R's. *)
THEOREM RowsAreEvaluatedOnce ==
  ASSUME IsFiniteSet(OtherThreads), OtherThreads # {}
  PROVE  QuerySpec => []RowsOnce
<1>1. QueryInit => CallsInv
  BY CallAssumption, InitCalls
<1>2. CallsInv /\ [QueryNext]_queryVars => CallsInv'
  BY CallAssumption, StepCalls
<1>3. CallsInv => RowsOnce
  BY CallAssumption, EndedIsComplete
<1> QED BY <1>1, <1>2, <1>3, PTL DEF QuerySpec
=============================================================================
