---------------------------- MODULE AggregatesProofs ----------------------------
(***************************************************************************)
(* Proofs about Aggregates, for any states, rows, objects, threads and     *)
(* sets of callbacks: no R object is freed under a state or kept for       *)
(* nobody, and no row is lost.                                             *)
(***************************************************************************)
EXTENDS Aggregates, PreservedReleaseProofs

(*------------------------------- the types ------------------------------*)

Values == Objects \cup {NoObject, Unused}
Stores == [slot : Slots, value : Objects]

Work(op, rows, copies, merges, results) ==
  [op |-> op, rows |-> rows, copies |-> copies, merges |-> merges, results |-> results]

WorkType(w) ==
  /\ w = Work(w.op, w.rows, w.copies, w.merges, w.results)
  /\ w.op \in {"idle", "update", "combine"}
  /\ DOMAIN w.rows \subseteq InputRows /\ w.rows \in [DOMAIN w.rows -> Slots]
  /\ w.copies \subseteq Pairs /\ w.merges \subseteq Pairs /\ w.results \subseteq Stores

Typed ==
  /\ HeapType(heap)
  /\ valueOf \in [Slots -> Values]
  /\ folded \in [Objects -> SUBSET InputRows]
  /\ bundle \in Bundles
  /\ WorkType(work)
  /\ broken \in BOOLEAN
  /\ due \in [Slots -> SUBSET InputRows]

(*--------------------------- the holds on objects ------------------------*)

HeldBy(f, o) == {s \in Slots : f[s] = o}

(* The states whose value is o, when one of them is given another value *)
LEMMA HeldByOthers ==
  ASSUME NEW f \in [Slots -> Values], NEW s \in Slots, NEW v \in Values, NEW o,
         IsFiniteSet(HeldBy(f, o)),
         NEW g, g[s] = v, \A q \in Slots \ {s} : g[q] = f[q]
  PROVE  /\ IsFiniteSet(HeldBy(g, o))
         /\ Cardinality(HeldBy(f, o)) \in Nat
         /\ Cardinality(HeldBy(g, o)) = (Cardinality(HeldBy(f, o)) - (IF f[s] = o THEN 1 ELSE 0))
                                        + (IF v = o THEN 1 ELSE 0)
<1>1. g[s] = v /\ \A q \in Slots \ {s} : g[q] = f[q]
  OBVIOUS
<1>2. PICK n \in Nat : n = Cardinality(HeldBy(f, o))
  BY FS_CardinalityType
<1>3. CASE f[s] = o /\ v = o
  <2>1. HeldBy(g, o) = HeldBy(f, o)
    BY <1>1, <1>3 DEF HeldBy
  <2> QED BY <1>2, <1>3, <2>1
<1>4. CASE f[s] = o /\ v # o
  <2>1. HeldBy(g, o) = HeldBy(f, o) \ {s} /\ s \in HeldBy(f, o)
    BY <1>1, <1>4 DEF HeldBy
  <2>2. IsFiniteSet(HeldBy(f, o) \ {s}) /\ Cardinality(HeldBy(f, o) \ {s}) = Cardinality(HeldBy(f, o)) - 1
    BY <2>1, FS_RemoveElement
  <2>3. IsFiniteSet(HeldBy(g, o)) /\ Cardinality(HeldBy(g, o)) = n - 1
    BY <1>2, <2>1, <2>2
  <2> QED BY <1>2, <1>4, <2>3
<1>5. CASE f[s] # o /\ v = o
  <2>1. HeldBy(g, o) = HeldBy(f, o) \cup {s} /\ s \notin HeldBy(f, o)
    BY <1>1, <1>5 DEF HeldBy
  <2>2. IsFiniteSet(HeldBy(f, o) \cup {s}) /\ Cardinality(HeldBy(f, o) \cup {s}) = Cardinality(HeldBy(f, o)) + 1
    BY <2>1, FS_AddElement
  <2>3. IsFiniteSet(HeldBy(g, o)) /\ Cardinality(HeldBy(g, o)) = n + 1
    BY <1>2, <2>1, <2>2
  <2> QED BY <1>2, <1>5, <2>3
<1>6. CASE f[s] # o /\ v # o
  <2>1. HeldBy(g, o) = HeldBy(f, o)
    BY <1>1, <1>6 DEF HeldBy
  <2> QED BY <1>2, <1>6, <2>1
<1> QED BY <1>3, <1>4, <1>5, <1>6

(* The holds on an object are those of the states. *)
HoldsOK ==
  \A o \in Objects : IsFiniteSet(HeldBy(valueOf, o)) /\ HoldsOn(heap, o) = Cardinality(HeldBy(valueOf, o))

(* A state is given a value, *)
LEMMA SetHolds ==
  ASSUME HeapType(heap), valueOf \in [Slots -> Values], HoldsOK,
         NEW s \in Slots, valueOf[s] # Unused, NEW o \in Objects, StateSet(s, o)
  PROVE  /\ HeapType(heap') /\ HoldsOK'
         /\ valueOf' \in [Slots -> Values] /\ valueOf'[s] = o
         /\ \A q \in Slots \ {s} : valueOf'[q] = valueOf[q]
<1>1. PICK f \in [Slots -> Values] : f = valueOf
  OBVIOUS
<1>2. PICK h : h = heap
  OBVIOUS
<1>3. NoObject \notin Objects /\ o \in Values
  BY AggregateAssumption DEF AggregateAssumption, Values
<1>4. PICK g : g = valueOf' /\ g = [f EXCEPT ![s] = o]
  BY <1>1 DEF StateSet
<1>5. valueOf' \in [Slots -> Values] /\ valueOf'[s] = o /\ \A q \in Slots \ {s} : valueOf'[q] = valueOf[q]
  BY <1>1, <1>3, <1>4
<1>6. \A c \in Objects :
        /\ IsFiniteSet(HeldBy(g, c))
        /\ Cardinality(HeldBy(f, c)) \in Nat
        /\ Cardinality(HeldBy(g, c)) = (Cardinality(HeldBy(f, c)) - (IF f[s] = c THEN 1 ELSE 0))
                                       + (IF o = c THEN 1 ELSE 0)
  <2> SUFFICES ASSUME NEW c \in Objects
               PROVE  /\ IsFiniteSet(HeldBy(g, c))
                      /\ Cardinality(HeldBy(f, c)) \in Nat
                      /\ Cardinality(HeldBy(g, c)) = (Cardinality(HeldBy(f, c)) - (IF f[s] = c THEN 1 ELSE 0))
                                                     + (IF o = c THEN 1 ELSE 0)
    OBVIOUS
  <2>1. IsFiniteSet(HeldBy(f, c)) /\ g[s] = o /\ \A q \in Slots \ {s} : g[q] = f[q]
    BY <1>1, <1>3, <1>4 DEF HoldsOK
  <2> QED BY <1>3, <2>1, HeldByOthers
<1>7. \A c \in Objects : HoldsOn(h, c) = Cardinality(HeldBy(f, c))
  BY <1>1, <1>2 DEF HoldsOK
<1>8. /\ HeapType(heap')
      /\ \A c \in Objects : HoldsOn(heap', c) = (HoldsOn(h, c) - (IF f[s] = c THEN 1 ELSE 0))
                                                + (IF o = c THEN 1 ELSE 0)
  <2>1. CASE o = f[s]
    <3>1. heap' = h
      BY <1>1, <1>2, <2>1 DEF StateSet, Replaced
    <3>2. \A c \in Objects : HoldsOn(h, c) \in Nat
      BY <1>6, <1>7
    <3> QED BY <1>2, <2>1, <3>1, <3>2
  <2>2. CASE o # f[s]
    <3>1. PICK k : k = Preserved(h, o)
      OBVIOUS
    <3>2. HeapType(k) /\ \A c \in Objects : HoldsOn(k, c) = HoldsOn(h, c) + IF c = o THEN 1 ELSE 0
      BY <1>2, <3>1, PreservedHolds
    <3>3. CASE f[s] = NoObject
      <4>1. heap' = k
        BY <1>1, <1>2, <2>2, <3>1, <3>3 DEF StateSet, Replaced
      <4>2. \A c \in Objects : f[s] # c /\ HoldsOn(h, c) \in Nat
        BY <1>3, <1>6, <1>7, <3>3
      <4> QED BY <3>2, <4>1, <4>2
    <3>4. CASE f[s] # NoObject
      <4>1. PICK e \in Objects : e = f[s]
        BY <1>1, <3>4 DEF Values
      <4>2. heap' = ReleasedNow(k, e)
        BY <1>1, <1>2, <2>2, <3>1, <3>4, <4>1 DEF StateSet, Replaced
      <4>3. HeapType(heap') /\ \A c \in Objects : HoldsOn(heap', c) = HoldsOn(k, c) - IF c = e THEN 1 ELSE 0
        BY <3>2, <4>2, ReleasedHolds
      <4>4. \A c \in Objects : HoldsOn(h, c) \in Nat
        BY <1>6, <1>7
      <4> QED BY <3>2, <4>1, <4>3, <4>4
    <3> QED BY <3>3, <3>4
  <2> QED BY <2>1, <2>2
<1>9. ASSUME NEW c \in Objects
      PROVE  IsFiniteSet(HeldBy(valueOf', c)) /\ HoldsOn(heap', c) = Cardinality(HeldBy(valueOf', c))
  BY <1>4, <1>6, <1>7, <1>8
<1> QED BY <1>5, <1>8, <1>9 DEF HoldsOK

(* or is destroyed. *)
StateUnset(t, s) ==
  /\ heap' \in GivenUp(heap, t, valueOf[s])
  /\ valueOf' = [valueOf EXCEPT ![s] = Unused]

LEMMA UnsetHolds ==
  ASSUME HeapType(heap), valueOf \in [Slots -> Values], HoldsOK,
         NEW s \in Slots, valueOf[s] # Unused, NEW t \in Threads, StateUnset(t, s)
  PROVE  /\ HeapType(heap') /\ HoldsOK'
         /\ valueOf' \in [Slots -> Values] /\ valueOf'[s] = Unused
         /\ \A q \in Slots \ {s} : valueOf'[q] = valueOf[q]
<1>1. PICK f \in [Slots -> Values] : f = valueOf
  OBVIOUS
<1>2. PICK h, k : h = heap /\ k = heap'
  OBVIOUS
<1>3. NoObject \notin Objects /\ Unused \notin Objects /\ Unused \in Values
  BY AggregateAssumption DEF AggregateAssumption, Values
<1>4. PICK g : g = valueOf' /\ g = [f EXCEPT ![s] = Unused]
  BY <1>1 DEF StateUnset
<1>5. valueOf' \in [Slots -> Values] /\ valueOf'[s] = Unused /\ \A q \in Slots \ {s} : valueOf'[q] = valueOf[q]
  BY <1>1, <1>3, <1>4
<1>6. \A c \in Objects :
        /\ IsFiniteSet(HeldBy(g, c))
        /\ Cardinality(HeldBy(f, c)) \in Nat
        /\ Cardinality(HeldBy(g, c)) = (Cardinality(HeldBy(f, c)) - (IF f[s] = c THEN 1 ELSE 0)) + 0
  <2> SUFFICES ASSUME NEW c \in Objects
               PROVE  /\ IsFiniteSet(HeldBy(g, c))
                      /\ Cardinality(HeldBy(f, c)) \in Nat
                      /\ Cardinality(HeldBy(g, c)) = (Cardinality(HeldBy(f, c)) - (IF f[s] = c THEN 1 ELSE 0)) + 0
    OBVIOUS
  <2>1. IsFiniteSet(HeldBy(f, c)) /\ g[s] = Unused /\ \A q \in Slots \ {s} : g[q] = f[q]
    BY <1>1, <1>3, <1>4 DEF HoldsOK
  <2>2. /\ IsFiniteSet(HeldBy(g, c))
        /\ Cardinality(HeldBy(f, c)) \in Nat
        /\ Cardinality(HeldBy(g, c)) = (Cardinality(HeldBy(f, c)) - (IF f[s] = c THEN 1 ELSE 0))
                                       + (IF Unused = c THEN 1 ELSE 0)
    BY <1>3, <2>1, HeldByOthers
  <2>3. Unused # c
    BY <1>3
  <2> QED BY <2>2, <2>3
<1>7. \A c \in Objects : HoldsOn(h, c) = Cardinality(HeldBy(f, c))
  BY <1>1, <1>2 DEF HoldsOK
<1>8. HeapType(k) /\ \A c \in Objects : HoldsOn(k, c) = HoldsOn(h, c) - (IF f[s] = c THEN 1 ELSE 0)
  <2>1. CASE f[s] = NoObject
    <3>1. k = h
      BY <1>1, <1>2, <2>1 DEF GivenUp, StateUnset
    <3>2. \A c \in Objects : f[s] # c /\ HoldsOn(h, c) \in Nat
      BY <1>3, <1>6, <1>7, <2>1
    <3> QED BY <1>2, <3>1, <3>2
  <2>2. CASE f[s] # NoObject
    <3>1. PICK e \in Objects \ {NoObject} : e = f[s]
      BY <1>1, <2>2 DEF Values
    <3>2. k \in GivenUp(h, t, e)
      BY <1>1, <1>2, <3>1 DEF StateUnset
    <3>3. HeapType(k) /\ \A c \in Objects : HoldsOn(k, c) = HoldsOn(h, c) - IF c = e THEN 1 ELSE 0
      BY <1>2, <3>2, GivenUpHolds
    <3> QED BY <3>1, <3>3
  <2> QED BY <2>1, <2>2
<1>9. ASSUME NEW c \in Objects
      PROVE  IsFiniteSet(HeldBy(valueOf', c)) /\ HoldsOn(heap', c) = Cardinality(HeldBy(valueOf', c))
  <2>1. /\ IsFiniteSet(HeldBy(g, c)) /\ Cardinality(HeldBy(f, c)) \in Nat
        /\ Cardinality(HeldBy(g, c)) = (Cardinality(HeldBy(f, c)) - (IF f[s] = c THEN 1 ELSE 0)) + 0
    BY <1>6
  <2>2. HoldsOn(k, c) = HoldsOn(h, c) - (IF f[s] = c THEN 1 ELSE 0)
    BY <1>8
  <2>3. HoldsOn(k, c) = Cardinality(HeldBy(g, c))
    BY <1>7, <2>1, <2>2
  <2> QED BY <1>2, <1>4, <2>1, <2>3
<1> QED BY <1>2, <1>5, <1>8, <1>9 DEF HoldsOK

(* A drain gives up what was owed already. *)
LEMMA DrainHolds ==
  ASSUME HeapType(heap), HoldsOK, heap' = Drained(heap), valueOf' = valueOf
  PROVE  HeapType(heap') /\ HoldsOK'
<1>1. PICK h : h = heap
  OBVIOUS
<1>2. HeapType(heap') /\ \A o \in Objects : HoldsOn(heap', o) = HoldsOn(h, o)
  BY <1>1, DrainKeeps
<1> QED BY <1>1, <1>2 DEF HoldsOK

(*-------------------------- the work in progress -------------------------*)

Moves(w) == w.copies \cup w.merges

(* the states that work w will read or write *)
Touches(w, s) ==
  \/ \E r \in DOMAIN w.rows : w.rows[r] = s
  \/ \E p \in Moves(w) : s \in {p.src, p.dst}
  \/ \E x \in w.results : x.slot = s

(* Work w can be done on states of values v. *)
Fits(w, v) ==
  /\ \A s \in Slots : Touches(w, s) => v[s] # Unused
  /\ w.op = "idle" => w = Idle
  /\ w.op = "update" => Moves(w) = {}
  /\ w.op = "combine" => w.rows = NoRows
  /\ \A p, q \in Moves(w) : p.src # q.dst
  /\ \A p \in w.copies : v[p.src] \in Objects
  /\ w.results # {} => w.rows = NoRows /\ w.copies = {}
  /\ w.copies \cap w.merges = {}

LEMMA BusyTouches ==
  ASSUME WorkType(work), NEW s
  PROVE  s \in Busy <=> Touches(work, s)
<1>1. s \in {work.rows[r] : r \in DOMAIN work.rows} <=> \E r \in DOMAIN work.rows : work.rows[r] = s
  OBVIOUS
<1>2. s \in UNION {{p.src, p.dst} : p \in work.copies \cup work.merges}
        <=> \E p \in Moves(work) : s \in {p.src, p.dst}
  BY DEF Moves
<1>3. s \in {x.slot : x \in work.results} <=> \E x \in work.results : x.slot = s
  OBVIOUS
<1>4. s \in Busy <=> \/ s \in {work.rows[r] : r \in DOMAIN work.rows}
                   \/ s \in UNION {{p.src, p.dst} : p \in work.copies \cup work.merges}
                   \/ s \in {x.slot : x \in work.results}
  BY Zenon DEF Busy
<1> QED BY <1>1, <1>2, <1>3, <1>4, Zenon DEF Touches

LEMMA NoRowsDomain ==
  /\ DOMAIN NoRows = {} /\ \A f : DOMAIN f = {} /\ f = [x \in DOMAIN f |-> f[x]] => f = NoRows
BY DEF NoRows

(* No work fits any values, *)
LEMMA IdleFits ==
  ASSUME NEW v
  PROVE  WorkType(Idle) /\ Fits(Idle, v) /\ \A s : ~Touches(Idle, s)
<1>1. Idle = Work("idle", NoRows, {}, {}, {}) /\ Idle.op = "idle"
  BY DEF Idle, Work
<1>2. Idle.rows = NoRows /\ Idle.copies = {} /\ Idle.merges = {} /\ Idle.results = {}
  BY DEF Idle
<1>3. NoRows \in [DOMAIN NoRows -> Slots]
  BY NoRowsDomain DEF NoRows
<1>4. \A s : ~Touches(Idle, s)
  BY <1>2, NoRowsDomain DEF Touches, Moves
<1>5. Fits(Idle, v)
  BY <1>1, <1>2, <1>4 DEF Fits, Moves
<1>6. WorkType(Idle)
  BY <1>1, <1>2, <1>3, NoRowsDomain DEF WorkType
<1> QED BY <1>4, <1>5, <1>6

(* part of the work fits what the whole fits, *)
LessWork(w, x) ==
  /\ x.op = w.op
  /\ \A r \in DOMAIN x.rows : r \in DOMAIN w.rows /\ x.rows[r] = w.rows[r]
  /\ w.rows = NoRows => x.rows = NoRows
  /\ x.copies \subseteq w.copies /\ x.merges \subseteq w.merges /\ x.results \subseteq w.results

LEMMA LessFits ==
  ASSUME NEW v, NEW w, Fits(w, v), w.op # "idle", NEW x, LessWork(w, x)
  PROVE  Fits(x, v)
<1>1. \A s : Touches(x, s) => Touches(w, s)
  BY DEF Touches, Moves, LessWork
<1>2. Moves(x) \subseteq Moves(w) /\ x.copies \subseteq w.copies
  BY DEF Moves, LessWork
<1> QED BY <1>1, <1>2 DEF Fits, LessWork

(* and what fits goes on to fit when a state is given an object. *)
LEMMA FitsStill ==
  ASSUME NEW v, NEW w, WorkType(w), Fits(w, v), NEW s \in Slots, NEW u,
         \A q \in Slots \ {s} : u[q] = v[q], u[s] \in Objects
  PROVE  Fits(w, u)
<1>1. \A q \in Slots : v[q] # Unused => u[q] # Unused
  BY AggregateAssumption DEF AggregateAssumption
<1>2. \A p \in w.copies : p.src \in Slots
  BY DEF WorkType, Pairs
<1>3. \A p \in w.copies : v[p.src] \in Objects => u[p.src] \in Objects
  BY <1>2
<1> QED BY <1>1, <1>3 DEF Fits

(*-------------------------- the holds are exact --------------------------*)

Common == Typed /\ Fits(work, valueOf) /\ HoldsOK /\ (broken => work.op = "idle")

LEMMA CommonInit ==
  AggInit => Common
<1> SUFFICES ASSUME AggInit
             PROVE  Common
  OBVIOUS
<1>1. /\ heap = [preserved |-> [o \in Objects |-> 0], queue |-> <<>>, lost |-> [o \in Objects |-> 0]]
      /\ valueOf = [s \in Slots |-> Unused] /\ folded = [o \in Objects |-> {}] /\ bundle \in Bundles
      /\ work = Idle /\ broken = FALSE /\ due = [s \in Slots |-> {}]
  BY DEF AggInit, EmptyHeap
<1>2. HeapType(heap)
  BY <1>1 DEF HeapType
<1>3. Typed
  BY <1>1, <1>2, IdleFits DEF Typed, Values
<1>4. ASSUME NEW o \in Objects
      PROVE  IsFiniteSet(HeldBy(valueOf, o)) /\ HoldsOn(heap, o) = Cardinality(HeldBy(valueOf, o))
  <2>1. HeldBy(valueOf, o) = {}
    BY <1>1, AggregateAssumption DEF HeldBy, AggregateAssumption
  <2>2. HoldsOn(heap, o) = 0
    BY <1>1, CountEmpty DEF HoldsOn, Waiting
  <2> QED BY <2>1, <2>2, FS_EmptySet
<1>5. HoldsOK
  BY <1>4 DEF HoldsOK
<1>6. Fits(work, valueOf) /\ (broken => work.op = "idle")
  BY <1>1, IdleFits
<1> QED BY <1>3, <1>5, <1>6 DEF Common

(* Values that leave every object where it is leave the holds. *)
LEMMA SameHolds ==
  ASSUME HoldsOK, HeapType(heap), \A o \in Objects : HeldBy(valueOf', o) = HeldBy(valueOf, o),
         heap' = heap \/ heap' = Drained(heap)
  PROVE  HeapType(heap') /\ HoldsOK'
<1>1. PICK h : h = heap
  OBVIOUS
<1>2. HeapType(heap') /\ \A o \in Objects : HoldsOn(heap', o) = HoldsOn(h, o)
  BY <1>1, DrainKeeps
<1>3. ASSUME NEW o \in Objects
      PROVE  IsFiniteSet(HeldBy(valueOf', o)) /\ HoldsOn(heap', o) = Cardinality(HeldBy(valueOf', o))
  BY <1>1, <1>2, <1>3 DEF HoldsOK
<1> QED BY <1>2, <1>3 DEF HoldsOK

(*---- the steps that give no state an object ----*)

LEMMA CommonInitState ==
  ASSUME Common, NEW s \in Slots, InitState(s)
  PROVE  Common'
<1>1. PICK v : v = valueOf
  OBVIOUS
<1>2. PICK u : u = valueOf' /\ u = [v EXCEPT ![s] = NoObject]
  BY <1>1 DEF InitState
<1>3. v \in [Slots -> Values] /\ v[s] = Unused /\ NoObject \in Values
  BY <1>1 DEF InitState, Common, Typed, Values
<1>4. u \in [Slots -> Values] /\ u[s] = NoObject /\ \A q \in Slots \ {s} : u[q] = v[q]
  BY <1>2, <1>3
<1>5. \A o \in Objects : o # Unused /\ o # NoObject
  BY AggregateAssumption DEF AggregateAssumption
<1>6. \A o \in Objects : HeldBy(u, o) = HeldBy(v, o)
  BY <1>3, <1>4, <1>5 DEF HeldBy
<1>7. /\ heap' = heap /\ folded' = folded /\ bundle' = bundle /\ work' = work /\ broken' = broken
      /\ due' = due
  BY DEF InitState
<1>8. HeapType(heap') /\ HoldsOK'
  BY <1>1, <1>2, <1>6, <1>7, SameHolds DEF Common, Typed
<1>9. Typed'
  BY <1>2, <1>4, <1>7, <1>8 DEF Common, Typed
<1>10. Fits(work, u)
  <2>1. \A q \in Slots : v[q] # Unused => u[q] # Unused
    BY <1>4, <1>3
  <2>2. \A p \in work.copies : p.src \in Slots
    BY DEF WorkType, Pairs, Common, Typed
  <2>3. \A p \in work.copies : v[p.src] \in Objects => u[p.src] \in Objects
    BY <1>3, <1>4, <1>5, <2>2
  <2> QED BY <1>1, <2>1, <2>3 DEF Fits, Common
<1> QED BY <1>2, <1>7, <1>8, <1>9, <1>10 DEF Common

LEMMA CommonDestroyState ==
  ASSUME Common, NEW t \in Threads, NEW s \in Slots, DestroyState(t, s)
  PROVE  Common'
<1>1. PICK v : v = valueOf
  OBVIOUS
<1>2. v[s] # Unused /\ ~Touches(work, s)
  BY <1>1, BusyTouches DEF DestroyState, Live, Common, Typed
<1>3. StateUnset(t, s)
  BY DEF DestroyState, StateUnset
<1>4. PICK u : u = valueOf'
  OBVIOUS
<1>5. /\ HeapType(heap') /\ HoldsOK'
      /\ u \in [Slots -> Values] /\ u[s] = Unused /\ \A q \in Slots \ {s} : u[q] = v[q]
  BY <1>1, <1>2, <1>3, <1>4, UnsetHolds DEF Common, Typed
<1>6. folded' = folded /\ bundle' = bundle /\ work' = work /\ broken' = broken
  BY DEF DestroyState
<1>7. due' \in [Slots -> SUBSET InputRows]
  <2>1. due \in [Slots -> SUBSET InputRows] /\ due' = [due EXCEPT ![s] = {}]
    BY DEF DestroyState, Common, Typed
  <2> QED BY <2>1
<1>8. Typed'
  BY <1>4, <1>5, <1>6, <1>7 DEF Common, Typed
<1>9. Fits(work, u)
  <2>1. \A q \in Slots : Touches(work, q) => u[q] = v[q]
    BY <1>2, <1>5
  <2>2. \A p \in work.copies : p.src \in Slots /\ Touches(work, p.src)
    BY DEF WorkType, Pairs, Common, Typed, Touches, Moves
  <2>3. \A p \in work.copies : u[p.src] = v[p.src]
    BY <2>1, <2>2
  <2> QED BY <1>1, <2>1, <2>3 DEF Fits, Common
<1> QED BY <1>4, <1>5, <1>6, <1>8, <1>9 DEF Common

(* The heap is drained, and the work stays or ends. *)
LEMMA CommonDrained ==
  ASSUME Common, heap' = heap \/ heap' = Drained(heap), valueOf' = valueOf,
         folded' = folded, bundle' = bundle, due' = due,
         \/ work' = Idle /\ broken' \in BOOLEAN
         \/ work' = work /\ broken' = broken
  PROVE  Common'
<1>1. HeapType(heap') /\ HoldsOK'
  BY SameHolds DEF Common, Typed
<1>2. WorkType(work') /\ Fits(work', valueOf) /\ (broken' => work'.op = "idle") /\ broken' \in BOOLEAN
  <2>1. CASE work' = Idle /\ broken' \in BOOLEAN
    BY <2>1, IdleFits DEF Idle
  <2>2. CASE work' = work /\ broken' = broken
    BY <2>2 DEF Common, Typed
  <2> QED BY <2>1, <2>2
<1> QED BY <1>1, <1>2 DEF Common, Typed

(*---- the steps that do ----*)

(* Part of the work is left, and one state is given an object. *)
LEMMA CommonSet ==
  ASSUME Common, NEW s \in Slots, valueOf[s] # Unused, NEW o \in Objects, StateSet(s, o),
         NEW w, work' = w, WorkType(w), LessWork(work, w), work.op # "idle",
         folded' \in [Objects -> SUBSET InputRows],
         bundle' = bundle, broken' = broken, due' = due
  PROVE  Common'
<1>1. PICK v, u : v = valueOf /\ u = valueOf'
  OBVIOUS
<1>2. /\ HeapType(heap') /\ HoldsOK' /\ valueOf' \in [Slots -> Values]
      /\ u[s] = o /\ \A q \in Slots \ {s} : u[q] = v[q]
  BY <1>1, SetHolds DEF Common, Typed
<1>3. Typed'
  BY <1>2 DEF Common, Typed
<1>4. Fits(w, v)
  BY <1>1, LessFits DEF Common
<1>5. Fits(w, u)
  BY <1>2, <1>4, FitsStill
<1>6. broken = FALSE \/ ~broken
  BY DEF Common, Typed
<1> QED BY <1>1, <1>2, <1>3, <1>5, <1>6 DEF Common

(* What is left of the work after one of its parts *)
LEMMA LessWorks ==
  ASSUME NEW w, WorkType(w)
  PROVE  /\ \A r \in DOMAIN w.rows :
              LET x == [w EXCEPT !.rows = Without(@, r)] IN
              /\ WorkType(x) /\ LessWork(w, x)
              /\ x = Work(w.op, Without(w.rows, r), w.copies, w.merges, w.results)
         /\ \A p \in w.copies :
              LET x == [w EXCEPT !.copies = @ \ {p}] IN
              /\ WorkType(x) /\ LessWork(w, x)
              /\ x = Work(w.op, w.rows, w.copies \ {p}, w.merges, w.results)
         /\ \A p \in w.merges :
              LET x == [w EXCEPT !.merges = @ \ {p}] IN
              /\ WorkType(x) /\ LessWork(w, x)
              /\ x = Work(w.op, w.rows, w.copies, w.merges \ {p}, w.results)
         /\ \A y \in w.results :
              LET x == [w EXCEPT !.results = @ \ {y}] IN
              /\ WorkType(x) /\ LessWork(w, x)
              /\ x = Work(w.op, w.rows, w.copies, w.merges, w.results \ {y})
<1>1. PICK op, rows, copies, merges, results :
        /\ w = [op |-> op, rows |-> rows, copies |-> copies, merges |-> merges, results |-> results]
        /\ op \in {"idle", "update", "combine"}
        /\ DOMAIN rows \subseteq InputRows /\ rows \in [DOMAIN rows -> Slots]
        /\ copies \subseteq Pairs /\ merges \subseteq Pairs /\ results \subseteq Stores
  <2>1. /\ w = [op |-> w.op, rows |-> w.rows, copies |-> w.copies, merges |-> w.merges, results |-> w.results]
        /\ w.op \in {"idle", "update", "combine"}
        /\ DOMAIN w.rows \subseteq InputRows /\ w.rows \in [DOMAIN w.rows -> Slots]
        /\ w.copies \subseteq Pairs /\ w.merges \subseteq Pairs /\ w.results \subseteq Stores
    BY DEF WorkType, Work
  <2> QED BY <2>1
<1>2. w.op = op /\ w.rows = rows /\ w.copies = copies /\ w.merges = merges /\ w.results = results
  BY <1>1
<1>3. ASSUME NEW r \in DOMAIN w.rows, NEW x, x = [w EXCEPT !.rows = Without(@, r)]
      PROVE  WorkType(x) /\ LessWork(w, x) /\ x = Work(w.op, Without(w.rows, r), w.copies, w.merges, w.results)
  <2>1. PICK rest : rest = Without(rows, r)
    OBVIOUS
  <2>2. x = [op |-> op, rows |-> rest, copies |-> copies, merges |-> merges, results |-> results]
    BY <1>1, <1>3, <2>1
  <2>3. /\ DOMAIN rest = DOMAIN rows \ {r} /\ rest \in [DOMAIN rest -> Slots]
        /\ \A q \in DOMAIN rest : rest[q] = rows[q]
    BY <1>1, <2>1 DEF Without
  <2>4. rows # NoRows
    BY <1>2, <1>3, NoRowsDomain
  <2> QED BY <1>1, <1>2, <2>1, <2>2, <2>3, <2>4 DEF WorkType, LessWork, Work
<1>4. ASSUME NEW p \in w.copies, NEW x, x = [w EXCEPT !.copies = @ \ {p}]
      PROVE  WorkType(x) /\ LessWork(w, x) /\ x = Work(w.op, w.rows, w.copies \ {p}, w.merges, w.results)
  <2>1. x = [op |-> op, rows |-> rows, copies |-> copies \ {p}, merges |-> merges, results |-> results]
    BY <1>1, <1>4
  <2> QED BY <1>1, <1>2, <2>1 DEF WorkType, LessWork, Work
<1>5. ASSUME NEW p \in w.merges, NEW x, x = [w EXCEPT !.merges = @ \ {p}]
      PROVE  WorkType(x) /\ LessWork(w, x) /\ x = Work(w.op, w.rows, w.copies, w.merges \ {p}, w.results)
  <2>1. x = [op |-> op, rows |-> rows, copies |-> copies, merges |-> merges \ {p}, results |-> results]
    BY <1>1, <1>5
  <2> QED BY <1>1, <1>2, <2>1 DEF WorkType, LessWork, Work
<1>6. ASSUME NEW y \in w.results, NEW x, x = [w EXCEPT !.results = @ \ {y}]
      PROVE  WorkType(x) /\ LessWork(w, x) /\ x = Work(w.op, w.rows, w.copies, w.merges, w.results \ {y})
  <2>1. x = [op |-> op, rows |-> rows, copies |-> copies, merges |-> merges, results |-> results \ {y}]
    BY <1>1, <1>6
  <2> QED BY <1>1, <1>2, <2>1 DEF WorkType, LessWork, Work
<1> QED BY <1>3, <1>4, <1>5, <1>6

LEMMA ResultsAreObjects ==
  ASSUME NEW v
  PROVE  Results(v) \subseteq Objects
BY AggregateAssumption DEF AggregateAssumption, Results, Fresh

LEMMA FoldedInRows ==
  ASSUME Typed, NEW v
  PROVE  FoldedIn(v) \subseteq InputRows
BY DEF FoldedIn, Typed

(* Folding a set of rows into an object keeps the types. *)
LEMMA FoldedType ==
  ASSUME Typed, NEW o \in Objects, NEW R \in SUBSET InputRows, folded' = [folded EXCEPT ![o] = R]
  PROVE  /\ folded' \in [Objects -> SUBSET InputRows]
         /\ folded'[o] = R /\ \A c \in Objects \ {o} : folded'[c] = folded[c]
BY DEF Typed

LEMMA CommonUpdateRow ==
  ASSUME Common, NEW r \in DOMAIN work.rows, UpdateRow(r)
  PROVE  Common'
<1>1. PICK w : w = work /\ WorkType(w)
  BY DEF Common, Typed
<1>2. PICK x : x = [w EXCEPT !.rows = Without(@, r)]
  OBVIOUS
<1>3. work' = x /\ w.op = "update"
  BY <1>1, <1>2 DEF UpdateRow
<1>4. WorkType(x) /\ LessWork(w, x)
  BY <1>1, <1>2, LessWorks
<1>5. bundle' = bundle /\ broken' = broken /\ due' = due
  BY DEF UpdateRow
<1>6. CASE Selected(r)
  <2>1. PICK s : s = work.rows[r]
    OBVIOUS
  <2>2. s \in Slots /\ Touches(work, s)
    BY <1>1, <2>1 DEF WorkType, Touches
  <2>3. valueOf[s] # Unused
    BY <2>2 DEF Common, Fits
  <2>4. PICK o \in Results(valueOf[s]) :
          /\ folded' = [folded EXCEPT ![o] = FoldedIn(valueOf[s]) \cup {r}]
          /\ StateSet(s, o)
    BY <1>6, <2>1 DEF UpdateRow
  <2>5. o \in Objects
    BY <2>4, ResultsAreObjects
  <2>6. FoldedIn(valueOf[s]) \cup {r} \in SUBSET InputRows
    BY <1>1, FoldedInRows DEF Common, WorkType
  <2>7. folded' \in [Objects -> SUBSET InputRows]
    BY <2>4, <2>5, <2>6, FoldedType DEF Common
  <2> QED BY <1>1, <1>3, <1>4, <1>5, <2>2, <2>3, <2>4, <2>5, <2>7, CommonSet
<1>7. CASE ~Selected(r)
  <2>1. heap' = heap /\ valueOf' = valueOf /\ folded' = folded
    BY <1>7 DEF UpdateRow
  <2>2. HeapType(heap') /\ HoldsOK'
    BY <2>1, SameHolds DEF Common, Typed
  <2>3. Fits(x, valueOf)
    BY <1>1, <1>3, <1>4, LessFits DEF Common
  <2>4. Typed'
    BY <1>3, <1>4, <1>5, <2>1, <2>2 DEF Common, Typed
  <2>5. x.op = work.op
    BY <1>1, <1>4 DEF LessWork
  <2> QED BY <1>3, <1>5, <2>1, <2>2, <2>3, <2>4, <2>5 DEF Common
<1> QED BY <1>6, <1>7

LEMMA CommonStoreResult ==
  ASSUME Common, NEW y \in work.results, StoreResult(y)
  PROVE  Common'
<1>1. PICK w : w = work /\ WorkType(w)
  BY DEF Common, Typed
<1>2. PICK x : x = [w EXCEPT !.results = @ \ {y}]
  OBVIOUS
<1>3. work' = x
  BY <1>1, <1>2 DEF StoreResult
<1>4. WorkType(x) /\ LessWork(w, x)
  BY <1>1, <1>2, LessWorks
<1>5. bundle' = bundle /\ broken' = broken /\ due' = due /\ folded' = folded
  BY DEF StoreResult
<1>6. y.slot \in Slots /\ y.value \in Objects /\ Touches(work, y.slot)
  BY <1>1 DEF WorkType, Stores, Touches
<1>7. valueOf[y.slot] # Unused /\ StateSet(y.slot, y.value)
  BY <1>6 DEF Common, Fits, StoreResult
<1>8. work.op # "idle"
  BY DEF Common, Fits, Idle
<1>9. folded' \in [Objects -> SUBSET InputRows]
  BY <1>5 DEF Common, Typed
<1> QED BY <1>1, <1>3, <1>4, <1>5, <1>6, <1>7, <1>8, <1>9, CommonSet

LEMMA CommonCopyOne ==
  ASSUME Common, NEW p \in work.copies, CopyOne(p)
  PROVE  Common'
<1>1. PICK w : w = work /\ WorkType(w)
  BY DEF Common, Typed
<1>2. PICK x : x = [w EXCEPT !.copies = @ \ {p}]
  OBVIOUS
<1>3. work' = x
  BY <1>1, <1>2 DEF CopyOne
<1>4. WorkType(x) /\ LessWork(w, x)
  BY <1>1, <1>2, LessWorks
<1>5. bundle' = bundle /\ broken' = broken /\ due' = due
  BY DEF CopyOne
<1>6. p.src \in Slots /\ p.dst \in Slots /\ Touches(work, p.dst)
  BY <1>1 DEF WorkType, Pairs, Touches, Moves
<1>7. valueOf[p.dst] # Unused /\ valueOf[p.src] \in Objects
  BY <1>6 DEF Common, Fits
<1>8. PICK o \in IF "copy" \in bundle THEN Fresh ELSE {valueOf[p.src]} :
        folded' = [folded EXCEPT ![o] = FoldedIn(valueOf[p.src])] /\ StateSet(p.dst, o)
  BY DEF CopyOne
<1>9. o \in Objects
  BY <1>7, <1>8, AggregateAssumption DEF AggregateAssumption, Fresh
<1>10. folded' \in [Objects -> SUBSET InputRows]
  BY <1>8, <1>9, FoldedInRows, FoldedType DEF Common
<1>11. work.op # "idle"
  BY DEF Common, Fits, Idle
<1> QED BY <1>1, <1>3, <1>4, <1>5, <1>6, <1>7, <1>8, <1>9, <1>10, <1>11, CommonSet

LEMMA CommonCombineOne ==
  ASSUME Common, NEW p \in work.merges, CombineOne(p)
  PROVE  Common'
<1>1. PICK w : w = work /\ WorkType(w)
  BY DEF Common, Typed
<1>2. PICK x : x = [w EXCEPT !.merges = @ \ {p}]
  OBVIOUS
<1>3. work' = x
  BY <1>1, <1>2 DEF CombineOne
<1>4. WorkType(x) /\ LessWork(w, x)
  BY <1>1, <1>2, LessWorks
<1>5. bundle' = bundle /\ broken' = broken /\ due' = due
  BY DEF CombineOne
<1>6. p.src \in Slots /\ p.dst \in Slots /\ Touches(work, p.dst)
  BY <1>1 DEF WorkType, Pairs, Touches, Moves
<1>7. valueOf[p.dst] # Unused
  BY <1>6 DEF Common, Fits
<1>8. PICK o \in Results(valueOf[p.dst]) :
        /\ folded' = [folded EXCEPT ![o] = FoldedIn(valueOf[p.dst]) \cup FoldedIn(valueOf[p.src])]
        /\ StateSet(p.dst, o)
  BY DEF CombineOne
<1>9. o \in Objects
  BY <1>8, ResultsAreObjects
<1>10. FoldedIn(valueOf[p.dst]) \cup FoldedIn(valueOf[p.src]) \in SUBSET InputRows
  BY FoldedInRows DEF Common
<1>11. folded' \in [Objects -> SUBSET InputRows]
  BY <1>8, <1>9, <1>10, FoldedType DEF Common
<1>12. work.op # "idle"
  BY DEF Common, Fits, Idle
<1> QED BY <1>1, <1>3, <1>4, <1>5, <1>6, <1>7, <1>8, <1>9, <1>11, <1>12, CommonSet

LEMMA ResultsOfType ==
  ASSUME NEW old, NEW f \in ResultsOf(old)
  PROVE  /\ DOMAIN f = DOMAIN old
         /\ \A x \in DOMAIN old : f[x] \in Objects /\ f[x] \in Results(old[x])
         /\ \A x, y \in DOMAIN old : x # y /\ f[x] = f[y] => f[x] = old[x] /\ f[y] = old[y]
BY DEF ResultsOf

LEMMA RefoldedType ==
  ASSUME Typed, NEW f, NEW rows, \A x \in DOMAIN f : rows[x] \in SUBSET InputRows
  PROVE  Refolded(f, rows) \in [Objects -> SUBSET InputRows]
<1>1. ASSUME NEW o \in Objects
      PROVE  (IF \E x \in DOMAIN f : f[x] = o THEN UNION {rows[x] : x \in {y \in DOMAIN f : f[y] = o}}
              ELSE folded[o]) \in SUBSET InputRows
  <2>1. UNION {rows[x] : x \in {y \in DOMAIN f : f[y] = o}} \in SUBSET InputRows
    OBVIOUS
  <2>2. folded[o] \in SUBSET InputRows
    BY DEF Typed
  <2> QED BY <2>1, <2>2
<1> QED BY <1>1 DEF Refolded

(* A chunk callback leaves results to store in states it was called for. *)
LEMMA CommonChunk ==
  ASSUME Common, work.op # "idle",
         NEW M \in SUBSET work.merges, NEW R \in SUBSET Stores,
         \A x \in R : Touches(work, x.slot),
         work' = Work(work.op, NoRows, {}, M, R),
         folded' \in [Objects -> SUBSET InputRows],
         heap' = heap, valueOf' = valueOf, bundle' = bundle, broken' = broken, due' = due
  PROVE  Common'
<1>1. PICK w : w = work'
  OBVIOUS
<1>2. w.op = work.op /\ w.rows = NoRows /\ w.copies = {} /\ w.merges = M /\ w.results = R
  BY <1>1 DEF Work
<1>3. NoRows \in [DOMAIN NoRows -> Slots] /\ DOMAIN NoRows \subseteq InputRows
  BY NoRowsDomain DEF NoRows
<1>4. WorkType(w)
  BY <1>1, <1>2, <1>3 DEF WorkType, Common, Typed
<1>5. \A s : Touches(w, s) => Touches(work, s)
  BY <1>2, NoRowsDomain DEF Touches, Moves
<1>6. Moves(w) \subseteq Moves(work)
  BY <1>2 DEF Moves
<1>7. Fits(w, valueOf)
  BY <1>2, <1>5, <1>6 DEF Fits, Common
<1>8. HeapType(heap') /\ HoldsOK'
  BY SameHolds DEF Common, Typed
<1>9. Typed'
  BY <1>1, <1>4, <1>8 DEF Common, Typed
<1> QED BY <1>1, <1>2, <1>7, <1>8, <1>9 DEF Common

LEMMA CommonUpdateChunk ==
  ASSUME Common, UpdateChunk
  PROVE  Common'
<1>1. PICK states : states = DistinctStates(work.rows)
  OBVIOUS
<1>2. PICK f \in ResultsOf([s \in states |-> valueOf[s]]) :
        /\ folded' = Refolded(f, [s \in states |->
                        FoldedIn(valueOf[s]) \cup {r \in DOMAIN work.rows : work.rows[r] = s /\ Selected(r)}])
        /\ work' = [work EXCEPT !.rows = NoRows,
                                !.results = {[slot |-> s, value |-> f[s]] : s \in states}]
  BY <1>1 DEF UpdateChunk
<1>3. DOMAIN f = states /\ \A s \in states : f[s] \in Objects
  BY <1>2, ResultsOfType
<1>4. PICK rows : rows = [s \in states |->
                        FoldedIn(valueOf[s]) \cup {r \in DOMAIN work.rows : work.rows[r] = s /\ Selected(r)}]
  OBVIOUS
<1>5. WorkType(work) /\ Typed
  BY DEF Common, Typed
<1>6. DOMAIN work.rows \subseteq InputRows
  BY <1>5 DEF WorkType
<1>7. \A s \in states : rows[s] \in SUBSET InputRows
  BY <1>4, <1>5, <1>6, FoldedInRows
<1>8. folded' \in [Objects -> SUBSET InputRows]
  BY <1>2, <1>3, <1>4, <1>5, <1>7, RefoldedType
<1>9. work.op = "update" /\ Moves(work) = {}
  BY DEF UpdateChunk, Common, Fits
<1>10. PICK R : R = {[slot |-> s, value |-> f[s]] : s \in states}
  OBVIOUS
<1>11. \A s \in states : s \in Slots /\ Touches(work, s)
  BY <1>1, <1>5 DEF DistinctStates, Touches, WorkType
<1>12. R \in SUBSET Stores /\ \A x \in R : Touches(work, x.slot)
  BY <1>3, <1>10, <1>11 DEF Stores
<1>13. work' = Work(work.op, NoRows, {}, {}, R)
  <2>1. PICK op, r0, c0, m0, x0 : work = [op |-> op, rows |-> r0, copies |-> c0, merges |-> m0, results |-> x0]
    BY <1>5 DEF WorkType, Work
  <2>2. c0 = {} /\ m0 = {} /\ work.op = op
    BY <1>9, <2>1 DEF Moves
  <2>3. work' = [op |-> op, rows |-> NoRows, copies |-> c0, merges |-> m0, results |-> R]
    BY <1>2, <1>10, <2>1
  <2> QED BY <2>2, <2>3 DEF Work
<1>14. heap' = heap /\ valueOf' = valueOf /\ bundle' = bundle /\ broken' = broken /\ due' = due
  BY DEF UpdateChunk
<1> QED BY <1>8, <1>9, <1>12, <1>13, <1>14, CommonChunk

(* The batch is a combine when there is something to copy or to merge. *)
LEMMA Combining ==
  ASSUME Common, Moves(work) # {}
  PROVE  work.op = "combine" /\ work.rows = NoRows
<1>1. work.op # "update" /\ work.op # "idle"
  BY DEF Common, Fits, Idle, Moves
<1>2. work.op = "combine"
  BY <1>1 DEF Common, Typed, WorkType
<1> QED BY <1>2 DEF Common, Fits

LEMMA StoredType ==
  ASSUME Common, NEW P \in SUBSET Moves(work), NEW f, DOMAIN f = P, \A p \in P : f[p] \in Objects
  PROVE  Stored(f) \in SUBSET Stores /\ \A x \in Stored(f) : Touches(work, x.slot)
<1>1. \A p \in P : p.dst \in Slots /\ Touches(work, p.dst)
  BY DEF Common, Typed, WorkType, Pairs, Touches, Moves
<1> QED BY <1>1 DEF Stored, Stores

LEMMA CommonCopyChunk ==
  ASSUME Common, CopyChunk
  PROVE  Common'
<1>1. PICK P : P = work.copies /\ P # {}
  BY DEF CopyChunk
<1>2. PICK f \in ResultsOf([p \in P |-> NoObject]) :
        /\ folded' = Refolded(f, [p \in P |-> FoldedIn(valueOf[p.src])])
        /\ work' = [work EXCEPT !.copies = {}, !.results = Stored(f)]
  BY <1>1 DEF CopyChunk
<1>3. DOMAIN f = P /\ \A p \in P : f[p] \in Objects
  BY <1>2, ResultsOfType
<1>4. WorkType(work) /\ Typed
  BY DEF Common, Typed
<1>5. PICK rows : rows = [p \in P |-> FoldedIn(valueOf[p.src])]
  OBVIOUS
<1>6. \A p \in P : rows[p] \in SUBSET InputRows
  BY <1>4, <1>5, FoldedInRows
<1>7. folded' \in [Objects -> SUBSET InputRows]
  BY <1>2, <1>3, <1>4, <1>5, <1>6, RefoldedType
<1>8. P \in SUBSET Moves(work)
  BY <1>1 DEF Moves
<1>9. work.op = "combine" /\ work.rows = NoRows
  BY <1>1, <1>8, Combining
<1>10. Stored(f) \in SUBSET Stores /\ \A x \in Stored(f) : Touches(work, x.slot)
  BY <1>3, <1>8, StoredType
<1>11. work' = Work(work.op, NoRows, {}, work.merges, Stored(f))
  <2>1. PICK op, r0, c0, m0, x0 : work = [op |-> op, rows |-> r0, copies |-> c0, merges |-> m0, results |-> x0]
    BY <1>4 DEF WorkType, Work
  <2>2. PICK R : R = Stored(f)
    OBVIOUS
  <2>3. work' = [op |-> op, rows |-> r0, copies |-> {}, merges |-> m0, results |-> R]
    BY <1>2, <2>1, <2>2
  <2> QED BY <1>9, <2>1, <2>2, <2>3 DEF Work
<1>12. heap' = heap /\ valueOf' = valueOf /\ bundle' = bundle /\ broken' = broken /\ due' = due
  BY DEF CopyChunk
<1>13. work.merges \in SUBSET work.merges
  OBVIOUS
<1> QED BY <1>7, <1>9, <1>10, <1>11, <1>12, <1>13, CommonChunk

LEMMA CommonCombineChunk ==
  ASSUME Common, CombineChunk
  PROVE  Common'
<1>1. PICK P : P = work.merges /\ P # {}
  BY DEF CombineChunk
<1>2. PICK f \in ResultsOf([p \in P |-> valueOf[p.dst]]) :
        /\ folded' = Refolded(f, [p \in P |-> FoldedIn(valueOf[p.dst]) \cup FoldedIn(valueOf[p.src])])
        /\ work' = [work EXCEPT !.merges = {}, !.results = Stored(f)]
  BY <1>1 DEF CombineChunk
<1>3. DOMAIN f = P /\ \A p \in P : f[p] \in Objects
  BY <1>2, ResultsOfType
<1>4. WorkType(work) /\ Typed
  BY DEF Common, Typed
<1>5. PICK rows : rows = [p \in P |-> FoldedIn(valueOf[p.dst]) \cup FoldedIn(valueOf[p.src])]
  OBVIOUS
<1>6. \A p \in P : rows[p] \in SUBSET InputRows
  BY <1>4, <1>5, FoldedInRows
<1>7. folded' \in [Objects -> SUBSET InputRows]
  BY <1>2, <1>3, <1>4, <1>5, <1>6, RefoldedType
<1>8. P \in SUBSET Moves(work)
  BY <1>1 DEF Moves
<1>9. work.op = "combine" /\ work.rows = NoRows /\ work.copies = {}
  BY <1>1, <1>8, Combining DEF CombineChunk, Copied
<1>10. Stored(f) \in SUBSET Stores /\ \A x \in Stored(f) : Touches(work, x.slot)
  BY <1>3, <1>8, StoredType
<1>11. work' = Work(work.op, NoRows, {}, {}, Stored(f))
  <2>1. PICK op, r0, c0, m0, x0 : work = [op |-> op, rows |-> r0, copies |-> c0, merges |-> m0, results |-> x0]
    BY <1>4 DEF WorkType, Work
  <2>2. PICK R : R = Stored(f)
    OBVIOUS
  <2>3. work' = [op |-> op, rows |-> r0, copies |-> c0, merges |-> {}, results |-> R]
    BY <1>2, <2>1, <2>2
  <2> QED BY <1>9, <2>1, <2>2, <2>3 DEF Work
<1>12. heap' = heap /\ valueOf' = valueOf /\ bundle' = bundle /\ broken' = broken /\ due' = due
  BY DEF CombineChunk
<1> QED BY <1>7, <1>9, <1>10, <1>11, <1>12, CommonChunk

(*---- DuckDB's batches ----*)

(* A batch begins with a drain, and asks for rows. *)
LEMMA CommonBegin ==
  ASSUME Common, ~broken, NEW w, WorkType(w), Fits(w, valueOf), work' = w,
         heap' = Drained(heap), valueOf' = valueOf, folded' = folded, bundle' = bundle,
         broken' = broken, due' \in [Slots -> SUBSET InputRows]
  PROVE  Common'
<1>1. HeapType(heap') /\ HoldsOK'
  BY SameHolds DEF Common, Typed
<1> QED BY <1>1 DEF Common, Typed

LEMMA CommonUpdateAsked ==
  ASSUME Common, UpdateAsked
  PROVE  Common'
<1>0. PICK R \in SUBSET (InputRows \ given) : \E to \in [R -> Live] : BeginUpdate(R, to)
  BY DEF UpdateAsked
<1>1. PICK to \in [R -> Live] : BeginUpdate(R, to)
  BY <1>0
<1>2. PICK w : w = Work("update", to, {}, {}, {})
  OBVIOUS
<1>3. work' = w
  <2>1. work' = [Idle EXCEPT !.op = "update", !.rows = to]
    BY <1>1 DEF BeginUpdate
  <2>2. PICK n : Idle = [op |-> "idle", rows |-> n, copies |-> {}, merges |-> {}, results |-> {}]
    BY DEF Idle
  <2>3. work' = [op |-> "update", rows |-> to, copies |-> {}, merges |-> {}, results |-> {}]
    BY <2>1, <2>2
  <2> QED BY <1>2, <2>3 DEF Work
<1>4. w.op = "update" /\ w.rows = to /\ w.copies = {} /\ w.merges = {} /\ w.results = {}
  BY <1>2 DEF Work
<1>5. to \in [R -> Slots] /\ DOMAIN to = R /\ R \subseteq InputRows /\ \A r \in R : valueOf[to[r]] # Unused
  BY <1>1 DEF Live
<1>6. WorkType(w)
  BY <1>2, <1>4, <1>5 DEF WorkType
<1>7. Fits(w, valueOf)
  BY <1>4, <1>5 DEF Fits, Touches, Moves
<1>8. due' \in [Slots -> SUBSET InputRows]
  <2>1. due' = [s \in Slots |-> due[s] \cup {r \in R : to[r] = s /\ Selected(r)}]
    BY <1>1 DEF BeginUpdate
  <2>2. \A s \in Slots : due[s] \cup {r \in R : to[r] = s /\ Selected(r)} \in SUBSET InputRows
    BY <1>5 DEF Common, Typed
  <2> QED BY <2>1, <2>2
<1> QED BY <1>1, <1>3, <1>6, <1>7, <1>8, CommonBegin DEF BeginUpdate

LEMMA CommonCombineAsked ==
  ASSUME Common, CombineAsked
  PROVE  Common'
<1>1. PICK a, b \in [src : Live, dst : Live] :
        (\A p, q \in {a, b} : p.src # q.dst) /\ BeginCombine({a, b})
  BY DEF CombineAsked
<1>2. PICK batch : batch = {a, b}
  OBVIOUS
<1>3. /\ BeginCombine(batch) /\ \A p, q \in batch : p.src # q.dst
      /\ \A p \in batch : p \in Pairs /\ valueOf[p.src] # Unused /\ valueOf[p.dst] # Unused
  BY <1>1, <1>2 DEF Live, Pairs
<1>4. PICK Full : Full = {p \in batch : valueOf[p.src] # NoObject}
  OBVIOUS
<1>5. PICK C, M : C = {p \in Full : valueOf[p.dst] = NoObject} /\ M = {p \in Full : valueOf[p.dst] # NoObject}
  OBVIOUS
<1>6. PICK w : w = Work("combine", NoRows, C, M, {})
  OBVIOUS
<1>7. work' = w
  <2>1. work' = [Idle EXCEPT !.op = "combine", !.copies = C, !.merges = M]
    BY <1>3, <1>4, <1>5 DEF BeginCombine
  <2>2. PICK n : n = NoRows /\ Idle = [op |-> "idle", rows |-> n, copies |-> {}, merges |-> {}, results |-> {}]
    BY DEF Idle
  <2>3. work' = [op |-> "combine", rows |-> n, copies |-> C, merges |-> M, results |-> {}]
    BY <2>1, <2>2
  <2> QED BY <1>6, <2>2, <2>3 DEF Work
<1>8. w.op = "combine" /\ w.rows = NoRows /\ w.copies = C /\ w.merges = M /\ w.results = {}
  BY <1>6 DEF Work
<1>9. C \subseteq batch /\ M \subseteq batch /\ Moves(w) \subseteq batch
  BY <1>4, <1>5, <1>8 DEF Moves
<1>10. NoRows \in [DOMAIN NoRows -> Slots] /\ DOMAIN NoRows \subseteq InputRows
  BY NoRowsDomain DEF NoRows
<1>11. WorkType(w)
  BY <1>3, <1>6, <1>8, <1>9, <1>10 DEF WorkType
<1>12. \A p \in C : valueOf[p.src] \in Objects
  <2>1. \A p \in C : valueOf[p.src] \in Values /\ valueOf[p.src] # NoObject /\ valueOf[p.src] # Unused
    BY <1>3, <1>4, <1>5 DEF Common, Typed, Pairs
  <2> QED BY <2>1 DEF Values
<1>13. \A s : Touches(w, s) => \E p \in batch : s \in {p.src, p.dst}
  BY <1>8, <1>9, NoRowsDomain DEF Touches
<1>14. \A s : Touches(w, s) => valueOf[s] # Unused
  BY <1>3, <1>13
<1>15. Fits(w, valueOf)
  <2>1. C \cap M = {}
    BY <1>5
  <2> QED BY <1>3, <1>8, <1>9, <1>12, <1>14, <2>1 DEF Fits
<1>16. due' \in [Slots -> SUBSET InputRows]
  <2>1. due' = [s \in Slots |-> due[s] \cup UNION {due[p.src] : p \in {q \in batch : q.dst = s}}]
    BY <1>3 DEF BeginCombine
  <2>2. due \in [Slots -> SUBSET InputRows] /\ \A p \in batch : p.src \in Slots
    BY <1>3 DEF Common, Typed, Pairs
  <2>3. ASSUME NEW s \in Slots
        PROVE  due[s] \cup UNION {due[p.src] : p \in {q \in batch : q.dst = s}} \in SUBSET InputRows
    BY <2>2
  <2> QED BY <2>1, <2>3
<1> QED BY <1>3, <1>7, <1>11, <1>15, <1>16, CommonBegin DEF BeginCombine

LEMMA CommonStep ==
  Common /\ [AggNext]_aggVars => Common'
<1> SUFFICES ASSUME Common, [AggNext]_aggVars
             PROVE  Common'
  OBVIOUS
<1>1. ASSUME NEW s \in Slots, InitState(s) PROVE Common'
  BY <1>1, CommonInitState
<1>2. ASSUME NEW t \in Threads, NEW s \in Slots, DestroyState(t, s) PROVE Common'
  BY <1>2, CommonDestroyState
<1>3. CASE Drain
  BY <1>3, CommonDrained DEF Drain
<1>4. CASE SetError
  <2>1. /\ heap' = heap /\ valueOf' = valueOf /\ folded' = folded /\ bundle' = bundle /\ due' = due
        /\ work' = Idle /\ broken' \in BOOLEAN
    BY <1>4 DEF SetError
  <2> QED BY <2>1, CommonDrained
<1>5. ASSUME NEW t \in Threads, OffRThread(t) PROVE Common'
  BY <1>4, <1>5 DEF OffRThread
<1>6. CASE UpdateAsked
  BY <1>6, CommonUpdateAsked
<1>7. ASSUME NEW r \in DOMAIN work.rows, UpdateRow(r) PROVE Common'
  BY <1>7, CommonUpdateRow
<1>8. CASE UpdateChunk
  BY <1>8, CommonUpdateChunk
<1>9. ASSUME NEW x \in work.results, StoreResult(x) PROVE Common'
  BY <1>9, CommonStoreResult
<1>10. CASE CombineAsked
  BY <1>10, CommonCombineAsked
<1>11. ASSUME NEW p \in work.copies, CopyOne(p) PROVE Common'
  BY <1>11, CommonCopyOne
<1>12. CASE CopyChunk
  BY <1>12, CommonCopyChunk
<1>13. ASSUME NEW p \in work.merges, CombineOne(p) PROVE Common'
  BY <1>13, CommonCombineOne
<1>14. CASE CombineChunk
  BY <1>14, CommonCombineChunk
<1>15. CASE CallbackFails
  BY <1>4, <1>15 DEF CallbackFails
<1>16. CASE EndBatch
  BY <1>16, CommonDrained DEF EndBatch, Common, Typed
<1>17. CASE Finalize
  <2>1. /\ heap' = Drained(heap) /\ valueOf' = valueOf /\ folded' = folded /\ bundle' = bundle
        /\ due' = due /\ work' = work /\ broken' \in BOOLEAN /\ work.op = "idle"
    BY <1>17 DEF Finalize
  <2>2. work' = Idle
    BY <2>1 DEF Common, Fits
  <2> QED BY <2>1, <2>2, CommonDrained
<1>18. CASE UNCHANGED aggVars
  BY <1>18, CommonDrained DEF aggVars
<1> QED BY <1>1, <1>2, <1>3, <1>5, <1>6, <1>7, <1>8, <1>9, <1>10, <1>11, <1>12, <1>13, <1>14,
           <1>15, <1>16, <1>17, <1>18 DEF AggNext

LEMMA CommonInvariant ==
  AggSpec => []Common
<1> QED BY CommonInit, CommonStep, PTL DEF AggSpec

(* rducks_aggregate.c preserves an R object once for each state that holds it
   and releases it once for each that lets it go, on whatever thread and in
   whatever order the queue is drained, whatever the callbacks of the bundle
   return and wherever one of them fails. *)
THEOREM AggregatesPreserveExactly ==
  AggSpec => []PreserveExact
<1>1. Common => PreserveExact
  <2> SUFFICES ASSUME Common, NEW o \in Objects
               PROVE  heap.preserved[o] = Cardinality({s \in Slots : valueOf[s] = o}) + Waiting(heap, o)
    BY DEF PreserveExact
  <2>1. PICK p, l \in Int : p = heap.preserved[o] /\ l = Waiting(heap, o)
    BY CountNat DEF Common, Typed, HeapType, Waiting
  <2>2. PICK n \in Nat : n = Cardinality({s \in Slots : valueOf[s] = o}) /\ p - l = n
    BY <2>1, FS_CardinalityType DEF Common, HoldsOK, HeldBy, HoldsOn
  <2> QED BY <2>1, <2>2
<1> QED BY <1>1, CommonInvariant, PTL

(*----------------------------- no row is lost ----------------------------*)

(* row e is in value u, where fo has the rows of each object *)
Has(fo, u, e) == u \in Objects /\ e \in fo[u]

(* row e is in state s once the results in hand are stored *)
NowIn(w, v, fo, s, e) ==
  IF \E x \in w.results : x.slot = s
  THEN \E x \in w.results : x.slot = s /\ e \in fo[x.value]
  ELSE Has(fo, v[s], e)

(* row e is still to come into state s *)
ComingIn(w, v, fo, s, e) ==
  \/ e \in DOMAIN w.rows /\ w.rows[e] = s /\ Selected(e)
  \/ \E p \in Moves(w) : p.dst = s /\ Has(fo, v[p.src], e)

(* Each state holds, or will when the batch ends, the rows that are due. *)
Kept(w, v, fo, d) ==
  \A s \in Slots : v[s] # Unused =>
    \A e \in InputRows : e \in d[s] <=> NowIn(w, v, fo, s, e) \/ ComingIn(w, v, fo, s, e)

(* The targets of a batch are different, the results in hand are nobody
   else's, and a state changed in place is not shared. *)
Apart(w, v, b) ==
  /\ \A p, q \in Moves(w) : p.dst = q.dst => p = q
  /\ \A p \in w.copies : v[p.dst] = NoObject
  /\ \A x, y \in w.results : x.slot = y.slot \/ x.value = y.value => x = y
  /\ \A x \in w.results, p \in Moves(w) : x.slot # p.src /\ x.slot # p.dst
  /\ \A x \in w.results, s \in Slots : v[s] = x.value => s = x.slot
  /\ "in_place" \in b => \A s, q \in Slots : v[s] = v[q] /\ v[s] \in Objects => s = q

RowsKept ==
  /\ Apart(work, valueOf, bundle)
  /\ ~broken => Kept(work, valueOf, folded, due)
  /\ \A s \in Slots : valueOf[s] = Unused => due[s] = {}

LEMMA IdleApart ==
  ASSUME NEW v, NEW b, NEW w, Apart(w, v, b)
  PROVE  Apart(Idle, v, b)
<1>1. Idle.copies = {} /\ Moves(Idle) = {} /\ Idle.results = {}
  BY DEF Idle, Moves
<1> QED BY <1>1 DEF Apart

LEMMA IdleKept ==
  ASSUME NEW v, NEW fo, NEW d
  PROVE  Kept(Idle, v, fo, d) <=>
           \A s \in Slots : v[s] # Unused => \A e \in InputRows : e \in d[s] <=> Has(fo, v[s], e)
<1>1. Idle.rows = NoRows /\ Moves(Idle) = {} /\ Idle.results = {}
  BY DEF Idle, Moves
<1>2. \A s, e : NowIn(Idle, v, fo, s, e) <=> Has(fo, v[s], e)
  BY <1>1 DEF NowIn
<1>3. \A s, e : ~ComingIn(Idle, v, fo, s, e)
  BY <1>1, NoRowsDomain DEF ComingIn
<1> QED BY <1>2, <1>3 DEF Kept

LEMMA RowsInit ==
  AggInit => RowsKept
<1> SUFFICES ASSUME AggInit
             PROVE  RowsKept
  OBVIOUS
<1>1. work = Idle /\ valueOf = [s \in Slots |-> Unused] /\ due = [s \in Slots |-> {}]
  BY DEF AggInit
<1>2. Unused \notin Objects
  BY AggregateAssumption DEF AggregateAssumption
<1>3. Apart(work, valueOf, bundle)
  BY <1>1, <1>2 DEF Apart, Idle, Moves
<1>4. Kept(work, valueOf, folded, due)
  BY <1>1 DEF Kept
<1> QED BY <1>1, <1>3, <1>4 DEF RowsKept

(* An object that is not preserved is in no state. *)
LEMMA FreshFree ==
  ASSUME Common, NEW o \in Fresh
  PROVE  /\ o \in Objects /\ \A s \in Slots : valueOf[s] # o
         /\ \A x \in work.results : x.value # o
<1>1. o \in Objects /\ heap.preserved[o] = 0 /\ \A x \in work.results : x.value # o
  BY AggregateAssumption DEF AggregateAssumption, Fresh, InHand
<1>2. PICK l \in Nat : l = Waiting(heap, o)
  BY <1>1, CountNat DEF Common, Typed, HeapType, Waiting
<1>3. PICK n \in Nat : n = Cardinality(HeldBy(valueOf, o)) /\ 0 - l = n
  BY <1>1, <1>2, FS_CardinalityType DEF Common, HoldsOK, HoldsOn
<1>4. n = 0
  BY <1>2, <1>3
<1>5. HeldBy(valueOf, o) = {}
  BY <1>1, <1>3, <1>4, FS_EmptySet DEF Common, HoldsOK
<1> QED BY <1>1, <1>5 DEF HeldBy

(* What a callback returns for a state is in no other. *)
LEMMA ResultFree ==
  ASSUME Common, RowsKept, NEW s \in Slots, NEW o \in Results(valueOf[s])
  PROVE  o \in Objects /\ \A q \in Slots : valueOf[q] = o => q = s
<1>1. CASE "in_place" \in bundle /\ valueOf[s] \in Objects
  <2>1. o = valueOf[s]
    BY <1>1 DEF Results
  <2> QED BY <1>1, <2>1 DEF RowsKept, Apart
<1>2. CASE ~("in_place" \in bundle /\ valueOf[s] \in Objects)
  <2>1. o \in Fresh
    BY <1>2 DEF Results
  <2> QED BY <2>1, FreshFree
<1> QED BY <1>1, <1>2

Puts(v, u, s, o) == u[s] = o /\ \A q \in Slots \ {s} : u[q] = v[q]
Refolds(fo, gr, o, R) == gr[o] = R /\ \A c \in Objects \ {o} : gr[c] = fo[c]
Spared(v, fo, s, o, R) == \A q \in Slots \ {s} : v[q] = o => R = fo[o]

(* Storing o, which now has rows R, in state s disturbs no other state. *)
LEMMA HasSame ==
  ASSUME NEW v, NEW u, NEW fo, NEW gr, NEW s \in Slots, NEW o \in Objects, NEW R,
         Puts(v, u, s, o), Refolds(fo, gr, o, R), Spared(v, fo, s, o, R)
  PROVE  /\ \A e : Has(gr, u[s], e) <=> e \in R
         /\ \A q \in Slots \ {s} : \A e : Has(gr, u[q], e) <=> Has(fo, v[q], e)
<1>1. \A e : Has(gr, u[s], e) <=> e \in R
  BY DEF Has, Puts, Refolds
<1>2. ASSUME NEW q \in Slots \ {s}, NEW e
      PROVE  Has(gr, u[q], e) <=> Has(fo, v[q], e)
  <2>1. u[q] = v[q] /\ (v[q] \in Objects => gr[v[q]] = fo[v[q]])
    BY DEF Puts, Refolds, Spared
  <2> QED BY <2>1 DEF Has
<1> QED BY <1>1, <1>2

(*---- states come and go ----*)

LEMMA RowsInitState ==
  ASSUME Common, RowsKept, NEW s \in Slots, InitState(s)
  PROVE  RowsKept'
<1>1. PICK v, u : v = valueOf /\ u = valueOf'
  OBVIOUS
<1>2. v \in [Slots -> Values] /\ v[s] = Unused /\ u = [v EXCEPT ![s] = NoObject]
  BY <1>1 DEF InitState, Common, Typed
<1>3. u[s] = NoObject /\ \A q \in Slots \ {s} : u[q] = v[q]
  BY <1>2
<1>4. PICK w : w = work /\ WorkType(w) /\ Fits(w, v) /\ ~Touches(w, s)
  BY <1>1, <1>2 DEF Common, Typed, Fits
<1>5. NoObject \notin Objects /\ Unused \notin Objects /\ NoObject # Unused
  BY AggregateAssumption DEF AggregateAssumption
<1>6. \A p \in Moves(w) : p.src \in Slots \ {s} /\ p.dst \in Slots \ {s}
  BY <1>4 DEF WorkType, Pairs, Moves, Touches
<1>7. \A x \in w.results : x.slot # s /\ x.value \in Objects
  BY <1>4 DEF WorkType, Stores, Touches
<1>8. Apart(w, u, bundle)
  <2>1. Apart(w, v, bundle)
    BY <1>1, <1>4 DEF RowsKept
  <2>2. \A p \in w.copies : u[p.dst] = NoObject
    BY <1>3, <1>6, <2>1 DEF Apart, Moves
  <2>3. \A x \in w.results, q \in Slots : u[q] = x.value => q = x.slot
    BY <1>3, <1>5, <1>7, <2>1 DEF Apart
  <2>4. "in_place" \in bundle => \A p, q \in Slots : u[p] = u[q] /\ u[p] \in Objects => p = q
    BY <1>3, <1>5, <2>1 DEF Apart
  <2> QED BY <2>1, <2>2, <2>3, <2>4 DEF Apart
<1>9. PICK fo, d : fo = folded /\ d = due
  OBVIOUS
<1>10. ASSUME Kept(w, v, fo, d)
       PROVE  Kept(w, u, fo, d)
  <2>1. \A p \in Moves(w) : u[p.src] = v[p.src]
    BY <1>3, <1>6
  <2>2. \A q, e : ComingIn(w, u, fo, q, e) <=> ComingIn(w, v, fo, q, e)
    BY <2>1 DEF ComingIn
  <2>3. \A q \in Slots \ {s} : \A e : NowIn(w, u, fo, q, e) <=> NowIn(w, v, fo, q, e)
    BY <1>3 DEF NowIn
  <2>4. \A e : ~NowIn(w, u, fo, s, e)
    BY <1>3, <1>5, <1>7 DEF NowIn, Has
  <2>5. \A e : ~ComingIn(w, u, fo, s, e)
    BY <1>4, <1>6 DEF ComingIn, Touches
  <2>6. d[s] = {}
    BY <1>1, <1>2, <1>9 DEF RowsKept
  <2>7. \A q \in Slots \ {s} : u[q] # Unused =>
          \A e \in InputRows : e \in d[q] <=> NowIn(w, u, fo, q, e) \/ ComingIn(w, u, fo, q, e)
    BY <1>3, <1>10, <2>2, <2>3 DEF Kept
  <2> QED BY <2>4, <2>5, <2>6, <2>7 DEF Kept
<1>11. \A q \in Slots : u[q] = Unused => d[q] = {}
  BY <1>1, <1>3, <1>5, <1>9 DEF RowsKept
<1>12. folded' = fo /\ due' = d /\ bundle' = bundle /\ work' = w /\ broken' = broken
  BY <1>4, <1>9 DEF InitState
<1>13. ~broken => Kept(w, u, fo, d)
  BY <1>1, <1>4, <1>9, <1>10 DEF RowsKept
<1> QED BY <1>1, <1>8, <1>11, <1>12, <1>13 DEF RowsKept

LEMMA RowsDestroyState ==
  ASSUME Common, RowsKept, NEW t \in Threads, NEW s \in Slots, DestroyState(t, s)
  PROVE  RowsKept'
<1>1. PICK v, u : v = valueOf /\ u = valueOf'
  OBVIOUS
<1>2. v \in [Slots -> Values] /\ u = [v EXCEPT ![s] = Unused]
  BY <1>1 DEF DestroyState, Common, Typed
<1>3. u[s] = Unused /\ \A q \in Slots \ {s} : u[q] = v[q]
  BY <1>2
<1>4. PICK w : w = work /\ WorkType(w) /\ Fits(w, v) /\ ~Touches(w, s)
  BY <1>1, BusyTouches DEF Common, Typed, DestroyState
<1>5. Unused \notin Objects
  BY AggregateAssumption DEF AggregateAssumption
<1>6. \A p \in Moves(w) : p.src \in Slots \ {s} /\ p.dst \in Slots \ {s}
  BY <1>4 DEF WorkType, Pairs, Moves, Touches
<1>7. \A x \in w.results : x.slot # s /\ x.value \in Objects
  BY <1>4 DEF WorkType, Stores, Touches
<1>8. Apart(w, u, bundle)
  <2>1. Apart(w, v, bundle)
    BY <1>1, <1>4 DEF RowsKept
  <2>2. \A p \in w.copies : u[p.dst] = NoObject
    BY <1>3, <1>6, <2>1 DEF Apart, Moves
  <2>3. \A x \in w.results, q \in Slots : u[q] = x.value => q = x.slot
    BY <1>3, <1>5, <1>7, <2>1 DEF Apart
  <2>4. "in_place" \in bundle => \A p, q \in Slots : u[p] = u[q] /\ u[p] \in Objects => p = q
    BY <1>3, <1>5, <2>1 DEF Apart
  <2> QED BY <2>1, <2>2, <2>3, <2>4 DEF Apart
<1>9. PICK fo, d, g : fo = folded /\ d = due /\ g = due'
  OBVIOUS
<1>10. g[s] = {} /\ \A q \in Slots \ {s} : g[q] = d[q]
  <2>1. d \in [Slots -> SUBSET InputRows] /\ g = [d EXCEPT ![s] = {}]
    BY <1>9 DEF DestroyState, Common, Typed
  <2> QED BY <2>1
<1>11. ASSUME Kept(w, v, fo, d)
       PROVE  Kept(w, u, fo, g)
  <2>1. \A p \in Moves(w) : u[p.src] = v[p.src]
    BY <1>3, <1>6
  <2>2. \A q, e : ComingIn(w, u, fo, q, e) <=> ComingIn(w, v, fo, q, e)
    BY <2>1 DEF ComingIn
  <2>3. \A q \in Slots \ {s} : \A e : NowIn(w, u, fo, q, e) <=> NowIn(w, v, fo, q, e)
    BY <1>3 DEF NowIn
  <2>4. \A q \in Slots \ {s} : u[q] # Unused =>
          \A e \in InputRows : e \in g[q] <=> NowIn(w, u, fo, q, e) \/ ComingIn(w, u, fo, q, e)
    BY <1>3, <1>10, <1>11, <2>2, <2>3 DEF Kept
  <2> QED BY <1>3, <2>4 DEF Kept
<1>12. \A q \in Slots : u[q] = Unused => g[q] = {}
  BY <1>1, <1>3, <1>9, <1>10 DEF RowsKept
<1>13. folded' = fo /\ due' = g /\ bundle' = bundle /\ work' = w /\ broken' = broken
  BY <1>4, <1>9 DEF DestroyState
<1>14. ~broken => Kept(w, u, fo, g)
  BY <1>1, <1>4, <1>9, <1>11 DEF RowsKept
<1> QED BY <1>1, <1>8, <1>12, <1>13, <1>14 DEF RowsKept

(* Nothing is lost by doing nothing, or by giving up. *)
LEMMA RowsStill ==
  ASSUME RowsKept, valueOf' = valueOf, folded' = folded, bundle' = bundle, due' = due,
         \/ work' = work /\ (~broken' => ~broken)
         \/ work' = Idle /\ broken' = TRUE
  PROVE  RowsKept'
<1>1. CASE work' = work /\ (~broken' => ~broken)
  BY <1>1 DEF RowsKept
<1>2. CASE work' = Idle /\ broken' = TRUE
  BY <1>2, IdleApart DEF RowsKept
<1> QED BY <1>1, <1>2

LEMMA RowsEndBatch ==
  ASSUME RowsKept, EndBatch
  PROVE  RowsKept'
<1>1. PICK w, v, fo, d : w = work /\ v = valueOf /\ fo = folded /\ d = due
  OBVIOUS
<1>2. work' = Idle /\ valueOf' = v /\ folded' = fo /\ due' = d /\ bundle' = bundle /\ broken' = broken
  BY <1>1 DEF EndBatch
<1>3. w.rows = NoRows /\ w.copies = {} /\ w.merges = {} /\ w.results = {}
  <2>1. PICK n : n = NoRows /\ Idle = [op |-> "idle", rows |-> n, copies |-> {}, merges |-> {}, results |-> {}]
    BY DEF Idle
  <2>2. w = [Idle EXCEPT !.op = w.op]
    BY <1>1 DEF EndBatch
  <2>3. w = [op |-> w.op, rows |-> n, copies |-> {}, merges |-> {}, results |-> {}]
    BY <2>1, <2>2
  <2> QED BY <2>1, <2>3
<1>4. Apart(Idle, v, bundle)
  BY <1>1, IdleApart DEF RowsKept
<1>5. \A s, e : NowIn(w, v, fo, s, e) <=> Has(fo, v[s], e)
  BY <1>3 DEF NowIn
<1>6. \A s, e : ~ComingIn(w, v, fo, s, e)
  BY <1>3, NoRowsDomain DEF ComingIn, Moves
<1>7. Kept(w, v, fo, d) => Kept(Idle, v, fo, d)
  BY <1>5, <1>6, IdleKept DEF Kept
<1> QED BY <1>1, <1>2, <1>4, <1>7 DEF RowsKept

(*---- DuckDB's batches ----*)

LEMMA RowsUpdateAsked ==
  ASSUME Common, RowsKept, UpdateAsked
  PROVE  RowsKept'
<1>1. PICK R \in SUBSET (InputRows \ given) : \E to \in [R -> Live] : BeginUpdate(R, to)
  BY DEF UpdateAsked
<1>2. PICK to \in [R -> Live] : BeginUpdate(R, to)
  BY <1>1
<1>3. PICK v, fo, d, g, w : v = valueOf /\ fo = folded /\ d = due /\ g = due' /\ w = work'
  OBVIOUS
<1>4. work = Idle /\ ~broken
  BY <1>2 DEF BeginUpdate, Common, Fits
<1>5. /\ g = [s \in Slots |-> d[s] \cup {r \in R : to[r] = s /\ Selected(r)}]
      /\ valueOf' = v /\ folded' = fo /\ bundle' = bundle /\ broken' = broken
      /\ w = [Idle EXCEPT !.op = "update", !.rows = to]
  BY <1>2, <1>3 DEF BeginUpdate
<1>6. w.rows = to /\ w.copies = {} /\ w.merges = {} /\ w.results = {}
  <2>1. PICK n : Idle = [op |-> "idle", rows |-> n, copies |-> {}, merges |-> {}, results |-> {}]
    BY DEF Idle
  <2>2. w = [op |-> "update", rows |-> to, copies |-> {}, merges |-> {}, results |-> {}]
    BY <1>5, <2>1
  <2> QED BY <2>2
<1>7. Apart(w, v, bundle)
  <2>1. Apart(Idle, v, bundle)
    BY <1>3, IdleApart DEF RowsKept
  <2> QED BY <1>6, <2>1 DEF Apart, Moves
<1>8. Kept(w, v, fo, g)
  <2>1. \A s \in Slots : v[s] # Unused => \A e \in InputRows : e \in d[s] <=> Has(fo, v[s], e)
    BY <1>3, <1>4, IdleKept DEF RowsKept
  <2>2. \A s, e : NowIn(w, v, fo, s, e) <=> Has(fo, v[s], e)
    BY <1>6 DEF NowIn
  <2>3. \A s, e : ComingIn(w, v, fo, s, e) <=> e \in R /\ to[e] = s /\ Selected(e)
    BY <1>6 DEF ComingIn, Moves
  <2>4. \A s \in Slots : \A e : e \in g[s] <=> e \in d[s] \/ (e \in R /\ to[e] = s /\ Selected(e))
    BY <1>5
  <2> QED BY <2>1, <2>2, <2>3, <2>4 DEF Kept
<1>9. \A s \in Slots : v[s] = Unused => g[s] = {}
  <2>1. \A r \in R : v[to[r]] # Unused
    BY <1>3 DEF Live
  <2>2. \A s \in Slots : v[s] = Unused => d[s] = {}
    BY <1>3 DEF RowsKept
  <2> QED BY <1>5, <2>1, <2>2
<1> QED BY <1>3, <1>5, <1>7, <1>8, <1>9 DEF RowsKept

(* DuckDB combines no two states into one in a batch. *)
LEMMA RowsCombineAsked ==
  ASSUME ~RepeatTargets, Common, RowsKept, CombineAsked
  PROVE  RowsKept'
<1>1. PICK batch :
        /\ \A p \in batch : p \in [src : Live, dst : Live]
        /\ \A p, q \in batch : p.src # q.dst
        /\ \A p, q \in batch : p.dst = q.dst => p = q
        /\ BeginCombine(batch)
  <2>1. PICK a, b \in [src : Live, dst : Live] :
          /\ \A p, q \in {a, b} : p.src # q.dst
          /\ ~RepeatTargets => \A p, q \in {a, b} : p.dst = q.dst => p = q
          /\ BeginCombine({a, b})
    BY DEF CombineAsked
  <2>2. \A p \in {a, b} : p \in [src : Live, dst : Live]
    BY <2>1
  <2> QED BY <2>1, <2>2
<1>2. PICK v, fo, d, g, w : v = valueOf /\ fo = folded /\ d = due /\ g = due' /\ w = work'
  OBVIOUS
<1>3. work = Idle /\ ~broken
  BY <1>1 DEF BeginCombine, Common, Fits
<1>4. PICK Full, C, M : /\ Full = {p \in batch : v[p.src] # NoObject}
                        /\ C = {p \in Full : v[p.dst] = NoObject}
                        /\ M = {p \in Full : v[p.dst] # NoObject}
  OBVIOUS
<1>5. /\ g = [s \in Slots |-> d[s] \cup UNION {d[p.src] : p \in {q \in batch : q.dst = s}}]
      /\ valueOf' = v /\ folded' = fo /\ bundle' = bundle /\ broken' = broken
      /\ w = [Idle EXCEPT !.op = "combine", !.copies = C, !.merges = M]
  BY <1>1, <1>2, <1>4 DEF BeginCombine
<1>6. w.rows = NoRows /\ w.copies = C /\ w.merges = M /\ w.results = {} /\ Moves(w) = Full
  <2>1. PICK n : n = NoRows /\ Idle = [op |-> "idle", rows |-> n, copies |-> {}, merges |-> {}, results |-> {}]
    BY DEF Idle
  <2>2. w = [op |-> "combine", rows |-> n, copies |-> C, merges |-> M, results |-> {}]
    BY <1>5, <2>1
  <2>3. C \cup M = Full
    BY <1>4
  <2> QED BY <2>1, <2>2, <2>3 DEF Moves
<1>7. Apart(w, v, bundle)
  <2>1. Apart(Idle, v, bundle)
    BY <1>2, IdleApart DEF RowsKept
  <2> QED BY <1>1, <1>4, <1>6, <2>1 DEF Apart
<1>8. \A p \in batch : p.src \in Slots /\ p.dst \in Slots /\ v[p.src] # Unused /\ v[p.dst] # Unused
  BY <1>1, <1>2 DEF Live
<1>9. NoObject \notin Objects
  BY AggregateAssumption DEF AggregateAssumption
<1>10. ASSUME NEW s \in Slots, NEW e
       PROVE  e \in g[s] <=> e \in d[s] \/ \E p \in batch : p.dst = s /\ e \in d[p.src]
  BY <1>5
<1>11. Kept(w, v, fo, g)
  <2>1. \A s \in Slots : v[s] # Unused => \A e \in InputRows : e \in d[s] <=> Has(fo, v[s], e)
    BY <1>2, <1>3, IdleKept DEF RowsKept
  <2>2. \A s, e : NowIn(w, v, fo, s, e) <=> Has(fo, v[s], e)
    BY <1>6 DEF NowIn
  <2>3. \A s, e : ComingIn(w, v, fo, s, e) <=> \E p \in Full : p.dst = s /\ Has(fo, v[p.src], e)
    BY <1>6, NoRowsDomain DEF ComingIn
  <2>4. \A s, e : ComingIn(w, v, fo, s, e) <=> \E p \in batch : p.dst = s /\ Has(fo, v[p.src], e)
    BY <1>4, <1>9, <2>3 DEF Has
  <2>5. \A e \in InputRows, p \in batch : e \in d[p.src] <=> Has(fo, v[p.src], e)
    BY <1>8, <2>1
  <2>6. \A s \in Slots : \A e \in InputRows : e \in g[s] <=> e \in d[s] \/ ComingIn(w, v, fo, s, e)
    BY <1>10, <2>4, <2>5
  <2> QED BY <2>1, <2>2, <2>6 DEF Kept
<1>12. \A s \in Slots : v[s] = Unused => g[s] = {}
  <2>1. \A s \in Slots : v[s] = Unused => d[s] = {}
    BY <1>2 DEF RowsKept
  <2>2. ASSUME NEW s \in Slots, v[s] = Unused
        PROVE  g[s] = {}
    <3>1. \A e : e \notin g[s]
      BY <1>8, <1>10, <2>1, <2>2
    <3> QED BY <3>1
  <2> QED BY <2>2
<1> QED BY <1>2, <1>5, <1>7, <1>11, <1>12 DEF RowsKept

(*---- one row, one copy, one merge ----*)

LEMMA RowsUpdateRow ==
  ASSUME Common, RowsKept, NEW r \in DOMAIN work.rows, UpdateRow(r)
  PROVE  RowsKept'
<1>1. PICK v, fo, d, w : v = valueOf /\ fo = folded /\ d = due /\ w = work
  OBVIOUS
<1>2. PICK x : x = [w EXCEPT !.rows = Without(@, r)]
  OBVIOUS
<1>3. work' = x /\ w.op = "update" /\ due' = d /\ bundle' = bundle /\ broken' = broken
  BY <1>1, <1>2 DEF UpdateRow
<1>4. WorkType(w) /\ Fits(w, v) /\ Moves(w) = {}
  BY <1>1, <1>3 DEF Common, Typed, Fits
<1>5. x = Work(w.op, Without(w.rows, r), w.copies, w.merges, w.results)
  BY <1>1, <1>2, <1>4, LessWorks
<1>6. w.results = {} /\ w.copies = {} /\ w.merges = {}
  BY <1>1, <1>4, NoRowsDomain DEF Fits, Moves
<1>7. x.rows = Without(w.rows, r) /\ x.copies = {} /\ x.merges = {} /\ x.results = {}
  BY <1>5, <1>6 DEF Work
<1>8. DOMAIN x.rows = DOMAIN w.rows \ {r} /\ \A e \in DOMAIN x.rows : x.rows[e] = w.rows[e]
  BY <1>7 DEF Without
<1>9. \A s, e : ComingIn(w, v, fo, s, e) <=> e \in DOMAIN w.rows /\ w.rows[e] = s /\ Selected(e)
  BY <1>4 DEF ComingIn
<1>10. \A u, gr, s, e : ComingIn(x, u, gr, s, e) <=> e \in DOMAIN w.rows /\ e # r /\ w.rows[e] = s /\ Selected(e)
  BY <1>7, <1>8 DEF ComingIn, Moves
<1>11. \A u, gr, s, e : /\ NowIn(w, u, gr, s, e) <=> Has(gr, u[s], e)
                        /\ NowIn(x, u, gr, s, e) <=> Has(gr, u[s], e)
  BY <1>6, <1>7 DEF NowIn
<1>12. CASE Selected(r)
  <2>1. PICK s \in Slots : s = w.rows[r]
    BY <1>1, <1>4 DEF WorkType
  <2>2. PICK R : R = FoldedIn(v[s]) \cup {r}
    OBVIOUS
  <2>3. PICK o \in Results(v[s]) : folded' = [folded EXCEPT ![o] = R] /\ StateSet(s, o)
    BY <1>1, <1>12, <2>1, <2>2 DEF UpdateRow
  <2>4. o \in Objects /\ \A q \in Slots : v[q] = o => q = s
    BY <1>1, <2>3, ResultFree
  <2>5. v[s] # Unused
    BY <1>1, <1>4, <2>1 DEF Fits, Touches
  <2>6. PICK u : u = valueOf' /\ u[s] = o /\ \A q \in Slots \ {s} : u[q] = v[q]
    BY <1>1, <2>3, <2>4, <2>5, SetHolds DEF Common, Typed
  <2>7. R \in SUBSET InputRows
    BY <1>1, <1>4, <2>2, FoldedInRows DEF Common, WorkType
  <2>8. PICK gr : gr = folded' /\ gr[o] = R /\ \A c \in Objects \ {o} : gr[c] = fo[c]
    BY <1>1, <2>3, <2>4, <2>7, FoldedType DEF Common
  <2>9. /\ \A e : Has(gr, u[s], e) <=> e \in R
        /\ \A q \in Slots \ {s} : \A e : Has(gr, u[q], e) <=> Has(fo, v[q], e)
    <3>1. Spared(v, fo, s, o, R)
      BY <2>4 DEF Spared
    <3>2. Puts(v, u, s, o)
      BY <2>6 DEF Puts
    <3>3. Refolds(fo, gr, o, R)
      BY <2>8 DEF Refolds
    <3> QED BY <2>4, <3>1, <3>2, <3>3, HasSame
  <2>10. \A e : e \in R <=> Has(fo, v[s], e) \/ e = r
    BY <1>1, <2>2 DEF FoldedIn, Has
  <2>11. Apart(x, u, bundle)
    <3>1. "in_place" \in bundle => \A p, q \in Slots : v[p] = v[q] /\ v[p] \in Objects => p = q
      BY <1>1 DEF RowsKept, Apart
    <3>2. "in_place" \in bundle => \A p, q \in Slots : u[p] = u[q] /\ u[p] \in Objects => p = q
      BY <2>4, <2>6, <3>1
    <3> QED BY <1>7, <3>2 DEF Apart, Moves
  <2>12. ASSUME Kept(w, v, fo, d)
         PROVE  Kept(x, u, gr, d)
    <3>1. ASSUME NEW e \in InputRows
          PROVE  e \in d[s] <=> NowIn(x, u, gr, s, e) \/ ComingIn(x, u, gr, s, e)
      <4>1. e \in d[s] <=> Has(fo, v[s], e) \/ ComingIn(w, v, fo, s, e)
        BY <1>11, <2>5, <2>12, <3>1 DEF Kept
      <4>2. ComingIn(w, v, fo, s, e) <=> ComingIn(x, u, gr, s, e) \/ e = r
        BY <1>1, <1>9, <1>10, <1>12, <2>1
      <4>3. NowIn(x, u, gr, s, e) <=> Has(fo, v[s], e) \/ e = r
        BY <1>11, <2>9, <2>10
      <4> QED BY <4>1, <4>2, <4>3
    <3>2. ASSUME NEW q \in Slots \ {s}, u[q] # Unused, NEW e \in InputRows
          PROVE  e \in d[q] <=> NowIn(x, u, gr, q, e) \/ ComingIn(x, u, gr, q, e)
      <4>1. e \in d[q] <=> Has(fo, v[q], e) \/ ComingIn(w, v, fo, q, e)
        BY <1>11, <2>6, <2>12, <3>2 DEF Kept
      <4>2. ComingIn(w, v, fo, q, e) <=> ComingIn(x, u, gr, q, e)
        BY <1>9, <1>10, <2>1, <3>2
      <4>3. NowIn(x, u, gr, q, e) <=> Has(fo, v[q], e)
        BY <1>11, <2>9, <3>2
      <4> QED BY <4>1, <4>2, <4>3
    <3> QED BY <3>1, <3>2 DEF Kept
  <2>13. \A q \in Slots : u[q] = Unused => d[q] = {}
    <3>1. Unused \notin Objects
      BY AggregateAssumption DEF AggregateAssumption
    <3> QED BY <1>1, <2>4, <2>6, <3>1 DEF RowsKept
  <2>14. ~broken => Kept(x, u, gr, d)
    BY <1>1, <2>12 DEF RowsKept
  <2> QED BY <1>3, <2>6, <2>8, <2>11, <2>13, <2>14 DEF RowsKept
<1>13. CASE ~Selected(r)
  <2>1. valueOf' = v /\ folded' = fo
    BY <1>1, <1>13 DEF UpdateRow
  <2>2. \A s, e : ComingIn(w, v, fo, s, e) <=> ComingIn(x, v, fo, s, e)
    BY <1>9, <1>10, <1>13
  <2>3. Kept(w, v, fo, d) => Kept(x, v, fo, d)
    BY <1>11, <2>2 DEF Kept
  <2>4. Apart(x, v, bundle)
    BY <1>1, <1>7 DEF RowsKept, Apart, Moves
  <2> QED BY <1>1, <1>3, <2>1, <2>3, <2>4 DEF RowsKept
<1> QED BY <1>12, <1>13

LEMMA RowsCopyOne ==
  ASSUME Common, RowsKept, NEW p \in work.copies, CopyOne(p)
  PROVE  RowsKept'
<1>1. PICK v, fo, d, w : v = valueOf /\ fo = folded /\ d = due /\ w = work
  OBVIOUS
<1>2. PICK x : x = [w EXCEPT !.copies = @ \ {p}]
  OBVIOUS
<1>3. work' = x /\ due' = d /\ bundle' = bundle /\ broken' = broken /\ "copy_chunk" \notin bundle
  BY <1>1, <1>2 DEF CopyOne
<1>4. WorkType(w) /\ Fits(w, v) /\ Apart(w, v, bundle)
  BY <1>1 DEF Common, Typed, RowsKept
<1>5. x = Work(w.op, w.rows, w.copies \ {p}, w.merges, w.results)
  BY <1>1, <1>2, <1>4, LessWorks
<1>6. p \in Moves(w) /\ p \in Pairs /\ w.results = {}
  BY <1>1, <1>4 DEF Fits, Moves, WorkType
<1>7. w.rows = NoRows
  BY <1>1, <1>6, Combining
<1>8. /\ x.rows = NoRows /\ x.copies = w.copies \ {p} /\ x.merges = w.merges /\ x.results = {}
      /\ Moves(x) \subseteq Moves(w) /\ Moves(w) = Moves(x) \cup {p}
  BY <1>1, <1>5, <1>6, <1>7 DEF Work, Moves
<1>9. PICK s, c \in Slots : s = p.dst /\ c = p.src
  BY <1>6 DEF Pairs
<1>10. /\ v[s] = NoObject /\ v[c] \in Objects /\ c # s
       /\ \A q \in Moves(w) : q.src \in Slots \ {s} /\ (q.dst = s => q = p)
  BY <1>1, <1>4, <1>6, <1>9 DEF Fits, Apart, Moves, WorkType, Pairs
<1>11. PICK R : R = FoldedIn(v[c])
  OBVIOUS
<1>12. PICK o \in IF "copy" \in bundle THEN Fresh ELSE {v[c]} :
         folded' = [folded EXCEPT ![o] = R] /\ StateSet(s, o)
  BY <1>1, <1>9, <1>11 DEF CopyOne
<1>13. /\ o \in Objects
       /\ "in_place" \in bundle => \A q \in Slots : v[q] # o
       /\ \A q \in Slots \ {s} : v[q] = o => R = fo[o]
  <2>1. CASE "copy" \in bundle
    <3>1. o \in Fresh
      BY <1>12, <2>1
    <3> QED BY <1>1, <3>1, FreshFree
  <2>2. CASE "copy" \notin bundle
    <3>1. o = v[c]
      BY <1>12, <2>2
    <3>2. R = fo[o] /\ o \in Objects
      BY <1>1, <1>10, <1>11, <3>1 DEF FoldedIn
    <3>3. "in_place" \notin bundle
      BY <1>3, <2>2, AggregateAssumption DEF AggregateAssumption, Common, Typed
    <3> QED BY <3>2, <3>3
  <2> QED BY <2>1, <2>2
<1>14. v[s] # Unused
  BY <1>10, AggregateAssumption DEF AggregateAssumption
<1>15. PICK u : u = valueOf' /\ u[s] = o /\ \A q \in Slots \ {s} : u[q] = v[q]
  BY <1>1, <1>12, <1>13, <1>14, SetHolds DEF Common, Typed
<1>16. R \in SUBSET InputRows
  BY <1>11, FoldedInRows DEF Common
<1>17. PICK gr : gr = folded' /\ gr[o] = R /\ \A k \in Objects \ {o} : gr[k] = fo[k]
  BY <1>1, <1>12, <1>13, <1>16, FoldedType DEF Common
<1>18. /\ \A e : Has(gr, u[s], e) <=> e \in R
       /\ \A q \in Slots \ {s} : \A e : Has(gr, u[q], e) <=> Has(fo, v[q], e)
  <2>1. Puts(v, u, s, o)
    BY <1>15 DEF Puts
  <2>2. Refolds(fo, gr, o, R)
    BY <1>17 DEF Refolds
  <2>3. Spared(v, fo, s, o, R)
    BY <1>13 DEF Spared
  <2> QED BY <1>13, <2>1, <2>2, <2>3, HasSame
<1>19. \A e : e \in R <=> Has(fo, v[c], e)
  BY <1>1, <1>11 DEF FoldedIn, Has
<1>20. Apart(x, u, bundle)
  <2>1. \A k \in x.copies : u[k.dst] = NoObject
    <3>1. ASSUME NEW k \in x.copies
          PROVE  k.dst # s /\ k.dst \in Slots /\ v[k.dst] = NoObject
      BY <1>4, <1>8, <1>10 DEF Apart, Moves, WorkType, Pairs
    <3> QED BY <1>15, <3>1
  <2>2. "in_place" \in bundle => \A k, q \in Slots : v[k] = v[q] /\ v[k] \in Objects => k = q
    BY <1>4 DEF Apart
  <2>3. "in_place" \in bundle => \A k, q \in Slots : u[k] = u[q] /\ u[k] \in Objects => k = q
    BY <1>13, <1>15, <2>2
  <2>4. \A k, q \in Moves(x) : k.dst = q.dst => k = q
    BY <1>4, <1>8 DEF Apart
  <2> QED BY <1>8, <2>1, <2>3, <2>4 DEF Apart
<1>21. \A y, gg, q, e : /\ NowIn(w, y, gg, q, e) <=> Has(gg, y[q], e)
                        /\ NowIn(x, y, gg, q, e) <=> Has(gg, y[q], e)
  BY <1>6, <1>8 DEF NowIn
<1>22. \A q, e : /\ ComingIn(w, v, fo, q, e) <=> \E k \in Moves(w) : k.dst = q /\ Has(fo, v[k.src], e)
                 /\ ComingIn(x, u, gr, q, e) <=> \E k \in Moves(x) : k.dst = q /\ Has(fo, v[k.src], e)
  <2>1. \A k \in Moves(x) : \A e : Has(gr, u[k.src], e) <=> Has(fo, v[k.src], e)
    BY <1>8, <1>10, <1>18
  <2> QED BY <1>7, <1>8, <2>1, NoRowsDomain DEF ComingIn
<1>23. ASSUME Kept(w, v, fo, d)
       PROVE  Kept(x, u, gr, d)
  <2>1. ASSUME NEW e \in InputRows
        PROVE  e \in d[s] <=> NowIn(x, u, gr, s, e) \/ ComingIn(x, u, gr, s, e)
    <3>1. e \in d[s] <=> Has(fo, v[s], e) \/ ComingIn(w, v, fo, s, e)
      BY <1>14, <1>21, <1>23, <2>1 DEF Kept
    <3>2. ~Has(fo, v[s], e)
      BY <1>10, AggregateAssumption DEF Has, AggregateAssumption
    <3>3. ComingIn(w, v, fo, s, e) <=> Has(fo, v[c], e)
      BY <1>6, <1>9, <1>10, <1>22
    <3>4. ComingIn(x, u, gr, s, e) => ComingIn(w, v, fo, s, e)
      BY <1>8, <1>22
    <3>5. NowIn(x, u, gr, s, e) <=> Has(fo, v[c], e)
      BY <1>18, <1>19, <1>21
    <3> QED BY <3>1, <3>2, <3>3, <3>4, <3>5
  <2>2. ASSUME NEW q \in Slots \ {s}, u[q] # Unused, NEW e \in InputRows
        PROVE  e \in d[q] <=> NowIn(x, u, gr, q, e) \/ ComingIn(x, u, gr, q, e)
    <3>1. e \in d[q] <=> Has(fo, v[q], e) \/ ComingIn(w, v, fo, q, e)
      BY <1>15, <1>21, <1>23, <2>2 DEF Kept
    <3>2. ComingIn(w, v, fo, q, e) <=> ComingIn(x, u, gr, q, e)
      BY <1>8, <1>9, <1>22, <2>2
    <3>3. NowIn(x, u, gr, q, e) <=> Has(fo, v[q], e)
      BY <1>18, <1>21, <2>2
    <3> QED BY <3>1, <3>2, <3>3
  <2> QED BY <2>1, <2>2 DEF Kept
<1>24. \A q \in Slots : u[q] = Unused => d[q] = {}
  <2>1. Unused \notin Objects
    BY AggregateAssumption DEF AggregateAssumption
  <2> QED BY <1>1, <1>13, <1>15, <2>1 DEF RowsKept
<1>25. ~broken => Kept(x, u, gr, d)
  BY <1>1, <1>23 DEF RowsKept
<1> QED BY <1>3, <1>15, <1>17, <1>20, <1>24, <1>25 DEF RowsKept

LEMMA RowsCombineOne ==
  ASSUME Common, RowsKept, NEW p \in work.merges, CombineOne(p)
  PROVE  RowsKept'
<1>1. PICK v, fo, d, w : v = valueOf /\ fo = folded /\ d = due /\ w = work
  OBVIOUS
<1>2. PICK x : x = [w EXCEPT !.merges = @ \ {p}]
  OBVIOUS
<1>3. /\ work' = x /\ due' = d /\ bundle' = bundle /\ broken' = broken
      /\ w.copies = {} /\ w.results = {}
  BY <1>1, <1>2 DEF CombineOne, Copied
<1>4. WorkType(w) /\ Fits(w, v) /\ Apart(w, v, bundle)
  BY <1>1 DEF Common, Typed, RowsKept
<1>5. x = Work(w.op, w.rows, w.copies, w.merges \ {p}, w.results)
  BY <1>1, <1>2, <1>4, LessWorks
<1>6. p \in Moves(w) /\ p \in Pairs
  BY <1>1, <1>4 DEF Moves, WorkType
<1>7. w.rows = NoRows
  BY <1>1, <1>6, Combining
<1>8. /\ x.rows = NoRows /\ x.copies = {} /\ x.results = {}
      /\ Moves(x) = Moves(w) \ {p}
  BY <1>3, <1>5, <1>7 DEF Work, Moves
<1>9. PICK s, c \in Slots : s = p.dst /\ c = p.src
  BY <1>6 DEF Pairs
<1>10. /\ c # s
       /\ \A q \in Moves(w) : q.src \in Slots \ {s} /\ (q.dst = s => q = p)
  BY <1>4, <1>6, <1>9 DEF Fits, Apart, Moves, WorkType, Pairs
<1>11. PICK R : R = FoldedIn(v[s]) \cup FoldedIn(v[c])
  OBVIOUS
<1>12. PICK o \in Results(v[s]) : folded' = [folded EXCEPT ![o] = R] /\ StateSet(s, o)
  BY <1>1, <1>9, <1>11 DEF CombineOne
<1>13. o \in Objects /\ \A q \in Slots : v[q] = o => q = s
  BY <1>1, <1>12, ResultFree
<1>14. v[s] # Unused
  BY <1>4, <1>6, <1>9 DEF Fits, Touches
<1>15. PICK u : u = valueOf' /\ u[s] = o /\ \A q \in Slots \ {s} : u[q] = v[q]
  BY <1>1, <1>12, <1>13, <1>14, SetHolds DEF Common, Typed
<1>16. R \in SUBSET InputRows
  BY <1>11, FoldedInRows DEF Common
<1>17. PICK gr : gr = folded' /\ gr[o] = R /\ \A k \in Objects \ {o} : gr[k] = fo[k]
  BY <1>1, <1>12, <1>13, <1>16, FoldedType DEF Common
<1>18. /\ \A e : Has(gr, u[s], e) <=> e \in R
       /\ \A q \in Slots \ {s} : \A e : Has(gr, u[q], e) <=> Has(fo, v[q], e)
  <2>1. Puts(v, u, s, o)
    BY <1>15 DEF Puts
  <2>2. Refolds(fo, gr, o, R)
    BY <1>17 DEF Refolds
  <2>3. Spared(v, fo, s, o, R)
    BY <1>13 DEF Spared
  <2> QED BY <1>13, <2>1, <2>2, <2>3, HasSame
<1>19. \A e : e \in R <=> Has(fo, v[s], e) \/ Has(fo, v[c], e)
  BY <1>1, <1>11 DEF FoldedIn, Has
<1>20. Apart(x, u, bundle)
  <2>1. "in_place" \in bundle => \A k, q \in Slots : v[k] = v[q] /\ v[k] \in Objects => k = q
    BY <1>4 DEF Apart
  <2>2. "in_place" \in bundle => \A k, q \in Slots : u[k] = u[q] /\ u[k] \in Objects => k = q
    BY <1>13, <1>15, <2>1
  <2>3. \A k, q \in Moves(x) : k.dst = q.dst => k = q
    BY <1>4, <1>8 DEF Apart
  <2> QED BY <1>8, <2>2, <2>3 DEF Apart
<1>21. \A y, gg, q, e : /\ NowIn(w, y, gg, q, e) <=> Has(gg, y[q], e)
                        /\ NowIn(x, y, gg, q, e) <=> Has(gg, y[q], e)
  BY <1>3, <1>8 DEF NowIn
<1>22. \A q, e : /\ ComingIn(w, v, fo, q, e) <=> \E k \in Moves(w) : k.dst = q /\ Has(fo, v[k.src], e)
                 /\ ComingIn(x, u, gr, q, e) <=> \E k \in Moves(x) : k.dst = q /\ Has(fo, v[k.src], e)
  <2>1. \A k \in Moves(x) : \A e : Has(gr, u[k.src], e) <=> Has(fo, v[k.src], e)
    BY <1>8, <1>10, <1>18
  <2> QED BY <1>7, <1>8, <2>1, NoRowsDomain DEF ComingIn
<1>23. ASSUME Kept(w, v, fo, d)
       PROVE  Kept(x, u, gr, d)
  <2>1. ASSUME NEW e \in InputRows
        PROVE  e \in d[s] <=> NowIn(x, u, gr, s, e) \/ ComingIn(x, u, gr, s, e)
    <3>1. e \in d[s] <=> Has(fo, v[s], e) \/ ComingIn(w, v, fo, s, e)
      BY <1>14, <1>21, <1>23, <2>1 DEF Kept
    <3>2. ComingIn(w, v, fo, s, e) <=> Has(fo, v[c], e)
      BY <1>6, <1>9, <1>10, <1>22
    <3>3. ~ComingIn(x, u, gr, s, e)
      BY <1>8, <1>10, <1>22
    <3>4. NowIn(x, u, gr, s, e) <=> Has(fo, v[s], e) \/ Has(fo, v[c], e)
      BY <1>18, <1>19, <1>21
    <3> QED BY <3>1, <3>2, <3>3, <3>4
  <2>2. ASSUME NEW q \in Slots \ {s}, u[q] # Unused, NEW e \in InputRows
        PROVE  e \in d[q] <=> NowIn(x, u, gr, q, e) \/ ComingIn(x, u, gr, q, e)
    <3>1. e \in d[q] <=> Has(fo, v[q], e) \/ ComingIn(w, v, fo, q, e)
      BY <1>15, <1>21, <1>23, <2>2 DEF Kept
    <3>2. ComingIn(w, v, fo, q, e) <=> ComingIn(x, u, gr, q, e)
      BY <1>8, <1>9, <1>22, <2>2
    <3>3. NowIn(x, u, gr, q, e) <=> Has(fo, v[q], e)
      BY <1>18, <1>21, <2>2
    <3> QED BY <3>1, <3>2, <3>3
  <2> QED BY <2>1, <2>2 DEF Kept
<1>24. \A q \in Slots : u[q] = Unused => d[q] = {}
  <2>1. Unused \notin Objects
    BY AggregateAssumption DEF AggregateAssumption
  <2> QED BY <1>1, <1>13, <1>15, <2>1 DEF RowsKept
<1>25. ~broken => Kept(x, u, gr, d)
  BY <1>1, <1>23 DEF RowsKept
<1> QED BY <1>3, <1>15, <1>17, <1>20, <1>24, <1>25 DEF RowsKept

(*---- results are stored ----*)

LEMMA RowsStoreResult ==
  ASSUME Common, RowsKept, NEW y \in work.results, StoreResult(y)
  PROVE  RowsKept'
<1>1. PICK v, fo, d, w : v = valueOf /\ fo = folded /\ d = due /\ w = work
  OBVIOUS
<1>2. PICK x : x = [w EXCEPT !.results = @ \ {y}]
  OBVIOUS
<1>3. work' = x /\ folded' = fo /\ due' = d /\ bundle' = bundle /\ broken' = broken
  BY <1>1, <1>2 DEF StoreResult
<1>4. WorkType(w) /\ Fits(w, v) /\ Apart(w, v, bundle)
  BY <1>1 DEF Common, Typed, RowsKept
<1>5. x = Work(w.op, w.rows, w.copies, w.merges, w.results \ {y})
  BY <1>1, <1>2, <1>4, LessWorks
<1>6. y \in w.results /\ w.rows = NoRows /\ w.copies = {}
  BY <1>1, <1>4 DEF Fits
<1>7. /\ x.rows = NoRows /\ x.copies = {} /\ x.results = w.results \ {y}
      /\ Moves(x) = Moves(w)
  BY <1>5, <1>6 DEF Work, Moves
<1>8. PICK s \in Slots, o \in Objects : s = y.slot /\ o = y.value
  BY <1>4, <1>6 DEF WorkType, Stores
<1>9. v[s] # Unused
  BY <1>4, <1>6, <1>8 DEF Fits, Touches
<1>10. PICK u : u = valueOf' /\ u[s] = o /\ \A q \in Slots \ {s} : u[q] = v[q]
  BY <1>1, <1>8, <1>9, SetHolds DEF Common, Typed, StoreResult
<1>11. /\ \A z \in w.results : z.slot = s \/ z.value = o => z = y
       /\ \A q \in Slots : v[q] = o => q = s
       /\ \A k \in Moves(w) : k.src \in Slots \ {s}
  BY <1>4, <1>6, <1>8 DEF Apart, WorkType, Pairs, Moves
<1>12. Apart(x, u, bundle)
  <2>1. \A z \in x.results, q \in Slots : u[q] = z.value => q = z.slot
    BY <1>4, <1>7, <1>10, <1>11 DEF Apart
  <2>2. "in_place" \in bundle => \A k, q \in Slots : v[k] = v[q] /\ v[k] \in Objects => k = q
    BY <1>4 DEF Apart
  <2>3. "in_place" \in bundle => \A k, q \in Slots : u[k] = u[q] /\ u[k] \in Objects => k = q
    BY <1>10, <1>11, <2>2
  <2> QED BY <1>4, <1>7, <2>1, <2>3 DEF Apart
<1>13. \A q, e : ComingIn(x, u, fo, q, e) <=> ComingIn(w, v, fo, q, e)
  <2>1. \A k \in Moves(w) : u[k.src] = v[k.src]
    BY <1>10, <1>11
  <2> QED BY <1>6, <1>7, <2>1, NoRowsDomain DEF ComingIn
<1>14. \A e : NowIn(x, u, fo, s, e) <=> NowIn(w, v, fo, s, e)
  <2>1. \A e : NowIn(w, v, fo, s, e) <=> e \in fo[o]
    BY <1>6, <1>8, <1>11 DEF NowIn
  <2>2. \A e : NowIn(x, u, fo, s, e) <=> Has(fo, o, e)
    BY <1>7, <1>10, <1>11 DEF NowIn
  <2> QED BY <2>1, <2>2 DEF Has
<1>15. \A q \in Slots \ {s} : \A e : NowIn(x, u, fo, q, e) <=> NowIn(w, v, fo, q, e)
  BY <1>7, <1>8, <1>10 DEF NowIn
<1>16. Kept(w, v, fo, d) => Kept(x, u, fo, d)
  BY <1>9, <1>10, <1>13, <1>14, <1>15 DEF Kept
<1>17. \A q \in Slots : u[q] = Unused => d[q] = {}
  <2>1. Unused \notin Objects
    BY AggregateAssumption DEF AggregateAssumption
  <2> QED BY <1>1, <1>10, <2>1 DEF RowsKept
<1> QED BY <1>1, <1>3, <1>10, <1>12, <1>16, <1>17 DEF RowsKept

(*---- chunks ----*)

(* A chunk callback is called for old values, k[x] being the state of the
   x-th, *)
Keyed(old, k) ==
  /\ \A x \in DOMAIN old : k[x] \in Slots /\ valueOf[k[x]] # Unused /\ old[x] = valueOf[k[x]]
  /\ \A x, y \in DOMAIN old : k[x] = k[y] => x = y

(* the merges M are left for later, *)
Leaves(D, k, M) ==
  /\ M \subseteq work.merges
  /\ \A p \in M, x \in D : k[x] # p.src /\ k[x] # p.dst

(* and rows[x] is all that was to come into state k[x]. *)
FoldsAll(D, k, rows, M) ==
  /\ \A x \in D : \A e \in InputRows :
       e \in rows[x] <=> Has(folded, valueOf[k[x]], e) \/ ComingIn(work, valueOf, folded, k[x], e)
  /\ \A q \in Slots : (\A x \in D : k[x] # q) =>
       \A e \in InputRows : ComingIn(work, valueOf, folded, q, e)
                             <=> \E p \in M : p.dst = q /\ Has(folded, valueOf[p.src], e)

Made(D, k, f) == {[slot |-> k[x], value |-> f[x]] : x \in D}

(* What it returns is in no other state, and twice in no chunk. *)
LEMMA ChunkFree ==
  ASSUME Common, RowsKept, NEW old, NEW f \in ResultsOf(old), NEW k, Keyed(old, k)
  PROVE  /\ \A x \in DOMAIN old : f[x] \in Objects /\ \A q \in Slots : valueOf[q] = f[x] => q = k[x]
         /\ \A x, y \in DOMAIN old : f[x] = f[y] => x = y
<1>1. ASSUME NEW x \in DOMAIN old
      PROVE  f[x] \in Objects /\ \A q \in Slots : valueOf[q] = f[x] => q = k[x]
  <2>1. k[x] \in Slots /\ f[x] \in Results(valueOf[k[x]])
    BY ResultsOfType DEF Keyed
  <2> QED BY <2>1, ResultFree
<1>2. ASSUME NEW x \in DOMAIN old, NEW y \in DOMAIN old, f[x] = f[y]
      PROVE  x = y
  <2>1. x # y => f[y] = old[y]
    BY <1>2, ResultsOfType
  <2>2. old[y] = valueOf[k[y]] /\ k[y] \in Slots /\ (k[x] = k[y] => x = y)
    BY DEF Keyed
  <2>3. valueOf[k[y]] = f[x] => k[y] = k[x]
    BY <1>1, <2>2
  <2> QED BY <1>2, <2>1, <2>2, <2>3
<1> QED BY <1>1, <1>2

LEMMA RefoldedRows ==
  ASSUME NEW f, NEW rows, \A x \in DOMAIN f : f[x] \in Objects,
         \A x, y \in DOMAIN f : f[x] = f[y] => x = y
  PROVE  /\ \A x \in DOMAIN f : Refolded(f, rows)[f[x]] = rows[x]
         /\ \A o \in Objects : (\A x \in DOMAIN f : f[x] # o) => Refolded(f, rows)[o] = folded[o]
<1>1. ASSUME NEW x \in DOMAIN f
      PROVE  Refolded(f, rows)[f[x]] = rows[x]
  <2>1. {y \in DOMAIN f : f[y] = f[x]} = {x}
    OBVIOUS
  <2>2. UNION {rows[z] : z \in {x}} = rows[x]
    OBVIOUS
  <2>3. Refolded(f, rows)[f[x]] = UNION {rows[z] : z \in {y \in DOMAIN f : f[y] = f[x]}}
    BY DEF Refolded
  <2> QED BY <2>1, <2>2, <2>3
<1>2. ASSUME NEW o \in Objects, \A x \in DOMAIN f : f[x] # o
      PROVE  Refolded(f, rows)[o] = folded[o]
  BY <1>2 DEF Refolded
<1> QED BY <1>1, <1>2

LEMMA RowsChunk ==
  ASSUME Common, RowsKept, work.results = {},
         NEW old, NEW f \in ResultsOf(old), NEW k, Keyed(old, k),
         NEW M, Leaves(DOMAIN old, k, M),
         NEW rows, FoldsAll(DOMAIN old, k, rows, M), folded' = Refolded(f, rows),
         work' = Work(work.op, NoRows, {}, M, Made(DOMAIN old, k, f)),
         valueOf' = valueOf, bundle' = bundle, broken' = broken, due' = due
  PROVE  RowsKept'
<1>1. PICK v, fo, d, w : v = valueOf /\ fo = folded /\ d = due /\ w = work
  OBVIOUS
<1>2. PICK x, gr : x = work' /\ gr = folded'
  OBVIOUS
<1>3. PICK D : D = DOMAIN old
  OBVIOUS
<1>4. PICK R : R = Made(D, k, f)
  OBVIOUS
<1>5. x.rows = NoRows /\ x.copies = {} /\ x.merges = M /\ x.results = R /\ Moves(x) = M
  BY <1>2, <1>3, <1>4 DEF Work, Moves
<1>6. /\ \A i \in D : k[i] \in Slots /\ v[k[i]] # Unused
      /\ \A i, j \in D : k[i] = k[j] => i = j
  BY <1>1, <1>3 DEF Keyed
<1>7. /\ \A i \in D : f[i] \in Objects /\ \A q \in Slots : v[q] = f[i] => q = k[i]
      /\ \A i, j \in D : f[i] = f[j] => i = j
  BY <1>1, <1>3, ChunkFree
<1>8. DOMAIN f = D
  BY <1>3, ResultsOfType
<1>9. /\ \A i \in D : gr[f[i]] = rows[i]
      /\ \A o \in Objects : (\A i \in D : f[i] # o) => gr[o] = fo[o]
  BY <1>1, <1>2, <1>7, <1>8, RefoldedRows
<1>10. Apart(w, v, bundle) /\ WorkType(w)
  BY <1>1 DEF RowsKept, Common, Typed
<1>11. /\ M \subseteq Moves(w)
       /\ \A p \in M : p.src \in Slots /\ \A i \in D : k[i] # p.src /\ k[i] # p.dst
  BY <1>1, <1>3, <1>10 DEF Leaves, Moves, WorkType, Pairs
<1>12. \A z \in R : \E i \in D : z.slot = k[i] /\ z.value = f[i] /\ z = [slot |-> k[i], value |-> f[i]]
  BY <1>4 DEF Made
<1>13. \A i \in D : \E z \in R : z.slot = k[i] /\ z.value = f[i]
  <2>1. \A i \in D : [slot |-> k[i], value |-> f[i]] \in R
    BY <1>4 DEF Made
  <2> QED BY <2>1
<1>14. Apart(x, v, bundle)
  <2>1. \A y, z \in R : y.slot = z.slot \/ y.value = z.value => y = z
    BY <1>6, <1>7, <1>12
  <2>2. \A z \in R, p \in M : z.slot # p.src /\ z.slot # p.dst
    BY <1>11, <1>12
  <2>3. \A z \in R, q \in Slots : v[q] = z.value => q = z.slot
    BY <1>7, <1>12
  <2>4. \A p, q \in M : p.dst = q.dst => p = q
    BY <1>10, <1>11 DEF Apart
  <2>5. "in_place" \in bundle => \A s, q \in Slots : v[s] = v[q] /\ v[s] \in Objects => s = q
    BY <1>10 DEF Apart
  <2> QED BY <1>5, <2>1, <2>2, <2>3, <2>4, <2>5 DEF Apart
<1>15. \A q \in Slots : (\A i \in D : k[i] # q) => \A e : Has(gr, v[q], e) <=> Has(fo, v[q], e)
  BY <1>7, <1>9 DEF Has
<1>16. \A q, e : ComingIn(x, v, gr, q, e) <=> \E p \in M : p.dst = q /\ Has(fo, v[p.src], e)
  <2>1. \A p \in M : \A e : Has(gr, v[p.src], e) <=> Has(fo, v[p.src], e)
    BY <1>11, <1>15
  <2> QED BY <1>5, <2>1, NoRowsDomain DEF ComingIn
<1>17. ASSUME NEW i \in D, NEW e
       PROVE  NowIn(x, v, gr, k[i], e) <=> e \in rows[i]
  <2>1. \A z \in R : z.slot = k[i] => z.value = f[i]
    BY <1>6, <1>12
  <2>2. NowIn(x, v, gr, k[i], e) <=> e \in gr[f[i]]
    BY <1>5, <1>13, <2>1 DEF NowIn
  <2> QED BY <1>9, <2>2
<1>18. ASSUME NEW q \in Slots, \A i \in D : k[i] # q, NEW e
       PROVE  NowIn(x, v, gr, q, e) <=> Has(fo, v[q], e)
  <2>1. \A z \in R : z.slot # q
    BY <1>12, <1>18
  <2>2. NowIn(x, v, gr, q, e) <=> Has(gr, v[q], e)
    BY <1>5, <2>1 DEF NowIn
  <2> QED BY <1>15, <1>18, <2>2
<1>19. \A s, e : NowIn(w, v, fo, s, e) <=> Has(fo, v[s], e)
  BY <1>1 DEF NowIn
<1>20. ASSUME Kept(w, v, fo, d)
       PROVE  Kept(x, v, gr, d)
  <2>1. ASSUME NEW i \in D, NEW e \in InputRows
        PROVE  e \in d[k[i]] <=> NowIn(x, v, gr, k[i], e) \/ ComingIn(x, v, gr, k[i], e)
    <3>1. e \in d[k[i]] <=> Has(fo, v[k[i]], e) \/ ComingIn(w, v, fo, k[i], e)
      BY <1>6, <1>19, <1>20, <2>1 DEF Kept
    <3>2. e \in rows[i] <=> Has(fo, v[k[i]], e) \/ ComingIn(w, v, fo, k[i], e)
      BY <1>1, <1>3, <2>1 DEF FoldsAll
    <3>3. ~ComingIn(x, v, gr, k[i], e)
      BY <1>11, <1>16
    <3> QED BY <1>17, <3>1, <3>2, <3>3
  <2>2. ASSUME NEW q \in Slots, v[q] # Unused, \A i \in D : k[i] # q, NEW e \in InputRows
        PROVE  e \in d[q] <=> NowIn(x, v, gr, q, e) \/ ComingIn(x, v, gr, q, e)
    <3>1. e \in d[q] <=> Has(fo, v[q], e) \/ ComingIn(w, v, fo, q, e)
      BY <1>19, <1>20, <2>2 DEF Kept
    <3>2. ComingIn(w, v, fo, q, e) <=> \E p \in M : p.dst = q /\ Has(fo, v[p.src], e)
      BY <1>1, <1>3, <2>2 DEF FoldsAll
    <3> QED BY <1>16, <1>18, <2>2, <3>1, <3>2
  <2>3. ASSUME NEW q \in Slots, v[q] # Unused, NEW e \in InputRows
        PROVE  e \in d[q] <=> NowIn(x, v, gr, q, e) \/ ComingIn(x, v, gr, q, e)
    <3>1. CASE \E i \in D : k[i] = q
      BY <2>1, <3>1
    <3>2. CASE \A i \in D : k[i] # q
      BY <2>2, <2>3, <3>2
    <3> QED BY <3>1, <3>2
  <2> QED BY <2>3 DEF Kept
<1> QED BY <1>1, <1>2, <1>14, <1>20 DEF RowsKept

LEMMA RowsUpdateChunk ==
  ASSUME Common, RowsKept, UpdateChunk
  PROVE  RowsKept'
<1>1. PICK states : states = DistinctStates(work.rows)
  OBVIOUS
<1>2. PICK old : old = [s \in states |-> valueOf[s]]
  OBVIOUS
<1>3. PICK rows : rows = [s \in states |->
                        FoldedIn(valueOf[s]) \cup {r \in DOMAIN work.rows : work.rows[r] = s /\ Selected(r)}]
  OBVIOUS
<1>4. PICK f \in ResultsOf(old) :
        /\ folded' = Refolded(f, rows)
        /\ work' = [work EXCEPT !.rows = NoRows,
                                !.results = {[slot |-> s, value |-> f[s]] : s \in states}]
  BY <1>1, <1>2, <1>3 DEF UpdateChunk
<1>5. PICK k : k = [s \in states |-> s]
  OBVIOUS
<1>6. DOMAIN old = states /\ \A s \in states : k[s] = s /\ old[s] = valueOf[s]
  BY <1>2, <1>5
<1>7. WorkType(work) /\ work.op = "update" /\ Moves(work) = {} /\ work.results = {}
  BY DEF UpdateChunk, Common, Typed, Fits
<1>8. \A s \in states : s \in Slots /\ valueOf[s] # Unused
  <2>1. \A s \in states : s \in Slots /\ Touches(work, s)
    BY <1>1, <1>7 DEF DistinctStates, Touches, WorkType
  <2> QED BY <2>1 DEF Common, Fits
<1>9. Keyed(old, k)
  BY <1>6, <1>8 DEF Keyed
<1>10. Leaves(DOMAIN old, k, {})
  BY DEF Leaves
<1>11. \A s, e : ComingIn(work, valueOf, folded, s, e)
                  <=> e \in DOMAIN work.rows /\ work.rows[e] = s /\ Selected(e)
  BY <1>7 DEF ComingIn
<1>12. FoldsAll(DOMAIN old, k, rows, {})
  <2>1. ASSUME NEW s \in states, NEW e
        PROVE  e \in rows[s] <=> Has(folded, valueOf[s], e) \/ ComingIn(work, valueOf, folded, s, e)
    BY <1>3, <1>11 DEF FoldedIn, Has
  <2>2. ASSUME NEW q, \A s \in states : k[s] # q, NEW e
        PROVE  ~ComingIn(work, valueOf, folded, q, e)
    <3>1. \A r \in DOMAIN work.rows : Selected(r) => work.rows[r] \in states
      BY <1>1 DEF DistinctStates
    <3> QED BY <1>6, <1>11, <2>2, <3>1
  <2> QED BY <1>6, <2>1, <2>2 DEF FoldsAll
<1>13. PICK R : R = Made(DOMAIN old, k, f)
  OBVIOUS
<1>14. R = {[slot |-> s, value |-> f[s]] : s \in states}
  <2>1. \A s \in states : [slot |-> k[s], value |-> f[s]] = [slot |-> s, value |-> f[s]]
    BY <1>6
  <2> QED BY <1>6, <1>13, <2>1 DEF Made
<1>15. work' = Work(work.op, NoRows, {}, {}, R)
  <2>1. PICK op, r0, c0, m0, x0 : work = [op |-> op, rows |-> r0, copies |-> c0, merges |-> m0, results |-> x0]
    BY <1>7 DEF WorkType, Work
  <2>2. c0 = {} /\ m0 = {} /\ work.op = op
    BY <1>7, <2>1 DEF Moves
  <2>3. work' = [op |-> op, rows |-> NoRows, copies |-> c0, merges |-> m0, results |-> R]
    BY <1>4, <1>14, <2>1
  <2> QED BY <2>2, <2>3 DEF Work
<1>16. valueOf' = valueOf /\ bundle' = bundle /\ broken' = broken /\ due' = due
  BY DEF UpdateChunk
<1> QED BY <1>4, <1>7, <1>9, <1>10, <1>12, <1>13, <1>15, <1>16, RowsChunk

LEMMA RowsCopyChunk ==
  ASSUME Common, RowsKept, CopyChunk
  PROVE  RowsKept'
<1>1. PICK P : P = work.copies /\ P # {}
  BY DEF CopyChunk
<1>2. PICK old : old = [p \in P |-> NoObject]
  OBVIOUS
<1>3. PICK rows : rows = [p \in P |-> FoldedIn(valueOf[p.src])]
  OBVIOUS
<1>4. PICK f \in ResultsOf(old) :
        /\ folded' = Refolded(f, rows)
        /\ work' = [work EXCEPT !.copies = {}, !.results = Stored(f)]
  BY <1>1, <1>2, <1>3 DEF CopyChunk
<1>5. PICK k : k = [p \in P |-> p.dst]
  OBVIOUS
<1>6. DOMAIN old = P /\ DOMAIN f = P /\ \A p \in P : k[p] = p.dst /\ old[p] = NoObject
  BY <1>2, <1>4, <1>5, ResultsOfType
<1>7. WorkType(work) /\ Fits(work, valueOf) /\ Apart(work, valueOf, bundle)
  BY DEF Common, Typed, RowsKept
<1>8. P \subseteq Moves(work) /\ Moves(work) = P \cup work.merges /\ work.results = {}
  BY <1>1, <1>7 DEF Moves, Fits
<1>9. work.rows = NoRows
  BY <1>1, <1>8, Combining
<1>10. \A p \in Moves(work) : p.src \in Slots /\ p.dst \in Slots /\ valueOf[p.dst] # Unused
  BY <1>7 DEF WorkType, Pairs, Moves, Fits, Touches
<1>11. \A p \in P : valueOf[p.dst] = NoObject
  BY <1>1, <1>7 DEF Apart
<1>12. \A p, q \in Moves(work) : p.src # q.dst /\ (p.dst = q.dst => p = q)
  BY <1>7 DEF Fits, Apart
<1>13. Keyed(old, k)
  BY <1>6, <1>8, <1>10, <1>11, <1>12 DEF Keyed
<1>14. Leaves(DOMAIN old, k, work.merges)
  <2>1. \A p \in work.merges, x \in P : x # p
    BY <1>1, <1>7 DEF Fits
  <2> QED BY <1>6, <1>8, <1>12, <2>1 DEF Leaves
<1>15. \A s, e : ComingIn(work, valueOf, folded, s, e)
                  <=> \E p \in Moves(work) : p.dst = s /\ Has(folded, valueOf[p.src], e)
  BY <1>9, NoRowsDomain DEF ComingIn
<1>16. FoldsAll(DOMAIN old, k, rows, work.merges)
  <2>1. ASSUME NEW p \in P, NEW e
        PROVE  e \in rows[p] <=> Has(folded, valueOf[p.dst], e) \/ ComingIn(work, valueOf, folded, p.dst, e)
    <3>1. e \in rows[p] <=> Has(folded, valueOf[p.src], e)
      BY <1>3 DEF FoldedIn, Has
    <3>2. ~Has(folded, valueOf[p.dst], e)
      BY <1>11, AggregateAssumption DEF Has, AggregateAssumption
    <3>3. ComingIn(work, valueOf, folded, p.dst, e) <=> Has(folded, valueOf[p.src], e)
      BY <1>8, <1>12, <1>15
    <3> QED BY <3>1, <3>2, <3>3
  <2>2. ASSUME NEW q, \A p \in P : k[p] # q, NEW e
        PROVE  ComingIn(work, valueOf, folded, q, e)
                 <=> \E p \in work.merges : p.dst = q /\ Has(folded, valueOf[p.src], e)
    BY <1>6, <1>8, <1>15, <2>2
  <2> QED BY <1>6, <2>1, <2>2 DEF FoldsAll
<1>17. PICK R : R = Made(DOMAIN old, k, f)
  OBVIOUS
<1>18. R = Stored(f)
  <2>1. \A p \in P : [slot |-> k[p], value |-> f[p]] = [slot |-> p.dst, value |-> f[p]]
    BY <1>6
  <2> QED BY <1>6, <1>17, <2>1 DEF Made, Stored
<1>19. work' = Work(work.op, NoRows, {}, work.merges, R)
  <2>1. PICK op, r0, c0, m0, x0 : work = [op |-> op, rows |-> r0, copies |-> c0, merges |-> m0, results |-> x0]
    BY <1>7 DEF WorkType, Work
  <2>2. work' = [op |-> op, rows |-> r0, copies |-> {}, merges |-> m0, results |-> R]
    BY <1>4, <1>18, <2>1
  <2> QED BY <1>9, <2>1, <2>2 DEF Work
<1>20. valueOf' = valueOf /\ bundle' = bundle /\ broken' = broken /\ due' = due
  BY DEF CopyChunk
<1> QED BY <1>4, <1>8, <1>13, <1>14, <1>16, <1>17, <1>19, <1>20, RowsChunk

LEMMA RowsCombineChunk ==
  ASSUME Common, RowsKept, CombineChunk
  PROVE  RowsKept'
<1>1. PICK P : P = work.merges /\ P # {}
  BY DEF CombineChunk
<1>2. PICK old : old = [p \in P |-> valueOf[p.dst]]
  OBVIOUS
<1>3. PICK rows : rows = [p \in P |-> FoldedIn(valueOf[p.dst]) \cup FoldedIn(valueOf[p.src])]
  OBVIOUS
<1>4. PICK f \in ResultsOf(old) :
        /\ folded' = Refolded(f, rows)
        /\ work' = [work EXCEPT !.merges = {}, !.results = Stored(f)]
  BY <1>1, <1>2, <1>3 DEF CombineChunk
<1>5. PICK k : k = [p \in P |-> p.dst]
  OBVIOUS
<1>6. DOMAIN old = P /\ DOMAIN f = P /\ \A p \in P : k[p] = p.dst /\ old[p] = valueOf[p.dst]
  BY <1>2, <1>4, <1>5, ResultsOfType
<1>7. WorkType(work) /\ Fits(work, valueOf) /\ Apart(work, valueOf, bundle)
  BY DEF Common, Typed, RowsKept
<1>8. Moves(work) = P /\ work.copies = {} /\ work.results = {}
  BY <1>1 DEF Moves, CombineChunk, Copied
<1>9. work.rows = NoRows
  BY <1>1, <1>8, Combining
<1>10. \A p \in P : p.src \in Slots /\ p.dst \in Slots /\ valueOf[p.dst] # Unused
  BY <1>7, <1>8 DEF WorkType, Pairs, Moves, Fits, Touches
<1>11. \A p, q \in P : p.src # q.dst /\ (p.dst = q.dst => p = q)
  BY <1>7, <1>8 DEF Fits, Apart
<1>12. Keyed(old, k)
  BY <1>6, <1>10, <1>11 DEF Keyed
<1>13. Leaves(DOMAIN old, k, {})
  BY DEF Leaves
<1>14. \A s, e : ComingIn(work, valueOf, folded, s, e)
                  <=> \E p \in P : p.dst = s /\ Has(folded, valueOf[p.src], e)
  BY <1>8, <1>9, NoRowsDomain DEF ComingIn
<1>15. FoldsAll(DOMAIN old, k, rows, {})
  <2>1. ASSUME NEW p \in P, NEW e
        PROVE  e \in rows[p] <=> Has(folded, valueOf[p.dst], e) \/ ComingIn(work, valueOf, folded, p.dst, e)
    <3>1. e \in rows[p] <=> Has(folded, valueOf[p.dst], e) \/ Has(folded, valueOf[p.src], e)
      BY <1>3 DEF FoldedIn, Has
    <3>2. ComingIn(work, valueOf, folded, p.dst, e) <=> Has(folded, valueOf[p.src], e)
      BY <1>11, <1>14
    <3> QED BY <3>1, <3>2
  <2>2. ASSUME NEW q, \A p \in P : k[p] # q, NEW e
        PROVE  ~ComingIn(work, valueOf, folded, q, e)
    BY <1>6, <1>14, <2>2
  <2> QED BY <1>6, <2>1, <2>2 DEF FoldsAll
<1>16. PICK R : R = Made(DOMAIN old, k, f)
  OBVIOUS
<1>17. R = Stored(f)
  <2>1. \A p \in P : [slot |-> k[p], value |-> f[p]] = [slot |-> p.dst, value |-> f[p]]
    BY <1>6
  <2> QED BY <1>6, <1>16, <2>1 DEF Made, Stored
<1>18. work' = Work(work.op, NoRows, {}, {}, R)
  <2>1. PICK op, r0, c0, m0, x0 : work = [op |-> op, rows |-> r0, copies |-> c0, merges |-> m0, results |-> x0]
    BY <1>7 DEF WorkType, Work
  <2>2. work' = [op |-> op, rows |-> r0, copies |-> c0, merges |-> {}, results |-> R]
    BY <1>4, <1>17, <2>1
  <2> QED BY <1>8, <1>9, <2>1, <2>2 DEF Work
<1>19. valueOf' = valueOf /\ bundle' = bundle /\ broken' = broken /\ due' = due
  BY DEF CombineChunk
<1> QED BY <1>4, <1>8, <1>12, <1>13, <1>15, <1>16, <1>18, <1>19, RowsChunk

LEMMA RowsStep ==
  ASSUME ~RepeatTargets, Common, RowsKept, [AggNext]_aggVars
  PROVE  RowsKept'
<1>1. ASSUME NEW s \in Slots, InitState(s) PROVE RowsKept'
  BY <1>1, RowsInitState
<1>2. ASSUME NEW t \in Threads, NEW s \in Slots, DestroyState(t, s) PROVE RowsKept'
  BY <1>2, RowsDestroyState
<1>3. CASE Drain
  BY <1>3, RowsStill DEF Drain
<1>4. CASE SetError
  <2>1. /\ valueOf' = valueOf /\ folded' = folded /\ bundle' = bundle /\ due' = due
        /\ work' = Idle /\ broken' = TRUE
    BY <1>4 DEF SetError
  <2> QED BY <2>1, RowsStill
<1>5. ASSUME NEW t \in Threads, OffRThread(t) PROVE RowsKept'
  BY <1>4, <1>5 DEF OffRThread
<1>6. CASE UpdateAsked
  BY <1>6, RowsUpdateAsked
<1>7. ASSUME NEW r \in DOMAIN work.rows, UpdateRow(r) PROVE RowsKept'
  BY <1>7, RowsUpdateRow
<1>8. CASE UpdateChunk
  BY <1>8, RowsUpdateChunk
<1>9. ASSUME NEW x \in work.results, StoreResult(x) PROVE RowsKept'
  BY <1>9, RowsStoreResult
<1>10. CASE CombineAsked
  BY <1>10, RowsCombineAsked
<1>11. ASSUME NEW p \in work.copies, CopyOne(p) PROVE RowsKept'
  BY <1>11, RowsCopyOne
<1>12. CASE CopyChunk
  BY <1>12, RowsCopyChunk
<1>13. ASSUME NEW p \in work.merges, CombineOne(p) PROVE RowsKept'
  BY <1>13, RowsCombineOne
<1>14. CASE CombineChunk
  BY <1>14, RowsCombineChunk
<1>15. CASE CallbackFails
  BY <1>4, <1>15 DEF CallbackFails
<1>16. CASE EndBatch
  BY <1>16, RowsEndBatch
<1>17. CASE Finalize
  BY <1>17, RowsStill DEF Finalize
<1>18. CASE UNCHANGED aggVars
  BY <1>18, RowsStill DEF aggVars
<1> QED BY <1>1, <1>2, <1>3, <1>5, <1>6, <1>7, <1>8, <1>9, <1>10, <1>11, <1>12, <1>13, <1>14,
           <1>15, <1>16, <1>17, <1>18 DEF AggNext

(* Where DuckDB combines no two states into one in a batch,
   rducks_aggregate.c leaves each state with exactly the rows that were asked
   of it, for any bundle of row or chunk callbacks, copying or changing their
   states in place, and any rows, groups and merges.  Without the hypothesis
   it does not hold: run aggregates_repeat shows how. *)
THEOREM AggregatesLoseNothing ==
  ASSUME ~RepeatTargets
  PROVE  AggSpec => []NothingLost
<1>1. AggInit => Common /\ RowsKept
  BY CommonInit, RowsInit
<1>2. Common /\ RowsKept /\ [AggNext]_aggVars => (Common /\ RowsKept)'
  BY CommonStep, RowsStep
<1>3. Common /\ RowsKept => NothingLost
  <2> SUFFICES ASSUME Common, RowsKept, work.op = "idle", ~broken, NEW s \in Live
               PROVE  FoldedIn(valueOf[s]) = due[s]
    BY DEF NothingLost
  <2>1. work = Idle /\ s \in Slots /\ valueOf[s] # Unused
    BY DEF Common, Fits, Live
  <2>2. \A e \in InputRows : e \in due[s] <=> Has(folded, valueOf[s], e)
    BY <2>1, IdleKept DEF RowsKept
  <2>3. FoldedIn(valueOf[s]) \subseteq InputRows /\ due[s] \subseteq InputRows
    BY <2>1, FoldedInRows DEF Common, Typed
  <2>4. \A e : e \in FoldedIn(valueOf[s]) <=> Has(folded, valueOf[s], e)
    BY DEF FoldedIn, Has
  <2> QED BY <2>2, <2>3, <2>4
<1> QED BY <1>1, <1>2, <1>3, PTL DEF AggSpec
=============================================================================
