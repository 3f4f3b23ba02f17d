------------------------------ MODULE Aggregates ------------------------------
(***************************************************************************)
(* R-backed aggregate functions (tools/ext/src/rducks_aggregate.c): each   *)
(* DuckDB aggregate state holds a preserved R object or none, callbacks of *)
(* the user fold rows into it and merge states, and any DuckDB thread may  *)
(* destroy states.                                                         *)
(*                                                                         *)
(* An R object is the set of rows folded into it.  The user's callbacks do *)
(* what docs/AGGREGATES.md asks: update adds a row, combine unites, copy   *)
(* copies; each may also fail.  Those of an "in_place" bundle change their *)
(* first argument and return it, as on an environment.                     *)
(***************************************************************************)
EXTENDS PreservedRelease, Functions

CONSTANTS
  StateObjects,   (* the R objects that callbacks return                   *)
  Slots,          (* storage for aggregate states                          *)
  Unused,         (* a slot without a state                                *)
  InputRows,      (* the input rows                                        *)
  NullRows,       (* those with a NULL argument                            *)
  SkipNulls,      (* null_handling = "default"                             *)
  Bundles,        (* the sets of optional callbacks to register, with      *)
                  (* "in_place" if the R states are changed in place       *)
  RepeatTargets,  (* DuckDB may combine two states into one in one batch   *)
  MaxOwed         (* bound: releases owed by threads other than the R thread *)

Optional == {"update_chunk", "combine", "combine_chunk", "copy", "copy_chunk", "in_place"}

(* States that are changed in place are not shared: their bundle copies. *)
ASSUME AggregateAssumption ==
  /\ StateObjects \subseteq Objects
  /\ NoObject \notin Objects /\ Unused \notin Objects \cup {NoObject}
  /\ RThread \notin OtherThreads
  /\ NullRows \subseteq InputRows
  /\ SkipNulls \in BOOLEAN /\ RepeatTargets \in BOOLEAN
  /\ Bundles \subseteq SUBSET Optional
  /\ \A b \in Bundles : "in_place" \in b => b \cap {"copy", "copy_chunk"} # {}
  /\ MaxOwed \in Nat

VARIABLES
  heap,           (* see PreservedRelease                                  *)
  valueOf,        (* the value of each state                               *)
  folded,         (* the rows in each R object                             *)
  bundle,         (* the callbacks of this aggregate                       *)
  work,           (* the callback in progress on the R thread              *)
  broken,         (* duckdb_aggregate_function_set_error was called        *)
  given,          (* the rows DuckDB has passed to update                  *)
  due             (* the rows DuckDB has asked to be folded into a state   *)

aggVars == <<heap, valueOf, folded, bundle, work, broken, given, due>>

Live == {s \in Slots : valueOf[s] # Unused}
Pairs == [src : Slots, dst : Slots]

(* rows still to update, states still to copy and to combine, results still
   to be stored; each in any order *)
NoRows == [r \in {} |-> {}]
Idle == [op |-> "idle", rows |-> NoRows, copies |-> {}, merges |-> {}, results |-> {}]

AggInit ==
  /\ heap = EmptyHeap
  /\ valueOf = [s \in Slots |-> Unused]
  /\ folded = [o \in Objects |-> {}]
  /\ bundle \in Bundles
  /\ work = Idle
  /\ broken = FALSE
  /\ given = {}
  /\ due = [s \in Slots |-> {}]

FoldedIn(v) == IF v \in Objects THEN folded[v] ELSE {}

(*------------------------------- R objects -------------------------------*)

InHand == {x.value : x \in work.results}
Fresh == {o \in StateObjects : heap.preserved[o] = 0 /\ o \notin InHand}

(* what a callback may return for a state of value v that it changes *)
Results(v) == IF "in_place" \in bundle /\ v \in Objects THEN {v} ELSE Fresh

(* one result for each of the values of old, new objects being different *)
ResultsOf(old) ==
  {f \in [DOMAIN old -> Objects] :
     /\ \A x \in DOMAIN old : f[x] \in Results(old[x])
     /\ \A x, y \in DOMAIN old : x # y /\ f[x] = f[y] => f[x] = old[x] /\ f[y] = old[y]}

(* the rows in each object once results f hold the rows of each *)
Refolded(f, rows) ==
  [o \in Objects |->
     IF \E x \in DOMAIN f : f[x] = o THEN UNION {rows[x] : x \in {y \in DOMAIN f : f[y] = o}}
     ELSE folded[o]]

(* mutant: the old value is not released *)
ReplacedOnly(h, s, o) == IF o = valueOf[s] THEN h ELSE Preserved(h, o)

(* the heap after state s is given the value o by the R thread *)
Replaced(h, s, o) ==
  IF o = valueOf[s] THEN h
  ELSE LET kept == Preserved(h, o)
       IN  IF valueOf[s] = NoObject THEN kept ELSE ReleasedNow(kept, valueOf[s])

StateSet(s, o) ==
  /\ heap' = Replaced(heap, s, o)
  /\ valueOf' = [valueOf EXCEPT ![s] = o]

SetError ==
  /\ broken' = TRUE
  /\ work' = Idle
  /\ UNCHANGED <<heap, valueOf, folded, bundle, given, due>>

(*------------------------- states come and go ---------------------------*)

InitState(s) ==
  /\ ~broken
  /\ valueOf[s] = Unused
  /\ valueOf' = [valueOf EXCEPT ![s] = NoObject]
  /\ UNCHANGED <<heap, folded, bundle, work, broken, given, due>>

Busy == {work.rows[r] : r \in DOMAIN work.rows}
        \cup (UNION {{p.src, p.dst} : p \in work.copies \cup work.merges})
        \cup {x.slot : x \in work.results}

Owed == Len(heap.queue) + SumFunction(heap.lost)

DestroyState(t, s) ==
  /\ s \in Live \ Busy
  /\ t # RThread => Owed < MaxOwed
  /\ heap' \in GivenUp(heap, t, valueOf[s])
  /\ valueOf' = [valueOf EXCEPT ![s] = Unused]
  /\ due' = [due EXCEPT ![s] = {}]
  /\ UNCHANGED <<folded, bundle, work, broken, given>>

(* the R thread enters Rducks, from a callback or not, and drains *)
Drain ==
  /\ heap' = Drained(heap)
  /\ UNCHANGED <<valueOf, folded, bundle, work, broken, given, due>>

(* DuckDB calls back on a thread that may not enter R *)
OffRThread(t) ==
  /\ t # RThread
  /\ work.op = "idle" /\ ~broken
  /\ SetError

(*-------------------------------- update --------------------------------*)

Selected(r) == ~(SkipNulls /\ r \in NullRows)

BeginUpdate(R, to) ==
  /\ work.op = "idle" /\ ~broken
  /\ heap' = Drained(heap)
  /\ work' = [Idle EXCEPT !.op = "update", !.rows = to]
  /\ given' = given \cup R
  /\ due' = [s \in Slots |-> due[s] \cup {r \in R : to[r] = s /\ Selected(r)}]
  /\ UNCHANGED <<valueOf, folded, bundle, broken>>

Without(rows, r) == [q \in DOMAIN rows \ {r} |-> rows[q]]

UpdateRow(r) ==
  /\ work.op = "update" /\ "update_chunk" \notin bundle
  /\ work' = [work EXCEPT !.rows = Without(@, r)]
  /\ IF Selected(r)
     THEN LET s == work.rows[r] IN
          \E o \in Results(valueOf[s]) :
            /\ folded' = [folded EXCEPT ![o] = FoldedIn(valueOf[s]) \cup {r}]
            /\ StateSet(s, o)
     ELSE UNCHANGED <<heap, valueOf, folded>>
  /\ UNCHANGED <<bundle, broken, given, due>>

(* the states that the selected rows name, each once *)
DistinctStates(rows) == {rows[r] : r \in {q \in DOMAIN rows : Selected(q)}}

UpdateChunk ==
  /\ work.op = "update" /\ "update_chunk" \in bundle
  /\ work.rows # NoRows
  /\ LET states == DistinctStates(work.rows)
         RowsFor(s) == {r \in DOMAIN work.rows : work.rows[r] = s /\ Selected(r)}
     IN \E f \in ResultsOf([s \in states |-> valueOf[s]]) :
          /\ folded' = Refolded(f, [s \in states |-> FoldedIn(valueOf[s]) \cup RowsFor(s)])
          /\ work' = [work EXCEPT !.rows = NoRows,
                                  !.results = {[slot |-> s, value |-> f[s]] : s \in states}]
  /\ UNCHANGED <<heap, valueOf, bundle, broken, given, due>>

(* the results of a chunk callback are stored one after the other *)
StoreResult(x) ==
  /\ StateSet(x.slot, x.value)
  /\ work' = [work EXCEPT !.results = @ \ {x}]
  /\ UNCHANGED <<folded, bundle, broken, given, due>>

(*------------------------------- combine --------------------------------*)

(* Pairs whose source is empty are skipped; the others are sorted by what
   their target holds when the batch begins. *)
BeginCombine(batch) ==
  LET Full == {p \in batch : valueOf[p.src] # NoObject} IN
  /\ work.op = "idle" /\ ~broken
  /\ heap' = Drained(heap)
  /\ work' = [Idle EXCEPT !.op = "combine",
                          !.copies = {p \in Full : valueOf[p.dst] = NoObject},
                          !.merges = {p \in Full : valueOf[p.dst] # NoObject}]
  /\ due' = [s \in Slots |-> due[s] \cup UNION {due[p.src] : p \in {q \in batch : q.dst = s}}]
  /\ UNCHANGED <<valueOf, folded, bundle, broken, given>>

(* mutant: the copy callback is forgotten *)
CopyOneShared(p) ==
  /\ "copy_chunk" \notin bundle
  /\ StateSet(p.dst, valueOf[p.src])
  /\ work' = [work EXCEPT !.copies = @ \ {p}]
  /\ UNCHANGED <<folded, bundle, broken, given, due>>

(* without a copy callback the target holds the same object *)
CopyOne(p) ==
  /\ "copy_chunk" \notin bundle
  /\ \E o \in IF "copy" \in bundle THEN Fresh ELSE {valueOf[p.src]} :
       /\ folded' = [folded EXCEPT ![o] = FoldedIn(valueOf[p.src])]
       /\ StateSet(p.dst, o)
  /\ work' = [work EXCEPT !.copies = @ \ {p}]
  /\ UNCHANGED <<bundle, broken, given, due>>

Stored(f) == {[slot |-> p.dst, value |-> f[p]] : p \in DOMAIN f}

CopyChunk ==
  /\ work.copies # {} /\ "copy_chunk" \in bundle
  /\ \E f \in ResultsOf([p \in work.copies |-> NoObject]) :
       /\ folded' = Refolded(f, [p \in work.copies |-> FoldedIn(valueOf[p.src])])
       /\ work' = [work EXCEPT !.copies = {}, !.results = Stored(f)]
  /\ UNCHANGED <<heap, valueOf, bundle, broken, given, due>>

Copied == work.copies = {} /\ work.results = {}

CombineOne(p) ==
  /\ Copied
  /\ "combine" \in bundle /\ "combine_chunk" \notin bundle
  /\ \E o \in Results(valueOf[p.dst]) :
       /\ folded' = [folded EXCEPT ![o] = FoldedIn(valueOf[p.dst]) \cup FoldedIn(valueOf[p.src])]
       /\ StateSet(p.dst, o)
  /\ work' = [work EXCEPT !.merges = @ \ {p}]
  /\ UNCHANGED <<bundle, broken, given, due>>

(* the callback sees the values that all targets have before the batch *)
CombineChunk ==
  /\ Copied /\ work.merges # {} /\ "combine_chunk" \in bundle
  /\ \E f \in ResultsOf([p \in work.merges |-> valueOf[p.dst]]) :
       /\ folded' = Refolded(f, [p \in work.merges |->
                                  FoldedIn(valueOf[p.dst]) \cup FoldedIn(valueOf[p.src])])
       /\ work' = [work EXCEPT !.merges = {}, !.results = Stored(f)]
  /\ UNCHANGED <<heap, valueOf, bundle, broken, given, due>>

(* a callback fails, or a pair needs combine and there is none: what the batch
   has stored so far stays *)
CallbackFails ==
  /\ \/ DistinctStates(work.rows) # {}
     \/ work.copies # {} /\ bundle \cap {"copy", "copy_chunk"} # {}
     \/ Copied /\ work.merges # {}
  /\ work.results = {}
  /\ SetError

EndBatch ==
  /\ work.op # "idle"
  /\ work = [Idle EXCEPT !.op = work.op]
  /\ work' = Idle
  /\ UNCHANGED <<heap, valueOf, folded, bundle, broken, given, due>>

(* finalize reads the states and writes DuckDB's output *)
Finalize ==
  /\ work.op = "idle" /\ ~broken
  /\ heap' = Drained(heap)
  /\ broken' \in BOOLEAN
  /\ UNCHANGED <<valueOf, folded, bundle, work, given, due>>

(*------------------------------ DuckDB asks ------------------------------*)

(* at most two rows a chunk *)
UpdateAsked ==
  \E R \in SUBSET (InputRows \ given) :
    /\ Cardinality(R) \in 1 .. 2
    /\ \E to \in [R -> Live] : BeginUpdate(R, to)

(* One or two pairs.  No row is asked to be folded twice into a state. *)
CombineAsked ==
  \E a, b \in [src : Live, dst : Live] :
    LET batch == {a, b} IN
    /\ \A p, q \in batch : p.src # q.dst
    /\ \A p, q \in batch : p.src = q.src => p = q
    /\ ~RepeatTargets => \A p, q \in batch : p.dst = q.dst => p = q
    /\ \A p \in batch : due[p.dst] \cap due[p.src] = {}
    /\ \A p, q \in batch : p # q /\ p.dst = q.dst => due[p.src] \cap due[q.src] = {}
    /\ BeginCombine(batch)

AggNext ==
  \/ \E s \in Slots : InitState(s)
  \/ \E t \in Threads, s \in Slots : DestroyState(t, s)
  \/ Drain
  \/ \E t \in Threads : OffRThread(t)
  \/ UpdateAsked
  \/ \E r \in DOMAIN work.rows : UpdateRow(r)
  \/ UpdateChunk
  \/ \E x \in work.results : StoreResult(x)
  \/ CombineAsked
  \/ \E p \in work.copies : CopyOne(p)
  \/ CopyChunk
  \/ \E p \in work.merges : CombineOne(p)
  \/ CombineChunk
  \/ CallbackFails
  \/ EndBatch
  \/ Finalize

AggSpec == AggInit /\ [][AggNext]_aggVars

(*------------------------------ properties -------------------------------*)

(* An object is preserved once for each state that holds it and once for each
   release that is still owed, whatever threads destroyed the states and in
   whatever order the queue was drained: none is freed under a state, and
   none outlives its last state but for want of memory. *)
PreserveExact ==
  \A o \in Objects :
    heap.preserved[o] = Cardinality({s \in Slots : valueOf[s] = o}) + Waiting(heap, o)

(* Between two batches of a query without error each state holds exactly the
   rows that DuckDB has asked to be folded into it, as one row after the other
   would leave them: chunks, groups, copies and merges lose no row, and a
   state changed in place is nobody else's. *)
NothingLost ==
  work.op = "idle" /\ ~broken => \A s \in Live : FoldedIn(valueOf[s]) = due[s]
=============================================================================
