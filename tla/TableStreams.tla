------------------------------ MODULE TableStreams ------------------------------
(***************************************************************************)
(* Streamed R table functions (tools/ext/src/rducks_table.c and the        *)
(* rducks_table_stream functions of R/register.R): a bind holds an R       *)
(* stream, scans pull batches from it on the R thread, any thread may drop *)
(* the last reference, and the user's close runs exactly when it should.   *)
(*                                                                         *)
(* The R thread is a stack of frames, because the user's code, next_batch, *)
(* close or the table function itself, may run queries that enter Rducks   *)
(* again, and each entry drains the release queue first.  A frame is the   *)
(* operation, its argument, the detached nodes still to release, and where *)
(* it is: "drain", "body", "user" (in the user's code), "end", "ended",    *)
(* "close" or "release".  Column data, projection and results that are not *)
(* streams are left out; a table function returns a new stream each time.  *)
(***************************************************************************)
EXTENDS PreservedRelease, SequencesExt

CONSTANTS
  Binds, Scans,
  NoBind,
  Unknown,      (* a stream without an exact cardinality                   *)
  Declared,     (* the exact cardinalities a stream may announce           *)
  ChunkSize,    (* meta->chunk_size                                        *)
  BatchRows,    (* the sizes of batches                                    *)
  MaxBatches,   (* bound: batches a stream has                             *)
  MaxDepth      (* bound: frames on the R thread                           *)

ASSUME TableAssumption ==
  /\ NoObject \notin Objects /\ NoBind \notin Binds /\ RThread \notin OtherThreads
  /\ Unknown \notin Nat /\ Declared \subseteq Nat
  /\ ChunkSize \in Nat \ {0} /\ BatchRows \subseteq Nat \ {0}
  /\ MaxBatches \in Nat /\ MaxDepth \in Nat \ {0}

VARIABLES
  heap,         (* see PreservedRelease; its objects are the streams       *)
  stream,       (* each R stream: made, exact, closed, closes (calls of    *)
                (* the user's close that began), ended, batches pulled     *)
  bind,         (* each bind: result and refcount                          *)
  dataHeld,     (* the binds whose bind data DuckDB holds                  *)
  scan,         (* each scan: its bind, current chunk, pos, stream_done    *)
  stack

vars == <<heap, stream, bind, dataHeld, scan, stack>>

NewStream == [made |-> FALSE, exact |-> Unknown, closed |-> FALSE, closes |-> 0,
              ended |-> FALSE, pulled |-> 0]
FreeBind == [result |-> NoObject, refs |-> 0]
NewScan == [bind |-> NoBind, chunk |-> 0, pos |-> 0, done |-> FALSE, state |-> "new"]

Init ==
  /\ heap = EmptyHeap
  /\ stream = [o \in Objects |-> NewStream]
  /\ bind = [b \in Binds |-> FreeBind]
  /\ dataHeld = {}
  /\ scan = [s \in Scans |-> NewScan]
  /\ stack = <<>>

(*------------------------------- the R thread ---------------------------*)

Frame(op, arg, nodes, where) == [op |-> op, arg |-> arg, nodes |-> nodes, at |-> where]
Top == IF stack = <<>> THEN Frame("query", NoBind, <<>>, "user") ELSE Last(stack)
InUserCode == Top.at = "user"
At(op, where) == Top.op = op /\ Top.at = where
GoTo(where) == [stack EXCEPT ![Len(stack)].at = where]
Popped == Front(stack)
Room == Len(stack) < MaxDepth

(* the stack st, and the user's close on top of it unless the stream is closed *)
Closing(o, st) ==
  IF stream[o].closed
  THEN stack' = st /\ UNCHANGED stream
  ELSE /\ stack' = Append(st, Frame("close", o, <<>>, "user"))
       /\ stream' = [stream EXCEPT ![o].closed = TRUE, ![o].closes = @ + 1]

CloseReturns ==
  /\ At("close", "user")
  /\ stack' = Popped
  /\ UNCHANGED <<heap, stream, bind, dataHeld, scan>>

(* An error of close fails the scan that reached the end; drains and
   destructors ignore it. *)
CloseFails ==
  /\ At("close", "user")
  /\ LET below == Last(Popped) IN
     IF below.op = "scan" /\ below.at = "ended"
     THEN /\ scan' = [scan EXCEPT ![below.arg].state = "failed"]
          /\ stack' = Front(Popped)
     ELSE stack' = Popped /\ UNCHANGED scan
  /\ UNCHANGED <<heap, stream, bind, dataHeld>>

(* bind, scan, and any other function that drains *)
Enter(op, arg) ==
  /\ InUserCode /\ Room
  /\ stack' = Append(stack, Frame(op, arg, heap.queue, "drain"))
  /\ heap' = Detached(heap)
  /\ UNCHANGED <<stream, bind, dataHeld, scan>>

DrainNode ==
  /\ Top.at = "drain" /\ Top.nodes # <<>>
  /\ LET n == Head(Top.nodes) IN
     IF n.close /\ ~stream[n.object].closed
     THEN Closing(n.object, stack) /\ UNCHANGED heap
     ELSE /\ heap' = ReleasedNow(heap, n.object)
          /\ stack' = [stack EXCEPT ![Len(stack)].nodes = Tail(@)]
          /\ UNCHANGED stream
  /\ UNCHANGED <<bind, dataHeld, scan>>

DrainEnds ==
  /\ Top.at = "drain" /\ Top.nodes = <<>>
  /\ stack' = CASE Top.op = "bind" -> GoTo("user")
                [] Top.op = "scan" -> GoTo("body")
                [] OTHER           -> Popped
  /\ UNCHANGED <<heap, stream, bind, dataHeld, scan>>

(*---------------------------------- bind ---------------------------------*)

EnterBind(b) ==
  /\ bind[b] = FreeBind /\ b \notin {stack[i].arg : i \in DOMAIN stack}
  /\ Enter("bind", b)

BindReturns(o, exact) ==
  /\ At("bind", "user") /\ ~stream[o].made
  /\ heap' = Preserved(heap, o)
  /\ stream' = [stream EXCEPT ![o].made = TRUE, ![o].exact = exact]
  /\ bind' = [bind EXCEPT ![Top.arg] = [result |-> o, refs |-> 1]]
  /\ dataHeld' = dataHeld \cup {Top.arg}
  /\ stack' = Popped
  /\ UNCHANGED scan

BindFails ==
  /\ At("bind", "user")
  /\ stack' = Popped
  /\ UNCHANGED <<heap, stream, bind, dataHeld, scan>>

(* mutant: the scan does not retain the bind *)
OpenScanBorrowing(s, b) ==
  /\ scan[s].state = "new" /\ b \in dataHeld
  /\ scan' = [scan EXCEPT ![s].bind = b, ![s].state = "open"]
  /\ UNCHANGED <<heap, stream, bind, dataHeld, stack>>

(* DuckDB opens a scan of a bind at a time; a prepared statement is scanned
   again after its first scan is gone. *)
OpenScan(s, b) ==
  /\ scan[s].state = "new" /\ b \in dataHeld
  /\ \A q \in Scans : scan[q].bind = b => scan[q].state = "gone"
  /\ scan' = [scan EXCEPT ![s].bind = b, ![s].state = "open"]
  /\ bind' = [bind EXCEPT ![b].refs = @ + 1]
  /\ UNCHANGED <<heap, stream, dataHeld, stack>>

(* mutant: the reference is given up when one other is left *)
UnreferenceEarly(t, b) ==
  /\ bind' = IF bind[b].refs > 2 \/ t = RThread
             THEN [bind EXCEPT ![b].refs = @ - 1]
             ELSE [bind EXCEPT ![b] = FreeBind]
  /\ IF bind[b].refs > 2
     THEN UNCHANGED <<heap, stack>>
     ELSE IF t = RThread
     THEN stack' = Append(stack, Frame("free", b, <<>>, "close")) /\ UNCHANGED heap
     ELSE heap' \in Enqueued(heap, bind[b].result, TRUE) /\ UNCHANGED stack

(* The last reference: off the R thread the stream is left in the queue. *)
Unreference(t, b) ==
  /\ bind' = IF bind[b].refs > 1 \/ t = RThread
             THEN [bind EXCEPT ![b].refs = @ - 1]
             ELSE [bind EXCEPT ![b] = FreeBind]
  /\ IF bind[b].refs > 1
     THEN UNCHANGED <<heap, stack>>
     ELSE IF t = RThread
     THEN stack' = Append(stack, Frame("free", b, <<>>, "close")) /\ UNCHANGED heap
     ELSE heap' \in Enqueued(heap, bind[b].result, TRUE) /\ UNCHANGED stack

MayDestroy(t) == t = RThread => InUserCode /\ Room

DestroyBindData(t, b) ==
  /\ MayDestroy(t) /\ b \in dataHeld
  /\ dataHeld' = dataHeld \ {b}
  /\ Unreference(t, b)
  /\ UNCHANGED <<stream, scan>>

DestroyScan(t, s) ==
  /\ MayDestroy(t)
  /\ scan[s].state \in {"open", "failed", "complete"}
  /\ s \notin {stack[i].arg : i \in DOMAIN stack}
  /\ scan' = [scan EXCEPT ![s].state = "gone"]
  /\ Unreference(t, scan[s].bind)
  /\ UNCHANGED <<stream, dataHeld>>

FreeCloses ==
  /\ At("free", "close")
  /\ Closing(bind[Top.arg].result, GoTo("release"))
  /\ UNCHANGED <<heap, bind, dataHeld, scan>>

FreeReleases ==
  /\ At("free", "release")
  /\ heap' = ReleasedNow(heap, bind[Top.arg].result)
  /\ bind' = [bind EXCEPT ![Top.arg] = FreeBind]
  /\ stack' = Popped
  /\ UNCHANGED <<stream, dataHeld, scan>>

(*---------------------------------- scan ---------------------------------*)

Scan == scan[Top.arg]
StreamOf(s) == bind[scan[s].bind].result
Exact(s) == stream[StreamOf(s)].exact

EnterScan(s) ==
  /\ scan[s].state = "open" /\ s \notin {stack[i].arg : i \in DOMAIN stack}
  /\ Enter("scan", s)

NeedsBatch == At("scan", "body") /\ Scan.chunk = 0 /\ ~Scan.done

(* next_batch is called on an open stream only *)
CallNextBatch ==
  /\ NeedsBatch
  /\ IF stream[StreamOf(Top.arg)].closed
     THEN scan' = [scan EXCEPT ![Top.arg].done = TRUE] /\ UNCHANGED stack
     ELSE stack' = GoTo("user") /\ UNCHANGED scan
  /\ UNCHANGED <<heap, stream, bind, dataHeld>>

BatchReturns(rows) ==
  /\ At("scan", "user")
  /\ stream[StreamOf(Top.arg)].pulled < MaxBatches
  /\ stream' = [stream EXCEPT ![StreamOf(Top.arg)].pulled = @ + 1]
  /\ scan' = [scan EXCEPT ![Top.arg].chunk = rows]
  /\ stack' = GoTo("body")
  /\ UNCHANGED <<heap, bind, dataHeld>>

(* NULL ends the stream, which is closed before the scan hears of it *)
EndReturns ==
  /\ At("scan", "user")
  /\ stream' = [stream EXCEPT ![StreamOf(Top.arg)].ended = TRUE]
  /\ stack' = GoTo("end")
  /\ UNCHANGED <<heap, bind, dataHeld, scan>>

EndCloses ==
  /\ At("scan", "end")
  /\ Closing(StreamOf(Top.arg), GoTo("ended"))
  /\ UNCHANGED <<heap, bind, dataHeld, scan>>

EndOfStream ==
  /\ At("scan", "ended")
  /\ scan' = [scan EXCEPT ![Top.arg].done = TRUE]
  /\ stack' = GoTo("body")
  /\ UNCHANGED <<heap, stream, bind, dataHeld>>

Stop(state) ==
  /\ scan' = [scan EXCEPT ![Top.arg].state = state]
  /\ stack' = Popped
  /\ UNCHANGED <<heap, stream, bind, dataHeld>>

(* an error of next_batch, an empty batch, or one of another shape *)
BatchFails == At("scan", "user") /\ Stop("failed")

(* mutant: only the end of the stream is compared with its cardinality *)
EmitAny ==
  /\ At("scan", "body") /\ Scan.chunk > 0
  /\ LET count == IF Scan.chunk < ChunkSize THEN Scan.chunk ELSE ChunkSize IN
     scan' = [scan EXCEPT ![Top.arg].chunk = @ - count, ![Top.arg].pos = @ + count]
  /\ stack' = Popped
  /\ UNCHANGED <<heap, stream, bind, dataHeld>>

Emit ==
  /\ At("scan", "body") /\ Scan.chunk > 0
  /\ LET count == IF Scan.chunk < ChunkSize THEN Scan.chunk ELSE ChunkSize IN
     IF Exact(Top.arg) # Unknown /\ Scan.pos + count > Exact(Top.arg)
     THEN Stop("failed")
     ELSE /\ scan' = [scan EXCEPT ![Top.arg].chunk = @ - count, ![Top.arg].pos = @ + count]
          /\ stack' = Popped
          /\ UNCHANGED <<heap, stream, bind, dataHeld>>

(* DuckDB is told there is no more *)
Complete ==
  /\ At("scan", "body") /\ Scan.chunk = 0 /\ Scan.done
  /\ Stop(IF Exact(Top.arg) \notin {Unknown, Scan.pos} THEN "failed" ELSE "complete")

Next ==
  \/ CloseReturns \/ CloseFails \/ DrainNode \/ DrainEnds
  \/ Enter("other", NoBind)
  \/ \E b \in Binds : EnterBind(b)
  \/ \E o \in Objects, exact \in Declared \cup {Unknown} : BindReturns(o, exact)
  \/ BindFails
  \/ \E s \in Scans, b \in Binds : OpenScan(s, b)
  \/ \E t \in Threads, b \in Binds : DestroyBindData(t, b)
  \/ \E t \in Threads, s \in Scans : DestroyScan(t, s)
  \/ FreeCloses \/ FreeReleases
  \/ \E s \in Scans : EnterScan(s)
  \/ CallNextBatch
  \/ \E rows \in BatchRows : BatchReturns(rows)
  \/ EndReturns \/ EndCloses \/ EndOfStream \/ BatchFails \/ Emit \/ Complete

Spec == Init /\ [][Next]_vars

(*------------------------------- properties ------------------------------*)

(* The nodes of o that the frames of a stack st detached *)
Detained(st, o) ==
  UNION {{i} \X {j \in DOMAIN st[i].nodes : st[i].nodes[j].object = o} : i \in DOMAIN st}

(* A stream is preserved once for each bind that holds it and each release
   still owed, in the queue or detached by any of the drains on the stack. *)
PreserveExact ==
  \A o \in Objects :
    heap.preserved[o] = Cardinality({b \in Binds : bind[b].result = o})
                        + Waiting(heap, o) + Cardinality(Detained(stack, o))

HoldsStream(b) == bind[b].result # NoObject /\ heap.preserved[bind[b].result] > 0

(* While DuckDB holds a bind or a scan of it, the bind holds a stream that R
   keeps alive. *)
InUseIsHeld ==
  /\ \A b \in dataHeld : HoldsStream(b)
  /\ \A s \in Scans : scan[s].state \in {"open", "failed", "complete"} => HoldsStream(scan[s].bind)

(* The user's close runs only after the end of the stream or when its last
   reference is gone, never under a scan that has rows to come, not from a drain
   of the very callback that produces them either; before R may collect the
   stream; and once. *)
ClosedInTime ==
  \A o \in Objects :
    /\ stream[o].closes <= 1
    /\ stream[o].closed /\ ~stream[o].ended => \A b \in Binds : bind[b].result = o => bind[b].refs = 0
    /\ stream[o].made /\ heap.preserved[o] = 0 => stream[o].closed

(* No scan emits more rows than its stream announced, and one that completes
   emits as many, a second scan of an exhausted stream included. *)
ExactOrError ==
  \A s \in Scans :
    scan[s].state \in {"open", "complete"} /\ Exact(s) # Unknown
    => /\ scan[s].pos <= Exact(s)
       /\ scan[s].state = "complete" => scan[s].pos = Exact(s)
=============================================================================
