---------------------------- MODULE PreservedRelease ----------------------------
(***************************************************************************)
(* R objects that native code keeps alive (tools/ext/src/rducks_runtime.c, *)
(* the preserved-release queue): only the R thread may release one, other  *)
(* threads leave it in a queue that the R thread drains.                   *)
(*                                                                         *)
(* The state is a record, heap:                                            *)
(*   preserved   how often each object is on R's list of precious objects  *)
(*   queue       the objects to release, each with its close_table_stream  *)
(*   lost        how often each was given up for want of memory for a node *)
(* The counters of the queue's statistics are left out.                    *)
(***************************************************************************)
EXTENDS DuckThreads, Integers, Sequences, FiniteSets

CONSTANTS
  Objects,      (* R objects                                               *)
  NoObject      (* R_NilValue                                              *)

Nodes == [object : Objects, close : BOOLEAN]
Node(o, close) == [object |-> o, close |-> close]

EmptyHeap == [preserved |-> [o \in Objects |-> 0], queue |-> <<>>, lost |-> [o \in Objects |-> 0]]

Preserved(h, o) == [h EXCEPT !.preserved[o] = @ + 1]
ReleasedNow(h, o) == [h EXCEPT !.preserved[o] = @ - 1]

(* without memory for a node the object leaks *)
Enqueued(h, o, close) ==
  {[h EXCEPT !.queue = Append(@, Node(o, close))],
   [h EXCEPT !.lost[o] = @ + 1]}

(* what may become of the heap when thread t gives up its hold on an object *)
GivenUp(h, t, o) ==
  IF o = NoObject THEN {h}
  ELSE IF t = RThread THEN {ReleasedNow(h, o)}
  ELSE Enqueued(h, o, FALSE)

(* mutant: the queue is walked where it is *)
NotDetached(h) == h

(* the queue is detached under the lock and released outside it *)
Detached(h) == [h EXCEPT !.queue = <<>>]
CountOf(nodes, o) == Cardinality({i \in DOMAIN nodes : nodes[i].object = o})
Drained(h) ==
  [Detached(h) EXCEPT !.preserved = [o \in Objects |-> @[o] - CountOf(h.queue, o)]]

(* the holds that nothing but the heap itself accounts for *)
Waiting(h, o) == CountOf(h.queue, o) + h.lost[o]
=============================================================================
