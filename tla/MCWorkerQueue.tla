---------------------------- MODULE MCWorkerQueue ----------------------------
(* Instances of WorkerQueue for TLC. *)
EXTENDS WorkerQueue

CONSTANTS w1, w2, h, r, st, o1, m1, m2

Chunk(o, m, n, b) == [owner |-> o, meta |-> m, rows |-> n, batchable |-> b, diag |-> FALSE]
SelfTestRequest == [owner |-> NoOwner, meta |-> m2, rows |-> 0, batchable |-> FALSE, diag |-> TRUE]

(* coalescing chunks: of a managed stream, and of the same UDF outside it, of
   which two fit in one batch unless both are large *)
Managed == Chunk(o1, m1, 2, TRUE)
StreamCalls == {Managed, Chunk(NoOwner, m1, 1, TRUE), Chunk(NoOwner, m1, 2, TRUE)}
(* a self-test request among them *)
MixedCalls == {Managed, Chunk(NoOwner, m1, 1, TRUE), SelfTestRequest}
=============================================================================
