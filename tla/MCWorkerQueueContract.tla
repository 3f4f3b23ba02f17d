------------------------ MODULE MCWorkerQueueContract ------------------------
(* Instances of WorkerQueueContract for TLC. *)
EXTENDS WorkerQueueContract, MCWorkerQueue
=============================================================================
