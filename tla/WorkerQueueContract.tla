------------------------- MODULE WorkerQueueContract -------------------------
(***************************************************************************)
(* The callback queue keeps its contract: how the requests of WorkerQueue  *)
(* map to the calls of CallbackContract.                                   *)
(***************************************************************************)
EXTENDS WorkerQueue

(* a popped request is lent; until then its thread is only asking, also while
   it is on its way out *)
phaseBar == [t \in Threads |->
  IF pc[t] = "idle" THEN "home"
  ELSE IF state[t] = "RUNNING" THEN "lent"
  ELSE IF state[t] = "DONE" THEN "answered"
  ELSE "asking"]

ownerBar == [t \in Threads |-> IF pc[t] = "idle" THEN NoOwner ELSE call[t].owner]

ranBar == [t \in Threads |-> pc[t] # "idle" /\ evals[t] > 0]

valueBar == [t \in Threads |->
  IF pc[t] # "idle" /\ state[t] = "DONE" /\ replyOk[t] THEN result[t] ELSE NoThread]

(* a withdrawn call returns when its thread leaves *)
answerBar == [t \in Threads |-> IF pc[t] = "idle" THEN outcome[t] ELSE "none"]

Contract == INSTANCE CallbackContract WITH
  phase <- phaseBar, owner <- ownerBar, ran <- ranBar, value <- valueBar,
  answer <- answerBar, stopped <- stopping

(* The queue implements its contract: whatever the interleaving of submission,
   withdrawal, drains and interrupts, each step of rducks_worker_queue.c is one
   step of a call or invisible to the callers. *)
ContractKept == Contract!Spec
=============================================================================
