------------------------------- MODULE CallLease -------------------------------
(***************************************************************************)
(* Where a queued call is: with its caller, asking, lent to the R thread,  *)
(* or answered.  The callback queue without its list, its lock, its        *)
(* counters and its threads.                                               *)
(***************************************************************************)
CONSTANTS
  Threads,     (* the callers, each with at most one call                  *)
  Owners,      (* the queries that can be stopped                          *)
  NoOwner      (* a call outside every such query                          *)

VARIABLES
  phase,       (* "home", "asking", "lent", "answered"                     *)
  owner,       (* the query the call belongs to                            *)
  ran,         (* R was entered with the call                              *)
  stopped      (* the queries that are stopping                            *)

leaseVars == <<phase, owner, ran, stopped>>

LeaseInit ==
  /\ phase = [t \in Threads |-> "home"]
  /\ owner = [t \in Threads |-> NoOwner]
  /\ ran = [t \in Threads |-> FALSE]
  /\ stopped = [o \in Owners |-> FALSE]

Ask(t, o) ==
  /\ phase[t] = "home"
  /\ phase' = [phase EXCEPT ![t] = "asking"]
  /\ owner' = [owner EXCEPT ![t] = o]
  /\ UNCHANGED <<ran, stopped>>

(* the caller forgets its call *)
GoHome(t) ==
  /\ phase' = [phase EXCEPT ![t] = "home"]
  /\ owner' = [owner EXCEPT ![t] = NoOwner]
  /\ ran' = [ran EXCEPT ![t] = FALSE]
  /\ UNCHANGED stopped

(* The caller gives up, and R has not seen the call and never will. *)
GiveUp(t) == phase[t] = "asking" /\ GoHome(t)

Lend(t) ==
  /\ phase[t] = "asking"
  /\ phase' = [phase EXCEPT ![t] = "lent"]
  /\ UNCHANGED <<owner, ran, stopped>>

(* R runs some lent calls of one query together; a failure stops the query. *)
Run(S, o, good) ==
  /\ S # {}
  /\ \A t \in S : phase[t] = "lent" /\ owner[t] = o /\ ~ran[t]
  /\ o # NoOwner => ~stopped[o]
  /\ ran' = [t \in Threads |-> t \in S \/ ran[t]]
  /\ stopped' = [p \in Owners |-> stopped[p] \/ (p = o /\ ~good)]
  /\ UNCHANGED <<phase, owner>>

(* A lent call is answered; a good answer needs a run. *)
Reply(t, good) ==
  /\ phase[t] = "lent"
  /\ good => ran[t]
  /\ phase' = [phase EXCEPT ![t] = "answered"]
  /\ UNCHANGED <<owner, ran, stopped>>

Return(t) == phase[t] = "answered" /\ GoHome(t)

Stop(o) ==
  /\ ~stopped[o]
  /\ stopped' = [stopped EXCEPT ![o] = TRUE]
  /\ UNCHANGED <<phase, owner, ran>>
=============================================================================
