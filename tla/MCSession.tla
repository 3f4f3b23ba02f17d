------------------------------ MODULE MCSession ------------------------------
(* Instances for TLC of what a session on a database keeps apart: TableStreams,
   Provider and RuntimeRegistry, which do not share state.  In each behaviour one of
   them takes steps. *)
EXTENDS TableStreams, Provider, MCRuntimeRegistry

CONSTANTS r, w, o1, o2, b1, b2, s1, s2

CONSTANTS local, remote, user

VARIABLES part

(* two runtimes, one with two workers of its own, one with a worker of the user;
   their keys are their names.  The two UDFs and the addresses of databases go by the
   names of the binds and the connections to the file by those of the scans, so that
   few permutations do. *)
KeyOf    == local :> local @@ remote :> remote
UserEnds == local :> <<>> @@ remote :> <<user>>
Workers  == local :> 2 @@ remote :> 1

SessionInit == Init /\ ProviderInit /\ RegistryInit /\ part \in {"tables", "provider", "registry"}

(* bounds: of the worker processes that crash, and of those that have requests
   to serve late *)
OneCrashes == Cardinality({x \in Peers : peer[x] = "crashed"}) <= 1
OneIsLate == Cardinality({x \in Peers : late[x] # {}}) <= 1

SessionNext ==
  \/ part = "tables" /\ Next /\ UNCHANGED <<providerVars, registryVars, part>>
  \/ part = "provider" /\ ProviderNext /\ OneCrashes' /\ OneIsLate' /\ UNCHANGED <<vars, registryVars, part>>
  \/ part = "registry" /\ RegistryNext /\ UNCHANGED <<vars, providerVars, part>>

SessionSpec == SessionInit /\ [][SessionNext]_<<vars, providerVars, registryVars, part>>

Sym == Permutations(Objects) \cup Permutations(Binds) \cup Permutations(Scans)
=============================================================================
