------------------------------- MODULE Provider -------------------------------
(***************************************************************************)
(* The NNG providers of an R session (R/provider_nng.R): the first IPC UDF *)
(* with a key (runtime, plan) starts its workers, in several attempts if   *)
(* need be, every further one shares them, each is registered at every     *)
(* worker before DuckDB may call it, and the last attachment of a runtime  *)
(* stops them.  Workers remember only so many UDFs.                        *)
(*                                                                         *)
(* The R thread is a stack of calls: while one waits for workers, garbage  *)
(* collection may finalize a connection, and its release runs on top.  A   *)
(* request that R gave up may still reach its worker, an answer may come   *)
(* too late, and a worker may crash, which nobody is told.  Frames and     *)
(* the work of a UDF are QuackVectors' and ScalarEvaluation's, requests    *)
(* to execute NngPool's; a runtime has one connection here.                *)
(***************************************************************************)
EXTENDS Integers, FiniteSets, SequencesExt

CONSTANTS
  Udfs,          (* registrations of IPC UDFs, each made at most once       *)
  Tokens,        (* runtimes                                                *)
  Keys,          (* the keys of the store                                   *)
  TokenOf,       (* the runtime of each key                                 *)
  Theirs,        (* the endpoints the user gave for a key, or none          *)
  Count,         (* the workers of a key otherwise                          *)
  MaxAttempts,   (* rducks_nng_startup_attempts                             *)
  RegistryMax,   (* rducks_nng_worker_registry_limit                        *)
  MaxProcesses,  (* bound: local worker processes                           *)
  MaxProviders   (* bound: providers                                        *)

Processes == 1 .. MaxProcesses
UserOwned == UNION {Range(Theirs[k]) : k \in Keys}
Peers     == Processes \cup UserOwned

ASSUME ProviderAssumption ==
  /\ TokenOf \in [Keys -> Tokens] /\ Count \in [Keys -> Nat \ {0}]
  /\ Theirs \in [Keys -> Seq(UserOwned)] /\ UserOwned \cap Processes = {}
  /\ {MaxAttempts, RegistryMax} \subseteq Nat \ {0}
  /\ {MaxProcesses, MaxProviders} \subseteq Nat

VARIABLES
  frames,        (* what the R thread does, innermost last                  *)
  store,         (* nng_providers: the provider of each key, 0 for none     *)
  provider,      (* every provider made: its key, started and endpoints     *)
  anchor,        (* each runtime: "none", "attached", or "detached" while   *)
                 (* its last attachment is cleaned up                       *)
  udf,           (* each registration: life, and the provider it uses       *)
  peer,          (* each worker: "off", "daemon" (a process without loop),  *)
                 (* "looping", "serving", "killed" or "crashed"             *)
  launchedBy,    (* the provider of each local process                      *)
  memory,        (* each worker's registry and registry_order; heard is a   *)
                 (* history: all its UDFs by their last registration        *)
  late           (* requests R gave up that a worker may still receive      *)

providerVars == <<frames, store, provider, anchor, udf, peer, launchedBy, memory, late>>

Blank == [known |-> {}, order |-> <<>>, heard |-> <<>>]

ProviderInit ==
  /\ frames = <<>>
  /\ store = [k \in Keys |-> 0]
  /\ provider = <<>>
  /\ anchor = [t \in Tokens |-> "none"]
  /\ udf = [u \in Udfs |-> [life |-> "new", by |-> 0]]
  /\ peer = [w \in Peers |-> IF w \in UserOwned THEN "serving" ELSE "off"]
  /\ launchedBy = [w \in Processes |-> 0]
  /\ memory = [w \in Peers |-> Blank]
  /\ late = [w \in Peers |-> {}]

(*------------------------------ the R thread -----------------------------*)

WirePing == <<"ping">>
WireStop == <<"stop">>
WireRegister(u) == <<"register", u>>

Inner == Last(frames)
Doing(op) == frames # <<>> /\ Inner.op = op
Now(frame) == [frames EXCEPT ![Len(frames)] = frame]
Return == Front(frames)

(* rducks_nng_transact: the request msg goes to the head of todo *)
Asking(frame, msg, todo) == [frame EXCEPT !.msg = msg, !.todo = todo, !.at = "asked"]

(* rducks_nng_backend_external or _mirai starts the provider *)
Starting(frame, k) ==
  IF Theirs[k] = <<>> THEN [frame EXCEPT !.op = "launch"]
  ELSE Asking([frame EXCEPT !.op = "ping", !.ends = Theirs[k]], WirePing, Theirs[k])

(* provider$register_udf *)
Registering(frame, ends) ==
  Asking([frame EXCEPT !.op = "register", !.ends = <<>>, !.attempt = 1], WireRegister(frame.udf), ends)

(* A call is given up, or its provider found or made, for a new wrapper; its
   connection was attached before (rducks_attach_runtime_anchor). *)
Prepare(u, k) ==
  /\ frames = <<>> /\ udf[u].life = "new"
  /\ store[k] = 0 => Len(provider) < MaxProviders
  /\ LET p == IF store[k] = 0 THEN Len(provider) + 1 ELSE store[k]
         frame == [op |-> "call", token |-> TokenOf[k], udf |-> u, by |-> p, ends |-> <<>>,
                   attempt |-> 1, keys |-> {}, msg |-> WirePing, todo |-> <<>>, at |-> "asked"]
     IN
     /\ provider' = IF store[k] = 0
                    THEN Append(provider, [key |-> k, started |-> FALSE, ends |-> <<>>])
                    ELSE provider
     /\ store' = [store EXCEPT ![k] = p]
     /\ frames' = <<IF provider'[p].started THEN Registering(frame, provider'[p].ends)
                    ELSE Starting(frame, k)>>
     /\ udf' = [udf EXCEPT ![u] = [life |-> "making", by |-> p]]
  /\ anchor' = [anchor EXCEPT ![TokenOf[k]] = "attached"]
  /\ UNCHANGED <<peer, launchedBy, memory, late>>

(*------------------------------- starting up -----------------------------*)

Launched == {w \in Processes : launchedBy[w] # 0}

(* mirai::daemons *)
Launch ==
  /\ Doing("launch")
  /\ LET n == Cardinality(Launched)
         m == Count[provider[Inner.by].key] IN
     /\ n + m <= MaxProcesses
     /\ peer' = [w \in Peers |-> IF w \in n + 1 .. n + m THEN "daemon" ELSE peer[w]]
     /\ launchedBy' = [w \in Processes |-> IF w \in n + 1 .. n + m THEN Inner.by ELSE launchedBy[w]]
     /\ frames' = Now([Inner EXCEPT !.op = "setup", !.ends = [i \in 1 .. m |-> n + i]])
  /\ UNCHANGED <<store, provider, anchor, udf, memory, late>>

(* every daemon gets the worker loop with a fresh endpoint *)
SetUp ==
  /\ Doing("setup")
  /\ peer' = [w \in Peers |-> IF w \in Range(Inner.ends) /\ peer[w] = "daemon" THEN "looping" ELSE peer[w]]
  /\ frames' = Now(Asking([Inner EXCEPT !.op = "ping"], WirePing, Inner.ends))
  /\ UNCHANGED <<store, provider, anchor, udf, launchedBy, memory, late>>

Alive(w) == peer[w] \in {"daemon", "looping", "serving"}

(* processes end, with what they know and what was on the way to them *)
End(ws, fate) ==
  /\ peer' = [w \in Peers |-> IF w \in ws THEN fate ELSE peer[w]]
  /\ memory' = [w \in Peers |-> IF w \in ws THEN Blank ELSE memory[w]]
  /\ late' = [w \in Peers |-> IF w \in ws THEN {} ELSE late[w]]

(* cleanup_record: mirai::daemons(NULL) for the provider's compute profile *)
Reap(p) == End({w \in Processes : launchedBy[w] = p}, "killed")

(* mutant: an attempt that fails leaves its daemons *)
FailedKeeping ==
  /\ \/ Doing("launch") \/ Doing("setup")
     \/ Doing("ping") /\ Inner.at = "failed" /\ Theirs[provider[Inner.by].key] = <<>>
  /\ UNCHANGED <<peer, memory, late>>

(* an attempt to start workers fails at any step before the last ping *)
Failed ==
  /\ \/ Doing("launch") \/ Doing("setup")
     \/ Doing("ping") /\ Inner.at = "failed" /\ Theirs[provider[Inner.by].key] = <<>>
  /\ Reap(Inner.by)

AttemptFails ==
  /\ Failed /\ Inner.attempt < MaxAttempts
  /\ frames' = Now([Inner EXCEPT !.op = "launch", !.attempt = @ + 1])
  /\ UNCHANGED <<store, provider, anchor, udf, launchedBy>>

(* the error of provider$start: the record goes, and the registration fails *)
StartFails ==
  /\ \/ Failed /\ Inner.attempt = MaxAttempts
     \/ /\ Doing("ping") /\ Inner.at = "failed" /\ Theirs[provider[Inner.by].key] # <<>>
        /\ UNCHANGED <<peer, memory, late>>
  /\ store' = [store EXCEPT ![provider[Inner.by].key] = 0]
  /\ udf' = [udf EXCEPT ![Inner.udf] = [life |-> "refused", by |-> 0]]
  /\ frames' = Return
  /\ UNCHANGED <<provider, anchor, launchedBy>>

Started ==
  /\ Doing("ping") /\ Inner.todo = <<>>
  /\ provider' = [provider EXCEPT ![Inner.by].started = TRUE, ![Inner.by].ends = Inner.ends]
  /\ frames' = Now(Registering(Inner, Inner.ends))
  /\ UNCHANGED <<store, anchor, udf, peer, launchedBy, memory, late>>

(*------------------------------ registration -----------------------------*)

(* configure() returns the endpoints, and DuckDB may call the function *)
Registered ==
  /\ Doing("register") /\ Inner.todo = <<>>
  /\ udf' = [udf EXCEPT ![Inner.udf].life = "callable"]
  /\ frames' = Return
  /\ UNCHANGED <<store, provider, anchor, peer, launchedBy, memory, late>>

(* no answer from one worker, or an error; others keep what they learnt *)
RegisterFails ==
  /\ Doing("register") /\ Inner.at \in {"failed", "error"}
  /\ udf' = [udf EXCEPT ![Inner.udf] = [life |-> "refused", by |-> 0]]
  /\ frames' = Return
  /\ UNCHANGED <<store, provider, anchor, peer, launchedBy, memory, late>>

(*------------------------------- transactions ----------------------------*)

Answered ==
  /\ frames # <<>> /\ Inner.todo # <<>> /\ Inner.at = "ok"
  /\ frames' = Now(Asking(Inner, Inner.msg, Tail(Inner.todo)))
  /\ UNCHANGED <<store, provider, anchor, udf, peer, launchedBy, memory, late>>

(* A try is refused or times out; another follows while there is time, which
   may be 200 times. *)
TryFails ==
  /\ frames # <<>> /\ Inner.todo # <<>> /\ Inner.at \in {"asked", "lost"}
  /\ \/ UNCHANGED late
     \/ /\ Inner.at = "asked" /\ peer[Head(Inner.todo)] = "serving" /\ Inner.msg # WirePing
        /\ late' = [late EXCEPT ![Head(Inner.todo)] = @ \cup {Inner.msg}]
  /\ frames' \in {Now([Inner EXCEPT !.at = "asked"]), Now([Inner EXCEPT !.at = "failed"])}
  /\ UNCHANGED <<store, provider, anchor, udf, peer, launchedBy, memory>>

(*--------------------------------- release -------------------------------*)

Used(t) == \E i \in DOMAIN frames : frames[i].token = t

(* rducks_cleanup_runtime_anchor with the last attachment, called by
   rducks_release or by the finalizer of a connection; the keys are listed once. *)
Release(t) ==
  /\ anchor[t] = "attached" /\ ~Used(t)
  /\ anchor' = [anchor EXCEPT ![t] = "detached"]
  /\ frames' = Append(frames,
       [op |-> "release", token |-> t, by |-> 0, attempt |-> 0,
        keys |-> {k \in Keys : store[k] # 0},
        msg |-> WireStop, todo |-> <<>>, at |-> "asked"])
  /\ UNCHANGED <<store, provider, udf, peer, launchedBy, memory, late>>

Removed(frame, k) == Now([frame EXCEPT !.op = "release", !.keys = @ \ {k}, !.by = 0])

(* the keys are gone through as their names sort, here in any order *)
SkipKey(k) ==
  /\ Doing("release") /\ k \in Inner.keys
  /\ store[k] # 0 /\ TokenOf[k] # Inner.token
  /\ frames' = Removed(Inner, k)
  /\ UNCHANGED <<store, provider, anchor, udf, peer, launchedBy, memory, late>>

(* get() of a key that is gone: the error ends the whole cleanup *)
ReleaseFails(k) ==
  /\ Doing("release") /\ k \in Inner.keys /\ store[k] = 0
  /\ frames' = Return
  /\ UNCHANGED <<store, provider, anchor, udf, peer, launchedBy, memory, late>>

StopKey(k) ==
  /\ Doing("release") /\ k \in Inner.keys
  /\ store[k] # 0 /\ TokenOf[k] = Inner.token
  /\ LET p == store[k] IN
     IF provider[p].started /\ Theirs[k] = <<>>
     THEN /\ frames' = Now(Asking([Inner EXCEPT !.op = "stop", !.by = p], WireStop, provider[p].ends))
          /\ UNCHANGED <<store, provider>>
     ELSE /\ provider' = [provider EXCEPT ![p].started = FALSE]
          /\ store' = [store EXCEPT ![k] = 0]
          /\ frames' = Removed(Inner, k)
  /\ UNCHANGED <<anchor, udf, peer, launchedBy, memory, late>>

(* A worker that does not answer its stop request is among the errors. *)
StopUnanswered ==
  /\ Doing("stop") /\ Inner.todo # <<>> /\ Inner.at = "failed"
  /\ frames' = Now(Asking(Inner, WireStop, Tail(Inner.todo)))
  /\ UNCHANGED <<store, provider, anchor, udf, peer, launchedBy, memory, late>>

(* all were asked, and waited for as long as shutdown_timeout *)
Stopped ==
  /\ Doing("stop") /\ Inner.todo = <<>>
  /\ Reap(Inner.by)
  /\ provider' = [provider EXCEPT ![Inner.by].started = FALSE, ![Inner.by].ends = <<>>]
  /\ store' = [store EXCEPT ![provider[Inner.by].key] = 0]
  /\ frames' = Removed(Inner, provider[Inner.by].key)
  /\ UNCHANGED <<anchor, udf, launchedBy>>

Released ==
  /\ Doing("release") /\ Inner.keys = {}
  /\ anchor' = [anchor EXCEPT ![Inner.token] = "none"]
  /\ frames' = Return
  /\ UNCHANGED <<store, provider, udf, peer, launchedBy, memory, late>>

(*--------------------------------- workers -------------------------------*)

(* the one place of u in s, if any, goes *)
Without(s, u) == IF u \in Range(s) THEN RemoveAt(s, CHOOSE i \in DOMAIN s : s[i] = u) ELSE s

(* assign() and registry_order, which forgets its first ids *)
Forgetting(m, order) ==
  LET n == IF Len(order) > RegistryMax THEN Len(order) - RegistryMax ELSE 0 IN
  [m EXCEPT !.known = @ \ Range(SubSeq(order, 1, n)), !.order = SubSeq(order, n + 1, Len(order))]

(* mutant: an id that is registered again keeps its old place as well *)
LearntTwice(m, u) ==
  Forgetting([m EXCEPT !.known = @ \cup {u}, !.heard = Append(Without(@, u), u)], Append(m.order, u))

Learnt(m, u) ==
  Forgetting([m EXCEPT !.known = @ \cup {u}, !.heard = Append(Without(@, u), u)],
             Append(Without(m.order, u), u))

(* rducks_nng_worker_loop serves one request *)
Serves(w, msg) ==
  /\ peer[w] = "serving"
  /\ memory' = IF msg[1] = "register" THEN [memory EXCEPT ![w] = Learnt(@, msg[2])] ELSE memory
  /\ peer' = IF msg = WireStop THEN [peer EXCEPT ![w] = "daemon"] ELSE peer

(* R gets the answer, or it comes after R gave up this try *)
Serve(i) ==
  /\ frames[i].todo # <<>> /\ frames[i].at = "asked"
  /\ Serves(Head(frames[i].todo), frames[i].msg)
  /\ frames' \in {[frames EXCEPT ![i].at = "ok"], [frames EXCEPT ![i].at = "lost"]}
  /\ UNCHANGED <<store, provider, anchor, udf, launchedBy, late>>

(* the worker cannot load a package or the closure *)
ServeError(i) ==
  /\ frames[i].todo # <<>> /\ frames[i].at = "asked" /\ frames[i].op = "register"
  /\ peer[Head(frames[i].todo)] = "serving"
  /\ frames' \in {[frames EXCEPT ![i].at = "error"], [frames EXCEPT ![i].at = "lost"]}
  /\ UNCHANGED <<store, provider, anchor, udf, peer, launchedBy, memory, late>>

ServeLate(w) ==
  /\ \E msg \in late[w] :
       /\ Serves(w, msg)
       /\ late' = [late EXCEPT ![w] = @ \ {msg}]
  /\ UNCHANGED <<frames, store, provider, anchor, udf, launchedBy>>

(* the loop listens, or its socket fails and the task ends *)
Listen(w) ==
  /\ peer[w] = "looping"
  /\ peer' \in {[peer EXCEPT ![w] = "serving"], [peer EXCEPT ![w] = "daemon"]}
  /\ UNCHANGED <<frames, store, provider, anchor, udf, launchedBy, memory, late>>

Crash(w) ==
  /\ Alive(w)
  /\ End({w}, "crashed")
  /\ UNCHANGED <<frames, store, provider, anchor, udf, launchedBy>>

(* R has nothing to do. *)
Rest == frames = <<>> /\ UNCHANGED providerVars

ProviderNext ==
  \/ \E u \in Udfs, k \in Keys : Prepare(u, k)
  \/ Launch \/ SetUp \/ AttemptFails \/ StartFails \/ Started
  \/ Registered \/ RegisterFails \/ Answered \/ TryFails
  \/ \E t \in Tokens : Release(t)
  \/ \E k \in Keys : SkipKey(k) \/ ReleaseFails(k) \/ StopKey(k)
  \/ StopUnanswered \/ Stopped \/ Released
  \/ \E i \in DOMAIN frames : Serve(i) \/ ServeError(i)
  \/ \E w \in Peers : ServeLate(w) \/ Listen(w) \/ Crash(w)
  \/ Rest

ProviderSpec == ProviderInit /\ [][ProviderNext]_providerVars
-----------------------------------------------------------------------------
(* How many UDFs w learnt after u *)
Newer(w, u) == Len(memory[w].heard) - (CHOOSE i \in DOMAIN memory[w].heard : memory[w].heard[i] = u)

BeingStopped(p) == \E i \in DOMAIN frames : frames[i].op = "stop" /\ frames[i].by = p

(* Wherever DuckDB sends a chunk of a UDF that was registered, a worker listens
   that knows it, whatever was retried, answered late or failed for other UDFs,
   until it has crashed, or has learnt RegistryMax further UDFs. *)
CallableIsServed ==
  \A u \in Udfs :
    udf[u].life = "callable" /\ provider[udf[u].by].started /\ ~BeingStopped(udf[u].by) =>
      \A w \in Range(provider[udf[u].by].ends) :
        \/ peer[w] = "crashed"
        \/ peer[w] = "serving" /\ (u \in memory[w].known \/ Newer(w, u) >= RegistryMax)

(* When R rests, each worker process it launched belongs to a provider that
   started and is in the store, where the release of its runtime will find it;
   only a release that ended early (see ReleaseCompletes) leaves such a one. *)
NoWorkerAstray ==
  frames = <<>> =>
    \A w \in Processes : Alive(w) =>
      LET p == launchedBy[w] IN
      /\ provider[p].started /\ store[provider[p].key] = p
      /\ w \in Range(provider[p].ends) /\ anchor[TokenOf[provider[p].key]] # "none"

(* The release of the last attachment of a runtime ends with the attachment
   gone, its providers stopped on the way. *)
ReleaseCompletes == \A t \in Tokens : anchor[t] = "detached" => Used(t)
=============================================================================
