----------------------------- MODULE QueryStream -----------------------------
(***************************************************************************)
(* Query streams (tools/ext/src/rducks_query_stream.c): the R thread opens *)
(* a stream, fetches and closes it; with the concurrent inproc plan a      *)
(* native driver thread executes every engine command while the R thread   *)
(* pumps the callbacks of that one query.  The callback queue appears as   *)
(* the leases it grants (CallLease, which WorkerQueue implements).         *)
(*                                                                         *)
(* One runtime and one R thread.  Entries are the stream entries, storage  *)
(* that is reused once it was freed and no R handle names it any more.     *)
(* Jumps out of SQL functions (R unwinding through DuckDB) and the failure *)
(* of DuckDB's own teardown are not modelled.                              *)
(***************************************************************************)
EXTENDS Naturals, FiniteSets

CONSTANTS
  Entries,      (* storage for rducks_query_stream_entry                    *)
  Workers,      (* DuckDB worker threads                                    *)
  Conns,        (* connections the extension opens for its streams          *)
  NoOne

ASSUME StreamAssumption ==
  /\ NoOne \notin Entries \cup Conns
  /\ Workers \cap Entries = {}

VARIABLES
  (* the runtime *)
  managedPlan,  (* execution_backend is concurrent_inproc                   *)
  connection,   (* query_stream_connection                                  *)
  connBusy,     (* query_stream_connection_busy                             *)
  active,       (* query_stream_service_active                              *)
  service,      (* query_stream_service_entry                               *)
  preparing,    (* preparing_query_owner, an owner named by its entry       *)
  streams,      (* the list query_streams                                   *)
  connected,    (* the extension's stream connections that are not closed   *)
  guard,        (* who holds the database-wide scheduler guard              *)
  (* the entries *)
  live,         (* allocated                                                *)
  conn,         (* connection                                               *)
  managed, busy, done,
  result,       (* result_initialized: the engine query exists              *)
  chunk,        (* a fetched chunk waits for the R thread                   *)
  bound,        (* the owner the query's scalar binds captured              *)
  handle,       (* the R handle: none, held, dropped or finalized           *)
  (* the driver of each entry *)
  driver, command, commandDone, commandOk,
  (* callbacks: one call per worker, and per driver thread, named by its entry *)
  phase, owner, ran, stopping,
  (* the R thread *)
  rpc,          (* where it is                                              *)
  cur,          (* the entry it works on                                    *)
  todo,         (* entries detached from the list, still to be destroyed    *)
  via,          (* "bridge" (.Call), "sql", or "admin" (release, refresh)   *)
  ok,           (* what the operation will return                           *)
  retired       (* the connection to close once todo is empty               *)

runtimeVars == <<managedPlan, connection, connBusy, active, service, preparing, streams,
                 connected, guard>>
entryVars   == <<live, conn, managed, busy, done, result, chunk, bound, handle>>
driverVars  == <<driver, command, commandDone, commandOk>>
callVars    == <<phase, owner, ran, stopping>>
mainVars    == <<rpc, cur, todo, via, ok, retired>>
vars == <<runtimeVars, entryVars, driverVars, callVars, mainVars>>

Lease == INSTANCE CallLease WITH
  Threads <- Workers \cup Entries, Owners <- Entries, NoOwner <- NoOne, stopped <- stopping

-----------------------------------------------------------------------------
Init ==
  /\ managedPlan \in BOOLEAN
  /\ connection \in Conns /\ connected = {connection}
  /\ connBusy = FALSE /\ active = FALSE
  /\ service = NoOne /\ preparing = NoOne /\ streams = {} /\ guard = NoOne
  /\ live = [e \in Entries |-> FALSE]
  /\ conn = [e \in Entries |-> NoOne]
  /\ managed = [e \in Entries |-> FALSE]
  /\ busy = [e \in Entries |-> FALSE]
  /\ done = [e \in Entries |-> FALSE]
  /\ result = [e \in Entries |-> FALSE]
  /\ chunk = [e \in Entries |-> FALSE]
  /\ bound = [e \in Entries |-> NoOne]
  /\ handle = [e \in Entries |-> "none"]
  /\ driver = [e \in Entries |-> "none"]
  /\ command = [e \in Entries |-> "NONE"]
  /\ commandDone = [e \in Entries |-> TRUE]
  /\ commandOk = [e \in Entries |-> FALSE]
  /\ Lease!LeaseInit
  /\ rpc = "out" /\ cur = NoOne /\ todo = {} /\ via = "bridge" /\ ok = TRUE
  /\ retired = NoOne

(* rducks_query_stream_service_is_active *)
ServiceIsActive == active \/ \E e \in streams : busy[e]

Goto(l) == rpc' = l /\ UNCHANGED <<cur, todo, via, ok, retired>>
GotoWith(l, good) == rpc' = l /\ ok' = good /\ UNCHANGED <<cur, todo, via, retired>>

-----------------------------------------------------------------------------
(* The way in.                                                             *)

(* R code runs inside an operation: a callback of the pump, a check or a batch
   of the bridge, a callback of a synchronous query *)
RCallbackRuns == \E t \in Workers \cup Entries : phase[t] = "lent" /\ ran[t]
RCodeRuns ==
  \/ RCallbackRuns
  \/ rpc = "open" /\ via = "bridge"
  \/ rpc \in {"store", "engine"}

(* R calls into the extension from its top level or from such code. *)
RMayCall == rpc = "out" \/ RCodeRuns

(* The bridge needs the main thread, a live runtime and an idle service; open
   and next also the inproc plan.  The SQL functions serve the other plans. *)
MayEnter(v, needsPlan) ==
  /\ RMayCall /\ ~ServiceIsActive
  /\ v = "bridge" => connection # NoOne /\ (needsPlan => managedPlan)
  /\ v = "sql" => ~managedPlan

Enter(v, e, l) ==
  /\ active' = (v = "bridge")
  /\ service' = IF v = "bridge" THEN NoOne ELSE service
  /\ rpc' = l /\ cur' = e /\ todo' = {} /\ via' = v /\ ok' = TRUE /\ retired' = NoOne

BeginOpen(v) ==
  /\ MayEnter(v, TRUE) /\ connection # NoOne
  /\ Enter(v, NoOne, "open")
  /\ UNCHANGED <<managedPlan, connection, connBusy, preparing, streams, connected, guard,
                 entryVars, driverVars, callVars>>

BeginNext(v, e) ==
  /\ MayEnter(v, TRUE) /\ handle[e] = "held"
  /\ Enter(v, e, "next")
  /\ UNCHANGED <<managedPlan, connection, connBusy, preparing, streams, connected, guard,
                 entryVars, driverVars, callVars>>

(* $close() of the handle *)
BeginClose(v, e) ==
  /\ MayEnter(v, FALSE) /\ handle[e] = "held"
  /\ Enter(v, e, "close")
  /\ UNCHANGED <<managedPlan, connection, connBusy, preparing, streams, connected, guard,
                 entryVars, driverVars, callVars>>

(* The handle becomes garbage. *)
Drop(e) ==
  /\ rpc = "out" /\ handle[e] = "held"
  /\ handle' = [handle EXCEPT ![e] = "dropped"]
  /\ UNCHANGED <<runtimeVars, live, conn, managed, busy, done, result, chunk, bound,
                 driverVars, callVars, mainVars>>

(* The finalizer of a dropped handle closes the stream through the bridge. *)
Finalize(e) ==
  /\ MayEnter("bridge", FALSE) /\ handle[e] = "dropped"
  /\ handle' = [handle EXCEPT ![e] = "finalized"]
  /\ Enter("bridge", e, "close")
  /\ UNCHANGED <<managedPlan, connection, connBusy, preparing, streams, connected, guard,
                 live, conn, managed, busy, done, result, chunk, bound, driverVars, callVars>>

(* R may collect garbage whenever its code runs; the bridge refuses the
   finalizer, which does not try again. *)
FinalizeRefused(e) ==
  /\ RCodeRuns /\ ServiceIsActive /\ handle[e] = "dropped"
  /\ handle' = [handle EXCEPT ![e] = "finalized"]
  /\ UNCHANGED <<runtimeVars, live, conn, managed, busy, done, result, chunk, bound,
                 driverVars, callVars, mainVars>>

(* A handle whose stream is gone is closed or collected without effect. *)
Forget(e) ==
  /\ rpc = "out" /\ handle[e] # "none" /\ ~live[e]
  /\ handle' = [handle EXCEPT ![e] = "none"]
  /\ UNCHANGED <<runtimeVars, live, conn, managed, busy, done, result, chunk, bound,
                 driverVars, callVars, mainVars>>

-----------------------------------------------------------------------------
(* The way out.                                                            *)

(* An error of the operation: Rf_error unwinds to the bridge's cleanup. *)
Fail ==
  /\ rpc = "raise"
  /\ Goto(IF via = "bridge" THEN "unwind" ELSE "exit")
  /\ UNCHANGED <<runtimeVars, entryVars, driverVars, callVars>>

(* The answer is built; for the bridge this allocates, and may jump. *)
Answer ==
  /\ rpc = "reply"
  /\ \/ ~ok /\ Goto("raise")
     \/ ok /\ Goto("exit")
     \/ ok /\ via = "bridge" /\ GotoWith("unwind", FALSE)
  /\ UNCHANGED <<runtimeVars, entryVars, driverVars, callVars>>

(* rducks_query_stream_bridge_cleanup after a jump: the entry of the service,
   if there is one, is unlinked and destroyed. *)
Unwind ==
  /\ rpc = "unwind"
  /\ IF service = NoOne
     THEN Goto("exit") /\ UNCHANGED streams
     ELSE /\ streams' = streams \ {service}
          /\ rpc' = "destroy" /\ cur' = service /\ todo' = {} /\ ok' = FALSE
          /\ UNCHANGED <<via, retired>>
  /\ UNCHANGED <<managedPlan, connection, connBusy, active, service, preparing, connected,
                 guard, entryVars, driverVars, callVars>>

(* Back in R: an opened stream gets its handle, a closed one loses it. *)
Exit ==
  /\ rpc = "exit"
  /\ active' = IF via = "bridge" THEN FALSE ELSE active
  /\ service' = IF via = "bridge" THEN NoOne ELSE service
  /\ handle' = [e \in Entries |->
       IF e # cur THEN handle[e]
       ELSE IF handle[e] = "none" /\ e \in streams THEN "held"
       ELSE IF handle[e] = "finalized" /\ ~live[e] THEN "none"
       ELSE IF handle[e] = "held" /\ ~live[e] /\ ok THEN "none"
       ELSE handle[e]]
  /\ rpc' = "out" /\ cur' = NoOne /\ via' = "bridge" /\ ok' = TRUE
  /\ UNCHANGED <<todo, retired, managedPlan, connection, connBusy, preparing, streams, connected,
                 guard, live, conn, managed, busy, done, result, chunk, bound, driverVars, callVars>>

-----------------------------------------------------------------------------
(* rducks_query_stream_open_native                                         *)

(* A command for the driver: what rducks_query_stream_driver_command stores. *)
Send(e, c) ==
  /\ command' = [command EXCEPT ![e] = c]
  /\ commandDone' = [commandDone EXCEPT ![e] = FALSE]
  /\ commandOk' = [commandOk EXCEPT ![e] = FALSE]

(* The companion's version check or an allocation may fail; then the runtime's
   connection is claimed for a new entry.  An entry that is refused the
   connection never gets one.  The variant does not ask. *)
ConnectionTaken == TRUE
ConnectionFree == ~connBusy

Claim ==
  /\ rpc = "open"
  /\ \/ GotoWith("raise", FALSE) /\ UNCHANGED <<connBusy, service, entryVars>>
     \/ \E e \in Entries :
          /\ ~live[e] /\ handle[e] = "none"
          /\ live' = [live EXCEPT ![e] = TRUE]
          /\ managed' = [managed EXCEPT ![e] = managedPlan]
          /\ done' = [done EXCEPT ![e] = FALSE]
          /\ cur' = e
          /\ IF ConnectionFree
             THEN /\ connBusy' = TRUE
                  /\ conn' = [conn EXCEPT ![e] = connection]
                  /\ busy' = [busy EXCEPT ![e] = TRUE]
                  /\ service' = IF active THEN e ELSE service
                  /\ rpc' = "lease" /\ ok' = TRUE
             ELSE /\ conn' = [conn EXCEPT ![e] = NoOne]
                  /\ busy' = [busy EXCEPT ![e] = FALSE]
                  /\ rpc' = "destroy" /\ ok' = FALSE
                  /\ UNCHANGED <<connBusy, service>>
          /\ UNCHANGED <<result, chunk, bound, handle, todo, via, retired>>
  /\ UNCHANGED <<managedPlan, connection, active, preparing, streams, connected, guard,
                 driverVars, callVars>>

(* Token and SQL are copied, and a managed stream acquires the scheduler guard
   and its cancellation owner: each can fail, and R's lookup of the companion's
   functions can jump before anything is reserved. *)
AcquireLease ==
  /\ rpc = "lease"
  /\ \/ GotoWith("destroy", FALSE) /\ UNCHANGED <<guard, stopping>>
     \/ managed[cur] /\ Goto("unwind") /\ UNCHANGED <<guard, stopping>>
     \/ managed[cur] /\ guard = NoOne /\ guard' = cur
        /\ \E created \in BOOLEAN :
             /\ GotoWith(IF created THEN "link" ELSE "destroy", created)
             /\ stopping' = IF created THEN [stopping EXCEPT ![cur] = FALSE] ELSE stopping
     \/ ~managed[cur] /\ Goto("link") /\ UNCHANGED <<guard, stopping>>
  /\ UNCHANGED <<managedPlan, connection, connBusy, active, service, preparing, streams,
                 connected, entryVars, driverVars, phase, owner, ran>>

(* Linked before execution, with its owner as the one being prepared. *)
Link ==
  /\ rpc = "link"
  /\ streams' = streams \cup {cur}
  /\ preparing' = IF managed[cur] THEN cur ELSE NoOne
  /\ Goto(IF managed[cur] THEN "start" ELSE "engine")
  /\ UNCHANGED <<managedPlan, connection, connBusy, active, service, connected, guard,
                 entryVars, driverVars, callVars>>

(* The driver is created and told to execute. *)
StartDriver ==
  /\ rpc = "start"
  /\ \/ GotoWith("openfailed", FALSE) /\ UNCHANGED driverVars
     \/ /\ driver' = [driver EXCEPT ![cur] = "waiting"]
        /\ Send(cur, "EXECUTE")
        /\ Goto("executing")
  /\ UNCHANGED <<runtimeVars, entryVars, callVars>>

(* A synchronous plan runs the engine on the R thread itself; even a failed
   query may leave a result to destroy. *)
ExecuteHere ==
  /\ rpc = "engine" /\ ~result[cur]
  /\ \E good, exists \in BOOLEAN :
       /\ good => exists
       /\ result' = [result EXCEPT ![cur] = exists]
       /\ GotoWith(IF good THEN "opened" ELSE "openfailed", good)
  /\ UNCHANGED <<runtimeVars, live, conn, managed, busy, done, chunk, bound, handle,
                 driverVars, callVars>>

(* The query runs; its schema is captured, or that fails. *)
Opened ==
  /\ rpc = "opened"
  /\ preparing' = NoOne
  /\ \E captured \in BOOLEAN :
       /\ busy' = IF captured THEN [busy EXCEPT ![cur] = FALSE] ELSE busy
       /\ GotoWith(IF captured THEN "reply" ELSE "openfailed", captured)
  /\ UNCHANGED <<managedPlan, connection, connBusy, active, service, streams, connected, guard,
                 live, conn, managed, done, result, chunk, bound, handle, driverVars, callVars>>

OpenFailed ==
  /\ rpc = "openfailed"
  /\ streams' = streams \ {cur}
  /\ Goto("destroy")
  /\ UNCHANGED <<managedPlan, connection, connBusy, active, service, preparing, connected, guard,
                 entryVars, driverVars, callVars>>

-----------------------------------------------------------------------------
(* rducks_query_stream_next_native and _close_native                       *)

Fetch ==
  /\ rpc = "next"
  /\ IF cur \notin streams
     THEN GotoWith("raise", FALSE) /\ UNCHANGED <<service, busy, driverVars>>
     ELSE /\ busy' = [busy EXCEPT ![cur] = TRUE]
          /\ service' = IF active THEN cur ELSE service
          /\ IF done[cur] THEN Goto("nextdone") /\ UNCHANGED driverVars
             ELSE IF managed[cur]
             THEN Send(cur, "FETCH") /\ Goto("fetching") /\ UNCHANGED driver
             ELSE Goto("engine") /\ UNCHANGED driverVars
  /\ UNCHANGED <<managedPlan, connection, connBusy, active, preparing, streams, connected, guard,
                 live, conn, managed, done, result, chunk, bound, handle, callVars>>

(* what a fetch can leave: a chunk, the end of the stream, or an error *)
Fetches(e, good) ==
  \/ good /\ chunk' = [chunk EXCEPT ![e] = TRUE] /\ UNCHANGED done
  \/ good /\ done' = [done EXCEPT ![e] = TRUE] /\ UNCHANGED chunk
  \/ ~good /\ UNCHANGED <<chunk, done>>

FetchHere ==
  /\ rpc = "engine" /\ result[cur]
  /\ \E good \in BOOLEAN : Fetches(cur, good) /\ GotoWith(IF good THEN "fetched" ELSE "nextdone", good)
  /\ UNCHANGED <<runtimeVars, live, conn, managed, busy, result, bound, handle, driverVars, callVars>>

(* At the end of the stream the driver is stopped; a chunk goes to R. *)
Fetched ==
  /\ rpc = "fetched"
  /\ Goto(IF chunk[cur] THEN "store" ELSE IF driver[cur] # "none" THEN "stop" ELSE "nextdone")
  /\ UNCHANGED <<runtimeVars, entryVars, driverVars, callVars>>

(* The batch is built from the chunk and stored; R may fail, and for the bridge
   jump. *)
Store ==
  /\ rpc = "store"
  /\ \/ \E good \in BOOLEAN : GotoWith("nextdone", good)
     \/ via = "bridge" /\ Goto("unwind")
  /\ UNCHANGED <<runtimeVars, entryVars, driverVars, callVars>>

(* The chunk is destroyed; a failed fetch closes the stream. *)
NextDone ==
  /\ rpc = "nextdone"
  /\ chunk' = [chunk EXCEPT ![cur] = FALSE]
  /\ busy' = [busy EXCEPT ![cur] = FALSE]
  /\ streams' = IF ok THEN streams ELSE streams \ {cur}
  /\ Goto(IF ok THEN "reply" ELSE "destroy")
  /\ UNCHANGED <<managedPlan, connection, connBusy, active, service, preparing, connected, guard,
                 live, conn, managed, done, result, bound, handle, driverVars, callVars>>

Close ==
  /\ rpc = "close"
  /\ IF cur \in streams /\ busy[cur] THEN GotoWith("raise", FALSE) /\ UNCHANGED streams
     ELSE /\ streams' = streams \ {cur}
          /\ Goto(IF cur \in streams THEN "destroy" ELSE "reply")
  /\ UNCHANGED <<managedPlan, connection, connBusy, active, service, preparing, connected, guard,
                 entryVars, driverVars, callVars>>

-----------------------------------------------------------------------------
(* Waiting for the driver: rducks_query_stream_driver_wait                 *)

DriverWait == rpc \in {"executing", "fetching", "settling", "closing"}
NothingLent == \A t \in Workers \cup Entries : phase[t] # "lent"

(* The drain of cur's requests: popped, run unless the query is stopping, and
   answered before the drain returns. *)
PumpStep(t) ==
  /\ DriverWait /\ owner[t] = cur
  /\ \/ Lease!Lend(t)
     \/ \E good \in BOOLEAN : Lease!Run({t}, cur, good)
     \/ \E good \in BOOLEAN : Lease!Reply(t, good) /\ (ran[t] \/ stopping[cur])
  /\ UNCHANGED <<runtimeVars, entryVars, driverVars, mainVars>>

(* A user interrupt is looked for between two drains of an execute or fetch. *)
Interrupt ==
  /\ rpc \in {"executing", "fetching"} /\ NothingLent
  /\ Lease!Stop(cur)
  /\ UNCHANGED <<runtimeVars, entryVars, driverVars, mainVars>>

(* An execute or fetch is done; it fails also once the query stops.  The
   variant then tries again. *)
CommandDone ==
  DriverWait /\ commandDone[cur] /\ NothingLent /\ UNCHANGED <<runtimeVars, entryVars, callVars>>

After(good) ==
  IF rpc = "executing" THEN GotoWith(IF good THEN "opened" ELSE "openfailed", good)
  ELSE GotoWith(IF good THEN "fetched" ELSE "nextdone", good)

CommandRetried ==
  /\ rpc \in {"executing", "fetching"} /\ CommandDone
  /\ IF stopping[cur]
     THEN /\ Send(cur, IF rpc = "executing" THEN "EXECUTE" ELSE "FETCH")
          /\ UNCHANGED <<driver, mainVars>>
     ELSE After(commandOk[cur]) /\ UNCHANGED driverVars
CommandOver ==
  /\ rpc \in {"executing", "fetching"} /\ CommandDone
  /\ After(commandOk[cur] /\ ~stopping[cur])
  /\ UNCHANGED driverVars

(* While the driver is stopped: no command runs any more and CLOSE is sent, or
   that is done too. *)
StopOver ==
  /\ CommandDone
  /\ \/ rpc = "settling" /\ Goto("closing") /\ Send(cur, "CLOSE") /\ UNCHANGED driver
     \/ rpc = "closing" /\ Goto("joining") /\ UNCHANGED driverVars

(* rducks_query_stream_driver_stop: admission ends before the wait; the variant
   only waits *)
StopDriverOpenly ==
  /\ rpc = "stop"
  /\ Goto("settling")
  /\ UNCHANGED <<runtimeVars, entryVars, driverVars, callVars>>
StopDriver ==
  /\ rpc = "stop"
  /\ IF stopping[cur] THEN UNCHANGED callVars ELSE Lease!Stop(cur)
  /\ Goto("settling")
  /\ UNCHANGED <<runtimeVars, entryVars, driverVars>>

(* The join; at the end of a stream its entry stays. *)
JoinDriver ==
  /\ rpc = "joining" /\ driver[cur] = "exited"
  /\ driver' = [driver EXCEPT ![cur] = "none"]
  /\ Goto(IF cur \in streams THEN "nextdone" ELSE "unguard")
  /\ UNCHANGED <<runtimeVars, entryVars, command, commandDone, commandOk, callVars>>

-----------------------------------------------------------------------------
(* rducks_query_stream_entry_destroy                                       *)

(* The driver is stopped, or the R thread closes the engine query itself; the
   variant releases the scheduler guard before it does so. *)
DestroyGuardFirst ==
  /\ rpc = "destroy"
  /\ guard' = IF guard = cur THEN NoOne ELSE guard
  /\ IF driver[cur] # "none" THEN Goto("stop") /\ UNCHANGED <<result, chunk>>
     ELSE /\ result' = [result EXCEPT ![cur] = FALSE]
          /\ chunk' = [chunk EXCEPT ![cur] = FALSE]
          /\ Goto("unguard")
  /\ UNCHANGED <<managedPlan, connection, connBusy, active, service, preparing, streams, connected,
                 live, conn, managed, busy, done, bound, handle, driverVars, callVars>>
Destroy ==
  /\ rpc = "destroy"
  /\ IF driver[cur] # "none" THEN Goto("stop") /\ UNCHANGED <<result, chunk>>
     ELSE /\ result' = [result EXCEPT ![cur] = FALSE]
          /\ chunk' = [chunk EXCEPT ![cur] = FALSE]
          /\ Goto("unguard")
  /\ UNCHANGED <<runtimeVars, live, conn, managed, busy, done, bound, handle, driverVars, callVars>>

(* The guard is released after the join; a failure leaves the database locked
   and is reported. *)
Unguard ==
  /\ rpc = "unguard"
  /\ \/ guard # cur /\ Goto("free") /\ UNCHANGED guard
     \/ guard = cur /\ guard' = NoOne /\ Goto("free")
     \/ guard = cur /\ guard' = "leaked" /\ GotoWith("free", FALSE)
  /\ UNCHANGED <<managedPlan, connection, connBusy, active, service, preparing, streams, connected,
                 entryVars, driverVars, callVars>>

(* what still names the entry is cleared; the variant keeps the connection
   busy *)
Except(p) == IF p = cur THEN NoOne ELSE p
NeverGivesBack == FALSE
GivesBack == conn[cur] # NoOne /\ conn[cur] = connection

Free ==
  /\ rpc = "free"
  /\ service' = Except(service)
  /\ preparing' = Except(preparing)
  /\ connBusy' = (connBusy /\ ~GivesBack)
  /\ live' = [live EXCEPT ![cur] = FALSE]
  /\ conn' = [conn EXCEPT ![cur] = NoOne]
  /\ bound' = [bound EXCEPT ![cur] = NoOne]
  /\ busy' = [busy EXCEPT ![cur] = FALSE]
  /\ done' = [done EXCEPT ![cur] = FALSE]
  /\ managed' = [managed EXCEPT ![cur] = FALSE]
  /\ stopping' = [stopping EXCEPT ![cur] = FALSE]
  /\ commandOk' = [commandOk EXCEPT ![cur] = FALSE]
  /\ Goto("detached")
  /\ UNCHANGED <<managedPlan, connection, active, streams, connected, guard, result, chunk, handle,
                 driver, command, commandDone, phase, owner, ran>>

(* rducks_query_stream_destroy_detached_list, then back to the operation *)
DestroyDetached ==
  /\ rpc = "detached"
  /\ IF todo = {}
     THEN Goto(IF via = "admin" THEN "disconnect" ELSE IF ok THEN "reply" ELSE "raise")
     ELSE \E e \in todo : /\ rpc' = "destroy" /\ cur' = e /\ todo' = todo \ {e}
                           /\ UNCHANGED <<via, ok, retired>>
  /\ UNCHANGED <<runtimeVars, entryVars, driverVars, callVars>>

-----------------------------------------------------------------------------
(* The runtime's administration, on the R thread.                          *)

(* rducks_release of the last attachment: every stream is closed. *)
CloseAll ==
  /\ MayEnter("bridge", FALSE)
  /\ active' = TRUE /\ service' = NoOne
  /\ streams' = {}
  /\ rpc' = "detached" /\ cur' = NoOne /\ todo' = streams /\ via' = "bridge" /\ ok' = TRUE
  /\ UNCHANGED <<retired, managedPlan, connection, connBusy, preparing, connected, guard,
                 entryVars, driverVars, callVars>>

(* The runtime lets go of its connection, for good (rducks_runtime_release_internal_
   connections) or for a new one (rducks_runtime_refresh_connection); the old
   one is closed after its streams were destroyed. *)
Retire(c) ==
  /\ RMayCall /\ ~ServiceIsActive
  /\ connection # NoOne \/ c # NoOne
  /\ connection' = c
  /\ connected' = (connected \cup {c}) \ {NoOne}
  /\ connBusy' = FALSE
  /\ streams' = {}
  /\ rpc' = "detached" /\ cur' = NoOne /\ todo' = streams /\ via' = "admin" /\ ok' = TRUE
  /\ retired' = connection
  /\ UNCHANGED <<managedPlan, active, service, preparing, guard, entryVars, driverVars, callVars>>

Disconnect ==
  /\ rpc = "disconnect"
  /\ connected' = connected \ {retired}
  /\ rpc' = "out" /\ cur' = NoOne /\ via' = "bridge" /\ ok' = TRUE /\ retired' = NoOne
  /\ UNCHANGED <<todo, managedPlan, connection, connBusy, active, service, preparing, streams, guard,
                 entryVars, driverVars, callVars>>

(* rducks_set_execution_backend, which asks for open streams only; the variant
   does not ask *)
PlanAlwaysFree == TRUE
PlanFree == ~connBusy

SetPlan(p) ==
  /\ RMayCall /\ PlanFree
  /\ managedPlan' = p
  /\ UNCHANGED <<connection, connBusy, active, service, preparing, streams, connected, guard,
                 entryVars, driverVars, callVars, mainVars>>

-----------------------------------------------------------------------------
(* The driver thread: rducks_query_stream_driver                           *)

(* rducks_r_scalar_bind: what a bind on connection c captures; the variant does
   not ask for the connection *)
CapturesAnywhere(c) == preparing
Captures(c) == IF preparing # NoOne /\ conn[preparing] = c THEN preparing ELSE NoOne

Take(e) ==
  /\ driver[e] = "waiting" /\ command[e] # "NONE"
  /\ driver' = [driver EXCEPT ![e] = CASE command[e] = "EXECUTE" -> "executing"
                                       [] command[e] = "FETCH"   -> "fetching"
                                       [] command[e] = "CLOSE"   -> "closing"]
  /\ bound' = IF command[e] = "EXECUTE" THEN [bound EXCEPT ![e] = Captures(conn[e])] ELSE bound
  /\ command' = [command EXCEPT ![e] = "NONE"]
  /\ UNCHANGED <<runtimeVars, live, conn, managed, busy, done, result, chunk, handle,
                 commandDone, commandOk, callVars, mainVars>>

Finish(e, good, next) ==
  /\ driver' = [driver EXCEPT ![e] = next]
  /\ commandOk' = [commandOk EXCEPT ![e] = good]
  /\ commandDone' = [commandDone EXCEPT ![e] = TRUE]
  /\ UNCHANGED command

(* engine_execute and engine_fetch: the driver thread itself waits for no
   callback any more.  Even a failed query may leave a result to destroy. *)
Executed(e) ==
  /\ driver[e] = "executing" /\ phase[e] = "home"
  /\ \E good, exists \in BOOLEAN :
       /\ good => exists
       /\ result' = [result EXCEPT ![e] = exists]
       /\ Finish(e, good, "waiting")
  /\ UNCHANGED <<runtimeVars, live, conn, managed, busy, done, chunk, bound, handle, callVars, mainVars>>

DriverFetched(e) ==
  /\ driver[e] = "fetching" /\ phase[e] = "home"
  /\ \E good \in BOOLEAN : Fetches(e, good) /\ Finish(e, good, "waiting")
  /\ UNCHANGED <<runtimeVars, live, conn, managed, busy, result, bound, handle, callVars, mainVars>>

(* engine_close waits for the tasks of the query *)
Closed(e) ==
  /\ driver[e] = "closing"
  /\ \A t \in Workers \cup {e} : phase[t] # "home" => owner[t] # bound[e]
  /\ result' = [result EXCEPT ![e] = FALSE]
  /\ chunk' = [chunk EXCEPT ![e] = FALSE]
  /\ Finish(e, TRUE, "exited")
  /\ UNCHANGED <<runtimeVars, live, conn, managed, busy, done, bound, handle, callVars, mainVars>>

(* The engine meets an R scalar function: on the driver thread itself, or on a
   worker that runs a task of the query. *)
Callback(t) ==
  /\ \E e \in Entries :
       /\ driver[e] \in {"executing", "fetching", "closing"} \/ (driver[e] = "waiting" /\ result[e])
       /\ t \in Entries => t = e /\ driver[e] # "waiting"
       /\ driver[e] = "closing" => result[e]
       /\ Lease!Ask(t, bound[e])
  /\ UNCHANGED <<runtimeVars, entryVars, driverVars, mainVars>>

(* A call is refused or withdrawn, or fails to be submitted. *)
CallbackGivesUp(t) ==
  /\ Lease!GiveUp(t)
  /\ UNCHANGED <<runtimeVars, entryVars, driverVars, mainVars>>

CallbackReturns(t) ==
  /\ Lease!Return(t)
  /\ UNCHANGED <<runtimeVars, entryVars, driverVars, mainVars>>

-----------------------------------------------------------------------------
MainStep ==
  \/ Fail \/ Answer \/ Unwind \/ Exit
  \/ Claim \/ AcquireLease \/ Link \/ StartDriver \/ ExecuteHere \/ Opened \/ OpenFailed
  \/ Fetch \/ FetchHere \/ Fetched \/ Store \/ NextDone \/ Close
  \/ StopDriver \/ JoinDriver \/ Destroy \/ Unguard \/ Free \/ DestroyDetached \/ Disconnect

UserStep ==
  \/ \E v \in {"bridge", "sql"} :
       BeginOpen(v) \/ \E e \in Entries : BeginNext(v, e) \/ BeginClose(v, e)
  \/ \E e \in Entries : Drop(e) \/ Finalize(e) \/ FinalizeRefused(e) \/ Forget(e)
  \/ CloseAll
  \/ \E c \in (Conns \ connected) \cup {NoOne} : Retire(c)
  \/ \E p \in BOOLEAN : SetPlan(p)

DriverStep(e) == Take(e) \/ Executed(e) \/ DriverFetched(e) \/ Closed(e)

CallbackStep(t) == Callback(t) \/ CallbackGivesUp(t) \/ CallbackReturns(t) \/ PumpStep(t)

Next ==
  \/ MainStep \/ CommandOver \/ StopOver \/ Interrupt \/ UserStep
  \/ \E e \in Entries : DriverStep(e)
  \/ \E t \in Workers \cup Entries : CallbackStep(t)

Spec == Init /\ [][Next]_vars

(* An interrupted query whose callbacks are refused starts finitely many more
   of them. *)
CallbacksEnd ==
  \A e \in Entries :
    <>[][stopping[e] => \A t \in Workers \cup Entries :
           phase[t] = "home" /\ phase'[t] = "asking" => owner'[t] # e]_vars

(* Scheduling: the R thread and a driver with a command keep running, a callback
   of R returns, a stopped call is refused (StoppedCallReturns of WorkerQueue),
   and an interrupted engine command ends.  A query that is not interrupted may
   run for ever. *)
Fairness ==
  /\ CallbacksEnd
  /\ WF_vars(MainStep) /\ WF_vars(CommandOver \/ StopOver)
  /\ \A e \in Entries :
       /\ WF_vars(Take(e))
       /\ WF_vars(stopping[e] /\ (Executed(e) \/ DriverFetched(e) \/ Closed(e)))
  /\ \A t \in Workers \cup Entries :
       /\ WF_vars(phase[t] = "lent" /\ PumpStep(t))
       /\ WF_vars(CallbackReturns(t))
       /\ WF_vars(owner[t] # NoOne /\ stopping[owner[t]] /\ CallbackGivesUp(t))

FairSpec == Spec /\ Fairness
-----------------------------------------------------------------------------
Callers == Workers \cup Entries

(* For as long as a driver exists or a callback of its query is under way, the
   scheduler guard is held, so that no sibling changes the scheduler before the
   join; and a connection is closed only after the query on it. *)
QueryCovered ==
  \A e \in Entries :
    /\ driver[e] # "none" \/ (\E t \in Callers : phase[t] # "home" /\ owner[t] = e)
         => guard = e
    /\ result[e] \/ driver[e] # "none" => conn[e] \in connected

(* At most one entry uses a connection, and the connection in use is busy. *)
OneQueryPerConnection ==
  \A e \in Entries :
    conn[e] # NoOne =>
      /\ \A f \in Entries : conn[f] = conn[e] => f = e
      /\ conn[e] = connection => connBusy

(* What the runtime, the list or the step of the R thread points to is an
   allocated entry; and back in R, after every error and unwind, the service is
   idle, no entry is left outside the list, and the connection is busy just for
   a listed stream. *)
NothingLeftBehind ==
  /\ \A e \in streams \cup todo \cup ({service, preparing} \ {NoOne}) : live[e]
  /\ rpc \in {"lease", "link", "start", "engine", "executing", "opened", "openfailed", "fetching",
             "fetched", "store", "nextdone", "stop", "settling", "closing", "joining", "destroy",
             "unguard", "free"} => cur \in Entries /\ live[cur]
  /\ rpc = "out" =>
       /\ ~ServiceIsActive /\ service = NoOne /\ preparing = NoOne
       /\ \A e \in Entries : live[e] => e \in streams
       /\ connBusy <=> \E e \in streams : conn[e] = connection

(* The open streams are those of the plan in force: no bridge call meets a
   stream without driver, no SQL call one with a driver, though R code that runs
   inside an operation may ask for another plan; and that code finds the service
   active, so that whatever else it asks of the streams, a release or a refresh
   included, is refused. *)
PlanFitsStreams ==
  /\ \A e \in streams : managed[e] = managedPlan
  /\ RCodeRuns => ServiceIsActive

(* Once the R thread tears a stream down, R runs no callback. *)
NoCallbackInTeardown ==
  [][\A t \in Callers : ran'[t] /\ ~ran[t] => rpc \in {"executing", "fetching"}]_vars

(* Every callback of a managed query belongs to it, so its pump and its stop
   reach it; and a query that R code issues on another connection from such a
   callback, while the stream is still being prepared, does not take its owner. *)
CallsBelong ==
  /\ \A e \in Entries : driver[e] \in {"executing", "fetching"} => bound[e] = e
  /\ RCallbackRuns => \A c \in (Conns \cup {NoOne}) \ {conn[cur]} : Captures(c) = NoOne

(* A finalized handle leaves no open stream behind. *)
HandleCollected ==
  \A e \in Entries : rpc = "out" /\ handle[e] = "finalized" => ~live[e]

(* Tearing a stream down ends, whatever its query does. *)
TeardownEnds ==
  rpc \in {"destroy", "stop", "settling", "closing", "joining", "unguard", "free"} ~> rpc = "out"

(* An interrupted open or fetch returns to R. *)
InterruptReturns ==
  \A e \in Entries :
    rpc \in {"executing", "fetching"} /\ cur = e /\ stopping[e] ~> rpc = "out"
=============================================================================
