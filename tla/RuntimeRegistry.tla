----------------------------- MODULE RuntimeRegistry -----------------------------
(***************************************************************************)
(* The process-wide registry of runtimes (tools/ext/rducks_extension.c and *)
(* rducks_surfaces.c) and the attachments of DBI connections to them       *)
(* (R/connection.R, R/execution_plan.R): LOAD finds or creates the runtime *)
(* of a database by the raw address of its handle, rducks_enable attaches  *)
(* a connection, rducks_release detaches it and, with the last one of a    *)
(* file-backed database, closes the runtime's own connections.             *)
(*                                                                         *)
(* All of it runs on the R thread; what interleaves is garbage collection, *)
(* whose finalizers detach connections between any two steps of a release, *)
(* and databases that are closed and whose addresses are used again.  A    *)
(* token is the number and the generation of an entry.  LOAD is one step:  *)
(* it holds the registration lock.  Its branches that reopen or refresh a  *)
(* ready entry are left out: DuckDB does not enter LOAD again once it      *)
(* succeeded in a database.  QueryStream has what a refresh does to them.  *)
(***************************************************************************)
EXTENDS Naturals, Sequences, FiniteSets

CONSTANTS
  Databases,    (* database instances, each opened at most once            *)
  FileBacked,   (* those with a file                                       *)
  Addresses,    (* raw addresses of database handles                       *)
  NoAddress,
  Conns,        (* DBI connections                                         *)
  DatabaseOf,   (* the database of each                                    *)
  NoConn,
  MaxEntries    (* bound: runtime entries in the process                   *)

ASSUME RegistryAssumption ==
  /\ FileBacked \subseteq Databases /\ NoAddress \notin Addresses /\ NoConn \notin Conns
  /\ DatabaseOf \in [Conns -> Databases] /\ MaxEntries \in Nat

VARIABLES
  db,           (* each database: life, address, how many surfaces its     *)
                (* catalog has, and the entry they are bound to            *)
  conn,         (* each connection: "open", "disconnected" or "collected"  *)
  entries,      (* g_runtime_entries                                       *)
  callables,    (* the tokens with a bridge registered in R                *)
  attached,     (* connection_runtime_tokens                               *)
  anchors,      (* runtime_anchors: pairs of a token and a connection      *)
  providers,    (* the tokens with NNG providers                           *)
  releasing,    (* the rducks_release under way                            *)
  missed        (* the connections whose last rducks_enable was refused    *)
                (* because the runtime had been released                   *)

registryVars == <<db, conn, entries, callables, attached, anchors, providers, releasing, missed>>

(* What LOAD registers, in order: rducks_version, rducks_runtime_token, the
   surfaces of the R thread and of release, and the rest. *)
None == 0
Version == 1
TokenSurface == 2
ThreadSurface == 3
All == 4

NoToken == <<0, 0>>
Idle == [conn |-> NoConn, token |-> NoToken, last |-> FALSE, at |-> "idle"]

RegistryInit ==
  /\ db = [d \in Databases |-> [life |-> "new", addr |-> NoAddress, surfaces |-> None, entry |-> 0]]
  /\ conn = [c \in Conns |-> "open"]
  /\ entries = <<>>
  /\ callables = {}
  /\ attached = [c \in Conns |-> NoToken]
  /\ anchors = {}
  /\ providers = {}
  /\ releasing = Idle
  /\ missed = {}

(*------------------------------- databases ------------------------------*)

(* The handles of open databases differ; a closed one's address is free. *)
Open(d) ==
  /\ db[d].life = "new"
  /\ \E a \in Addresses :
       /\ \A o \in Databases : db[o].life = "open" => db[o].addr # a
       /\ db' = [db EXCEPT ![d].life = "open", ![d].addr = a]
  /\ UNCHANGED <<conn, entries, callables, attached, anchors, providers, releasing, missed>>

Close(d) ==
  /\ db[d].life = "open"
  /\ \A c \in Conns : DatabaseOf[c] = d => conn[c] # "open"
  /\ db' = [db EXCEPT ![d].life = "closed"]
  /\ UNCHANGED <<conn, entries, callables, attached, anchors, providers, releasing, missed>>

Usable(c) == conn[c] = "open" /\ db[DatabaseOf[c]].life = "open"

Disconnect(c) ==
  /\ Usable(c)
  /\ releasing = Idle
  /\ conn' = [conn EXCEPT ![c] = "disconnected"]
  /\ UNCHANGED <<db, entries, callables, attached, anchors, providers, releasing, missed>>

(*--------------------------------- LOAD ---------------------------------*)

(* mutant: a ready entry is trusted without a look at the catalog *)
FoundByAddress(d, i) == entries[i].database = db[d].addr

(* The entry LOAD uses: one at this address that is not ready, or whose
   surfaces the catalog of d has. *)
Found(d, i) ==
  /\ entries[i].database = db[d].addr
  /\ entries[i].ready => db[d].surfaces >= Version

Unaliased(e) == [e EXCEPT !.database = NoAddress, !.ready = FALSE, !.gen = @ + 1]

(* The registry after a ready entry of a database that is gone is detached. *)
WithoutAlias(d) ==
  [i \in DOMAIN entries |->
     IF entries[i].database = db[d].addr /\ ~Found(d, i) THEN Unaliased(entries[i]) ELSE entries[i]]

NewEntry(d) ==
  [database |-> db[d].addr, gen |-> 1, ready |-> FALSE, connected |-> TRUE, home |-> d, busy |-> FALSE]

(* rducks_runtime_get_or_create: the registry it leaves, and the entry of d;
   none when one of the two connections could not be opened. *)
GetOrCreate(d, reg, i) ==
  \/ i \in DOMAIN entries /\ Found(d, i) /\ reg = entries
  \/ /\ \A j \in DOMAIN entries : ~Found(d, j)
     /\ Len(entries) < MaxEntries
     /\ reg = Append(WithoutAlias(d), NewEntry(d)) /\ i = Len(reg)
  \/ /\ \A j \in DOMAIN entries : ~Found(d, j)
     /\ reg = WithoutAlias(d) /\ i = 0

(* LOAD gets as far as n surfaces: reg and d's row after it *)
SurfaceRegistered(d, reg, i, n) ==
  /\ db' = [db EXCEPT ![d].surfaces = IF n > @ THEN n ELSE @,
                      ![d].entry = IF n >= TokenSurface THEN i ELSE @]
  /\ entries' = IF n = All THEN [reg EXCEPT ![i].ready = TRUE] ELSE reg

LoadFails(d) ==
  /\ db[d].life = "open" /\ db[d].surfaces < All
  /\ \E i \in 0 .. MaxEntries, n \in None .. All - 1 :
       \E reg \in {entries, WithoutAlias(d), Append(WithoutAlias(d), NewEntry(d))} :
         /\ GetOrCreate(d, reg, i)
         /\ i = 0 => n = None
         /\ SurfaceRegistered(d, reg, i, n)

LoadSucceeds(d) ==
  /\ db[d].life = "open" /\ db[d].surfaces < All
  /\ \E i \in 1 .. MaxEntries :
       \E reg \in {entries, Append(WithoutAlias(d), NewEntry(d))} :
         GetOrCreate(d, reg, i) /\ SurfaceRegistered(d, reg, i, All)

(* A user's LOAD, or the one of an rducks_enable that fails there. *)
Load(c) ==
  /\ Usable(c) /\ releasing = Idle
  /\ LoadFails(DatabaseOf[c]) \/ LoadSucceeds(DatabaseOf[c])
  /\ UNCHANGED <<conn, callables, attached, anchors, providers, releasing, missed>>

(*----------------------------- rducks_enable ----------------------------*)

(* rducks_runtime_token: what the catalog's function returns *)
CatalogToken(d, reg, row) ==
  IF row[d].surfaces >= TokenSurface THEN <<row[d].entry, reg[row[d].entry].gen>> ELSE NoToken

SqlToken(c) == CatalogToken(DatabaseOf[c], entries, db)

(* The bridge finds a runtime by its token, while its connections are open. *)
Live(token) ==
  /\ token \in callables
  /\ \E i \in DOMAIN entries : token = <<i, entries[i].gen>> /\ entries[i].connected

(* the token rducks_enable and rducks_set_execution_plan check first *)
Checked(c) == IF attached[c] # NoToken THEN attached[c] ELSE SqlToken(c)

(* the statement that sets the token of the R thread registers the bridge *)
WithBridge(c) == callables \cup {SqlToken(c)}

(* rducks_attach_runtime_anchor *)
Attach(c, token) ==
  /\ attached' = [attached EXCEPT ![c] = token]
  /\ anchors' = anchors \cup {<<token, c>>}

EnableFirst(c) ==
  /\ Usable(c) /\ releasing = Idle
  /\ Checked(c) = NoToken
  /\ LoadSucceeds(DatabaseOf[c])
  /\ LET token == CatalogToken(DatabaseOf[c], entries', db') IN
     /\ callables' = callables \cup {token}
     /\ Attach(c, token)
  /\ missed' = missed \ {c}
  /\ UNCHANGED <<conn, providers, releasing>>

(* The preflight, before anything is changed but the bridge. *)
Preflight(c) ==
  /\ Usable(c) /\ releasing = Idle
  /\ Checked(c) # NoToken /\ db[DatabaseOf[c]].surfaces >= ThreadSurface
  /\ callables' = WithBridge(c)

Configurable(token) ==
  \E i \in DOMAIN entries :
    token = <<i, entries[i].gen>> /\ entries[i].connected /\ ~entries[i].busy

(* A connection of a database that is loaded, or was loaded half way. *)
EnableAgain(c) ==
  /\ Preflight(c)
  /\ Checked(c) \in callables' /\ Configurable(Checked(c))
  /\ IF db[DatabaseOf[c]].surfaces = All
     THEN UNCHANGED <<db, entries>>
     ELSE LoadSucceeds(DatabaseOf[c])
  /\ Attach(c, CatalogToken(DatabaseOf[c], entries', db'))
  /\ missed' = missed \ {c}
  /\ UNCHANGED <<conn, providers, releasing>>

(* A stream is open: the scheduler and the plan stay as they are. *)
EnableRefused(c) ==
  /\ Preflight(c)
  /\ \E i \in DOMAIN entries :
       Checked(c) = <<i, entries[i].gen>> /\ entries[i].connected /\ entries[i].busy
  /\ missed' = missed \ {c}
  /\ UNCHANGED <<db, conn, entries, attached, anchors, providers, releasing>>

EnableMisses(c) ==
  /\ Preflight(c)
  /\ \A i \in DOMAIN entries : ~(Checked(c) = <<i, entries[i].gen>> /\ entries[i].connected)
  /\ missed' = missed \cup {c}
  /\ UNCHANGED <<db, conn, entries, attached, anchors, providers, releasing>>

(*------------------------- registration and streams ----------------------*)

(* Registering a function attaches first, whether or not it then succeeds;
   an IPC plan starts a provider for the token, or finds the one there is. *)
Register(c) ==
  /\ Usable(c) /\ releasing = Idle
  /\ SqlToken(c) # NoToken
  /\ Attach(c, SqlToken(c))
  /\ providers' \in {providers, providers \cup {SqlToken(c)}}
  /\ UNCHANGED <<db, conn, entries, callables, releasing, missed>>

(* A stream belongs to the entry, not to the connection that opened it. *)
OpenStream(c) ==
  /\ Usable(c) /\ releasing = Idle
  /\ Live(attached[c]) /\ ~entries[attached[c][1]].busy
  /\ entries' = [entries EXCEPT ![attached[c][1]].busy = TRUE]
  /\ UNCHANGED <<db, conn, callables, attached, anchors, providers, releasing, missed>>

CloseStream(i) ==
  /\ entries[i].busy
  /\ entries' = [entries EXCEPT ![i].busy = FALSE]
  /\ UNCHANGED <<db, conn, callables, attached, anchors, providers, releasing, missed>>

(*----------------------------- rducks_release ---------------------------*)

(* mutant: the last connection leaves the providers *)
CleanupOnly(token, c) ==
  /\ attached' = [attached EXCEPT ![c] = NoToken]
  /\ anchors' = anchors \ {<<token, c>>}
  /\ UNCHANGED providers

(* rducks_cleanup_runtime_anchor *)
Cleanup(token, c) ==
  /\ attached' = [attached EXCEPT ![c] = NoToken]
  /\ anchors' = anchors \ {<<token, c>>}
  /\ providers' = IF \E o \in Conns : <<token, o>> \in anchors' THEN providers ELSE providers \ {token}

(* mutant: the first anchor is taken for the last *)
AnyAnchor(token, c) == <<token, c>> \in anchors

LastAnchor(token, c) == {o \in Conns : <<token, o>> \in anchors} = {c}

(* assert_idle, which fails without a live runtime; and close_all *)
BeginRelease(c) ==
  /\ conn[c] # "collected" /\ releasing = Idle
  /\ Live(attached[c])
  /\ LET last == LastAnchor(attached[c], c) IN
     /\ releasing' = [conn |-> c, token |-> attached[c], last |-> last, at |-> "detach"]
     /\ entries' = IF last THEN [entries EXCEPT ![attached[c][1]].busy = FALSE] ELSE entries
  /\ UNCHANGED <<db, conn, callables, attached, anchors, providers, missed>>

ReleaseDetaches ==
  /\ releasing.at = "detach"
  /\ LET c == releasing.conn IN
     /\ Cleanup(releasing.token, c)
     /\ releasing' = IF releasing.last /\ DatabaseOf[c] \in FileBacked /\ conn[c] = "open"
                     THEN [releasing EXCEPT !.at = "close"] ELSE Idle
  /\ UNCHANGED <<db, conn, entries, callables, missed>>

(* rducks_runtime_release_internal_connections, of the entry of the catalog *)
EntryReleased(e) == [Unaliased(e) EXCEPT !.connected = FALSE, !.busy = FALSE]

ReleaseCloses ==
  /\ releasing.at = "close"
  /\ LET i == db[DatabaseOf[releasing.conn]].entry IN
     entries' = [entries EXCEPT ![i] = EntryReleased(@)]
  /\ releasing' = Idle
  /\ UNCHANGED <<db, conn, callables, attached, anchors, providers, missed>>

(* DuckDB runs the statement on one of its own threads, where the release is
   refused; the error is swallowed. *)
ReleaseElsewhere ==
  /\ releasing.at = "close"
  /\ releasing' = Idle
  /\ UNCHANGED <<db, conn, entries, callables, attached, anchors, providers, missed>>

(* The R object of a connection is collected: duckdb-r disconnects it, and the
   finalizer of its anchor detaches it. *)
Collect(c) ==
  /\ conn[c] # "collected" /\ db[DatabaseOf[c]].life # "new" /\ releasing.conn # c
  /\ conn' = [conn EXCEPT ![c] = "collected"]
  /\ IF attached[c] = NoToken
     THEN UNCHANGED <<attached, anchors, providers>>
     ELSE Cleanup(attached[c], c)
  /\ missed' = missed \ {c}
  /\ UNCHANGED <<db, entries, callables, releasing>>

Done ==
  /\ \A d \in Databases : db[d].life = "closed"
  /\ \A c \in Conns : conn[c] = "collected"
  /\ UNCHANGED registryVars

RegistryNext ==
  \/ \E d \in Databases : Open(d) \/ Close(d)
  \/ \E c \in Conns :
       \/ Disconnect(c) \/ Load(c) \/ EnableFirst(c) \/ EnableAgain(c) \/ EnableRefused(c)
       \/ EnableMisses(c) \/ Register(c) \/ OpenStream(c) \/ BeginRelease(c) \/ Collect(c)
  \/ \E i \in DOMAIN entries : CloseStream(i)
  \/ ReleaseDetaches \/ ReleaseCloses \/ ReleaseElsewhere
  \/ Done

RegistrySpec == RegistryInit /\ [][RegistryNext]_registryVars
-----------------------------------------------------------------------------
(* LOAD gives every open database a runtime whose connections go to that very
   database, although runtimes are found by raw addresses that are used again.
   An entry that its first database left half loaded is excepted: see README. *)
ServesItsDatabase ==
  \A d \in Databases :
    LET i == db[d].entry IN
    db[d].life = "open" /\ i # 0 /\ entries[i].connected
    /\ db[entries[i].home].surfaces = All => entries[i].home = d

(* rducks_release closes a runtime's own connections only once no connection
   is attached to it, whatever finalizers ran since it looked. *)
ReleaseSparesOthers ==
  [][\A i \in DOMAIN entries :
       entries[i].connected /\ ~entries'[i].connected
       => \A c \in Conns : <<<<i, entries[i].gen>>, c>> \notin anchors]_registryVars

(* What R remembers once per connection and once per runtime agrees, and the
   workers of a provider never outlive the last attachment of their runtime,
   whether it was released or collected. *)
AnchorsHold ==
  /\ \A c \in Conns : attached[c] # NoToken => <<attached[c], c>> \in anchors
  /\ \A t \in providers : \E c \in Conns : <<t, c>> \in anchors

(* After rducks_release, rducks_enable(con) may be called again, and for a
   file-backed database a new DBI connection may be enabled. *)
EnableFindsRuntime == \A c \in missed : ~Usable(c)
=============================================================================
