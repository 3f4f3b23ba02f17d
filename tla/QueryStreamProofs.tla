--------------------------- MODULE QueryStreamProofs ---------------------------
(***************************************************************************)
(* Proofs about QueryStream, for any numbers of entries, workers and       *)
(* connections: a query is covered by its guard and its connection for as  *)
(* long as it exists, and the R thread leaves nothing behind.              *)
(***************************************************************************)
EXTENDS QueryStream, TLAPS

(* Where the R thread is: opening or fetching with an entry that it has listed,
   or taking one down. *)
Using  == {"start", "engine", "executing", "opened", "openfailed", "fetching", "fetched", "store",
           "nextdone"}
Making == {"lease", "link"}
Halting == {"stop", "settling", "closing", "joining"}
Ending == Halting \cup {"destroy", "unguard", "free"}
Working == rpc \in Using \cup Making \cup Ending
Elsewhere == {"out", "open", "next", "close", "raise", "unwind", "reply", "exit", "detached",
              "disconnect"}

MainTypes ==
  /\ managedPlan \in BOOLEAN /\ connBusy \in BOOLEAN /\ active \in BOOLEAN
  /\ connection \in Conns \cup {NoOne} /\ retired \in Conns \cup {NoOne} /\ connected \subseteq Conns
  /\ service \in Entries \cup {NoOne} /\ preparing \in Entries \cup {NoOne}
  /\ cur \in Entries \cup {NoOne} /\ streams \subseteq Entries /\ todo \subseteq Entries
  /\ rpc \in Using \cup Making \cup Ending \cup Elsewhere
  /\ via \in {"bridge", "sql", "admin"}

EntryTypes ==
  /\ live \in [Entries -> BOOLEAN] /\ managed \in [Entries -> BOOLEAN]
  /\ busy \in [Entries -> BOOLEAN] /\ result \in [Entries -> BOOLEAN]
  /\ conn \in [Entries -> Conns \cup {NoOne}]
  /\ bound \in [Entries -> Entries \cup {NoOne}]
  /\ stopping \in [Entries -> BOOLEAN]

DriverTypes ==
  /\ driver \in [Entries -> {"none", "waiting", "executing", "fetching", "closing", "exited"}]
  /\ command \in [Entries -> {"NONE", "EXECUTE", "FETCH", "CLOSE"}]
  /\ commandDone \in [Entries -> BOOLEAN]
  /\ phase \in [Callers -> {"home", "asking", "lent", "answered"}]
  /\ owner \in [Callers -> Entries \cup {NoOne}]
  /\ ran \in [Callers -> BOOLEAN]

(* Which entries are allocated: those the list, the R thread or its list of
   detached ones names. *)
Places ==
  /\ rpc \in {"next", "close"} => cur \in Entries
  /\ Working => cur \in Entries /\ live[cur]
  /\ rpc \in Using => cur \in streams
  /\ rpc \in Making \cup {"destroy", "unguard", "free"} => cur \notin streams
  /\ \A e \in streams \cup todo : live[e]
  /\ \A e \in Entries : live[e] =>
       e \in streams \cup todo \/ (Working /\ e = cur) \/ (rpc = "unwind" /\ e = service)
  /\ todo # {} => /\ rpc \in Ending \cup {"detached"} /\ streams = {}
                  /\ Working => cur \notin todo

(* who asked for the work *)
Entrances ==
  /\ active <=> via = "bridge" /\ rpc # "out"
  /\ rpc = "out" => via = "bridge"
  /\ via = "admin" => streams = {} /\ rpc \in Ending \cup {"detached", "disconnect"}
  /\ rpc = "disconnect" => via = "admin"

(* what the runtime names while an entry is worked on *)
Pointers ==
  /\ service # NoOne => /\ service = cur /\ active /\ live[service]
                        /\ rpc \notin {"open", "next", "close", "detached", "disconnect"}
                        /\ rpc \in {"raise", "reply", "exit"} => service \in streams
  /\ active /\ rpc \in Using \cup Making => service = cur
  /\ active /\ rpc \in Halting /\ cur \in streams => service = cur
  /\ preparing # NoOne =>
       /\ preparing = cur
       /\ \/ rpc \in {"start", "executing", "opened", "openfailed"}
          \/ rpc \in Ending /\ cur \notin streams
  /\ rpc = "start" => preparing = cur
  /\ \A e \in Entries : busy[e] => e = cur /\ (Working \/ (rpc = "unwind" /\ service = cur))

Connections ==
  /\ connection # NoOne => connection \in connected /\ (via = "admin" => connection # retired)
  /\ rpc = "open" => connection # NoOne
  /\ \A e \in Entries : conn[e] # NoOne =>
       /\ conn[e] \in connected /\ live[e]
       /\ conn[e] = connection \/ (via = "admin" /\ conn[e] = retired)
  /\ \A e, f \in Entries : conn[e] # NoOne /\ conn[f] = conn[e] => f = e
  /\ connBusy <=> \E e \in Entries : conn[e] # NoOne /\ conn[e] = connection
  /\ \A e \in streams : conn[e] # NoOne /\ conn[e] = connection
  /\ rpc \in Making => conn[cur] # NoOne /\ conn[cur] = connection
  /\ \A e \in Entries : result[e] \/ driver[e] # "none" => conn[e] # NoOne

Plans ==
  /\ \A e \in streams : managed[e] = managedPlan
  /\ rpc \in Making => managed[cur] = managedPlan
  /\ via = "sql" => ~managedPlan
  /\ rpc = "start" => managed[cur]
  /\ rpc = "engine" => ~managed[cur]

Drivers ==
  /\ \A e \in Entries : driver[e] # "none" => managed[e] /\ guard = e
  /\ rpc \in {"link", "start"} /\ managed[cur] => guard = cur
  /\ rpc \in Making \cup {"start", "unguard", "free"} => driver[cur] = "none" /\ ~result[cur]
  /\ \A e \in Entries : driver[e] = "exited" => ~result[e]
  /\ \A e \in Entries : driver[e] # "none" =>
       IF command[e] = "EXECUTE"
       THEN /\ driver[e] = "waiting" /\ ~result[e] /\ ~commandDone[e]
            /\ preparing = e /\ rpc = "executing"
       ELSE bound[e] = e
  /\ rpc \in Halting \ {"stop"} => stopping[cur]

CallsOfDrivers ==
  \A t \in Callers : phase[t] # "home" =>
    /\ owner[t] \in Entries /\ driver[owner[t]] \notin {"none", "exited"}
    /\ t \in Entries => owner[t] = t

StreamTypes == MainTypes /\ EntryTypes /\ DriverTypes
StreamInv ==
  /\ StreamTypes /\ Places /\ Entrances /\ Pointers
  /\ Connections /\ Plans /\ Drivers /\ CallsOfDrivers

(* R code that runs inside an operation is served: a callback runs only while
   the R thread waits for an execute or a fetch, and the entry it works on is
   busy.  So what that code asks of the bridge is refused. *)
Served ==
  /\ rpc \in Making \cup {"start", "engine", "executing", "opened", "fetching", "fetched", "store"}
       => busy[cur]
  /\ \A t \in Callers : ran[t] => phase[t] \in {"lent", "answered"}
  /\ RCallbackRuns => rpc \in {"executing", "fetching"}

USE StreamAssumption DEF Working, Using, Making, Halting, Ending, Elsewhere, Callers,
                         StreamTypes, MainTypes, EntryTypes, DriverTypes

-----------------------------------------------------------------------------
(* The way in.  Nothing begins while an entry is busy. *)

LEMMA BeginOpenInv ==
  ASSUME StreamInv, rpc = "out", NEW v \in {"bridge", "sql"}, BeginOpen(v)
  PROVE  StreamInv'
<1> USE DEF StreamInv, BeginOpen, MayEnter, Enter, ServiceIsActive, runtimeVars, entryVars,
            driverVars, callVars, mainVars
<1>1. StreamTypes'
  OBVIOUS
<1>2. Places' /\ Entrances' /\ Pointers'
  BY DEF Places, Entrances, Pointers
<1>3. Plans' /\ Drivers' /\ CallsOfDrivers'
  BY DEF Plans, Drivers, CallsOfDrivers
<1>4. Connections'
  BY DEF Places, Entrances, Connections
<1> QED BY <1>1, <1>2, <1>3, <1>4

LEMMA BeginNextInv ==
  ASSUME StreamInv, rpc = "out", NEW v \in {"bridge", "sql"}, NEW e \in Entries, BeginNext(v, e)
  PROVE  StreamInv'
<1> USE DEF StreamInv, BeginNext, MayEnter, Enter, ServiceIsActive, runtimeVars, entryVars,
            driverVars, callVars, mainVars
<1>1. StreamTypes'
  OBVIOUS
<1>2. Places' /\ Entrances' /\ Pointers'
  BY DEF Places, Entrances, Pointers
<1>3. Plans' /\ Drivers' /\ CallsOfDrivers'
  BY DEF Plans, Drivers, CallsOfDrivers
<1>4. Connections'
  BY DEF Places, Entrances, Connections
<1> QED BY <1>1, <1>2, <1>3, <1>4

LEMMA BeginCloseInv ==
  ASSUME StreamInv, rpc = "out", NEW v \in {"bridge", "sql"}, NEW e \in Entries, BeginClose(v, e)
  PROVE  StreamInv'
<1> USE DEF StreamInv, BeginClose, MayEnter, Enter, ServiceIsActive, runtimeVars, entryVars,
            driverVars, callVars, mainVars
<1>1. StreamTypes'
  OBVIOUS
<1>2. Places' /\ Pointers'
  BY DEF Places, Pointers
<1>3. Plans' /\ Drivers' /\ CallsOfDrivers'
  BY DEF Plans, Drivers, CallsOfDrivers
<1>4. Entrances'
  BY DEF Places, Entrances, Pointers, Connections, Plans, Drivers, CallsOfDrivers
<1>5. Connections'
  BY DEF Places, Entrances, Connections
<1> QED BY <1>1, <1>2, <1>3, <1>4, <1>5

-----------------------------------------------------------------------------
(* What becomes of a handle touches no entry. *)

LEMMA DropInv ==
  ASSUME StreamInv, NEW e \in Entries, Drop(e)
  PROVE  StreamInv'
<1> USE DEF StreamInv, Drop, runtimeVars, driverVars, callVars, mainVars, runtimeVars, entryVars,
            driverVars, callVars, mainVars
<1>1. StreamTypes'
  OBVIOUS
<1>2. Places' /\ Entrances' /\ Pointers'
  BY DEF Places, Entrances, Pointers
<1>3. Connections' /\ Plans' /\ Drivers' /\ CallsOfDrivers'
  BY DEF Connections, Plans, Drivers, CallsOfDrivers
<1> QED BY <1>1, <1>2, <1>3

LEMMA FinalizeInv ==
  ASSUME StreamInv, rpc = "out", NEW e \in Entries, Finalize(e)
  PROVE  StreamInv'
<1> USE DEF StreamInv, Finalize, MayEnter, Enter, ServiceIsActive, runtimeVars, entryVars,
            driverVars, callVars, mainVars
<1>1. StreamTypes'
  OBVIOUS
<1>2. Places' /\ Pointers'
  BY DEF Places, Pointers
<1>3. Plans' /\ Drivers' /\ CallsOfDrivers'
  BY DEF Plans, Drivers, CallsOfDrivers
<1>4. Entrances'
  BY DEF Places, Entrances, Pointers, Connections, Plans, Drivers, CallsOfDrivers
<1>5. Connections'
  BY DEF Places, Entrances, Connections
<1> QED BY <1>1, <1>2, <1>3, <1>4, <1>5

LEMMA FinalizeRefusedInv ==
  ASSUME StreamInv, NEW e \in Entries, FinalizeRefused(e)
  PROVE  StreamInv'
<1> USE DEF StreamInv, FinalizeRefused, runtimeVars, entryVars, driverVars, callVars, mainVars
<1>1. StreamTypes'
  OBVIOUS
<1>2. Places' /\ Entrances' /\ Pointers'
  BY DEF Places, Entrances, Pointers
<1>3. Connections' /\ Plans' /\ Drivers' /\ CallsOfDrivers'
  BY DEF Connections, Plans, Drivers, CallsOfDrivers
<1> QED BY <1>1, <1>2, <1>3

LEMMA ForgetInv ==
  ASSUME StreamInv, NEW e \in Entries, Forget(e)
  PROVE  StreamInv'
<1> USE DEF StreamInv, Forget, runtimeVars, entryVars, driverVars, callVars, mainVars
<1>1. StreamTypes'
  OBVIOUS
<1>2. Places' /\ Entrances' /\ Pointers'
  BY DEF Places, Entrances, Pointers
<1>3. Connections' /\ Plans' /\ Drivers' /\ CallsOfDrivers'
  BY DEF Connections, Plans, Drivers, CallsOfDrivers
<1> QED BY <1>1, <1>2, <1>3

-----------------------------------------------------------------------------
(* The way out. *)

LEMMA FailInv ==
  ASSUME StreamInv, Fail
  PROVE  StreamInv'
<1> USE DEF StreamInv, Fail, Goto, runtimeVars, entryVars, driverVars, callVars, mainVars
<1>1. StreamTypes'
  OBVIOUS
<1>2. Places' /\ Entrances' /\ Pointers'
  BY DEF Places, Entrances, Pointers
<1>3. Connections' /\ Plans' /\ Drivers' /\ CallsOfDrivers'
  BY DEF Connections, Plans, Drivers, CallsOfDrivers
<1> QED BY <1>1, <1>2, <1>3

LEMMA AnswerInv ==
  ASSUME StreamInv, Answer
  PROVE  StreamInv'
<1> USE DEF StreamInv, Answer, Goto, GotoWith, runtimeVars, entryVars, driverVars, callVars,
            mainVars
<1>1. StreamTypes'
  OBVIOUS
<1>2. Places' /\ Entrances' /\ Pointers'
  BY DEF Places, Entrances, Pointers
<1>3. Connections' /\ Plans' /\ Drivers' /\ CallsOfDrivers'
  BY DEF Connections, Plans, Drivers, CallsOfDrivers
<1> QED BY <1>1, <1>2, <1>3

LEMMA UnwindInv ==
  ASSUME StreamInv, Unwind
  PROVE  StreamInv'
<1> USE DEF StreamInv, Unwind, Goto, runtimeVars, entryVars, driverVars, callVars, mainVars
<1>1. StreamTypes'
  OBVIOUS
<1>2. Entrances' /\ Pointers'
  BY DEF Entrances, Pointers
<1>3. Connections' /\ Plans' /\ Drivers' /\ CallsOfDrivers'
  BY DEF Connections, Plans, Drivers, CallsOfDrivers
<1>4. Places'
  BY DEF Places, Entrances, Pointers
<1> QED BY <1>1, <1>2, <1>3, <1>4

LEMMA ExitInv ==
  ASSUME StreamInv, Exit
  PROVE  StreamInv'
<1> USE DEF StreamInv, Exit, runtimeVars, entryVars, driverVars, callVars, mainVars
<1>1. StreamTypes'
  BY DEF Places, Entrances
<1>2. Places' /\ Entrances'
  BY DEF Places, Entrances
<1>3. Plans' /\ Drivers' /\ CallsOfDrivers'
  BY DEF Plans, Drivers, CallsOfDrivers
<1>4. Pointers'
  BY DEF Places, Entrances, Pointers
<1>5. Connections'
  BY DEF Places, Entrances, Connections
<1> QED BY <1>1, <1>2, <1>3, <1>4, <1>5

-----------------------------------------------------------------------------
(* rducks_query_stream_open_native: a new entry is claimed, leased, linked and run. *)

LEMMA ClaimInv ==
  ASSUME StreamInv, Claim
  PROVE  StreamInv'
<1> USE DEF StreamInv, Claim, GotoWith, ConnectionFree, runtimeVars, entryVars, driverVars,
            callVars, mainVars
<1>1. StreamTypes'
  <2>1. CASE GotoWith("raise", FALSE) /\ UNCHANGED <<connBusy, service, entryVars>>
    BY <2>1
  <2>2. ASSUME NEW e \in Entries,
               live' = [live EXCEPT ![e] = TRUE], managed' = [managed EXCEPT ![e] = managedPlan],
               cur' = e, UNCHANGED <<result, bound, todo, via, retired>>
        PROVE  /\ live' \in [Entries -> BOOLEAN] /\ managed' \in [Entries -> BOOLEAN]
               /\ cur' \in Entries
    BY <2>2
  <2>3. ASSUME NEW e \in Entries, connBusy' = TRUE, conn' = [conn EXCEPT ![e] = connection],
               busy' = [busy EXCEPT ![e] = TRUE], service' \in {e, service}
        PROVE  /\ conn' \in [Entries -> Conns \cup {NoOne}] /\ busy' \in [Entries -> BOOLEAN]
               /\ connBusy' \in BOOLEAN /\ service' \in Entries \cup {NoOne}
    BY <2>3
  <2>4. ASSUME NEW e \in Entries, conn' = [conn EXCEPT ![e] = NoOne],
               busy' = [busy EXCEPT ![e] = FALSE]
        PROVE  conn' \in [Entries -> Conns \cup {NoOne}] /\ busy' \in [Entries -> BOOLEAN]
    BY <2>4
  <2>5. CASE ~(GotoWith("raise", FALSE) /\ UNCHANGED <<connBusy, service, entryVars>>)
    <3>1. /\ live' \in [Entries -> BOOLEAN] /\ managed' \in [Entries -> BOOLEAN]
          /\ cur' \in Entries /\ UNCHANGED <<result, bound, todo, via, retired>>
      BY <2>2, <2>5
    <3>2. /\ conn' \in [Entries -> Conns \cup {NoOne}] /\ busy' \in [Entries -> BOOLEAN]
          /\ connBusy' \in BOOLEAN /\ service' \in Entries \cup {NoOne}
          /\ rpc' \in {"lease", "destroy"}
      BY <2>3, <2>4, <2>5
    <3> QED BY <3>1, <3>2
  <2> QED BY <2>1, <2>5
<1>2. Places' /\ Entrances' /\ Pointers'
  BY DEF Places, Entrances, Pointers
<1>3. Connections' /\ Plans' /\ CallsOfDrivers'
  BY DEF Connections, Plans, CallsOfDrivers
<1>4. Drivers'
  BY DEF Places, Entrances, Pointers, Connections, Plans, Drivers, CallsOfDrivers
<1> QED BY <1>1, <1>2, <1>3, <1>4

LEMMA AcquireLeaseInv ==
  ASSUME StreamInv, AcquireLease
  PROVE  StreamInv'
<1> USE DEF StreamInv, AcquireLease, Goto, GotoWith, runtimeVars, entryVars, driverVars, callVars,
            mainVars
<1>1. StreamTypes'
  <2>1. cur \in Entries /\ stopping' \in {stopping, [stopping EXCEPT ![cur] = FALSE]}
    BY DEF Places
  <2>2. stopping' \in [Entries -> BOOLEAN]
    BY <2>1
  <2> QED BY <2>2
<1>2. Entrances'
  BY DEF Entrances
<1>3. Connections' /\ Plans' /\ Drivers' /\ CallsOfDrivers'
  BY DEF Connections, Plans, Drivers, CallsOfDrivers
<1>4. Places'
  BY DEF Places, Entrances, Pointers, Connections, Plans, Drivers, CallsOfDrivers
<1>5. Pointers'
  BY DEF Places, Entrances, Pointers, Connections, Plans, Drivers, CallsOfDrivers
<1> QED BY <1>1, <1>2, <1>3, <1>4, <1>5

LEMMA LinkInv ==
  ASSUME StreamInv, Link
  PROVE  StreamInv'
<1> USE DEF StreamInv, Link, Goto, runtimeVars, entryVars, driverVars, callVars, mainVars
<1>1. StreamTypes'
  BY DEF Places, Entrances
<1>2. Places' /\ Entrances' /\ Pointers'
  BY DEF Places, Entrances, Pointers
<1>3. Connections' /\ Plans' /\ Drivers' /\ CallsOfDrivers'
  BY DEF Connections, Plans, Drivers, CallsOfDrivers
<1> QED BY <1>1, <1>2, <1>3

LEMMA StartDriverInv ==
  ASSUME StreamInv, StartDriver
  PROVE  StreamInv'
<1> USE DEF StreamInv, StartDriver, Goto, GotoWith, Send, runtimeVars, entryVars, driverVars,
            callVars, mainVars
<1>1. StreamTypes'
  <2>1. cur \in Entries
    BY DEF Places
  <2>2. /\ driver' \in {driver, [driver EXCEPT ![cur] = "waiting"]}
        /\ command' \in {command, [command EXCEPT ![cur] = "EXECUTE"]}
        /\ commandDone' \in {commandDone, [commandDone EXCEPT ![cur] = FALSE]}
    OBVIOUS
  <2>3. DriverTypes'
    BY <2>1, <2>2
  <2> QED BY <2>3
<1>2. Places' /\ Entrances' /\ Pointers'
  BY DEF Places, Entrances, Pointers
<1>3. Plans' /\ CallsOfDrivers'
  BY DEF Plans, CallsOfDrivers
<1>4. Connections'
  BY DEF Places, Entrances, Connections
<1>5. Drivers'
  BY DEF Places, Entrances, Pointers, Connections, Plans, Drivers, CallsOfDrivers
<1> QED BY <1>1, <1>2, <1>3, <1>4, <1>5

LEMMA ExecuteHereInv ==
  ASSUME StreamInv, ExecuteHere
  PROVE  StreamInv'
<1> USE DEF StreamInv, ExecuteHere, GotoWith, runtimeVars, entryVars, driverVars, callVars,
            mainVars
<1>1. StreamTypes'
  BY DEF Places, Entrances
<1>2. Places' /\ Entrances' /\ Pointers'
  BY DEF Places, Entrances, Pointers
<1>3. Plans' /\ CallsOfDrivers'
  BY DEF Plans, CallsOfDrivers
<1>4. Connections'
  BY DEF Places, Entrances, Connections
<1>5. Drivers'
  BY DEF Places, Entrances, Pointers, Connections, Plans, Drivers, CallsOfDrivers
<1> QED BY <1>1, <1>2, <1>3, <1>4, <1>5

LEMMA OpenedInv ==
  ASSUME StreamInv, Opened
  PROVE  StreamInv'
<1> USE DEF StreamInv, Opened, GotoWith, runtimeVars, entryVars, driverVars, callVars, mainVars
<1>1. StreamTypes'
  BY DEF Places, Entrances
<1>2. Places' /\ Entrances'
  BY DEF Places, Entrances
<1>3. Connections' /\ Plans' /\ Drivers' /\ CallsOfDrivers'
  BY DEF Connections, Plans, Drivers, CallsOfDrivers
<1>4. Pointers'
  BY DEF Places, Entrances, Pointers
<1> QED BY <1>1, <1>2, <1>3, <1>4

LEMMA OpenFailedInv ==
  ASSUME StreamInv, OpenFailed
  PROVE  StreamInv'
<1> USE DEF StreamInv, OpenFailed, Goto, runtimeVars, entryVars, driverVars, callVars, mainVars
<1>1. StreamTypes'
  OBVIOUS
<1>2. Places' /\ Entrances' /\ Pointers'
  BY DEF Places, Entrances, Pointers
<1>3. Connections' /\ Plans' /\ Drivers' /\ CallsOfDrivers'
  BY DEF Connections, Plans, Drivers, CallsOfDrivers
<1> QED BY <1>1, <1>2, <1>3

-----------------------------------------------------------------------------
(* rducks_query_stream_next_native and _close_native. *)

LEMMA FetchInv ==
  ASSUME StreamInv, Fetch
  PROVE  StreamInv'
<1> USE DEF StreamInv, Fetch, Goto, GotoWith, Send, runtimeVars, entryVars, driverVars, callVars,
            mainVars
<1>1. StreamTypes'
  <2>1. cur \in Entries
    BY DEF Places
  <2>2. /\ busy' \in {busy, [busy EXCEPT ![cur] = TRUE]} /\ driver' = driver
        /\ command' \in {command, [command EXCEPT ![cur] = "FETCH"]}
        /\ commandDone' \in {commandDone, [commandDone EXCEPT ![cur] = FALSE]}
    OBVIOUS
  <2>3. DriverTypes' /\ busy' \in [Entries -> BOOLEAN]
    BY <2>1, <2>2
  <2> QED BY <2>1, <2>3
<1>2. Places' /\ Entrances'
  BY DEF Places, Entrances
<1>3. Connections' /\ Plans' /\ Drivers' /\ CallsOfDrivers'
  BY DEF Connections, Plans, Drivers, CallsOfDrivers
<1>4. Pointers'
  BY DEF Places, Entrances, Pointers
<1> QED BY <1>1, <1>2, <1>3, <1>4

LEMMA FetchHereInv ==
  ASSUME StreamInv, FetchHere
  PROVE  StreamInv'
<1> USE DEF StreamInv, FetchHere, GotoWith, Fetches, runtimeVars, entryVars, driverVars, callVars,
            mainVars
<1>1. StreamTypes'
  OBVIOUS
<1>2. Places' /\ Entrances' /\ Pointers'
  BY DEF Places, Entrances, Pointers
<1>3. Connections' /\ Plans' /\ Drivers' /\ CallsOfDrivers'
  BY DEF Connections, Plans, Drivers, CallsOfDrivers
<1> QED BY <1>1, <1>2, <1>3

LEMMA FetchedInv ==
  ASSUME StreamInv, Fetched
  PROVE  StreamInv'
<1> USE DEF StreamInv, Fetched, Goto, runtimeVars, entryVars, driverVars, callVars, mainVars
<1>1. StreamTypes'
  OBVIOUS
<1>2. Places' /\ Entrances' /\ Pointers'
  BY DEF Places, Entrances, Pointers
<1>3. Connections' /\ Plans' /\ Drivers' /\ CallsOfDrivers'
  BY DEF Connections, Plans, Drivers, CallsOfDrivers
<1> QED BY <1>1, <1>2, <1>3

LEMMA StoreInv ==
  ASSUME StreamInv, Store
  PROVE  StreamInv'
<1> USE DEF StreamInv, Store, Goto, GotoWith, runtimeVars, entryVars, driverVars, callVars,
            mainVars
<1>1. StreamTypes'
  OBVIOUS
<1>2. Places' /\ Entrances'
  BY DEF Places, Entrances
<1>3. Connections' /\ Plans' /\ Drivers' /\ CallsOfDrivers'
  BY DEF Connections, Plans, Drivers, CallsOfDrivers
<1>4. Pointers'
  BY DEF Places, Entrances, Pointers
<1> QED BY <1>1, <1>2, <1>3, <1>4

LEMMA NextDoneInv ==
  ASSUME StreamInv, NextDone
  PROVE  StreamInv'
<1> USE DEF StreamInv, NextDone, Goto, runtimeVars, entryVars, driverVars, callVars, mainVars
<1>1. StreamTypes'
  BY DEF Places, Entrances
<1>2. Places' /\ Entrances'
  BY DEF Places, Entrances
<1>3. Connections' /\ Plans' /\ Drivers' /\ CallsOfDrivers'
  BY DEF Connections, Plans, Drivers, CallsOfDrivers
<1>4. Pointers'
  BY DEF Places, Entrances, Pointers
<1> QED BY <1>1, <1>2, <1>3, <1>4

LEMMA CloseInv ==
  ASSUME StreamInv, Close
  PROVE  StreamInv'
<1> USE DEF StreamInv, Close, Goto, GotoWith, runtimeVars, entryVars, driverVars, callVars,
            mainVars
<1>1. StreamTypes'
  OBVIOUS
<1>2. Places' /\ Entrances' /\ Pointers'
  BY DEF Places, Entrances, Pointers
<1>3. Connections' /\ Plans' /\ Drivers' /\ CallsOfDrivers'
  BY DEF Connections, Plans, Drivers, CallsOfDrivers
<1> QED BY <1>1, <1>2, <1>3

-----------------------------------------------------------------------------
(* Waiting for the driver, and stopping it. *)

LEMMA CommandOverInv ==
  ASSUME StreamInv, CommandOver
  PROVE  StreamInv'
<1> USE DEF StreamInv, CommandOver, CommandDone, After, GotoWith, runtimeVars, entryVars,
            driverVars, callVars, mainVars
<1>1. StreamTypes'
  OBVIOUS
<1>2. Places' /\ Entrances' /\ Pointers'
  BY DEF Places, Entrances, Pointers
<1>3. Connections' /\ Plans' /\ CallsOfDrivers'
  BY DEF Connections, Plans, CallsOfDrivers
<1>4. Drivers'
  BY DEF Places, Entrances, Pointers, Drivers
<1> QED BY <1>1, <1>2, <1>3, <1>4

LEMMA StopOverInv ==
  ASSUME StreamInv, StopOver
  PROVE  StreamInv'
<1> USE DEF StreamInv, StopOver, CommandDone, Goto, Send, runtimeVars, entryVars, driverVars,
            callVars, mainVars
<1>1. StreamTypes'
  <2>1. cur \in Entries
    BY DEF Places
  <2>2. /\ command' \in {command, [command EXCEPT ![cur] = "CLOSE"]} /\ driver' = driver
        /\ commandDone' \in {commandDone, [commandDone EXCEPT ![cur] = FALSE]}
    OBVIOUS
  <2>3. DriverTypes'
    BY <2>1, <2>2
  <2> QED BY <2>3
<1>2. Places' /\ Entrances' /\ Pointers'
  BY DEF Places, Entrances, Pointers
<1>3. Connections' /\ Plans' /\ Drivers' /\ CallsOfDrivers'
  BY DEF Connections, Plans, Drivers, CallsOfDrivers
<1> QED BY <1>1, <1>2, <1>3

LEMMA StopDriverInv ==
  ASSUME StreamInv, StopDriver
  PROVE  StreamInv'
<1> USE DEF StreamInv, StopDriver, Goto, Lease!Stop, runtimeVars, entryVars, driverVars, callVars,
            mainVars
<1>1. StreamTypes'
  <2>1. cur \in Entries /\ stopping' \in {stopping, [stopping EXCEPT ![cur] = TRUE]}
    BY DEF Places
  <2>2. stopping' \in [Entries -> BOOLEAN]
    BY <2>1
  <2> QED BY <2>2
<1>2. Places' /\ Entrances' /\ Pointers'
  BY DEF Places, Entrances, Pointers
<1>3. Connections' /\ Plans' /\ CallsOfDrivers'
  BY DEF Connections, Plans, CallsOfDrivers
<1>4. Drivers'
  BY DEF Places, Entrances, Drivers
<1> QED BY <1>1, <1>2, <1>3, <1>4

LEMMA JoinDriverInv ==
  ASSUME StreamInv, JoinDriver
  PROVE  StreamInv'
<1> USE DEF StreamInv, JoinDriver, Goto, runtimeVars, entryVars, driverVars, callVars, mainVars
<1>1. StreamTypes'
  BY DEF Places, Entrances
<1>2. Places' /\ Entrances' /\ Pointers'
  BY DEF Places, Entrances, Pointers
<1>3. Connections' /\ Plans' /\ CallsOfDrivers'
  BY DEF Connections, Plans, CallsOfDrivers
<1>4. Drivers'
  BY DEF Places, Entrances, Drivers
<1> QED BY <1>1, <1>2, <1>3, <1>4

-----------------------------------------------------------------------------
(* rducks_query_stream_entry_destroy. *)

LEMMA DestroyInv ==
  ASSUME StreamInv, Destroy
  PROVE  StreamInv'
<1> USE DEF StreamInv, Destroy, Goto, runtimeVars, entryVars, driverVars, callVars, mainVars
<1>1. StreamTypes'
  <2>1. cur \in Entries /\ result' \in {result, [result EXCEPT ![cur] = FALSE]}
    BY DEF Places
  <2>2. result' \in [Entries -> BOOLEAN]
    BY <2>1
  <2> QED BY <2>2
<1>2. Places' /\ Entrances'
  BY DEF Places, Entrances
<1>3. Connections' /\ Plans' /\ CallsOfDrivers'
  BY DEF Connections, Plans, CallsOfDrivers
<1>4. Pointers'
  BY DEF Places, Entrances, Pointers
<1>5. Drivers'
  BY DEF Places, Entrances, Drivers
<1> QED BY <1>1, <1>2, <1>3, <1>4, <1>5

LEMMA UnguardInv ==
  ASSUME StreamInv, Unguard
  PROVE  StreamInv'
<1> USE DEF StreamInv, Unguard, Goto, GotoWith, runtimeVars, entryVars, driverVars, callVars,
            mainVars
<1>1. StreamTypes'
  OBVIOUS
<1>2. Places' /\ Entrances' /\ Pointers'
  BY DEF Places, Entrances, Pointers
<1>3. Connections' /\ Plans' /\ Drivers' /\ CallsOfDrivers'
  BY DEF Connections, Plans, Drivers, CallsOfDrivers
<1> QED BY <1>1, <1>2, <1>3

LEMMA FreeInv ==
  ASSUME StreamInv, Free
  PROVE  StreamInv'
<1> USE DEF StreamInv, Free, Goto, Except, GivesBack, runtimeVars, entryVars, driverVars,
            callVars, mainVars
<1>1. StreamTypes'
  BY DEF Places, Entrances
<1>2. Places' /\ Entrances' /\ Pointers'
  BY DEF Places, Entrances, Pointers
<1>3. Drivers' /\ CallsOfDrivers'
  BY DEF Drivers, CallsOfDrivers
<1>4. Connections'
  BY DEF Places, Entrances, Pointers, Connections, Plans, Drivers, CallsOfDrivers
<1>5. Plans'
  <2>1. cur \in Entries /\ cur \notin streams
    BY DEF Places
  <2>2. \A e \in streams : managed'[e] = managed[e]
    BY <2>1
  <2> QED BY <2>1, <2>2 DEF Plans
<1> QED BY <1>1, <1>2, <1>3, <1>4, <1>5

LEMMA DetachedInv ==
  ASSUME StreamInv, DestroyDetached
  PROVE  StreamInv'
<1> USE DEF StreamInv, DestroyDetached, Goto, runtimeVars, entryVars, driverVars, callVars, mainVars
<1>1. StreamTypes'
  OBVIOUS
<1>2. Places' /\ Entrances' /\ Pointers'
  BY DEF Places, Entrances, Pointers
<1>3. Connections' /\ Plans' /\ Drivers' /\ CallsOfDrivers'
  BY DEF Connections, Plans, Drivers, CallsOfDrivers
<1> QED BY <1>1, <1>2, <1>3

LEMMA DisconnectInv ==
  ASSUME StreamInv, Disconnect
  PROVE  StreamInv'
<1> USE DEF StreamInv, Disconnect, runtimeVars, entryVars, driverVars, callVars, mainVars
<1>1. StreamTypes'
  OBVIOUS
<1>2. Places' /\ Entrances' /\ Pointers'
  BY DEF Places, Entrances, Pointers
<1>3. Plans' /\ Drivers' /\ CallsOfDrivers'
  BY DEF Plans, Drivers, CallsOfDrivers
<1>4. Connections'
  BY DEF Places, Entrances, Connections
<1> QED BY <1>1, <1>2, <1>3, <1>4

-----------------------------------------------------------------------------
(* The runtime's administration. *)

LEMMA CloseAllInv ==
  ASSUME StreamInv, rpc = "out", CloseAll
  PROVE  StreamInv'
<1> USE DEF StreamInv, CloseAll, MayEnter, ServiceIsActive, runtimeVars, entryVars, driverVars,
            callVars, mainVars
<1>1. StreamTypes'
  OBVIOUS
<1>2. Places' /\ Entrances' /\ Pointers'
  BY DEF Places, Entrances, Pointers
<1>3. Plans' /\ Drivers' /\ CallsOfDrivers'
  BY DEF Plans, Drivers, CallsOfDrivers
<1>4. Connections'
  BY DEF Places, Entrances, Connections
<1> QED BY <1>1, <1>2, <1>3, <1>4

LEMMA RetireInv ==
  ASSUME StreamInv, rpc = "out", NEW c \in (Conns \ connected) \cup {NoOne}, Retire(c)
  PROVE  StreamInv'
<1> USE DEF StreamInv, Retire, ServiceIsActive, runtimeVars, entryVars, driverVars, callVars,
            mainVars
<1>1. StreamTypes'
  BY DEF Places, Entrances
<1>2. Places' /\ Entrances' /\ Pointers'
  BY DEF Places, Entrances, Pointers
<1>3. Plans' /\ Drivers' /\ CallsOfDrivers'
  BY DEF Plans, Drivers, CallsOfDrivers
<1>4. Connections'
  BY DEF Places, Entrances, Connections
<1> QED BY <1>1, <1>2, <1>3, <1>4

LEMMA SetPlanInv ==
  ASSUME StreamInv, NEW p \in BOOLEAN, SetPlan(p)
  PROVE  StreamInv'
<1> USE DEF StreamInv, SetPlan, PlanFree, runtimeVars, entryVars, driverVars, callVars, mainVars
<1>1. StreamTypes'
  OBVIOUS
<1>2. Places' /\ Entrances' /\ Pointers'
  BY DEF Places, Entrances, Pointers
<1>3. Connections' /\ Drivers' /\ CallsOfDrivers'
  BY DEF Connections, Drivers, CallsOfDrivers
<1>4. streams = {} /\ rpc \notin Making
  <2>1. \A e \in Entries : conn[e] # NoOne => conn[e] # connection
    BY DEF Connections
  <2>2. streams = {}
    BY <2>1 DEF Connections
  <2>3. rpc \notin Making
    BY <2>1 DEF Connections, Places
  <2> QED BY <2>2, <2>3
<1>5. via # "sql"
  <2>1. CASE rpc = "out"
    BY <2>1 DEF Entrances
  <2>2. ~RCallbackRuns \/ via # "sql"
    BY DEF RCallbackRuns, CallsOfDrivers, Connections
  <2>3. rpc \notin {"store", "engine"}
    BY <1>4 DEF Places
  <2> QED BY <2>1, <2>2, <2>3 DEF RMayCall, RCodeRuns
<1>6. Plans'
  BY <1>4, <1>5 DEF Places, Plans
<1> QED BY <1>1, <1>2, <1>3, <1>6

-----------------------------------------------------------------------------
(* The driver thread and the callbacks. *)

LEMMA InterruptInv ==
  ASSUME StreamInv, Interrupt
  PROVE  StreamInv'
<1> USE DEF StreamInv, Interrupt, Lease!Stop, runtimeVars, entryVars, driverVars, callVars,
            mainVars
<1>1. StreamTypes'
  BY DEF Places, Entrances
<1>2. Places' /\ Entrances' /\ Pointers'
  BY DEF Places, Entrances, Pointers
<1>3. Connections' /\ Plans' /\ Drivers' /\ CallsOfDrivers'
  BY DEF Connections, Plans, Drivers, CallsOfDrivers
<1> QED BY <1>1, <1>2, <1>3

LEMMA TakeInv ==
  ASSUME StreamInv, NEW e \in Entries, Take(e)
  PROVE  StreamInv'
<1> USE DEF StreamInv, Take, Captures, runtimeVars, entryVars, driverVars, callVars, mainVars
<1>1. StreamTypes'
  OBVIOUS
<1>2. Places' /\ Entrances' /\ Pointers'
  BY DEF Places, Entrances, Pointers
<1>3. Connections' /\ Plans' /\ Drivers' /\ CallsOfDrivers'
  BY DEF Connections, Plans, Drivers, CallsOfDrivers
<1> QED BY <1>1, <1>2, <1>3

LEMMA ExecutedInv ==
  ASSUME StreamInv, NEW e \in Entries, Executed(e)
  PROVE  StreamInv'
<1> USE DEF StreamInv, Executed, Finish, runtimeVars, entryVars, driverVars, callVars, mainVars
<1>1. StreamTypes'
  OBVIOUS
<1>2. Places' /\ Entrances' /\ Pointers'
  BY DEF Places, Entrances, Pointers
<1>3. Connections' /\ Plans' /\ CallsOfDrivers'
  BY DEF Connections, Plans, CallsOfDrivers
<1>4. Drivers'
  BY DEF Places, Entrances, Pointers, Connections, Plans, Drivers, CallsOfDrivers
<1> QED BY <1>1, <1>2, <1>3, <1>4

LEMMA DriverFetchedInv ==
  ASSUME StreamInv, NEW e \in Entries, DriverFetched(e)
  PROVE  StreamInv'
<1> USE DEF StreamInv, DriverFetched, Finish, Fetches, runtimeVars, entryVars, driverVars,
            callVars, mainVars
<1>1. StreamTypes'
  OBVIOUS
<1>2. Places' /\ Entrances' /\ Pointers'
  BY DEF Places, Entrances, Pointers
<1>3. Connections' /\ Plans' /\ CallsOfDrivers'
  BY DEF Connections, Plans, CallsOfDrivers
<1>4. Drivers'
  BY DEF Places, Entrances, Pointers, Connections, Plans, Drivers, CallsOfDrivers
<1> QED BY <1>1, <1>2, <1>3, <1>4

LEMMA ClosedInv ==
  ASSUME StreamInv, NEW e \in Entries, Closed(e)
  PROVE  StreamInv'
<1> USE DEF StreamInv, Closed, Finish, runtimeVars, entryVars, driverVars, callVars, mainVars
<1>1. StreamTypes'
  OBVIOUS
<1>2. Places' /\ Entrances' /\ Pointers'
  BY DEF Places, Entrances, Pointers
<1>3. Connections' /\ Plans' /\ Drivers'
  BY DEF Connections, Plans, Drivers
<1>4. CallsOfDrivers'
  BY DEF Places, Entrances, Pointers, Connections, Plans, Drivers, CallsOfDrivers
<1> QED BY <1>1, <1>2, <1>3, <1>4

LEMMA CallbackInv ==
  ASSUME StreamInv, NEW t \in Callers, Callback(t)
  PROVE  StreamInv'
<1> USE DEF StreamInv, Callback, Lease!Ask, runtimeVars, entryVars, driverVars, callVars, mainVars
<1>1. StreamTypes'
  OBVIOUS
<1>2. Places' /\ Entrances' /\ Pointers'
  BY DEF Places, Entrances, Pointers
<1>3. Connections' /\ Plans' /\ Drivers'
  BY DEF Connections, Plans, Drivers
<1>4. CallsOfDrivers'
  BY DEF Places, Entrances, Pointers, Connections, Plans, Drivers, CallsOfDrivers
<1> QED BY <1>1, <1>2, <1>3, <1>4

LEMMA CallbackGivesUpInv ==
  ASSUME StreamInv, NEW t \in Callers, CallbackGivesUp(t)
  PROVE  StreamInv'
<1> USE DEF StreamInv, CallbackGivesUp, Lease!GiveUp, Lease!GoHome, runtimeVars, entryVars,
            driverVars, callVars, mainVars
<1>1. StreamTypes'
  OBVIOUS
<1>2. Places' /\ Entrances' /\ Pointers'
  BY DEF Places, Entrances, Pointers
<1>3. Connections' /\ Plans' /\ Drivers' /\ CallsOfDrivers'
  BY DEF Connections, Plans, Drivers, CallsOfDrivers
<1> QED BY <1>1, <1>2, <1>3

LEMMA CallbackReturnsInv ==
  ASSUME StreamInv, NEW t \in Callers, CallbackReturns(t)
  PROVE  StreamInv'
<1> USE DEF StreamInv, CallbackReturns, Lease!Return, Lease!GoHome, runtimeVars, entryVars,
            driverVars, callVars, mainVars
<1>1. StreamTypes'
  OBVIOUS
<1>2. Places' /\ Entrances' /\ Pointers'
  BY DEF Places, Entrances, Pointers
<1>3. Connections' /\ Plans' /\ Drivers' /\ CallsOfDrivers'
  BY DEF Connections, Plans, Drivers, CallsOfDrivers
<1> QED BY <1>1, <1>2, <1>3

LEMMA PumpStepInv ==
  ASSUME StreamInv, NEW t \in Callers, PumpStep(t)
  PROVE  StreamInv'
<1> USE DEF StreamInv, PumpStep, DriverWait, Lease!Lend, Lease!Run, Lease!Reply, runtimeVars,
            entryVars, driverVars, callVars, mainVars
<1>1. StreamTypes'
  BY DEF Places, Entrances
<1>2. Places' /\ Entrances' /\ Pointers'
  BY DEF Places, Entrances, Pointers
<1>3. Connections' /\ Plans' /\ Drivers' /\ CallsOfDrivers'
  BY DEF Connections, Plans, Drivers, CallsOfDrivers
<1> QED BY <1>1, <1>2, <1>3

-----------------------------------------------------------------------------
(* Every step keeps the invariant. *)
LEMMA InitInv == Init => StreamInv
<1> SUFFICES ASSUME Init PROVE StreamInv
  OBVIOUS
<1>1. StreamTypes
  BY DEF Init, Lease!LeaseInit
<1>2. Places /\ Entrances /\ Pointers
  BY DEF Init, Places, Entrances, Pointers
<1>3. Connections /\ Plans /\ Drivers
  BY DEF Init, Connections, Plans, Drivers
<1>4. CallsOfDrivers
  BY DEF Init, Lease!LeaseInit, CallsOfDrivers
<1> QED BY <1>1, <1>2, <1>3, <1>4 DEF StreamInv

LEMMA StutterInv ==
  ASSUME StreamInv, UNCHANGED vars
  PROVE  StreamInv'
<1> USE DEF StreamInv, vars, runtimeVars, entryVars, driverVars, callVars, mainVars
<1>1. StreamTypes'
  OBVIOUS
<1>2. Places' /\ Entrances' /\ Pointers'
  BY DEF Places, Entrances, Pointers
<1>3. Connections' /\ Plans' /\ Drivers' /\ CallsOfDrivers'
  BY DEF Connections, Plans, Drivers, CallsOfDrivers
<1> QED BY <1>1, <1>2, <1>3

(* What R code that an operation runs asks of the streams is refused. *)
LEMMA CodeIsServed ==
  ASSUME StreamInv, Served, RCodeRuns
  PROVE  ServiceIsActive
<1>1. CASE rpc = "open" /\ via = "bridge"
  BY <1>1 DEF StreamInv, Entrances, ServiceIsActive
<1>2. CASE rpc \in {"executing", "fetching", "store", "engine"}
  BY <1>2 DEF StreamInv, Places, Served, ServiceIsActive
<1> QED BY <1>1, <1>2 DEF RCodeRuns, Served

LEMMA EntersFromOutside ==
  ASSUME StreamInv, Served, RMayCall, ~ServiceIsActive
  PROVE  rpc = "out"
<1> QED BY CodeIsServed DEF RMayCall

LEMMA NextInv ==
  ASSUME StreamInv, Served, [Next]_vars
  PROVE  StreamInv'
<1> HIDE DEF StreamTypes, Callers
<1>0. RMayCall /\ ~ServiceIsActive => rpc = "out"
  BY EntersFromOutside
<1>1. CASE MainStep
  BY <1>1, FailInv, AnswerInv, UnwindInv, ExitInv, ClaimInv, AcquireLeaseInv, LinkInv,
     StartDriverInv, ExecuteHereInv, OpenedInv, OpenFailedInv, FetchInv, FetchHereInv, FetchedInv,
     StoreInv, NextDoneInv, CloseInv, StopDriverInv, JoinDriverInv, DestroyInv, UnguardInv,
     FreeInv, DetachedInv, DisconnectInv DEF MainStep
<1>2. CASE UserStep
  <2>1. ASSUME NEW v \in {"bridge", "sql"},
               BeginOpen(v) \/ \E e \in Entries : BeginNext(v, e) \/ BeginClose(v, e)
        PROVE  StreamInv'
    BY <1>0, <2>1, BeginOpenInv, BeginNextInv, BeginCloseInv
       DEF BeginOpen, BeginNext, BeginClose, MayEnter
  <2>2. ASSUME NEW e \in Entries, Finalize(e)
        PROVE  StreamInv'
    BY <1>0, <2>2, FinalizeInv DEF Finalize, MayEnter
  <2>3. CASE CloseAll
    BY <1>0, <2>3, CloseAllInv DEF CloseAll, MayEnter
  <2>4. ASSUME NEW c \in (Conns \ connected) \cup {NoOne}, Retire(c)
        PROVE  StreamInv'
    BY <1>0, <2>4, RetireInv DEF Retire
  <2> QED BY <1>2, <2>1, <2>2, <2>3, <2>4, DropInv, FinalizeRefusedInv, ForgetInv, SetPlanInv
          DEF UserStep
<1>3. ASSUME NEW e \in Entries, DriverStep(e)
      PROVE  StreamInv'
  BY <1>3, TakeInv, ExecutedInv, DriverFetchedInv, ClosedInv DEF DriverStep
<1>4. ASSUME NEW t \in Callers, CallbackStep(t)
      PROVE  StreamInv'
  BY <1>4, CallbackInv, CallbackGivesUpInv, CallbackReturnsInv, PumpStepInv DEF CallbackStep
<1> QED BY <1>1, <1>2, <1>3, <1>4, CommandOverInv, StopOverInv, InterruptInv, StutterInv
        DEF Next, Callers

(* Only the pump runs a callback, and it no longer does so once the query is
   being stopped. *)
LEMMA RunsWhilePumping ==
  StreamInv /\ [Next]_vars =>
    [\A t \in Callers : ran'[t] /\ ~ran[t] => rpc \in {"executing", "fetching"}]_vars
<1> SUFFICES ASSUME StreamInv, Next, NEW t \in Callers, ran'[t], ~ran[t]
             PROVE  rpc \in {"executing", "fetching"}
  OBVIOUS
<1>1. ASSUME NEW u \in Callers, PumpStep(u)
      PROVE  rpc \in {"executing", "fetching"}
  <2>1. CASE \E good \in BOOLEAN : Lease!Run({u}, cur, good)
    <3>1. DriverWait /\ ~stopping[cur]
      <4>1. DriverWait /\ (cur # NoOne => ~stopping[cur])
        BY <1>1, <2>1 DEF PumpStep, Lease!Run
      <4>2. cur \in Entries
        BY <4>1 DEF DriverWait, StreamInv, Places
      <4> QED BY <4>1, <4>2
    <3> QED BY <3>1 DEF DriverWait, StreamInv, Drivers
  <2>2. CASE ~\E good \in BOOLEAN : Lease!Run({u}, cur, good)
    BY <1>1, <2>2 DEF PumpStep, Lease!Lend, Lease!Reply
  <2> QED BY <2>1, <2>2
<1>2. ASSUME NEW u \in Callers, CallbackGivesUp(u) \/ CallbackReturns(u)
      PROVE  FALSE
  <2>1. ran' = [ran EXCEPT ![u] = FALSE]
    BY <1>2 DEF CallbackGivesUp, CallbackReturns, Lease!GiveUp, Lease!Return, Lease!GoHome
  <2> QED BY <2>1 DEF StreamInv
<1>3. CASE MainStep
  BY <1>3 DEF MainStep, Fail, Answer, Unwind, Exit, Claim, AcquireLease, Link, StartDriver,
     ExecuteHere, Opened, OpenFailed, Fetch, FetchHere, Fetched, Store, NextDone, Close, StopDriver,
     JoinDriver, Destroy, Unguard, Free, DestroyDetached, Disconnect, Lease!Stop, callVars
<1>4. CASE UserStep
  BY <1>4 DEF UserStep, BeginOpen, BeginNext, BeginClose, Drop, Finalize, FinalizeRefused, Forget,
     CloseAll, Retire, SetPlan, callVars
<1>5. CASE CommandOver \/ StopOver \/ Interrupt
  BY <1>5 DEF CommandOver, StopOver, CommandDone, Interrupt, Lease!Stop, callVars
<1>6. ASSUME NEW e \in Entries, DriverStep(e)
      PROVE  FALSE
  BY <1>6 DEF DriverStep, Take, Executed, DriverFetched, Closed, callVars
<1>7. ASSUME NEW u \in Callers, Callback(u)
      PROVE  FALSE
  BY <1>7 DEF Callback, Lease!Ask
<1> QED BY <1>1, <1>2, <1>3, <1>4, <1>5, <1>6, <1>7 DEF Next, CallbackStep

LEMMA ServedInit == Init => Served
<1> QED BY DEF Init, Lease!LeaseInit, Served, RCallbackRuns

LEMMA ServedNext ==
  ASSUME StreamInv, Served, [Next]_vars
  PROVE  Served'
<1> USE DEF StreamInv, Served, RCallbackRuns
<1>1. CASE MainStep
  <2>1. UNCHANGED <<phase, ran>> /\ rpc \notin {"executing", "fetching"}
    BY <1>1 DEF MainStep, Fail, Answer, Unwind, Exit, Claim, AcquireLease, Link, StartDriver,
       ExecuteHere, Opened, OpenFailed, Fetch, FetchHere, Fetched, Store, NextDone, Close,
       StopDriver, JoinDriver, Destroy, Unguard, Free, DestroyDetached, Disconnect, Lease!Stop,
       callVars
  <2>2. CASE Claim
    BY <2>1, <2>2 DEF Claim, GotoWith
  <2>3. CASE AcquireLease \/ Link \/ StartDriver \/ ExecuteHere \/ Opened
    BY <2>1, <2>3 DEF AcquireLease, Link, StartDriver, ExecuteHere, Opened, Goto, GotoWith, entryVars
  <2>4. CASE Fetch
    BY <2>1, <2>4 DEF Fetch, Goto, GotoWith, Places
  <2>5. CASE FetchHere \/ Fetched
    BY <2>1, <2>5 DEF FetchHere, Fetched, Goto, GotoWith, entryVars
  <2>6. CASE Fail \/ Answer \/ Unwind \/ Exit \/ OpenFailed \/ Store \/ NextDone \/ Close \/ StopDriver
             \/ JoinDriver \/ Destroy \/ Unguard \/ Free \/ DestroyDetached \/ Disconnect
    BY <2>1, <2>6 DEF Fail, Answer, Unwind, Exit, OpenFailed, Store, NextDone, Close, StopDriver,
       JoinDriver, Destroy, Unguard, Free, DestroyDetached, Disconnect, Goto, GotoWith
  <2> QED BY <1>1, <2>2, <2>3, <2>4, <2>5, <2>6 DEF MainStep
<1>2. CASE UserStep
  <2>0. RMayCall /\ ~ServiceIsActive => rpc = "out"
    BY EntersFromOutside
  <2>1. ASSUME NEW v \in {"bridge", "sql"},
               BeginOpen(v) \/ \E e \in Entries : BeginNext(v, e) \/ BeginClose(v, e)
        PROVE  Served'
    BY <2>0, <2>1 DEF BeginOpen, BeginNext, BeginClose, MayEnter, Enter, callVars
  <2>2. ASSUME NEW e \in Entries, Drop(e) \/ FinalizeRefused(e) \/ Forget(e)
        PROVE  Served'
    BY <2>2 DEF Drop, FinalizeRefused, Forget, callVars, mainVars
  <2>3. ASSUME NEW e \in Entries, Finalize(e)
        PROVE  Served'
    BY <2>0, <2>3 DEF Finalize, MayEnter, Enter, callVars
  <2>4. CASE CloseAll
    BY <2>0, <2>4 DEF CloseAll, MayEnter, callVars
  <2>5. ASSUME NEW c \in (Conns \ connected) \cup {NoOne}, Retire(c)
        PROVE  Served'
    BY <2>0, <2>5 DEF Retire, callVars
  <2>6. ASSUME NEW p \in BOOLEAN, SetPlan(p)
        PROVE  Served'
    BY <2>6 DEF SetPlan, entryVars, callVars, mainVars
  <2> QED BY <1>2, <2>1, <2>2, <2>3, <2>4, <2>5, <2>6 DEF UserStep
<1>3. CASE CommandOver \/ StopOver
  BY <1>3 DEF CommandOver, StopOver, CommandDone, NothingLent, After, Goto, GotoWith, entryVars,
     callVars
<1>4. CASE Interrupt
  BY <1>4 DEF Interrupt, Lease!Stop, entryVars, mainVars
<1>5. ASSUME NEW e \in Entries, DriverStep(e)
      PROVE  Served'
  <2>1. UNCHANGED <<busy, rpc, cur, phase, ran>>
    BY <1>5 DEF DriverStep, Take, Executed, DriverFetched, Closed, callVars, mainVars
  <2> QED BY <2>1
<1>6. ASSUME NEW t \in Callers, Callback(t) \/ CallbackGivesUp(t) \/ CallbackReturns(t)
      PROVE  Served'
  BY <1>6 DEF Callback, CallbackGivesUp, CallbackReturns, Lease!Ask, Lease!GiveUp, Lease!Return,
     Lease!GoHome, entryVars, mainVars
<1>7. ASSUME NEW t \in Callers, PumpStep(t)
      PROVE  Served'
  <2>1. UNCHANGED <<busy, rpc, cur>>
    BY <1>7 DEF PumpStep, entryVars, mainVars
  <2>2. CASE Lease!Lend(t) \/ \E good \in BOOLEAN : Lease!Reply(t, good)
    BY <2>1, <2>2 DEF Lease!Lend, Lease!Reply
  <2>3. CASE \E good \in BOOLEAN : Lease!Run({t}, cur, good)
    <3>1. phase[t] = "lent" /\ ~ran[t] /\ ran' = [u \in Callers |-> u = t \/ ran[u]] /\ phase' = phase
      BY <2>3 DEF Lease!Run
    <3>2. [\A u \in Callers : ran'[u] /\ ~ran[u] => rpc \in {"executing", "fetching"}]_vars
      BY RunsWhilePumping
    <3>3. Next /\ ran' # ran
      BY <1>7, <3>1 DEF Next, CallbackStep
    <3>4. rpc \in {"executing", "fetching"}
      BY <3>1, <3>2, <3>3 DEF vars, callVars
    <3> QED BY <2>1, <3>1, <3>4
  <2> QED BY <1>7, <2>2, <2>3 DEF PumpStep
<1>8. CASE UNCHANGED vars
  BY <1>8 DEF vars, entryVars, callVars, mainVars
<1> QED BY <1>1, <1>2, <1>3, <1>4, <1>5, <1>6, <1>7, <1>8 DEF Next, CallbackStep

LEMMA StreamInvariant == Spec => [](StreamInv /\ Served)
<1> QED BY InitInv, NextInv, ServedInit, ServedNext, PTL DEF Spec

-----------------------------------------------------------------------------
(* The scheduler guard is held for as long as the driver of a query or one of
   its callbacks exists, and a connection is closed after its query, whatever
   fails, jumps, is interrupted or retired meanwhile, for any number of entries,
   workers and connections. *)
THEOREM QueriesAreCovered == Spec => []QueryCovered
<1>1. StreamInv => QueryCovered
  <2> SUFFICES ASSUME StreamInv, NEW e \in Entries
               PROVE  /\ driver[e] # "none" \/ (\E t \in Callers : phase[t] # "home" /\ owner[t] = e)
                           => guard = e
                      /\ result[e] \/ driver[e] # "none" => conn[e] \in connected
    BY DEF QueryCovered
  <2>1. (\E t \in Callers : phase[t] # "home" /\ owner[t] = e) => driver[e] # "none"
    BY DEF StreamInv, CallsOfDrivers
  <2>2. driver[e] # "none" => guard = e
    BY DEF StreamInv, Drivers
  <2>3. result[e] \/ driver[e] # "none" => conn[e] \in connected
    BY DEF StreamInv, Connections
  <2> QED BY <2>1, <2>2, <2>3
<1> QED BY <1>1, StreamInvariant, PTL

(* No two entries share a connection, and the busy flag of the runtime's
   connection is never down while an entry has it. *)
THEOREM ConnectionsAreExclusive == Spec => []OneQueryPerConnection
<1>1. StreamInv => OneQueryPerConnection
  BY DEF StreamInv, Connections, OneQueryPerConnection
<1> QED BY <1>1, StreamInvariant, PTL

(* Every error, jump and teardown leaves behind neither an entry outside the
   list, nor a busy connection without its stream, nor a pointer to an entry
   that was freed. *)
THEOREM NothingIsLeftBehind == Spec => []NothingLeftBehind
<1>1. StreamInv => NothingLeftBehind
  <2> SUFFICES ASSUME StreamInv PROVE NothingLeftBehind
    OBVIOUS
  <2>1. \A e \in streams \cup todo \cup ({service, preparing} \ {NoOne}) : live[e]
    BY DEF StreamInv, Places, Pointers
  <2>2. Working => cur \in Entries /\ live[cur]
    BY DEF StreamInv, Places
  <2>3. ASSUME rpc = "out"
        PROVE  /\ ~ServiceIsActive /\ service = NoOne /\ preparing = NoOne
               /\ \A e \in Entries : live[e] => e \in streams
               /\ connBusy <=> \E e \in streams : conn[e] = connection
    <3>1. service = NoOne /\ preparing = NoOne /\ todo = {} /\ ~active
      BY <2>3 DEF StreamInv, Places, Entrances, Pointers
    <3>2. \A e \in Entries : ~busy[e]
      BY <2>3 DEF StreamInv, Pointers
    <3>3. \A e \in Entries : live[e] => e \in streams
      BY <2>3, <3>1 DEF StreamInv, Places
    <3>4. connBusy <=> \E e \in streams : conn[e] = connection
      BY <3>3 DEF StreamInv, Connections
    <3> QED BY <3>1, <3>2, <3>3, <3>4 DEF StreamInv, ServiceIsActive
  <2> QED BY <2>1, <2>2, <2>3 DEF NothingLeftBehind
<1> QED BY <1>1, StreamInvariant, PTL

(* The plan does not change under an open stream, and no R code that runs inside
   an operation finds the service idle. *)
THEOREM PlansFit == Spec => []PlanFitsStreams
<1>1. StreamInv /\ Served => PlanFitsStreams
  BY CodeIsServed DEF StreamInv, Plans, PlanFitsStreams
<1> QED BY <1>1, StreamInvariant, PTL

(* What a query binds is its own cancellation owner, and what R code binds on
   another connection from one of its callbacks is not. *)
THEOREM CallbacksBelong == Spec => []CallsBelong
<1>1. StreamInv => CallsBelong
  <2> SUFFICES ASSUME StreamInv PROVE CallsBelong
    OBVIOUS
  <2>1. \A e \in Entries : driver[e] \in {"executing", "fetching"} => bound[e] = e
    BY DEF StreamInv, Drivers
  <2>2. ASSUME NEW c \in (Conns \cup {NoOne}) \ {conn[cur]}
        PROVE  Captures(c) = NoOne
    BY DEF Captures, StreamInv, Pointers
  <2> QED BY <2>1, <2>2 DEF CallsBelong
<1> QED BY <1>1, StreamInvariant, PTL

(* Once the R thread tears a stream down it enters R for none of its callbacks,
   however many workers still ask. *)
THEOREM TeardownIsSilent == Spec => NoCallbackInTeardown
<1> QED BY StreamInvariant, RunsWhilePumping, PTL DEF Spec, NoCallbackInTeardown
=============================================================================
