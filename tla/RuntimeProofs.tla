------------------------------ MODULE RuntimeProofs ------------------------------
(***************************************************************************)
(* Proofs about RuntimeRegistry, for any databases, connections, addresses *)
(* and number of entries: what R remembers of attachments agrees, and no   *)
(* provider outlives the last attachment of its runtime; a database is     *)
(* served by connections to itself; a release spares those of others.      *)
(*                                                                         *)
(* And about UdfRegistry, for any registrations, names, objects and        *)
(* threads: no registration that may still be called loses its R           *)
(* evaluator, and none is kept that nobody accounts for; for any hash      *)
(* function too, list and index agree and a lookup is exact.               *)
(*                                                                         *)
(* And about RowEvaluation, for any R function, values and checks: it      *)
(* makes no difference whether R is called for each row, once for those of *)
(* a chunk, or once for those of several chunks.                           *)
(*                                                                         *)
(* And about VectorLayers, for columns of any type and number of rows:     *)
(* arguments reach an R worker with the values the direct evaluator reads, *)
(* results come back to DuckDB unchanged, none refused, and rows that are  *)
(* written one by one read back.                                           *)
(***************************************************************************)
EXTENDS RuntimeRegistry, UdfRegistry, RowEvaluation, VectorLayers, PreservedReleaseProofs,
        SequenceTheorems, WellFoundedInduction

(* connection_runtime_tokens has a place for each connection *)
AttachedType == attached = [c \in Conns |-> attached[c]]

AnchorsInv == AttachedType /\ AnchorsHold

(* Attaching keeps the two stores in agreement, and adds the anchor that a
   provider started for the same token needs. *)
LEMMA AttachKeeps ==
  ASSUME NEW c \in Conns, NEW token, AnchorsInv, Attach(c, token),
         providers' \in {providers, providers \cup {token}}
  PROVE  AnchorsInv'
<1> USE DEF AnchorsInv, AttachedType, Attach
<1>1. AttachedType'
  OBVIOUS
<1>2. \A o \in Conns : attached'[o] = IF o = c THEN token ELSE attached[o]
  OBVIOUS
<1>3. ASSUME NEW o \in Conns, attached'[o] # NoToken
      PROVE  <<attached'[o], o>> \in anchors'
  BY <1>2, <1>3 DEF AnchorsHold
<1>4. ASSUME NEW t \in providers'
      PROVE  \E o \in Conns : <<t, o>> \in anchors'
  BY DEF AnchorsHold
<1> QED BY <1>1, <1>3, <1>4 DEF AnchorsHold

(* Detaching one connection keeps them too: a provider stays only if an anchor
   of its token does. *)
LEMMA CleanupKeeps ==
  ASSUME NEW c \in Conns, NEW token, AnchorsInv, Cleanup(token, c)
  PROVE  AnchorsInv'
<1> USE DEF AnchorsInv, AttachedType, Cleanup
<1>1. AttachedType'
  OBVIOUS
<1>2. \A o \in Conns : attached'[o] = IF o = c THEN NoToken ELSE attached[o]
  OBVIOUS
<1>3. ASSUME NEW o \in Conns, attached'[o] # NoToken
      PROVE  <<attached'[o], o>> \in anchors'
  <2>1. o # c /\ attached'[o] = attached[o]
    BY <1>2, <1>3
  <2>2. <<attached[o], o>> \in anchors
    BY <1>3, <2>1 DEF AnchorsHold
  <2> QED BY <2>1, <2>2
<1>4. ASSUME NEW t \in providers'
      PROVE  \E o \in Conns : <<t, o>> \in anchors'
  <2>1. CASE t = token
    BY <1>4, <2>1
  <2>2. CASE t # token
    <3>1. t \in providers
      BY <1>4
    <3>2. PICK o \in Conns : <<t, o>> \in anchors
      BY <3>1 DEF AnchorsHold
    <3> QED BY <2>2, <3>2
  <2> QED BY <2>1, <2>2
<1> QED BY <1>1, <1>3, <1>4 DEF AnchorsHold

(* A step that leaves the three stores alone keeps the invariant. *)
LEMMA FrameKeeps ==
  ASSUME AnchorsInv, UNCHANGED <<attached, anchors, providers>>
  PROVE  AnchorsInv'
BY DEF AnchorsInv, AttachedType, AnchorsHold

(* The invariant holds at first. *)
LEMMA InitAnchors == RegistryInit => AnchorsInv
BY DEF RegistryInit, AnchorsInv, AttachedType, AnchorsHold

(* The finalizer of a connection and the release detach, enabling and
   registering attach; everything else is a frame. *)
LEMMA StepAnchors ==
  ASSUME AnchorsInv, releasing.at = "detach" => releasing.conn \in Conns, [RegistryNext]_registryVars
  PROVE  AnchorsInv'
<1>1. ASSUME NEW d \in Databases, Open(d) \/ Close(d)
      PROVE  AnchorsInv'
  BY <1>1, FrameKeeps DEF Open, Close
<1>2. ASSUME NEW c \in Conns,
             Disconnect(c) \/ Load(c) \/ EnableRefused(c) \/ EnableMisses(c)
             \/ OpenStream(c) \/ BeginRelease(c)
      PROVE  AnchorsInv'
  BY <1>2, FrameKeeps DEF Disconnect, Load, EnableRefused, EnableMisses, OpenStream, BeginRelease
<1>3. ASSUME NEW c \in Conns, EnableFirst(c)
      PROVE  AnchorsInv'
  BY <1>3, AttachKeeps DEF EnableFirst
<1>4. ASSUME NEW c \in Conns, EnableAgain(c)
      PROVE  AnchorsInv'
  BY <1>4, AttachKeeps DEF EnableAgain
<1>5. ASSUME NEW c \in Conns, Register(c)
      PROVE  AnchorsInv'
  BY <1>5, AttachKeeps DEF Register
<1>6. ASSUME NEW c \in Conns, Collect(c)
      PROVE  AnchorsInv'
  BY <1>6, CleanupKeeps, FrameKeeps DEF Collect
<1>7. ASSUME NEW i \in DOMAIN entries, CloseStream(i)
      PROVE  AnchorsInv'
  BY <1>7, FrameKeeps DEF CloseStream
<1>8. CASE ReleaseDetaches
  BY <1>8, CleanupKeeps DEF ReleaseDetaches
<1>9. CASE ReleaseCloses \/ ReleaseElsewhere \/ Done \/ UNCHANGED registryVars
  BY <1>9, FrameKeeps DEF ReleaseCloses, ReleaseElsewhere, Done, registryVars
<1> QED BY <1>1, <1>2, <1>3, <1>4, <1>5, <1>6, <1>7, <1>8, <1>9 DEF RegistryNext

(* A release under way is the release of a connection. *)
ReleasingConn == releasing.at = "detach" => releasing.conn \in Conns

(* It stays so. *)
LEMMA ReleasingStep ==
  ASSUME ReleasingConn, [RegistryNext]_registryVars
  PROVE  ReleasingConn'
<1>1. ASSUME NEW c \in Conns, BeginRelease(c)
      PROVE  ReleasingConn'
  BY <1>1 DEF BeginRelease, ReleasingConn
<1>2. CASE ReleaseDetaches
  <2>1. releasing' \in {[releasing EXCEPT !.at = "close"], Idle}
    BY <1>2 DEF ReleaseDetaches
  <2>2. [releasing EXCEPT !.at = "close"].at # "detach" /\ Idle.at # "detach"
    BY DEF Idle
  <2> QED BY <2>1, <2>2 DEF ReleasingConn
<1>3. CASE ReleaseCloses \/ ReleaseElsewhere
  BY <1>3 DEF ReleaseCloses, ReleaseElsewhere, ReleasingConn, Idle
<1>4. ASSUME UNCHANGED releasing
      PROVE  ReleasingConn'
  BY <1>4 DEF ReleasingConn
<1> QED
  BY <1>1, <1>2, <1>3, <1>4
  DEF RegistryNext, registryVars, Open, Close, Disconnect, Load, EnableFirst, EnableAgain, EnableRefused,
      EnableMisses, Register, OpenStream, CloseStream, Collect, Done

(* The two stores of attachments agree, and a provider's workers never outlive
   the last attachment of their runtime, released or collected. *)
THEOREM AnchorsCorrect == RegistrySpec => []AnchorsHold
<1>1. RegistryInit => AnchorsInv /\ ReleasingConn
  BY InitAnchors DEF RegistryInit, Idle, ReleasingConn
<1>2. AnchorsInv /\ ReleasingConn /\ [RegistryNext]_registryVars => AnchorsInv' /\ ReleasingConn'
  BY StepAnchors, ReleasingStep DEF ReleasingConn
<1>3. AnchorsInv => AnchorsHold
  BY DEF AnchorsInv
<1> QED BY <1>1, <1>2, <1>3, PTL DEF RegistrySpec

(*--------------------- the registry and the databases -------------------*)

Entry == [database : Addresses \cup {NoAddress}, gen : Nat \ {0}, ready : BOOLEAN,
          connected : BOOLEAN, home : Databases, busy : BOOLEAN]
Row == [life : {"new", "open", "closed"}, addr : Addresses \cup {NoAddress},
        surfaces : None .. All, entry : Nat]

Typed == db \in [Databases -> Row] /\ entries \in Seq(Entry)

(* LOAD of d leaves entry j, at its address, to nobody. *)
Dropped(d, j) ==
  /\ entries[j].database = db[d].addr => entries'[j].database = NoAddress
                                        /\ ~entries'[j].ready /\ entries'[j].gen = entries[j].gen + 1
  /\ entries[j].database # db[d].addr => entries'[j].database = entries[j].database
                                        /\ entries'[j].ready = entries[j].ready
                                        /\ entries'[j].gen = entries[j].gen

(* What LOAD of d may do: it finds i, makes i, or has none. *)
Finds(d, i, n) ==
  /\ i \in DOMAIN entries /\ Found(d, i) /\ Len(entries') = Len(entries)
  /\ \A j \in DOMAIN entries :
       /\ entries'[j].database = entries[j].database /\ entries'[j].gen = entries[j].gen
       /\ entries'[j].ready = (entries[j].ready \/ (j = i /\ n = All))

Makes(d, i, n) ==
  /\ \A j \in DOMAIN entries : ~Found(d, j) /\ Dropped(d, j)
  /\ i = Len(entries) + 1 /\ Len(entries') = i
  /\ entries'[i].database = db[d].addr /\ entries'[i].gen = 1 /\ entries'[i].home = d
  /\ entries'[i].connected /\ entries'[i].ready = (n = All)

HasNone(d, i, n) ==
  /\ \A j \in DOMAIN entries : ~Found(d, j) /\ Dropped(d, j)
  /\ i = 0 /\ n = None /\ Len(entries') = Len(entries)

Moved(d, i, n) ==
  /\ db[d].life = "open" /\ db[d].surfaces < All
  /\ \A o \in Databases :
       /\ db'[o].life = db[o].life /\ db'[o].addr = db[o].addr
       /\ o # d => db'[o].surfaces = db[o].surfaces /\ db'[o].entry = db[o].entry
  /\ db'[d].surfaces = IF n > db[d].surfaces THEN n ELSE db[d].surfaces
  /\ db'[d].entry = IF n >= TokenSurface THEN i ELSE db[d].entry
  /\ \A j \in DOMAIN entries :
       entries'[j].home = entries[j].home /\ entries'[j].connected = entries[j].connected
  /\ Finds(d, i, n) \/ Makes(d, i, n) \/ HasNone(d, i, n)

(* What is left of the registry when a ready entry of a gone database is dropped. *)
LEMMA AliasFacts ==
  ASSUME NEW d \in Databases, Typed
  PROVE  /\ WithoutAlias(d) \in Seq(Entry) /\ Len(WithoutAlias(d)) = Len(entries)
         /\ \A j \in DOMAIN entries :
              /\ WithoutAlias(d)[j].home = entries[j].home
              /\ WithoutAlias(d)[j].connected = entries[j].connected
              /\ ~Found(d, j) /\ entries[j].database = db[d].addr
                 => /\ WithoutAlias(d)[j].database = NoAddress
                    /\ ~WithoutAlias(d)[j].ready /\ WithoutAlias(d)[j].gen = entries[j].gen + 1
              /\ entries[j].database # db[d].addr => WithoutAlias(d)[j] = entries[j]
<1>1. \A e \in Entry : /\ Unaliased(e) \in Entry /\ Unaliased(e).home = e.home
                       /\ Unaliased(e).connected = e.connected /\ Unaliased(e).database = NoAddress
                       /\ ~Unaliased(e).ready /\ Unaliased(e).gen = e.gen + 1
  <2> SUFFICES ASSUME NEW e \in Entry
               PROVE  /\ Unaliased(e) \in Entry /\ Unaliased(e).home = e.home
                      /\ Unaliased(e).connected = e.connected /\ Unaliased(e).database = NoAddress
                      /\ ~Unaliased(e).ready /\ Unaliased(e).gen = e.gen + 1
    OBVIOUS
  <2>1. e.gen \in Nat \ {0} /\ e.connected \in BOOLEAN /\ e.home \in Databases /\ e.busy \in BOOLEAN
    BY DEF Entry
  <2>2. Unaliased(e).home = e.home /\ Unaliased(e).connected = e.connected
        /\ Unaliased(e).busy = e.busy /\ Unaliased(e).database = NoAddress
        /\ Unaliased(e).gen = e.gen + 1 /\ Unaliased(e).ready = FALSE
    BY DEF Unaliased, Entry
  <2>4. e.gen + 1 \in Nat \ {0}
    BY <2>1
  <2>3. Unaliased(e) \in Entry
    <3> DEFINE g == e.gen + 1
    <3>1. Unaliased(e) = [e EXCEPT !.database = NoAddress, !.ready = FALSE, !.gen = g]
      BY DEF Unaliased
    <3>2. g \in Nat \ {0}
      BY <2>4
    <3> HIDE DEF g
    <3> QED BY <3>1, <3>2 DEF Entry
  <2> QED BY <2>2, <2>3
<1>2. \A j \in DOMAIN entries : entries[j] \in Entry
  BY DEF Typed
<1>3. DOMAIN WithoutAlias(d) = DOMAIN entries
      /\ \A j \in DOMAIN entries :
           WithoutAlias(d)[j] = IF entries[j].database = db[d].addr /\ ~Found(d, j)
                                THEN Unaliased(entries[j]) ELSE entries[j]
  BY DEF WithoutAlias
<1>4. DOMAIN entries = 1 .. Len(entries) /\ Len(entries) \in Nat
  BY DEF Typed
<1>5. \A j \in DOMAIN entries : WithoutAlias(d)[j] \in Entry
  BY <1>1, <1>2, <1>3
<1>6. WithoutAlias(d) \in Seq(Entry) /\ Len(WithoutAlias(d)) = Len(entries)
  <2> DEFINE S == WithoutAlias(d)
  <2>1. S = [j \in 1 .. Len(entries) |-> S[j]]
    BY <1>4 DEF WithoutAlias
  <2>2. \A j \in 1 .. Len(entries) : S[j] \in Entry
    BY <1>4, <1>5
  <2> HIDE DEF S
  <2>3. S \in [1 .. Len(entries) -> Entry]
    BY <2>1, <2>2
  <2>4. S \in Seq(Entry) /\ Len(S) = Len(entries)
    BY <2>3, <1>4
  <2> QED BY <2>4 DEF S
<1> QED BY <1>1, <1>2, <1>3, <1>6

(* What registering n surfaces changes: the row of d, and the readiness of i. *)
LEMMA RegisteredFacts ==
  ASSUME NEW d \in Databases, Typed, NEW reg \in Seq(Entry), NEW i \in Nat, NEW n \in None .. All,
         n = All => i \in DOMAIN reg, SurfaceRegistered(d, reg, i, n)
  PROVE  /\ \A o \in Databases :
              /\ db'[o].life = db[o].life /\ db'[o].addr = db[o].addr
              /\ o # d => db'[o].surfaces = db[o].surfaces /\ db'[o].entry = db[o].entry
         /\ db'[d].surfaces = IF n > db[d].surfaces THEN n ELSE db[d].surfaces
         /\ db'[d].entry = IF n >= TokenSurface THEN i ELSE db[d].entry
         /\ db' \in [Databases -> Row] /\ entries' \in Seq(Entry) /\ Len(entries') = Len(reg)
         /\ \A j \in DOMAIN reg :
              /\ entries'[j].home = reg[j].home /\ entries'[j].connected = reg[j].connected
              /\ entries'[j].database = reg[j].database /\ entries'[j].gen = reg[j].gen
              /\ entries'[j].ready = (reg[j].ready \/ (j = i /\ n = All))
<1>1. db \in [Databases -> Row] /\ None = 0 /\ All = 4 /\ TokenSurface = 2
  BY DEF Typed, None, All, TokenSurface
<1>2. db' = [db EXCEPT ![d].surfaces = IF n > @ THEN n ELSE @,
                       ![d].entry = IF n >= TokenSurface THEN i ELSE @]
  BY DEF SurfaceRegistered
<1>3. \A o \in Databases :
              /\ db'[o].life = db[o].life /\ db'[o].addr = db[o].addr
              /\ o # d => db'[o].surfaces = db[o].surfaces /\ db'[o].entry = db[o].entry
  BY <1>1, <1>2 DEF Row
<1>4. /\ db'[d].surfaces = IF n > db[d].surfaces THEN n ELSE db[d].surfaces
      /\ db'[d].entry = IF n >= TokenSurface THEN i ELSE db[d].entry
  BY <1>1, <1>2 DEF Row
<1>5. db' \in [Databases -> Row]
  <2> DEFINE sur == IF n > db[d].surfaces THEN n ELSE db[d].surfaces
             ent == IF n >= TokenSurface THEN i ELSE db[d].entry
  <2>1. db[d] \in Row /\ db[d].surfaces \in None .. All /\ db[d].entry \in Nat
    BY <1>1 DEF Row
  <2>2. sur \in None .. All /\ ent \in Nat
    BY <2>1
  <2>3. db' = [db EXCEPT ![d] = [db[d] EXCEPT !.surfaces = sur, !.entry = ent]]
    BY <1>1, <1>2, <2>1 DEF Row
  <2> HIDE DEF sur, ent
  <2>4. [db[d] EXCEPT !.surfaces = sur, !.entry = ent] \in Row
    BY <2>1, <2>2 DEF Row
  <2> QED BY <1>1, <2>3, <2>4
<1>6. CASE n # All
  <2>1. entries' = reg
    BY <1>6 DEF SurfaceRegistered
  <2>2. \A j \in DOMAIN reg : reg[j] \in Entry
    OBVIOUS
  <2>3. \A j \in DOMAIN reg : reg[j].ready \in BOOLEAN
    BY <2>2 DEF Entry
  <2> QED BY <2>1, <2>3, <1>3, <1>4, <1>5, <1>6
<1>7. CASE n = All
  <2>1. entries' = [reg EXCEPT ![i].ready = TRUE] /\ i \in DOMAIN reg
    BY <1>7 DEF SurfaceRegistered
  <2>2. \A j \in DOMAIN reg : reg[j] \in Entry
    OBVIOUS
  <2>3. \A j \in DOMAIN reg :
          /\ entries'[j].home = reg[j].home /\ entries'[j].connected = reg[j].connected
          /\ entries'[j].database = reg[j].database /\ entries'[j].gen = reg[j].gen
          /\ entries'[j].ready = (reg[j].ready \/ (j = i /\ n = All))
    BY <2>1, <2>2, <1>7 DEF Entry
  <2>4. entries' \in Seq(Entry) /\ Len(entries') = Len(reg)
    <3>1. [reg[i] EXCEPT !.ready = TRUE] \in Entry
      BY <2>1, <2>2 DEF Entry
    <3>2. entries' = [reg EXCEPT ![i] = [reg[i] EXCEPT !.ready = TRUE]]
      BY <2>1
    <3> QED BY <3>1, <3>2, <2>1
  <2> QED BY <2>3, <2>4, <1>3, <1>4, <1>5
<1> QED BY <1>6, <1>7

(* What GetOrCreate leaves, before the surfaces are registered. *)
LEMMA CreateFacts ==
  ASSUME NEW d \in Databases, Typed, db[d].life = "open",
         NEW i \in Nat, NEW reg, GetOrCreate(d, reg, i)
  PROVE  /\ reg \in Seq(Entry)
         /\ \/ i \in DOMAIN entries /\ Found(d, i) /\ reg = entries
            \/ /\ \A j \in DOMAIN entries : ~Found(d, j)
               /\ i = Len(entries) + 1 /\ reg = Append(WithoutAlias(d), NewEntry(d)) /\ Len(reg) = i
            \/ (\A j \in DOMAIN entries : ~Found(d, j)) /\ i = 0 /\ reg = WithoutAlias(d)
<1>1. NewEntry(d) \in Entry
  BY DEF NewEntry, Entry, Typed, Row
<1>2. entries \in Seq(Entry) /\ Len(entries) \in Nat
  BY DEF Typed
<1>3. WithoutAlias(d) \in Seq(Entry) /\ Len(WithoutAlias(d)) = Len(entries)
  BY AliasFacts
<1> DEFINE more == Append(WithoutAlias(d), NewEntry(d))
<1>5. more \in Seq(Entry) /\ Len(more) = Len(entries) + 1
  BY <1>1, <1>2, <1>3
<1> QED BY <1>2, <1>3, <1>5 DEF GetOrCreate

(* Both outcomes of LOAD are moves. *)
LEMMA MovedBy ==
  ASSUME NEW d \in Databases, Typed, db[d].life = "open", db[d].surfaces < All,
         NEW i \in Nat, NEW n \in None .. All, NEW reg, GetOrCreate(d, reg, i),
         i = 0 => n = None, SurfaceRegistered(d, reg, i, n)
  PROVE  Typed' /\ Moved(d, i, n)
<1>1. entries \in Seq(Entry) /\ DOMAIN entries = 1 .. Len(entries) /\ Len(entries) \in Nat
  BY DEF Typed
<1>10. \A j \in DOMAIN entries : entries[j].ready \in BOOLEAN
  <2>1. \A j \in DOMAIN entries : entries[j] \in Entry
    BY <1>1
  <2> QED BY <2>1 DEF Entry
<1>2. reg \in Seq(Entry) /\ DOMAIN reg = 1 .. Len(reg)
  BY CreateFacts
<1>3. n = All => i \in DOMAIN reg
  BY CreateFacts, <1>1, <1>2 DEF None, All
<1>4. /\ \A o \in Databases :
              /\ db'[o].life = db[o].life /\ db'[o].addr = db[o].addr
              /\ o # d => db'[o].surfaces = db[o].surfaces /\ db'[o].entry = db[o].entry
      /\ db'[d].surfaces = IF n > db[d].surfaces THEN n ELSE db[d].surfaces
      /\ db'[d].entry = IF n >= TokenSurface THEN i ELSE db[d].entry
  BY <1>2, <1>3, RegisteredFacts
<1>5. Typed' /\ Len(entries') = Len(reg)
  BY <1>2, <1>3, RegisteredFacts DEF Typed
<1>6. \A j \in DOMAIN reg :
        /\ entries'[j].home = reg[j].home /\ entries'[j].connected = reg[j].connected
        /\ entries'[j].database = reg[j].database /\ entries'[j].gen = reg[j].gen
        /\ entries'[j].ready = (reg[j].ready \/ (j = i /\ n = All))
  BY <1>2, <1>3, RegisteredFacts
<1>7. CASE i \in DOMAIN entries /\ Found(d, i) /\ reg = entries
  <2>1. Finds(d, i, n)
    BY <1>5, <1>6, <1>7 DEF Finds
  <2> QED BY <1>4, <1>5, <1>6, <1>7, <2>1 DEF Moved
<1>8. ASSUME \A j \in DOMAIN entries : ~Found(d, j), reg = WithoutAlias(d), i = 0
      PROVE  Moved(d, i, n)
  <2>1. Len(reg) = Len(entries) /\ n = None /\ \A j \in DOMAIN entries : j # i
    BY <1>8, <1>1, AliasFacts
  <2>2. \A j \in DOMAIN entries : Dropped(d, j) /\ entries'[j].home = entries[j].home
                                 /\ entries'[j].connected = entries[j].connected
    <3> TAKE j \in DOMAIN entries
    <3>1. reg[j].home = entries[j].home /\ reg[j].connected = entries[j].connected /\ j \in DOMAIN reg
      BY <1>8, <1>1, <1>2, <2>1, AliasFacts
    <3>2. entries[j].database = db[d].addr
            => reg[j].database = NoAddress /\ ~reg[j].ready /\ reg[j].gen = entries[j].gen + 1
      BY <1>8, AliasFacts
    <3>3. entries[j].database # db[d].addr => reg[j] = entries[j]
      BY <1>8, AliasFacts
    <3>4. entries[j].ready \in BOOLEAN /\ j # i
      BY <1>10, <2>1
    <3> QED BY <1>6, <3>1, <3>2, <3>3, <3>4 DEF Dropped
  <2>3. HasNone(d, i, n)
    BY <1>5, <1>8, <2>1, <2>2 DEF HasNone
  <2> QED BY <1>4, <2>2, <2>3 DEF Moved
<1>9. ASSUME \A j \in DOMAIN entries : ~Found(d, j), i = Len(entries) + 1, Len(reg) = i,
             reg = Append(WithoutAlias(d), NewEntry(d))
      PROVE  Moved(d, i, n)
  <2>1. \A j \in DOMAIN entries : j # i /\ j \in DOMAIN reg /\ reg[j] = WithoutAlias(d)[j]
    <3>1. WithoutAlias(d) \in Seq(Entry) /\ Len(WithoutAlias(d)) = Len(entries)
      BY AliasFacts
    <3> QED BY <1>9, <1>1, <1>2, <3>1
  <2>2. \A j \in DOMAIN entries : Dropped(d, j) /\ entries'[j].home = entries[j].home
                                 /\ entries'[j].connected = entries[j].connected
    <3> TAKE j \in DOMAIN entries
    <3>1. reg[j].home = entries[j].home /\ reg[j].connected = entries[j].connected /\ j \in DOMAIN reg
      BY <2>1, AliasFacts
    <3>2. entries[j].database = db[d].addr
            => reg[j].database = NoAddress /\ ~reg[j].ready /\ reg[j].gen = entries[j].gen + 1
      BY <1>9, <2>1, AliasFacts
    <3>3. entries[j].database # db[d].addr => reg[j] = entries[j]
      BY <2>1, AliasFacts
    <3>4. entries[j].ready \in BOOLEAN /\ j # i
      BY <1>10, <2>1
    <3> QED BY <1>6, <3>1, <3>2, <3>3, <3>4 DEF Dropped
  <2>3. reg[i] = NewEntry(d) /\ i \in DOMAIN reg
    <3>1. WithoutAlias(d) \in Seq(Entry) /\ Len(WithoutAlias(d)) = Len(entries)
      BY AliasFacts
    <3> QED BY <1>9, <1>1, <1>2, <3>1
  <2>4. /\ reg[i].home = d /\ reg[i].connected = TRUE /\ reg[i].database = db[d].addr
        /\ reg[i].gen = 1 /\ reg[i].ready = FALSE
    BY <2>3 DEF NewEntry
  <2>5. Makes(d, i, n)
    BY <1>5, <1>6, <1>9, <2>2, <2>3, <2>4 DEF Makes
  <2> QED BY <1>4, <2>2, <2>5 DEF Moved
<1> QED BY CreateFacts, <1>5, <1>7, <1>8, <1>9

(* A LOAD that fails got to n surfaces, *)
LEMMA FailsMoves ==
  ASSUME NEW d \in Databases, Typed, RegistryAssumption, LoadFails(d)
  PROVE  Typed' /\ \E i \in Nat, n \in None .. All : Moved(d, i, n)
<1>1. PICK i \in 0 .. MaxEntries, n \in None .. All - 1 :
        \E reg \in {entries, WithoutAlias(d), Append(WithoutAlias(d), NewEntry(d))} :
          GetOrCreate(d, reg, i) /\ (i = 0 => n = None) /\ SurfaceRegistered(d, reg, i, n)
  BY DEF LoadFails
<1>2. i \in Nat /\ n \in None .. All
  BY <1>1 DEF RegistryAssumption, None, All
<1>3. Typed' /\ Moved(d, i, n)
  BY <1>1, <1>2, MovedBy DEF LoadFails
<1> QED BY <1>2, <1>3

(* one that succeeds to all of them. *)
LEMMA SucceedsMoves ==
  ASSUME NEW d \in Databases, Typed, RegistryAssumption, LoadSucceeds(d)
  PROVE  Typed' /\ \E i \in Nat : i # 0 /\ Moved(d, i, All)
<1>1. PICK i \in 1 .. MaxEntries :
        \E reg \in {entries, Append(WithoutAlias(d), NewEntry(d))} :
          GetOrCreate(d, reg, i) /\ SurfaceRegistered(d, reg, i, All)
  BY DEF LoadSucceeds
<1>2. i \in Nat /\ i # 0 /\ All \in None .. All
  BY <1>1 DEF RegistryAssumption, None, All
<1>3. Typed' /\ Moved(d, i, All)
  BY <1>1, <1>2, MovedBy DEF LoadSucceeds
<1> QED BY <1>2, <1>3

(* A database is bound to an entry once rducks_runtime_token is registered. *)
Bound ==
  \A d \in Databases :
    /\ db[d].surfaces >= TokenSurface <=> db[d].entry # 0
    /\ db[d].entry <= Len(entries)
    /\ db[d].life = "new" => db[d].surfaces = None
    /\ db[d].life = "new" <=> db[d].addr = NoAddress
(* Open databases have different addresses, *)
OwnAddress ==
  \A d, o \in Databases :
    db[d].life = "open" /\ db[o].life = "open" /\ db[d].addr = db[o].addr => d = o
(* an entry is at the address of the database it was made for, or nowhere, *)
OfHome ==
  \A i \in DOMAIN entries :
    /\ entries[i].database \in {NoAddress, db[entries[i].home].addr}
    /\ db[entries[i].home].life # "new"
    /\ db[entries[i].home].surfaces = All /\ entries[i].database # NoAddress => entries[i].ready
(* at most one entry is at an address, *)
OneEach ==
  \A i, j \in DOMAIN entries :
    entries[i].database = entries[j].database /\ entries[i].database # NoAddress => i = j
(* and an entry serves another database than its first only if that one is
   closed, and was never loaded completely. *)
Reused ==
  \A d \in Databases, i \in DOMAIN entries :
    /\ db[d].life = "open" /\ entries[i].database = db[d].addr /\ entries[i].ready
       /\ db[d].surfaces >= Version /\ db[entries[i].home].surfaces = All => entries[i].home = d
    /\ db[d].entry = i =>
       /\ entries[i].home # d => db[entries[i].home].life = "closed"
       /\ db[entries[i].home].surfaces = All => entries[i].home = d
       /\ db[d].life = "open" /\ entries[i].connected => entries[i].database = db[d].addr
RegistryInv == Typed /\ Bound /\ OwnAddress /\ OfHome /\ OneEach /\ Reused
(*------------------- tokens and the release under way -------------------*)

(* The token of a runtime whose connections are open. *)
Current(t) == t[1] \in DOMAIN entries /\ t[2] = entries[t[1]].gen /\ entries[t[1]].connected

(* A token that a connection to d may hold: of the entry d is bound to, or one
   that no runtime has any more. *)
Held(d, t) ==
  /\ t \in Nat \X Nat /\ t[1] <= Len(entries)
  /\ t[1] \in DOMAIN entries => t[2] <= entries[t[1]].gen
  /\ Current(t) => db[d].entry = t[1]

TokensInv == \A c \in Conns : Held(DatabaseOf[c], attached[c])

(* A release under way is of the runtime its database is bound to; when it looked
   for other attachments it found none, and none can be made meanwhile. *)
ReleaseInv ==
  /\ releasing.at \in {"detach", "close"} =>
       /\ releasing.conn \in Conns
       /\ releasing.token = <<db[DatabaseOf[releasing.conn]].entry,
                              entries[db[DatabaseOf[releasing.conn]].entry].gen>>
       /\ db[DatabaseOf[releasing.conn]].entry \in DOMAIN entries
  /\ releasing.at = "detach" /\ releasing.last =>
       \A o \in Conns : <<releasing.token, o>> \in anchors => o = releasing.conn
  /\ releasing.at = "close" => \A o \in Conns : <<releasing.token, o>> \notin anchors

(* the constants, as numbers *)
Addrs == NoAddress \notin Addresses /\ None = 0 /\ Version = 1 /\ TokenSurface = 2 /\ ThreadSurface = 3 /\ All = 4

(* Typed, field by field *)
Types ==
  /\ Len(entries) \in Nat /\ DOMAIN entries = 1 .. Len(entries)
  /\ \A d \in Databases : /\ db[d].life \in {"new", "open", "closed"}
                          /\ db[d].addr \in Addresses \cup {NoAddress}
                          /\ db[d].surfaces \in 0 .. 4 /\ db[d].entry \in Nat
  /\ \A i \in DOMAIN entries : /\ entries[i].database \in Addresses \cup {NoAddress}
                               /\ entries[i].gen \in Nat \ {0} /\ entries[i].ready \in BOOLEAN
                               /\ entries[i].connected \in BOOLEAN /\ entries[i].home \in Databases

(* Typed gives the fields, *)
LEMMA TypesNow == Typed => Types
<1> SUFFICES ASSUME Typed PROVE Types
  OBVIOUS
<1>1. \A i \in DOMAIN entries : entries[i] \in Entry
  BY DEF Typed
<1>2. \A d \in Databases : db[d] \in Row
  BY DEF Typed
<1> QED BY <1>1, <1>2 DEF Typed, Types, Row, Entry, None, All

(* in the next state too. *)
LEMMA TypesNext == Typed' => Types'
BY TypesNow, PTL

(* LOAD keeps the registry: a database finds the entry at its address only while
   nobody else can have loaded there completely. *)
LEMMA MoveKeeps ==
  ASSUME NEW d \in Databases, NEW i \in Nat, NEW n \in None .. All, RegistryAssumption,
         RegistryInv, Typed', Moved(d, i, n)
  PROVE  RegistryInv'
<1>1. Types /\ Types'
  BY TypesNow, TypesNext DEF RegistryInv
<1>2. Addrs
  BY DEF Addrs, RegistryAssumption, None, Version, TokenSurface, ThreadSurface, All
<1>3. Bound /\ OwnAddress /\ OfHome /\ OneEach /\ Reused
  BY DEF RegistryInv
<1>4. n \in 0 .. 4 /\ (i # 0 \/ n = 0) /\ i <= Len(entries') /\ Len(entries) <= Len(entries')
  <2>1. n \in 0 .. 4 /\ Len(entries) \in Nat /\ DOMAIN entries = 1 .. Len(entries) /\ Len(entries') \in Nat
    BY <1>1, <1>2 DEF Addrs, Types
  <2>2. CASE Finds(d, i, n)
    BY <2>1, <2>2 DEF Finds
  <2>3. CASE Makes(d, i, n)
    BY <2>1, <2>3 DEF Makes
  <2>4. CASE HasNone(d, i, n)
    BY <1>2, <2>1, <2>4 DEF HasNone, Addrs
  <2> QED BY <2>2, <2>3, <2>4 DEF Moved
<1>5. /\ db[d].life = "open" /\ db[d].surfaces < 4
      /\ \A o \in Databases :
           /\ db'[o].life = db[o].life /\ db'[o].addr = db[o].addr
           /\ o # d => db'[o].surfaces = db[o].surfaces /\ db'[o].entry = db[o].entry
      /\ db'[d].surfaces = IF n > db[d].surfaces THEN n ELSE db[d].surfaces
      /\ db'[d].entry = IF n >= 2 THEN i ELSE db[d].entry
      /\ \A j \in DOMAIN entries :
           entries'[j].home = entries[j].home /\ entries'[j].connected = entries[j].connected
  BY <1>2 DEF Moved, Addrs
<1>6. Bound'
  <2> SUFFICES ASSUME NEW o \in Databases
               PROVE  /\ db'[o].surfaces >= 2 <=> db'[o].entry # 0
                      /\ db'[o].entry <= Len(entries')
                      /\ db'[o].life = "new" => db'[o].surfaces = 0
                      /\ db'[o].life = "new" <=> db'[o].addr = NoAddress
    BY <1>2 DEF Bound, Addrs
  <2>1. /\ db[o].surfaces >= 2 <=> db[o].entry # 0
        /\ db[o].entry <= Len(entries)
        /\ db[o].life = "new" => db[o].surfaces = 0
        /\ db[o].life = "new" <=> db[o].addr = NoAddress
    BY <1>2, <1>3 DEF Bound, Addrs
  <2>2. CASE o # d
    BY <1>1, <1>4, <1>5, <2>1, <2>2 DEF Types
  <2>3. CASE o = d
    BY <1>1, <1>4, <1>5, <2>1, <2>3 DEF Types
  <2> QED BY <2>2, <2>3
<1>7. OwnAddress'
  BY <1>3, <1>5 DEF OwnAddress
<1>8. CASE Finds(d, i, n)
  <2>1. /\ i \in DOMAIN entries /\ Found(d, i) /\ DOMAIN entries' = DOMAIN entries
        /\ \A j \in DOMAIN entries :
             /\ entries'[j].database = entries[j].database
             /\ entries'[j].ready = (entries[j].ready \/ (j = i /\ n = 4))
    BY <1>1, <1>2, <1>8 DEF Finds, Addrs, Types
  <2>2. entries[i].database = db[d].addr /\ db[d].addr # NoAddress
        /\ (entries[i].ready => db[d].surfaces >= 1)
    BY <1>1, <1>2, <1>3, <1>5, <2>1 DEF Found, Bound, Addrs
  <2>3. OfHome'
    BY <1>1, <1>2, <1>3, <1>4, <1>5, <2>1, <2>2 DEF OfHome, OneEach, OwnAddress, Types, Addrs
  <2>4. OneEach'
    BY <1>3, <2>1 DEF OneEach
  <2>5. Reused'
    <3> SUFFICES ASSUME NEW o \in Databases, NEW j \in DOMAIN entries
                 PROVE  /\ db'[o].life = "open" /\ entries'[j].database = db'[o].addr /\ entries'[j].ready
                           /\ db'[o].surfaces >= 1 /\ db'[entries'[j].home].surfaces = 4
                           => entries'[j].home = o
                        /\ db'[o].entry = j =>
                             /\ entries'[j].home # o => db'[entries'[j].home].life = "closed"
                             /\ db'[entries'[j].home].surfaces = 4 => entries'[j].home = o
                             /\ db'[o].life = "open" /\ entries'[j].connected
                                => entries'[j].database = db'[o].addr
      BY <1>2, <2>1 DEF Reused, Addrs
    <3> DEFINE h == entries[j].home
    <3>1. h \in Databases /\ entries'[j].home = h /\ entries'[j].connected = entries[j].connected
          /\ entries'[j].database = entries[j].database /\ j # 0
      BY <1>1, <1>5, <2>1 DEF Types
    <3>2. db'[h].surfaces = 4 /\ db[h].surfaces # 4 => h = d
      BY <1>5, <3>1
    <3>3. /\ entries[j].database \in {NoAddress, db[h].addr} /\ db[h].life # "new"
          /\ db[h].surfaces = 4 /\ entries[j].database # NoAddress => entries[j].ready
      BY <1>2, <1>3 DEF OfHome, Addrs
    <3>4. db[o].addr = db[d].addr /\ db[o].life = "open" => o = d
      BY <1>3, <1>5 DEF OwnAddress
    <3>5. db[h].addr = db[d].addr /\ db[h].life = "open" => h = d
      BY <1>3, <1>5, <3>1 DEF OwnAddress
    <3>6. db'[o].life = "open" /\ entries'[j].database = db'[o].addr /\ entries'[j].ready
          /\ db'[o].surfaces >= 1 /\ db'[h].surfaces = 4 => h = o
      <4> SUFFICES ASSUME db[o].life = "open", entries[j].database = db[o].addr, entries'[j].ready,
                          db'[o].surfaces >= 1, db'[h].surfaces = 4, h # o
                   PROVE  FALSE
        BY <1>5, <3>1
      <4>1. db[o].addr # NoAddress
        BY <1>3, <1>2 DEF Bound, Addrs
      <4>2. h # d
        BY <4>1, <3>3, <3>4, <1>5
      <4>3. db[h].surfaces = 4 /\ entries[j].ready
        BY <3>2, <3>3, <4>1, <4>2
      <4>4. ~(db[o].surfaces >= 1)
        BY <4>3, <1>2, <1>3 DEF Reused, Addrs
      <4>5. o = d
        BY <4>4, <1>5
      <4>6. j = i
        BY <4>5, <2>1, <2>2, <1>3, <4>1 DEF OneEach
      <4> QED BY <4>3, <4>4, <4>5, <4>6, <2>2
    <3>7. CASE db[o].entry = j
      <4>1. /\ h # o => db[h].life = "closed"
            /\ db[h].surfaces = 4 => h = o
            /\ db[o].life = "open" /\ entries[j].connected => entries[j].database = db[o].addr
        BY <1>2, <1>3, <3>7 DEF Reused, Addrs
      <4> QED BY <1>5, <3>1, <3>2, <3>6, <4>1
    <3>8. ASSUME db'[o].entry = j, db[o].entry # j
          PROVE  o = d /\ i = j /\ n >= 2
      BY <1>5, <3>8
    <3>9. ASSUME o = d, i = j, n >= 2
          PROVE  /\ h # o => db[h].life = "closed"
                 /\ db'[h].surfaces = 4 => h = o
                 /\ entries[j].database = db[o].addr
      <4>1. entries[j].database = db[o].addr /\ db[h].addr = db[d].addr
        BY <2>2, <3>9, <3>3
      <4>2. h # o => db[h].life = "closed"
        BY <4>1, <3>5, <3>3, <3>9, <1>1, <3>1 DEF Types
      <4>3. ASSUME db'[h].surfaces = 4, h # o
            PROVE  FALSE
        <5>1. db[h].surfaces = 4 /\ entries[j].ready
          BY <3>2, <3>3, <3>9, <4>3, <2>2
        <5>2. db[d].surfaces >= 1
          BY <5>1, <2>2, <3>9
        <5> QED BY <5>1, <5>2, <4>1, <4>3, <3>9, <1>2, <1>3, <1>5 DEF Reused, Addrs
      <4> QED BY <4>1, <4>2, <4>3
    <3>10. CASE db'[o].entry = j /\ db[o].entry # j
      BY <1>5, <3>1, <3>6, <3>8, <3>9, <3>10
    <3> QED BY <3>1, <3>6, <3>7, <3>10
  <2> QED BY <1>6, <1>7, <2>3, <2>4, <2>5 DEF RegistryInv
<1>9. ASSUME \A j \in DOMAIN entries : ~Found(d, j) /\ Dropped(d, j),
             \/ DOMAIN entries' = DOMAIN entries /\ n = 0
             \/ /\ DOMAIN entries' = DOMAIN entries \cup {i} /\ i \notin DOMAIN entries
                /\ entries'[i].database = db[d].addr /\ entries'[i].home = d
                /\ entries'[i].ready = (n = 4)
      PROVE  OfHome' /\ OneEach' /\ Reused'
  <2>1. /\ db[d].addr # NoAddress
        /\ \A j \in DOMAIN entries :
             /\ entries[j].database = db[d].addr => entries[j].ready /\ db[d].surfaces = 0
             /\ entries[j].database = db[d].addr => entries'[j].database = NoAddress /\ ~entries'[j].ready
             /\ entries[j].database # db[d].addr
                => entries'[j].database = entries[j].database /\ entries'[j].ready = entries[j].ready
    <3>1. db[d].surfaces \in 0 .. 4
      BY <1>1 DEF Types
    <3> QED BY <1>2, <1>3, <1>5, <1>9, <3>1 DEF Found, Dropped, Bound, Addrs
  <2>2. \A j \in DOMAIN entries : entries'[j].database # db[d].addr
    BY <2>1
  <2>3. OneEach'
    BY <1>3, <1>9, <2>1, <2>2 DEF OneEach
  <2>4. ASSUME NEW j \in DOMAIN entries
        PROVE  /\ entries'[j].database \in {NoAddress, db'[entries'[j].home].addr}
               /\ db'[entries'[j].home].life # "new"
               /\ db'[entries'[j].home].surfaces = 4 /\ entries'[j].database # NoAddress => entries'[j].ready
    <3> DEFINE h == entries[j].home
    <3>1. h \in Databases /\ entries'[j].home = h
      BY <1>1, <1>5 DEF Types
    <3>2. /\ entries[j].database \in {NoAddress, db[h].addr} /\ db[h].life # "new"
          /\ db[h].surfaces = 4 /\ entries[j].database # NoAddress => entries[j].ready
      BY <1>2, <1>3 DEF OfHome, Addrs
    <3>3. CASE h # d
      BY <1>5, <2>1, <3>1, <3>2, <3>3
    <3>4. CASE h = d
      BY <1>5, <2>1, <3>1, <3>2, <3>4
    <3> QED BY <3>3, <3>4
  <2>5. ASSUME i \in DOMAIN entries', i \notin DOMAIN entries
        PROVE  /\ entries'[i].database \in {NoAddress, db'[entries'[i].home].addr}
               /\ db'[entries'[i].home].life # "new"
               /\ db'[entries'[i].home].surfaces = 4 => entries'[i].ready
    <3>1. entries'[i].database = db[d].addr /\ entries'[i].home = d /\ entries'[i].ready = (n = 4)
      BY <1>9, <2>5
    <3>2. db'[d].surfaces = 4 => n = 4
      BY <1>5
    <3> QED BY <1>5, <3>1, <3>2
  <2>6. OfHome'
    BY <1>2, <1>9, <2>4, <2>5 DEF OfHome, Addrs
  <2>7. ASSUME NEW o \in Databases, NEW j \in DOMAIN entries
        PROVE  /\ db'[o].life = "open" /\ entries'[j].database = db'[o].addr /\ entries'[j].ready
                  /\ db'[o].surfaces >= 1 /\ db'[entries'[j].home].surfaces = 4
                  => entries'[j].home = o
               /\ db'[o].entry = j =>
                    /\ entries'[j].home # o => db'[entries'[j].home].life = "closed"
                    /\ db'[entries'[j].home].surfaces = 4 => entries'[j].home = o
                    /\ db'[o].life = "open" /\ entries'[j].connected
                       => entries'[j].database = db'[o].addr
    <3> DEFINE h == entries[j].home
    <3>1. h \in Databases /\ entries'[j].home = h /\ entries'[j].connected = entries[j].connected /\ j # 0
      BY <1>1, <1>5 DEF Types
    <3>2. /\ entries[j].database \in {NoAddress, db[h].addr} /\ db[h].life # "new"
          /\ db[h].surfaces = 4 /\ entries[j].database # NoAddress => entries[j].ready
      BY <1>2, <1>3 DEF OfHome, Addrs
    <3>3. db[o].addr = db[d].addr /\ db[o].life = "open" => o = d
      BY <1>3, <1>5 DEF OwnAddress
    <3>4. h = d => db[h].life = "open" /\ db[h].surfaces # 4
      BY <1>5
    <3>5. db[o].life # "new" /\ db[o].addr = NoAddress => FALSE
      BY <1>2, <1>3 DEF Bound, Addrs
    <3>6. ASSUME db[o].life = "open", entries'[j].database = db[o].addr, entries'[j].ready,
                 db'[o].surfaces >= 1, db'[h].surfaces = 4, h # o
          PROVE  FALSE
      <4>1. entries[j].database = db[o].addr /\ entries[j].ready /\ entries[j].database # db[d].addr
        BY <2>1, <3>5, <3>6
      <4>2. o # d /\ h # d
        BY <4>1, <3>2, <3>5, <3>6
      <4>3. db[o].surfaces >= 1 /\ db[h].surfaces = 4
        BY <4>2, <3>1, <3>6, <1>5
      <4> QED BY <1>2, <1>3, <3>6, <4>1, <4>3 DEF Reused, Addrs
    <3>7. ASSUME db'[o].entry = j
          PROVE  db[o].entry = j
      BY <1>5, <1>9, <3>1, <3>7
    <3>8. ASSUME db[o].entry = j
          PROVE  /\ h # o => db[h].life = "closed"
                 /\ db'[h].surfaces = 4 => h = o
                 /\ db[o].life = "open" /\ entries[j].connected => entries'[j].database = db[o].addr
      <4>1. /\ h # o => db[h].life = "closed"
            /\ db[h].surfaces = 4 => h = o
            /\ db[o].life = "open" /\ entries[j].connected => entries[j].database = db[o].addr
        BY <1>2, <1>3, <3>8 DEF Reused, Addrs
      <4>2. db'[h].surfaces = 4 => h = o
        BY <4>1, <1>5, <3>1
      <4>3. o = d => db[o].surfaces # 0
        BY <1>2, <1>3, <3>1, <3>8 DEF Bound, Addrs
      <4>4. db[o].life = "open" /\ entries[j].connected => entries'[j].database = db[o].addr
        BY <4>1, <4>3, <2>1, <3>3
      <4> QED BY <4>1, <4>2, <4>4
    <3> QED BY <1>5, <3>1, <3>6, <3>7, <3>8
  <2>8. ASSUME NEW o \in Databases, i \in DOMAIN entries', i \notin DOMAIN entries
        PROVE  /\ db'[o].life = "open" /\ entries'[i].database = db'[o].addr => entries'[i].home = o
               /\ db'[o].entry = i => entries'[i].home = o /\ entries'[i].database = db'[o].addr
    <3>1. entries'[i].database = db[d].addr /\ entries'[i].home = d
      BY <1>9, <2>8
    <3>2. db[o].addr = db[d].addr /\ db[o].life = "open" => o = d
      BY <1>3, <1>5 DEF OwnAddress
    <3>3. ASSUME db[o].entry = i
          PROVE  FALSE
      <4>1. db[o].entry <= Len(entries) /\ db[o].entry \in Nat
        BY <1>1, <1>3 DEF Bound, Types
      <4>2. i # 0
        BY <1>1, <2>8 DEF Types
      <4> QED BY <1>1, <2>8, <3>3, <4>1, <4>2 DEF Types
    <3> QED BY <1>5, <3>1, <3>2, <3>3
  <2>9. Reused'
    BY <1>2, <1>9, <2>7, <2>8 DEF Reused, Addrs
  <2> QED BY <2>3, <2>6, <2>9
<1>10. CASE Makes(d, i, n)
  <2>1. DOMAIN entries' = DOMAIN entries \cup {i} /\ i \notin DOMAIN entries
    BY <1>1, <1>10 DEF Makes, Types
  <2> QED BY <1>2, <1>6, <1>7, <1>9, <1>10, <2>1, <1>1 DEF Makes, Addrs, RegistryInv
<1>11. CASE HasNone(d, i, n)
  <2>1. DOMAIN entries' = DOMAIN entries
    BY <1>1, <1>11 DEF HasNone, Types
  <2> QED BY <1>2, <1>6, <1>7, <1>9, <1>11, <2>1 DEF HasNone, Addrs, RegistryInv
<1> QED BY <1>8, <1>10, <1>11 DEF Moved

(* A step that changes an entry's use only keeps it. *)
LEMMA BusyKeeps ==
  ASSUME NEW i \in DOMAIN entries, NEW b \in BOOLEAN, RegistryInv,
         entries' = [entries EXCEPT ![i].busy = b], UNCHANGED db
  PROVE  /\ RegistryInv' /\ Len(entries') = Len(entries)
         /\ \A j \in DOMAIN entries : entries'[j].gen = entries[j].gen
                                      /\ entries'[j].connected = entries[j].connected
<1>1. Typed /\ Types
  BY TypesNow DEF RegistryInv
<1>2. \A j \in DOMAIN entries : entries[j] \in Entry
  BY <1>1 DEF Typed
<1>3. \A j \in DOMAIN entries :
        /\ entries'[j].home = entries[j].home /\ entries'[j].connected = entries[j].connected
        /\ entries'[j].database = entries[j].database /\ entries'[j].gen = entries[j].gen
        /\ entries'[j].ready = entries[j].ready
  BY <1>2 DEF Entry
<1>4. entries' \in Seq(Entry) /\ Len(entries') = Len(entries)
  <2>1. [entries[i] EXCEPT !.busy = b] \in Entry
    BY <1>2 DEF Entry
  <2>2. entries' = [entries EXCEPT ![i] = [entries[i] EXCEPT !.busy = b]]
    OBVIOUS
  <2> QED BY <1>1, <2>1, <2>2 DEF Typed
<1>5. DOMAIN entries' = DOMAIN entries /\ Typed'
  BY <1>1, <1>4 DEF Typed
<1>6. Bound' /\ OwnAddress'
  BY <1>4 DEF RegistryInv, Bound, OwnAddress
<1>7. OfHome' /\ OneEach'
  BY <1>3, <1>5 DEF RegistryInv, OfHome, OneEach
<1>8. Reused'
  BY <1>3, <1>5 DEF RegistryInv, Reused
<1> QED BY <1>3, <1>4, <1>5, <1>6, <1>7, <1>8 DEF RegistryInv

(* Closing a runtime's connections keeps it. *)
LEMMA ReleasedKeeps ==
  ASSUME NEW i \in DOMAIN entries, RegistryInv, RegistryAssumption,
         entries' = [entries EXCEPT ![i] = EntryReleased(@)], UNCHANGED db
  PROVE  /\ RegistryInv' /\ Len(entries') = Len(entries)
         /\ ~entries'[i].connected /\ entries'[i].gen = entries[i].gen + 1
         /\ \A j \in DOMAIN entries : j # i => entries'[j] = entries[j]
<1>1. Typed /\ Types /\ Addrs
  BY TypesNow DEF RegistryInv, Addrs, RegistryAssumption, None, Version, TokenSurface, ThreadSurface, All
<1>2. entries[i] \in Entry
  BY <1>1 DEF Typed
<1>3. /\ EntryReleased(entries[i]).home = entries[i].home /\ ~EntryReleased(entries[i]).connected
      /\ EntryReleased(entries[i]).database = NoAddress /\ ~EntryReleased(entries[i]).ready
      /\ EntryReleased(entries[i]).gen = entries[i].gen + 1
  BY <1>2 DEF EntryReleased, Unaliased, Entry
<1>4. EntryReleased(entries[i]) \in Entry
  <2> DEFINE g == entries[i].gen + 1
  <2>1. EntryReleased(entries[i]) = [[entries[i] EXCEPT !.database = NoAddress, !.ready = FALSE, !.gen = g]
                                EXCEPT !.connected = FALSE, !.busy = FALSE]
    BY DEF EntryReleased, Unaliased
  <2>2. g \in Nat \ {0}
    BY <1>2 DEF Entry
  <2> HIDE DEF g
  <2>3. [entries[i] EXCEPT !.database = NoAddress, !.ready = FALSE, !.gen = g] \in Entry
    BY <1>2, <2>2 DEF Entry
  <2> QED BY <2>1, <2>3 DEF Entry
<1>5. entries'[i] = EntryReleased(entries[i]) /\ \A j \in DOMAIN entries : j # i => entries'[j] = entries[j]
  BY <1>1 DEF Typed
<1>6. entries' \in Seq(Entry) /\ Len(entries') = Len(entries)
  BY <1>1, <1>4 DEF Typed
<1>7. DOMAIN entries' = DOMAIN entries /\ Typed'
  BY <1>1, <1>6 DEF Typed
<1>8. Bound' /\ OwnAddress'
  BY <1>6 DEF RegistryInv, Bound, OwnAddress
<1>9. OfHome' /\ OneEach'
  BY <1>1, <1>3, <1>5, <1>7 DEF RegistryInv, OfHome, OneEach
<1>10. Reused'
  BY <1>1, <1>3, <1>5, <1>7 DEF RegistryInv, Bound, Reused, Addrs, Types
<1> QED BY <1>3, <1>5, <1>6, <1>7, <1>8, <1>9, <1>10 DEF RegistryInv

(* Opening a database keeps it: the address was free. *)
LEMMA OpenKeeps ==
  ASSUME NEW d \in Databases, RegistryInv, RegistryAssumption, Open(d)
  PROVE  RegistryInv'
<1>1. Typed /\ Types /\ Addrs
  BY TypesNow DEF RegistryInv, Addrs, RegistryAssumption, None, Version, TokenSurface, ThreadSurface, All
<1>2. db[d] \in Row /\ entries' = entries /\ db[d].life = "new"
  BY <1>1 DEF Typed, Open
<1>3. PICK a \in Addresses :
        /\ \A o \in Databases : db[o].life = "open" => db[o].addr # a
        /\ db' = [db EXCEPT ![d].life = "open", ![d].addr = a]
  BY DEF Open
<1>4. db' = [db EXCEPT ![d] = [db[d] EXCEPT !.life = "open", !.addr = a]]
  BY <1>1, <1>3 DEF Typed
<1>5. [db[d] EXCEPT !.life = "open", !.addr = a] \in Row
  BY <1>2 DEF Row
<1>6. Typed'
  BY <1>1, <1>2, <1>4, <1>5 DEF Typed
<1>7. /\ \A o \in Databases : db'[o].surfaces = db[o].surfaces /\ db'[o].entry = db[o].entry
      /\ \A o \in Databases : o # d => db'[o].life = db[o].life /\ db'[o].addr = db[o].addr
      /\ db'[d].life = "open" /\ db'[d].addr = a
  BY <1>1, <1>2, <1>3 DEF Typed, Row
<1>8. Bound'
  BY <1>1, <1>2, <1>7 DEF RegistryInv, Bound, Addrs
<1>9. OwnAddress'
  <2> SUFFICES ASSUME NEW o \in Databases, NEW p \in Databases, db'[o].life = "open", db'[p].life = "open",
                      db'[o].addr = db'[p].addr, o # p
               PROVE  FALSE
    BY DEF OwnAddress
  <2>1. CASE o = d
    BY <1>3, <1>7, <2>1
  <2>2. CASE p = d
    BY <1>3, <1>7, <2>2
  <2>3. CASE o # d /\ p # d
    BY <1>7, <2>3 DEF RegistryInv, OwnAddress
  <2> QED BY <2>1, <2>2, <2>3
<1>10. OfHome' /\ OneEach'
  BY <1>1, <1>2, <1>7 DEF RegistryInv, OfHome, OneEach, Types
<1>11. Reused'
  BY <1>1, <1>2, <1>7 DEF RegistryInv, OfHome, Reused, Bound, Types, Addrs
<1> QED BY <1>6, <1>8, <1>9, <1>10, <1>11 DEF RegistryInv

(* Closing one keeps it. *)
LEMMA CloseKeeps ==
  ASSUME NEW d \in Databases, RegistryInv, Close(d)
  PROVE  RegistryInv'
<1>1. Typed /\ Types
  BY TypesNow DEF RegistryInv
<1>2. entries' = entries /\ db[d].life = "open" /\ db[d] \in Row
      /\ db' = [db EXCEPT ![d] = [db[d] EXCEPT !.life = "closed"]]
  BY <1>1 DEF Close, Typed
<1>3. /\ \A o \in Databases : db'[o].surfaces = db[o].surfaces /\ db'[o].entry = db[o].entry
                              /\ db'[o].addr = db[o].addr
      /\ \A o \in Databases : o # d => db'[o].life = db[o].life
      /\ db'[d].life = "closed"
  BY <1>1, <1>2 DEF Typed, Row
<1>4. Typed'
  <2>1. [db[d] EXCEPT !.life = "closed"] \in Row
    BY <1>2 DEF Row
  <2> QED BY <1>1, <1>2, <2>1 DEF Typed
<1>5. Bound' /\ OwnAddress'
  BY <1>2, <1>3 DEF RegistryInv, Bound, OwnAddress
<1>6. OfHome' /\ OneEach'
  BY <1>1, <1>2, <1>3 DEF RegistryInv, OfHome, OneEach, Types
<1>7. Reused'
  BY <1>1, <1>2, <1>3 DEF RegistryInv, Reused, Types
<1> QED BY <1>4, <1>5, <1>6, <1>7 DEF RegistryInv

(* The initial states have no entries and no tokens. *)
LEMMA InitRegistry == ASSUME RegistryInit, RegistryAssumption PROVE RegistryInv /\ TokensInv /\ ReleaseInv
<1>1. db \in [Databases -> Row] /\ entries \in Seq(Entry) /\ DOMAIN entries = {} /\ Len(entries) = 0
  BY DEF RegistryInit, Row, None, All
<1>2. \A d \in Databases : db[d].life = "new" /\ db[d].addr = NoAddress
                           /\ db[d].surfaces = 0 /\ db[d].entry = 0
  BY DEF RegistryInit, None
<1>3. RegistryInv
  BY <1>1, <1>2 DEF RegistryInv, Typed, Bound, OwnAddress, OfHome, OneEach, Reused, None, TokenSurface
<1>4. TokensInv
  BY <1>1 DEF RegistryInit, TokensInv, Held, Current, NoToken
<1>5. ReleaseInv
  BY DEF RegistryInit, Idle, ReleaseInv
<1> QED BY <1>3, <1>4, <1>5

(* A database keeps its entry while the entry's connections are open. *)
LEMMA MoveSameEntry ==
  ASSUME NEW d \in Databases, NEW i \in Nat, NEW n \in None .. All, RegistryAssumption, RegistryInv,
         Moved(d, i, n), NEW j \in DOMAIN entries, db[d].entry = j, entries[j].connected
  PROVE  db'[d].entry = j
<1>1. Types /\ Addrs
  BY TypesNow DEF RegistryInv, Addrs, RegistryAssumption, None, Version, TokenSurface, ThreadSurface, All
<1>2. db[d].life = "open" /\ entries[j].database = db[d].addr /\ db[d].addr # NoAddress
      /\ db[d].surfaces >= 2
  <2>1. db[d].life = "open" /\ j # 0
    BY <1>1 DEF Moved, Types
  <2> QED BY <1>1, <2>1 DEF RegistryInv, Reused, Bound, Addrs
<1>3. Found(d, j)
  BY <1>1, <1>2 DEF Found, Addrs, Types
<1>4. Finds(d, i, n)
  BY <1>3 DEF Moved, Makes, HasNone
<1>5. i = j
  BY <1>2, <1>4 DEF Finds, Found, RegistryInv, OneEach
<1> QED BY <1>5 DEF Moved

(* LOAD leaves the tokens valid, or makes them nobody's. *)
LEMMA HeldMoves ==
  ASSUME NEW d \in Databases, NEW i \in Nat, NEW n \in None .. All, RegistryAssumption, RegistryInv,
         Typed', Moved(d, i, n), NEW o \in Databases, NEW t, Held(o, t)
  PROVE  Held(o, t)'
<1>1. Types /\ Types' /\ Addrs
  BY TypesNow, TypesNext DEF RegistryInv, Addrs, RegistryAssumption, None, Version, TokenSurface, ThreadSurface, All
<1>2. \A j \in DOMAIN entries : /\ j \in DOMAIN entries' /\ entries'[j].connected = entries[j].connected
                                /\ entries'[j].gen \in {entries[j].gen, entries[j].gen + 1}
  <2>1. CASE Finds(d, i, n)
    BY <1>1, <2>1 DEF Moved, Finds, Types
  <2>2. CASE Makes(d, i, n)
    <3>1. \A j \in DOMAIN entries : j \in DOMAIN entries'
      BY <1>1, <2>2 DEF Makes, Types
    <3> QED BY <2>2, <3>1 DEF Moved, Makes, Dropped
  <2>3. CASE HasNone(d, i, n)
    <3>1. \A j \in DOMAIN entries : j \in DOMAIN entries'
      BY <1>1, <2>3 DEF HasNone, Types
    <3> QED BY <2>3, <3>1 DEF Moved, HasNone, Dropped
  <2> QED BY <2>1, <2>2, <2>3 DEF Moved
<1>3. Len(entries) <= Len(entries')
  <2>1. Len(entries) \in Nat
    BY <1>1 DEF Types
  <2>2. Len(entries') = Len(entries) \/ Len(entries') = Len(entries) + 1
    BY DEF Moved, Finds, Makes, HasNone
  <2> QED BY <2>1, <2>2
<1>4. t \in Nat \X Nat /\ t[1] \in Nat /\ t[2] \in Nat /\ t[1] <= Len(entries)
  BY DEF Held
<1>5. t[1] <= Len(entries')
  BY <1>1, <1>3, <1>4 DEF Types
<1>6. ASSUME t[1] \in DOMAIN entries'
      PROVE  /\ t[1] \in DOMAIN entries /\ t[2] <= entries'[t[1]].gen
             /\ t[2] = entries'[t[1]].gen => t[2] = entries[t[1]].gen
  <2>1. t[1] \in DOMAIN entries
    BY <1>1, <1>4, <1>6 DEF Types
  <2>2. t[2] <= entries[t[1]].gen /\ entries[t[1]].gen \in Nat
    BY <1>1, <2>1 DEF Held, Types
  <2> QED BY <1>2, <1>4, <2>1, <2>2
<1>7. ASSUME Current(t)'
      PROVE  db'[o].entry = t[1]
  <2>1. Current(t)
    BY <1>2, <1>6, <1>7 DEF Current
  <2>2. db[o].entry = t[1]
    BY <2>1 DEF Held
  <2>3. CASE o = d
    BY <2>1, <2>2, <2>3, MoveSameEntry DEF Current
  <2>4. CASE o # d
    BY <2>2, <2>4 DEF Moved
  <2> QED BY <2>3, <2>4
<1> QED BY <1>4, <1>5, <1>6, <1>7 DEF Held

(* The token a catalog gives is one its database may hold. *)
LEMMA CatalogHeld ==
  RegistryInv => \A d \in Databases :
    db[d].surfaces >= TokenSurface => Held(d, CatalogToken(d, entries, db))
<1> SUFFICES ASSUME RegistryInv, NEW d \in Databases, db[d].surfaces >= TokenSurface
             PROVE  Held(d, CatalogToken(d, entries, db))
  OBVIOUS
<1>1. Types
  BY TypesNow DEF RegistryInv
<1>2. db[d].entry \in DOMAIN entries
  BY <1>1 DEF RegistryInv, Bound, Types
<1> DEFINE i == db[d].entry
           g == entries[i].gen
<1>3. CatalogToken(d, entries, db) = <<i, g>>
  BY DEF CatalogToken
<1>4. i \in Nat /\ g \in Nat /\ i <= Len(entries)
  BY <1>1, <1>2 DEF Types
<1> HIDE DEF i, g
<1>5. Held(d, <<i, g>>)
  BY <1>4 DEF Held, Current, i, g
<1> QED BY <1>3, <1>5

(* The same of the next state. *)
LEMMA CatalogHeldNext ==
  RegistryInv' => \A d \in Databases :
    db'[d].surfaces >= TokenSurface => Held(d, CatalogToken(d, entries, db))'
<1>1. (RegistryInv => \A d \in Databases :
         db[d].surfaces >= TokenSurface => Held(d, CatalogToken(d, entries, db)))'
  BY CatalogHeld, PTL
<1> QED BY <1>1

(* A step of LOAD, alone or within rducks_enable. *)
LEMMA LoadKeeps ==
  ASSUME NEW d \in Databases, RegistryAssumption, RegistryInv, LoadFails(d) \/ LoadSucceeds(d)
  PROVE  /\ RegistryInv'
         /\ \A o \in Databases, t \in Nat \X Nat : Held(o, t) => Held(o, t)'
         /\ LoadSucceeds(d) => db'[d].surfaces >= TokenSurface
         /\ \A j \in DOMAIN entries : entries'[j].connected = entries[j].connected
<1>1. Typed
  BY DEF RegistryInv
<1>2. PICK i \in Nat, n \in None .. All : Typed' /\ Moved(d, i, n) /\ (LoadSucceeds(d) => n = All)
  BY <1>1, FailsMoves, SucceedsMoves DEF None, All
<1>3. RegistryInv'
  BY <1>2, MoveKeeps
<1>4. ASSUME NEW o \in Databases, NEW t, Held(o, t)
      PROVE  Held(o, t)'
  BY <1>2, <1>4, HeldMoves
<1>5. ASSUME LoadSucceeds(d)
      PROVE  db'[d].surfaces >= TokenSurface
  BY <1>2, <1>5 DEF Moved, All, None, TokenSurface
<1> QED BY <1>2, <1>3, <1>4, <1>5 DEF Moved

(* A step of the registry alone keeps the tokens of connections. *)
LEMMA TokensFrame ==
  ASSUME TokensInv, RegistryAssumption, attached' = attached,
         \A o \in Databases, t \in Nat \X Nat : Held(o, t) => Held(o, t)'
  PROVE  TokensInv'
<1> SUFFICES ASSUME NEW c \in Conns
             PROVE  Held(DatabaseOf[c], attached[c])'
  BY DEF TokensInv
<1>1. PICK t : t = attached[c]
  OBVIOUS
<1>2. Held(DatabaseOf[c], t) /\ t \in Nat \X Nat /\ DatabaseOf[c] \in Databases
  BY <1>1 DEF TokensInv, Held, RegistryAssumption
<1>3. Held(DatabaseOf[c], t)'
  BY <1>2
<1> QED BY <1>1, <1>3 DEF Held, Current

(* One connection takes another token. *)
LEMMA TokensUpdate ==
  ASSUME TokensInv, RegistryAssumption, NEW c \in Conns, NEW t, AttachedType,
         attached' = [attached EXCEPT ![c] = t], Held(DatabaseOf[c], t)',
         \A o \in Databases, u \in Nat \X Nat : Held(o, u) => Held(o, u)'
  PROVE  TokensInv'
<1> SUFFICES ASSUME NEW e \in Conns
             PROVE  Held(DatabaseOf[e], attached[e])'
  BY DEF TokensInv
<1>1. CASE e = c
  <2>1. attached'[e] = t
    BY <1>1 DEF AttachedType
  <2> QED BY <1>1, <2>1 DEF Held, Current
<1>2. CASE e # c
  <2>1. PICK u : u = attached[e]
    OBVIOUS
  <2>2. Held(DatabaseOf[e], u) /\ u \in Nat \X Nat /\ DatabaseOf[e] \in Databases
    BY <2>1 DEF TokensInv, Held, RegistryAssumption
  <2>3. Held(DatabaseOf[e], u)' /\ attached'[e] = u
    BY <1>2, <2>1, <2>2 DEF AttachedType
  <2> QED BY <2>3 DEF Held, Current
<1> QED BY <1>1, <1>2

(* A step that leaves the generations, the connections and the bindings. *)
LEMMA SameHeld ==
  ASSUME Len(entries') = Len(entries), DOMAIN entries' = DOMAIN entries,
         \A j \in DOMAIN entries : entries'[j].gen = entries[j].gen
                                   /\ entries'[j].connected = entries[j].connected,
         \A d \in Databases : db'[d].entry = db[d].entry
  PROVE  \A o \in Databases, t \in Nat \X Nat : Held(o, t) => Held(o, t)'
BY DEF Held, Current

(* The token of a detached connection is nobody's. *)
LEMMA NoTokenHeldNext ==
  ASSUME NEW d, Typed' PROVE Held(d, NoToken)'
BY TypesNext DEF Types, Held, Current, NoToken

(* A release keeps what it knows while nothing detaches but finalizers. *)
LEMMA ReleaseFrame ==
  ASSUME ReleaseInv, releasing' = releasing, anchors' \subseteq anchors,
         DOMAIN entries' = DOMAIN entries,
         \A j \in DOMAIN entries : entries'[j].gen = entries[j].gen,
         RegistryAssumption, \A d \in Databases : db'[d].entry = db[d].entry
  PROVE  ReleaseInv'
BY DEF ReleaseInv, RegistryAssumption

(* what ReleaseSparesOthers says of a step *)
Closes == \A i \in DOMAIN entries :
       entries[i].connected /\ ~entries'[i].connected
       => \A c \in Conns : <<<<i, entries[i].gen>>, c>> \notin anchors

(* the inductive invariant of the registry *)
RInv == RegistryInv /\ TokensInv /\ AttachedType /\ ReleaseInv

(* A release that ended has nothing to keep. *)
LEMMA IdleRelease == ASSUME releasing' = Idle PROVE ReleaseInv'
BY DEF Idle, ReleaseInv

(* Each action keeps the invariant, and only the end of a release closes a
   runtime's connections. *)
LEMMA RegistryStep ==
  ASSUME RegistryAssumption, RInv, AttachedType', [RegistryNext]_registryVars
  PROVE  RegistryInv' /\ TokensInv' /\ ReleaseInv' /\ Closes
<1>1. Typed /\ Types /\ RegistryInv /\ TokensInv /\ AttachedType /\ ReleaseInv
  BY TypesNow DEF RInv, RegistryInv
<1>2. ASSUME NEW d \in Databases, Open(d) \/ Close(d)
      PROVE  RegistryInv' /\ TokensInv' /\ ReleaseInv' /\ Closes
  <2>1. RegistryInv'
    BY <1>1, <1>2, OpenKeeps, CloseKeeps
  <2>2. UNCHANGED <<entries, attached, anchors, releasing>>
    BY <1>2 DEF Open, Close
  <2>3. \A o \in Databases : db'[o].entry = db[o].entry
    <3>1. \A o \in Databases : db[o] \in Row
      BY <1>1 DEF Typed
    <3>2. ASSUME NEW a, db' = [db EXCEPT ![d].life = "open", ![d].addr = a]
          PROVE  \A o \in Databases : db'[o].entry = db[o].entry
      BY <1>1, <3>1, <3>2 DEF Typed, Row
    <3>3. ASSUME db' = [db EXCEPT ![d].life = "closed"]
          PROVE  \A o \in Databases : db'[o].entry = db[o].entry
      BY <1>1, <3>1, <3>3 DEF Typed, Row
    <3> QED BY <1>2, <3>2, <3>3 DEF Open, Close
  <2>4. TokensInv'
    BY <1>1, <2>2, <2>3, SameHeld, TokensFrame
  <2>5. ReleaseInv'
    BY <1>1, <2>2, <2>3, ReleaseFrame
  <2> QED BY <2>1, <2>2, <2>4, <2>5 DEF Closes
<1>3. ASSUME UNCHANGED <<db, entries, attached, anchors, releasing>>
      PROVE  RegistryInv' /\ TokensInv' /\ ReleaseInv' /\ Closes
  <2>1. RegistryInv'
    BY <1>1, <1>3 DEF RegistryInv, Typed, Bound, OwnAddress, OfHome, OneEach, Reused
  <2>2. TokensInv' /\ ReleaseInv'
    BY <1>1, <1>3, SameHeld, TokensFrame, ReleaseFrame
  <2> QED BY <1>3, <2>1, <2>2 DEF Closes
<1>4. ASSUME NEW c \in Conns, Load(c)
      PROVE  RegistryInv' /\ TokensInv' /\ ReleaseInv' /\ Closes
  <2>1. /\ LoadFails(DatabaseOf[c]) \/ LoadSucceeds(DatabaseOf[c])
        /\ DatabaseOf[c] \in Databases /\ releasing' = Idle /\ attached' = attached
    BY <1>4 DEF Load, RegistryAssumption
  <2> QED BY <1>1, <2>1, LoadKeeps, TokensFrame, IdleRelease DEF Closes
<1>5. ASSUME NEW c \in Conns, EnableFirst(c)
      PROVE  RegistryInv' /\ TokensInv' /\ ReleaseInv' /\ Closes
  <2>1. /\ LoadSucceeds(DatabaseOf[c]) /\ DatabaseOf[c] \in Databases /\ releasing' = Idle
        /\ attached' = [attached EXCEPT ![c] = CatalogToken(DatabaseOf[c], entries', db')]
    BY <1>5 DEF EnableFirst, Attach, RegistryAssumption
  <2>2. RegistryInv' /\ db'[DatabaseOf[c]].surfaces >= TokenSurface
    BY <1>1, <2>1, LoadKeeps
  <2>3. PICK t : t = CatalogToken(DatabaseOf[c], entries', db')
    OBVIOUS
  <2>4. Held(DatabaseOf[c], t)'
    BY <2>1, <2>2, <2>3, CatalogHeldNext DEF Held, Current
  <2>5. TokensInv'
    BY <1>1, <2>1, <2>3, <2>4, LoadKeeps, TokensUpdate
  <2> QED BY <1>1, <2>1, <2>2, <2>5, LoadKeeps, IdleRelease DEF Closes
<1>6. ASSUME NEW c \in Conns, EnableAgain(c)
      PROVE  RegistryInv' /\ TokensInv' /\ ReleaseInv' /\ Closes
  <2>1. /\ DatabaseOf[c] \in Databases /\ releasing' = Idle
        /\ attached' = [attached EXCEPT ![c] = CatalogToken(DatabaseOf[c], entries', db')]
        /\ \/ UNCHANGED <<db, entries>> /\ db[DatabaseOf[c]].surfaces = All
           \/ LoadSucceeds(DatabaseOf[c])
    BY <1>6 DEF EnableAgain, Preflight, Attach, RegistryAssumption
  <2>2. /\ RegistryInv' /\ db'[DatabaseOf[c]].surfaces >= TokenSurface
        /\ \A o \in Databases, u \in Nat \X Nat : Held(o, u) => Held(o, u)'
        /\ Closes
    <3>1. CASE LoadSucceeds(DatabaseOf[c])
      BY <1>1, <2>1, <3>1, LoadKeeps DEF Closes
    <3>2. CASE UNCHANGED <<db, entries>> /\ db[DatabaseOf[c]].surfaces = All
      <4>1. RegistryInv'
        BY <1>1, <3>2 DEF RegistryInv, Typed, Bound, OwnAddress, OfHome, OneEach, Reused
      <4> QED BY <3>2, <4>1, SameHeld DEF Closes, All, TokenSurface
    <3> QED BY <2>1, <3>1, <3>2
  <2>3. PICK t : t = CatalogToken(DatabaseOf[c], entries', db')
    OBVIOUS
  <2>4. Held(DatabaseOf[c], t)'
    BY <2>1, <2>2, <2>3, CatalogHeldNext DEF Held, Current
  <2>5. TokensInv'
    BY <1>1, <2>1, <2>2, <2>3, <2>4, TokensUpdate
  <2> QED BY <2>1, <2>2, <2>5, IdleRelease
<1>7. ASSUME NEW c \in Conns, Register(c)
      PROVE  RegistryInv' /\ TokensInv' /\ ReleaseInv' /\ Closes
  <2>1. /\ DatabaseOf[c] \in Databases /\ releasing' = Idle /\ UNCHANGED <<db, entries>>
        /\ attached' = [attached EXCEPT ![c] = CatalogToken(DatabaseOf[c], entries, db)]
        /\ db[DatabaseOf[c]].surfaces >= TokenSurface
    BY <1>7 DEF Register, Attach, SqlToken, CatalogToken, RegistryAssumption
  <2>2. RegistryInv'
    BY <1>1, <2>1 DEF RegistryInv, Typed, Bound, OwnAddress, OfHome, OneEach, Reused
  <2>3. PICK t : t = CatalogToken(DatabaseOf[c], entries, db)
    OBVIOUS
  <2>4. Held(DatabaseOf[c], t)
    BY <1>1, <2>1, <2>3, CatalogHeld
  <2>5. Held(DatabaseOf[c], t)'
    BY <2>1, <2>4 DEF Held, Current
  <2>6. TokensInv'
    BY <1>1, <2>1, <2>3, <2>5, SameHeld, TokensUpdate
  <2> QED BY <2>1, <2>2, <2>6, IdleRelease DEF Closes
<1>8. ASSUME NEW i \in DOMAIN entries, CloseStream(i)
      PROVE  RegistryInv' /\ TokensInv' /\ ReleaseInv' /\ Closes
  <2>1. /\ entries' = [entries EXCEPT ![i].busy = FALSE]
        /\ UNCHANGED db /\ UNCHANGED <<attached, anchors, releasing>>
    BY <1>8 DEF CloseStream
  <2>2. /\ RegistryInv' /\ Len(entries') = Len(entries)
        /\ \A j \in DOMAIN entries : entries'[j].gen = entries[j].gen
                                     /\ entries'[j].connected = entries[j].connected
    BY <1>1, <2>1, BusyKeeps
  <2>3. DOMAIN entries' = DOMAIN entries
    BY <2>1
  <2> QED BY <1>1, <2>1, <2>2, <2>3, SameHeld, TokensFrame, ReleaseFrame DEF Closes
<1>9. ASSUME NEW c \in Conns, OpenStream(c)
      PROVE  RegistryInv' /\ TokensInv' /\ ReleaseInv' /\ Closes
  <2>1. attached[c][1] \in DOMAIN entries
    BY <1>9 DEF OpenStream, Live
  <2>2. /\ entries' = [entries EXCEPT ![attached[c][1]].busy = TRUE]
        /\ UNCHANGED db /\ attached' = attached /\ releasing' = Idle
    BY <1>9 DEF OpenStream
  <2>3. /\ RegistryInv' /\ Len(entries') = Len(entries)
        /\ \A j \in DOMAIN entries : entries'[j].gen = entries[j].gen
                                     /\ entries'[j].connected = entries[j].connected
    BY <1>1, <2>1, <2>2, BusyKeeps
  <2>4. DOMAIN entries' = DOMAIN entries
    BY <2>2
  <2> QED BY <1>1, <2>2, <2>3, <2>4, SameHeld, TokensFrame, IdleRelease DEF Closes
<1>10. ASSUME NEW c \in Conns, BeginRelease(c)
       PROVE  RegistryInv' /\ TokensInv' /\ ReleaseInv' /\ Closes
  <2>1. PICK t : t = attached[c]
    OBVIOUS
  <2>2. PICK i \in DOMAIN entries : t = <<i, entries[i].gen>> /\ entries[i].connected
    BY <1>10, <2>1 DEF BeginRelease, Live
  <2>3. t[1] = i /\ Current(t) /\ Held(DatabaseOf[c], t)
    <3>1. t[1] = i /\ t[2] = entries[i].gen
      BY <2>2
    <3>2. Current(t)
      BY <2>2, <3>1 DEF Current
    <3>3. Held(DatabaseOf[c], attached[c])
      BY <1>1 DEF TokensInv
    <3> QED BY <2>1, <3>1, <3>2, <3>3
  <2>4. db[DatabaseOf[c]].entry = i
    BY <2>3 DEF Held
  <2>5. /\ UNCHANGED db /\ UNCHANGED <<attached, anchors>>
        /\ entries' = entries \/ entries' = [entries EXCEPT ![i].busy = FALSE]
        /\ releasing' = [conn |-> c, token |-> t, last |-> LastAnchor(t, c), at |-> "detach"]
    BY <1>10, <2>1, <2>3 DEF BeginRelease
  <2>6. /\ RegistryInv' /\ Len(entries') = Len(entries)
        /\ \A j \in DOMAIN entries : entries'[j].gen = entries[j].gen
                                     /\ entries'[j].connected = entries[j].connected
    <3>1. CASE entries' = entries
      BY <1>1, <2>5, <3>1 DEF RegistryInv, Typed, Bound, OwnAddress, OfHome, OneEach, Reused
    <3>2. CASE entries' = [entries EXCEPT ![i].busy = FALSE]
      BY <1>1, <2>5, <3>2, BusyKeeps
    <3> QED BY <2>5, <3>1, <3>2
  <2>7. DOMAIN entries' = DOMAIN entries
    BY <2>5
  <2>8. TokensInv'
    BY <1>1, <2>5, <2>6, <2>7, SameHeld, TokensFrame
  <2>9. ReleaseInv'
    <3>1. releasing'.conn = c /\ releasing'.token = t /\ releasing'.at = "detach"
          /\ releasing'.last = LastAnchor(t, c)
      BY <2>5
    <3>2. t = <<db'[DatabaseOf[c]].entry, entries'[db'[DatabaseOf[c]].entry].gen>>
          /\ db'[DatabaseOf[c]].entry \in DOMAIN entries'
      BY <2>2, <2>4, <2>5, <2>6, <2>7
    <3>3. ASSUME LastAnchor(t, c), NEW o \in Conns, <<t, o>> \in anchors
          PROVE  o = c
      <4>1. o \in {p \in Conns : <<t, p>> \in anchors}
        BY <3>3
      <4> QED BY <3>3, <4>1 DEF LastAnchor
    <3>4. anchors' = anchors
      BY <2>5
    <3> QED BY <3>1, <3>2, <3>3, <3>4 DEF ReleaseInv
  <2> QED BY <2>6, <2>8, <2>9 DEF Closes
<1>11. CASE ReleaseDetaches
  <2> DEFINE c == releasing.conn
             D == DatabaseOf[c]
  <2>1. /\ c \in Conns /\ UNCHANGED <<db, entries>>
        /\ attached' = [attached EXCEPT ![c] = NoToken] /\ anchors' = anchors \ {<<releasing.token, c>>}
        /\ releasing' \in {Idle, [releasing EXCEPT !.at = "close"]}
        /\ releasing' # Idle => releasing.last
    BY <1>1, <1>11 DEF ReleaseDetaches, Cleanup, ReleaseInv
  <2>2. RegistryInv'
    BY <1>1, <2>1 DEF RegistryInv, Typed, Bound, OwnAddress, OfHome, OneEach, Reused
  <2>3. TokensInv'
    <3>1. Held(DatabaseOf[c], NoToken)'
      BY <2>2, NoTokenHeldNext DEF RegistryInv
    <3>2. PICK o : o = c
      OBVIOUS
    <3>3. \A p \in Databases, u \in Nat \X Nat : Held(p, u) => Held(p, u)'
      BY <2>1, SameHeld
    <3>4. Held(DatabaseOf[o], NoToken)'
      BY <2>2, NoTokenHeldNext DEF RegistryInv
    <3>5. PICK t : t = NoToken
      OBVIOUS
    <3>6. Held(DatabaseOf[o], t)'
      BY <3>4, <3>5 DEF Held, Current
    <3> QED BY <1>1, <2>1, <3>2, <3>3, <3>5, <3>6, TokensUpdate
  <2>4. ReleaseInv'
    <3>1. CASE releasing' = Idle
      BY <3>1, IdleRelease
    <3>2. CASE releasing' # Idle
      <4>1. releasing' = [releasing EXCEPT !.at = "close"] /\ releasing.last /\ releasing.at = "detach"
        BY <1>11, <2>1, <3>2 DEF ReleaseDetaches
      <4>3. releasing'.conn = releasing.conn /\ releasing'.token = releasing.token
            /\ releasing'.at # "detach"
        BY <4>1
      <4> QED BY <1>1, <2>1, <4>1, <4>3 DEF ReleaseInv
    <3> QED BY <3>1, <3>2
  <2> QED BY <2>1, <2>2, <2>3, <2>4 DEF Closes
<1>12. CASE ReleaseCloses
  <2>1. PICK i : i = db[DatabaseOf[releasing.conn]].entry
    OBVIOUS
  <2>2. /\ i \in DOMAIN entries /\ releasing.token = <<i, entries[i].gen>>
        /\ \A o \in Conns : <<releasing.token, o>> \notin anchors
    BY <1>1, <1>12, <2>1 DEF ReleaseCloses, ReleaseInv
  <2>3. /\ entries' = [entries EXCEPT ![i] = EntryReleased(@)] /\ UNCHANGED db
        /\ attached' = attached /\ releasing' = Idle
    BY <1>12, <2>1 DEF ReleaseCloses
  <2>4. /\ RegistryInv' /\ Len(entries') = Len(entries)
        /\ ~entries'[i].connected /\ entries'[i].gen = entries[i].gen + 1
        /\ \A j \in DOMAIN entries : j # i => entries'[j] = entries[j]
    BY <1>1, <2>2, <2>3, ReleasedKeeps
  <2>5. \A o \in Databases, t \in Nat \X Nat : Held(o, t) => Held(o, t)'
    <3> SUFFICES ASSUME NEW o \in Databases, NEW t \in Nat \X Nat, Held(o, t)
                 PROVE  Held(o, t)'
      OBVIOUS
    <3>1. DOMAIN entries' = DOMAIN entries /\ entries[i].gen \in Nat
      BY <1>1, <2>2, <2>3 DEF Types
    <3>2. CASE t[1] = i
      BY <2>2, <2>3, <2>4, <3>1, <3>2 DEF Held, Current
    <3>3. CASE t[1] # i
      BY <2>3, <2>4, <3>1, <3>3 DEF Held, Current
    <3> QED BY <3>2, <3>3
  <2>6. Closes
    BY <2>2, <2>4 DEF Closes
  <2> QED BY <1>1, <2>3, <2>4, <2>5, <2>6, TokensFrame, IdleRelease
<1>13. CASE ReleaseElsewhere
  <2>1. UNCHANGED <<db, entries, attached, anchors>> /\ releasing' = Idle
    BY <1>13 DEF ReleaseElsewhere
  <2>2. RegistryInv'
    BY <1>1, <2>1 DEF RegistryInv, Typed, Bound, OwnAddress, OfHome, OneEach, Reused
  <2> QED BY <1>1, <2>1, <2>2, SameHeld, TokensFrame, IdleRelease DEF Closes
<1>14. ASSUME NEW c \in Conns, Collect(c)
       PROVE  RegistryInv' /\ TokensInv' /\ ReleaseInv' /\ Closes
  <2>1. /\ UNCHANGED <<db, entries, releasing>> /\ anchors' \subseteq anchors
        /\ attached' = attached \/ attached' = [attached EXCEPT ![c] = NoToken]
    BY <1>14 DEF Collect, Cleanup
  <2>2. RegistryInv'
    BY <1>1, <2>1 DEF RegistryInv, Typed, Bound, OwnAddress, OfHome, OneEach, Reused
  <2>3. \A p \in Databases, u \in Nat \X Nat : Held(p, u) => Held(p, u)'
    BY <2>1, SameHeld
  <2>4. TokensInv'
    <3>1. Held(DatabaseOf[c], NoToken)'
      BY <2>2, NoTokenHeldNext DEF RegistryInv
    <3>2. PICK t : t = NoToken
      OBVIOUS
    <3>3. Held(DatabaseOf[c], t)'
      BY <3>1, <3>2 DEF Held, Current
    <3> QED BY <1>1, <2>1, <2>3, <3>2, <3>3, TokensUpdate, TokensFrame
  <2> QED BY <1>1, <2>1, <2>2, <2>4, ReleaseFrame DEF Closes
<1>15. ASSUME NEW c \in Conns, Disconnect(c) \/ EnableRefused(c) \/ EnableMisses(c)
       PROVE  UNCHANGED <<db, entries, attached, anchors, releasing>>
  BY <1>15 DEF Disconnect, EnableRefused, EnableMisses, Preflight
<1>16. CASE Done \/ UNCHANGED registryVars
  BY <1>3, <1>16 DEF Done, registryVars
<1> QED BY <1>2, <1>3, <1>4, <1>5, <1>6, <1>7, <1>8, <1>9, <1>10, <1>11, <1>12, <1>13, <1>14, <1>15, <1>16 DEF RegistryNext

(* The registry, the tokens of connections and a release under way agree at all
   times. *)
LEMMA RegistryAgrees == RegistrySpec => [](RInv /\ AnchorsInv /\ ReleasingConn)
<1>1. RegistryInit => RInv /\ AnchorsInv /\ ReleasingConn
  BY InitRegistry, InitAnchors, RegistryAssumption DEF RegistryInit, Idle, ReleasingConn, RInv, AnchorsInv
<1>2. RInv /\ AnchorsInv /\ ReleasingConn /\ [RegistryNext]_registryVars => RInv' /\ AnchorsInv' /\ ReleasingConn'
  BY StepAnchors, ReleasingStep, RegistryStep, RegistryAssumption DEF ReleasingConn, AnchorsInv, RInv
<1> QED BY <1>1, <1>2, PTL DEF RegistrySpec

(* An open database whose runtime's first database was loaded completely is
   served by connections to itself, however addresses are used again. *)
THEOREM ServesCorrect == RegistrySpec => []ServesItsDatabase
<1>1. RInv => ServesItsDatabase
  <2> SUFFICES ASSUME RInv, NEW d \in Databases, db[d].life = "open", db[d].entry # 0
               PROVE  db[entries[db[d].entry].home].surfaces = All => entries[db[d].entry].home = d
    BY DEF ServesItsDatabase
  <2>1. Types
    BY TypesNow DEF RInv, RegistryInv
  <2>2. db[d].entry \in DOMAIN entries
    BY <2>1 DEF RInv, RegistryInv, Bound, Types
  <2> QED BY <2>2 DEF RInv, RegistryInv, Reused
<1> QED BY <1>1, RegistryAgrees, PTL

(* A release closes a runtime's connections only when no connection is attached
   to it, whatever finalizers ran since the release looked. *)
THEOREM ReleaseCorrect == RegistrySpec => ReleaseSparesOthers
<1>1. RInv /\ AnchorsInv /\ ReleasingConn /\ [RegistryNext]_registryVars => [Closes]_registryVars
  BY StepAnchors, RegistryStep, RegistryAssumption DEF ReleasingConn, AnchorsInv
<1> QED BY <1>1, RegistryAgrees, PTL DEF RegistrySpec, ReleaseSparesOthers, Closes

(*------------------------------ the evaluators ---------------------------*)

Users(o) == {u \in Registrations : life[u] \in {"callable", "listed", "unlisted"} /\ EvaluatorOf[u] = o}

(* The inductive invariant: the holds are those of the registrations. *)
UsersHold ==
  /\ HeapType(precious) /\ life = [u \in Registrations |-> life[u]]
  /\ \A o \in Objects \ {NoObject} : IsFiniteSet(Users(o)) /\ HoldsOn(precious, o) = Cardinality(Users(o))

(* At first nobody uses an evaluator. *)
LEMMA InitUsers == ASSUME UdfInit PROVE UsersHold
<1>1. HeapType(precious) /\ \A o \in Objects : precious.preserved[o] = 0 /\ precious.lost[o] = 0 /\ precious.queue = <<>>
  BY DEF UdfInit, EmptyHeap, HeapType
<1>2. \A o : Users(o) = {}
  BY DEF UdfInit, Users
<1>3. \A o \in Objects : HoldsOn(precious, o) = 0
  BY <1>1, CountEmpty DEF HoldsOn, Waiting
<1> QED BY <1>1, <1>2, <1>3, FS_EmptySet DEF UsersHold, UdfInit

(* A step that moves no registration into or out of use. *)
LEMMA SameUsers ==
  ASSUME UsersHold, life' = [u \in Registrations |-> life'[u]], HeapType(precious'),
         \A o \in Objects : HoldsOn(precious', o) = HoldsOn(precious, o),
         \A u \in Registrations : life'[u] \in {"callable", "listed", "unlisted"}
                         <=> life[u] \in {"callable", "listed", "unlisted"}
  PROVE  UsersHold'
<1>1. \A o \in Objects : Users(o)' = Users(o)
  BY DEF Users
<1> QED BY <1>1 DEF UsersHold

(* A registration preserves its evaluator, a destruction gives it up, and every
   other action leaves the holds as they are. *)
LEMMA UsersStep == ASSUME UdfAssumption, UsersHold, [UdfNext]_udfRegistryVars PROVE UsersHold'
<1> DEFINE InUse == {"callable", "listed", "unlisted"}
<1>1. HeapType(precious) /\ life = [u \in Registrations |-> life[u]]
  BY DEF UsersHold
<1>2. ASSUME precious' = Drained(precious), life' = life
      PROVE  UsersHold'
  <2>1. HeapType(precious') /\ \A o \in Objects : HoldsOn(precious', o) = HoldsOn(precious, o)
    BY <1>1, <1>2, DrainKeeps
  <2> QED BY <1>1, <1>2, <2>1, SameUsers
<1>3. ASSUME NEW u \in Registrations, RegisterUdf(u)
      PROVE  UsersHold'
  <2> DEFINE e == EvaluatorOf[u]
  <2>1. e \in Objects \ {NoObject}
    BY DEF UdfAssumption
  <2>2. life[u] = "none" /\ life' = [life EXCEPT ![u] = "callable"]
        /\ precious' = Preserved(Drained(precious), e)
    BY <1>3 DEF RegisterUdf
  <2>3. HeapType(precious') /\ \A o \in Objects : HoldsOn(precious', o) = HoldsOn(precious, o) + IF o = e THEN 1 ELSE 0
    BY <1>1, <2>1, <2>2, DrainKeeps, PreservedHolds
  <2>4. life' = [v \in Registrations |-> life'[v]] /\ \A v \in Registrations : life'[v] = IF v = u THEN "callable" ELSE life[v]
    BY <1>1, <2>2
  <2>5. ASSUME NEW o \in Objects \ {NoObject}
        PROVE  IsFiniteSet(Users(o)') /\ HoldsOn(precious', o) = Cardinality(Users(o)')
    <3>1. IsFiniteSet(Users(o)) /\ HoldsOn(precious, o) = Cardinality(Users(o)) /\ Cardinality(Users(o)) \in Nat
      BY FS_CardinalityType DEF UsersHold
    <3>2. CASE o = e
      <4>1. Users(o)' = Users(o) \cup {u} /\ u \notin Users(o)
        BY <2>2, <2>4, <3>2 DEF Users
      <4> QED BY <2>3, <3>1, <3>2, <4>1, FS_AddElement
    <3>3. CASE o # e
      <4>1. Users(o)' = Users(o)
        BY <2>2, <2>4, <3>3 DEF Users
      <4> QED BY <2>3, <3>1, <3>3, <4>1
    <3> QED BY <3>2, <3>3
  <2> QED BY <2>3, <2>4, <2>5 DEF UsersHold
<1>4. ASSUME NEW u \in Registrations, Enlist(u) \/ Unlist(u)
      PROVE  UsersHold'
  <2>1. precious' = precious /\ life[u] \in InUse
        /\ \E l \in InUse : life' = [life EXCEPT ![u] = l]
    BY <1>4 DEF Enlist, Unlist
  <2>2. life' = [v \in Registrations |-> life'[v]] /\ \A v \in Registrations : life'[v] \in InUse <=> life[v] \in InUse
    BY <1>1, <2>1
  <2> QED BY <1>1, <2>1, <2>2, SameUsers
<1>5. ASSUME NEW t \in Threads, NEW u \in Registrations, DestroyUdf(t, u)
      PROVE  UsersHold'
  <2> DEFINE e == EvaluatorOf[u]
  <2>1. e \in Objects \ {NoObject}
    BY DEF UdfAssumption
  <2>2. life[u] = "unlisted" /\ life' = [life EXCEPT ![u] = "destroyed"] /\ precious' \in GivenUp(precious, t, e)
    BY <1>5 DEF DestroyUdf
  <2>3. HeapType(precious') /\ \A o \in Objects : HoldsOn(precious', o) = HoldsOn(precious, o) - IF o = e THEN 1 ELSE 0
    BY <1>1, <2>1, <2>2, GivenUpHolds
  <2>4. life' = [v \in Registrations |-> life'[v]] /\ \A v \in Registrations : life'[v] = IF v = u THEN "destroyed" ELSE life[v]
    BY <1>1, <2>2
  <2>5. ASSUME NEW o \in Objects \ {NoObject}
        PROVE  IsFiniteSet(Users(o)') /\ HoldsOn(precious', o) = Cardinality(Users(o)')
    <3>1. IsFiniteSet(Users(o)) /\ HoldsOn(precious, o) = Cardinality(Users(o)) /\ Cardinality(Users(o)) \in Nat
      BY FS_CardinalityType DEF UsersHold
    <3>2. CASE o = e
      <4>1. Users(o)' = Users(o) \ {u} /\ u \in Users(o)
        BY <2>2, <2>4, <3>2 DEF Users
      <4> QED BY <2>3, <3>1, <3>2, <4>1, FS_RemoveElement
    <3>3. CASE o # e
      <4>1. Users(o)' = Users(o)
        BY <2>2, <2>4, <3>3 DEF Users
      <4> QED BY <2>3, <3>1, <3>3, <4>1
    <3> QED BY <3>2, <3>3
  <2> QED BY <2>3, <2>4, <2>5 DEF UsersHold
<1>6. ASSUME precious' = precious, life' = life
      PROVE  UsersHold'
  BY <1>1, <1>6, SameUsers
<1>7. ASSUME NEW t \in Threads, CallReturns(t) \/ \E u \in Registrations : Call(t, u)
      PROVE  UsersHold'
  BY <1>6, <1>7 DEF CallReturns, Call
<1>8. ASSUME NEW u \in Registrations, Refuse(u)
      PROVE  UsersHold'
  BY <1>2, <1>8 DEF Refuse
<1>9. CASE Inspect
  BY <1>2, <1>9 DEF Inspect
<1>10. CASE UdfDone \/ UNCHANGED udfRegistryVars
  BY <1>6, <1>10 DEF UdfDone, udfRegistryVars
<1> QED BY <1>3, <1>4, <1>5, <1>7, <1>8, <1>9, <1>10 DEF UdfNext

(* No closure is collected under a registration that may call it, and none is
   kept without a registration or a release to account for it, whichever threads
   destroy and however often the queue is drained. *)
THEOREM EvaluatorsAreHeld == UdfSpec => []EvaluatorsHeld
<1>1. UdfInit => UsersHold
  BY InitUsers
<1>2. UsersHold /\ [UdfNext]_udfRegistryVars => UsersHold'
  BY UsersStep, UdfAssumption
<1>3. UsersHold => EvaluatorsHeld
  <2> SUFFICES ASSUME UsersHold, NEW o \in Objects \ {NoObject}
               PROVE  precious.preserved[o] = Cardinality(Users(o)) + Waiting(precious, o)
    BY DEF EvaluatorsHeld, Users
  <2>1. precious.preserved[o] \in Int /\ precious.lost[o] \in Nat /\ CountOf(precious.queue, o) \in Nat
        /\ Cardinality(Users(o)) = precious.preserved[o] - Waiting(precious, o)
    BY CountNat DEF UsersHold, HeapType, HoldsOn
  <2> QED BY <2>1 DEF Waiting
<1> QED BY <1>1, <1>2, <1>3, PTL DEF UdfSpec

(*---------------------- induction over the naturals ----------------------*)

(* Every set of naturals that is not empty has a least element. *)
LEMMA LeastElement ==
  ASSUME NEW S \in SUBSET Nat, S # {}
  PROVE  \E x \in S : \A y \in S : x <= y
<1> DEFINE R == OpToRel(<, Nat)
<1>1. IsWellFoundedOn(R, Nat)
  BY NatLessThanWellFounded
<1> HIDE DEF R
<1>2. PICK x \in S : \A y \in S : <<y, x>> \notin R
  BY <1>1, WFMin
<1>3. ASSUME NEW y \in S
      PROVE  x <= y
  <2>1. <<y, x>> \notin R
    BY <1>2
  <2>2. ~ (y < x)
    BY <2>1 DEF R, OpToRel
  <2> QED BY <2>2
<1> QED BY <1>3

(* Induction over the naturals, for a set. *)
LEMMA Induction ==
  ASSUME NEW S \in SUBSET Nat, 0 \in S, \A n \in S : n + 1 \in S
  PROVE  S = Nat
<1>1. SUFFICES ASSUME Nat \ S # {}
               PROVE  FALSE
  OBVIOUS
<1>2. PICK x \in Nat \ S : \A y \in Nat \ S : x <= y
  BY <1>1, LeastElement
<1>3. x - 1 \in Nat
  BY <1>2
<1>4. x - 1 \in S
  BY <1>2, <1>3
<1>5. (x - 1) + 1 \in S
  BY <1>4
<1> QED BY <1>2, <1>5

(* A function may be defined by recursion over the naturals. *)
Recurs(f, V, base, step) ==
  f \in [Nat -> V] /\ f[0] = base /\ \A k \in Nat : f[k + 1] = step[<<k, f[k]>>]

(* A function can be defined by recursion over the naturals. *)
LEMMA Recursion ==
  ASSUME NEW V, NEW base \in V, NEW step \in [Nat \X V -> V]
  PROVE  \E f : Recurs(f, V, base, step)
<1> DEFINE A(n) == {g \in [0 .. n -> V] : g[0] = base /\ \A k \in 0 .. n - 1 : g[k + 1] = step[<<k, g[k]>>]}
<1>1. \A n \in Nat : A(n) # {}
  <2> DEFINE S == {n \in Nat : A(n) # {}}
  <2>1. 0 \in S
    <3>1. [k \in 0 .. 0 |-> base] \in A(0)
      OBVIOUS
    <3> QED BY <3>1
  <2>2. ASSUME NEW n \in S
        PROVE  n + 1 \in S
    <3>1. PICK g : g \in A(n)
      BY <2>2
    <3> DEFINE h == [k \in 0 .. n + 1 |-> IF k <= n THEN g[k] ELSE step[<<n, g[n]>>]]
    <3>2. step[<<n, g[n]>>] \in V
      BY <3>1
    <3>3. h \in [0 .. n + 1 -> V]
      BY <3>1, <3>2
    <3>4. ASSUME NEW k \in 0 .. n
          PROVE  h[k + 1] = step[<<k, h[k]>>]
      <4>1. h[k] = g[k]
        OBVIOUS
      <4>2. CASE k = n
        BY <4>1, <4>2
      <4>3. CASE k # n
        BY <4>1, <4>3, <3>1
      <4> QED BY <4>2, <4>3
    <3>5. h[0] = base
      BY <3>1
    <3>6. h \in A(n + 1)
      <4>1. (n + 1) - 1 = n
        BY <2>2
      <4> HIDE DEF h
      <4> QED BY <3>3, <3>4, <3>5, <4>1
    <3>7. A(n + 1) # {}
      <4> HIDE DEF A, h
      <4> QED BY <3>6
    <3>8. n + 1 \in Nat
      BY <2>2
    <3> QED BY <3>7, <3>8
  <2> HIDE DEF S
  <2>3. S = Nat
    BY <2>1, <2>2, Induction DEF S
  <2> QED BY <2>3 DEF S
<1>2. \A k \in Nat : \A n, m \in Nat : \A g \in A(n), h \in A(m) : k <= n /\ k <= m => g[k] = h[k]
  <2> DEFINE Same(k) == \A n, m \in Nat : \A g \in A(n), h \in A(m) : k <= n /\ k <= m => g[k] = h[k]
             S == {k \in Nat : Same(k)}
  <2>1. 0 \in S
    OBVIOUS
  <2>2. ASSUME NEW k \in S
        PROVE  k + 1 \in S
    <3>1. ASSUME NEW n \in Nat, NEW m \in Nat, NEW g \in A(n), NEW h \in A(m), k + 1 <= n, k + 1 <= m
          PROVE  g[k + 1] = h[k + 1]
      <4>1. g[k] = h[k]
        <5>1. Same(k) /\ k \in Nat
          OBVIOUS
        <5>2. k <= n /\ k <= m
          BY <3>1, <5>1
        <5> HIDE DEF A
        <5> QED BY <5>1, <5>2
      <4>2. g[k + 1] = step[<<k, g[k]>>] /\ h[k + 1] = step[<<k, h[k]>>]
        BY <3>1
      <4> QED BY <4>1, <4>2
    <3>2. Same(k + 1) /\ k + 1 \in Nat
      <4> HIDE DEF A
      <4> QED BY <3>1
    <3> QED BY <3>2
  <2> HIDE DEF S
  <2>3. S = Nat
    BY <2>1, <2>2, Induction DEF S
  <2> QED BY <2>3 DEF S
<1> DEFINE G(n) == CHOOSE g \in A(n) : TRUE
           f == [k \in Nat |-> G(k)[k]]
<1>3. ASSUME NEW n \in Nat
      PROVE  G(n) \in A(n)
  BY <1>1
<1> HIDE DEF G
<1>4. f \in [Nat -> V]
  BY <1>3
<1>5. f[0] = base
  BY <1>3
<1>6. ASSUME NEW k \in Nat
      PROVE  f[k + 1] = step[<<k, f[k]>>]
  <2>1. G(k + 1) \in A(k + 1) /\ G(k) \in A(k)
    BY <1>3
  <2>2. G(k + 1)[k] = G(k)[k]
    <3> HIDE DEF A
    <3> QED BY <1>2, <2>1
  <2>3. G(k + 1)[k + 1] = step[<<k, G(k + 1)[k]>>]
    BY <2>1
  <2> QED BY <2>2, <2>3
<1>7. Recurs(f, V, base, step)
  <2> HIDE DEF f
  <2> QED BY <1>4, <1>5, <1>6 DEF Recurs
<1> QED BY <1>7

(*---------------------------- places in chains ---------------------------*)

(* The least of some places in a sequence. *)
LEMMA MinPlace ==
  ASSUME NEW P \in SUBSET Nat, P # {}
  PROVE  Min(P) \in P /\ \A y \in P : Min(P) <= y
<1>1. \E x \in P : \A y \in P : x <= y
  BY LeastElement
<1> QED BY <1>1 DEF Min

Pushed(u, s) == <<u>> \o s

(* What becomes of a chain when a UDF is put at its front. *)
LEMMA Prepended ==
  ASSUME NEW S, NEW s \in Seq(S), NEW u \in S, IsInjective(s), u \notin ToSet(s),
         NEW t, t = Pushed(u, s)
  PROVE  /\ t \in Seq(S) /\ Len(t) = Len(s) + 1
         /\ ToSet(t) = ToSet(s) \cup {u} /\ IsInjective(t)
<1>1. t \in Seq(S) /\ Len(t) = Len(s) + 1 /\ DOMAIN t = 1 .. Len(s) + 1 /\ DOMAIN s = 1 .. Len(s) /\ Len(s) \in Nat
  BY DEF Pushed
<1>2. t[1] = u /\ \A i \in DOMAIN s : t[i + 1] = s[i]
  BY DEF Pushed
<1>3. \A i \in DOMAIN t : i = 1 \/ (i - 1 \in DOMAIN s /\ t[i] = s[i - 1])
  <2>1. ASSUME NEW i \in DOMAIN t, i # 1
        PROVE  i - 1 \in DOMAIN s /\ t[i] = s[i - 1]
    <3>1. i - 1 \in DOMAIN s /\ (i - 1) + 1 = i
      BY <1>1, <2>1
    <3> QED BY <3>1, <1>2
  <2> QED BY <2>1
<1>4. \A i \in DOMAIN s : i + 1 \in DOMAIN t /\ s[i] \in ToSet(s) /\ s[i] # u
  BY <1>1 DEF ToSet
<1>h. 1 \in DOMAIN t /\ DOMAIN s \subseteq Int /\ DOMAIN t \subseteq Int
  BY <1>1
<1> HIDE DEF IsInjective
<1>5. ToSet(t) = ToSet(s) \cup {u}
  <2>1. ASSUME NEW i \in DOMAIN t
        PROVE  t[i] \in ToSet(s) \cup {u}
    BY <1>2, <1>3, <1>4
  <2>2. u \in ToSet(t)
    BY <1>2, <1>h DEF ToSet
  <2>3. ASSUME NEW i \in DOMAIN s
        PROVE  s[i] \in ToSet(t)
    BY <1>2, <1>4 DEF ToSet
  <2> QED BY <2>1, <2>2, <2>3 DEF ToSet
<1>6. IsInjective(t)
  <2>1. SUFFICES ASSUME NEW i \in DOMAIN t, NEW j \in DOMAIN t, t[i] = t[j]
                 PROVE  i = j
    BY DEF IsInjective
  <2>2. CASE i = 1
    BY <1>2, <1>3, <1>4, <2>1, <2>2
  <2>3. CASE j = 1
    BY <1>2, <1>3, <1>4, <2>1, <2>3
  <2>4. CASE i # 1 /\ j # 1
    <3>1. i - 1 \in DOMAIN s /\ j - 1 \in DOMAIN s /\ s[i - 1] = s[j - 1]
      BY <1>3, <2>1, <2>4
    <3>2. i - 1 = j - 1
      BY <3>1 DEF IsInjective
    <3> QED BY <3>2, <1>h
  <2> QED BY <2>2, <2>3, <2>4
<1> QED BY <1>1, <1>5, <1>6

(* ... and when it is unlinked. *)
LEMMA Unlinked ==
  ASSUME NEW S, NEW s \in Seq(S), NEW u, IsInjective(s), NEW t, t = RemoveFirst(s, u)
  PROVE  /\ t \in Seq(S)
         /\ u \in ToSet(s) => Len(t) = Len(s) - 1
         /\ ToSet(t) = ToSet(s) \ {u} /\ IsInjective(t)
<1>d. DOMAIN s = 1 .. Len(s) /\ Len(s) \in Nat
  OBVIOUS
<1>1. CASE ~ \E i \in 1 .. Len(s) : s[i] = u
  <2>1. t = s
    BY <1>1 DEF RemoveFirst
  <2>2. u \notin ToSet(s)
    BY <1>1, <1>d DEF ToSet
  <2> QED BY <2>1, <2>2
<1>2. CASE \E i \in 1 .. Len(s) : s[i] = u
  <2> DEFINE P == {i \in 1 .. Len(s) : s[i] = u}
             k == Min(P)
  <2>1. k \in P
    <3>1. P \in SUBSET Nat /\ P # {}
      BY <1>2
    <3> HIDE DEF P
    <3> QED BY <3>1, MinPlace
  <2>2. t = RemoveAt(s, k)
    BY <1>2, <2>1 DEF RemoveFirst, SelectInSeq
  <2> HIDE DEF k
  <2>3. k \in 1 .. Len(s) /\ s[k] = u
    BY <2>1
  <2>4. t = SubSeq(s, 1, k - 1) \o SubSeq(s, k + 1, Len(s))
    BY <2>2 DEF RemoveAt
  <2> DEFINE p == SubSeq(s, 1, k - 1)
             q == SubSeq(s, k + 1, Len(s))
  <2>p. p \in Seq(S) /\ Len(p) = k - 1 /\ \A i \in 1 .. k - 1 : p[i] = s[i]
    BY <2>3, <1>d
  <2>q. q \in Seq(S) /\ Len(q) = Len(s) - k /\ \A i \in 1 .. Len(s) - k : q[i] = s[k + i]
    <3>1. k + 1 \in Int /\ Len(s) \in Int /\ \A i \in k + 1 .. Len(s) : s[i] \in S
      BY <2>3, <1>d
    <3>2. /\ q \in Seq(S)
          /\ Len(q) = IF k + 1 <= Len(s) THEN Len(s) - (k + 1) + 1 ELSE 0
          /\ \A i \in 1 .. Len(s) - (k + 1) + 1 : q[i] = s[(k + 1) + i - 1]
      BY ONLY <3>1, SubSeqProperties
    <3> HIDE DEF q
    <3>3. Len(q) = Len(s) - k
      <4>1. k \in Int /\ Len(s) \in Int /\ k <= Len(s)
        BY <2>3, <1>d
      <4>2. Len(q) = IF k + 1 <= Len(s) THEN Len(s) - (k + 1) + 1 ELSE 0
        BY <3>2
      <4> QED BY ONLY <4>1, <4>2
    <3>4. ASSUME NEW i \in 1 .. Len(s) - k
          PROVE  q[i] = s[k + i]
      <4>1. (k + 1) + i - 1 = k + i /\ i \in 1 .. Len(s) - (k + 1) + 1
        BY <2>3, <1>d
      <4> QED BY <4>1, <3>2
    <3> QED BY <3>2, <3>3, <3>4
  <2>r. t = p \o q
    BY <2>4
  <2> HIDE DEF p, q
  <2>5. t \in Seq(S) /\ Len(t) = Len(s) - 1
    <3>1. p \in Seq(S) /\ q \in Seq(S)
      BY <2>p, <2>q
    <3>2. t \in Seq(S) /\ Len(t) = Len(p) + Len(q)
      BY ONLY <2>r, <3>1, ConcatProperties
    <3>3. Len(p) + Len(q) = Len(s) - 1
      BY ONLY <1>d, <2>3, <2>p, <2>q
    <3> QED BY ONLY <3>2, <3>3
  <2>6. \A i \in 1 .. Len(t) : t[i] = IF i < k THEN s[i] ELSE s[i + 1]
    <3>c. \A i \in 1 .. Len(p) + Len(q) : t[i] = IF i <= Len(p) THEN p[i] ELSE q[i - Len(p)]
      <4>1. p \in Seq(S) /\ q \in Seq(S)
        BY <2>p, <2>q
      <4> QED BY ONLY <2>r, <4>1, ConcatProperties
    <3>l. Len(p) = k - 1 /\ Len(p) + Len(q) = Len(t) /\ k \in 1 .. Len(s) /\ Len(t) = Len(s) - 1
      BY ONLY <1>d, <2>3, <2>5, <2>p, <2>q
    <3>1. ASSUME NEW i \in 1 .. Len(t), i < k
          PROVE  t[i] = s[i]
      <4>1. i \in 1 .. Len(p) + Len(q) /\ i <= Len(p) /\ i \in 1 .. k - 1
        BY ONLY <1>d, <3>1, <3>l
      <4>2. t[i] = p[i]
        BY ONLY <3>c, <4>1
      <4> QED BY ONLY <2>p, <4>1, <4>2
    <3>2. ASSUME NEW i \in 1 .. Len(t), ~ (i < k)
          PROVE  t[i] = s[i + 1]
      <4>1. i - (k - 1) \in 1 .. Len(s) - k /\ t[i] = q[i - (k - 1)]
        <5>1. i \in 1 .. Len(p) + Len(q) /\ ~ (i <= Len(p)) /\ i - (k - 1) \in 1 .. Len(s) - k
          BY ONLY <1>d, <3>2, <3>l
        <5>2. t[i] = q[i - Len(p)]
          BY ONLY <3>c, <5>1
        <5> QED BY ONLY <3>l, <5>1, <5>2
      <4>2. k + (i - (k - 1)) = i + 1
        BY <2>3, <3>2, <2>5
      <4> QED BY <4>1, <4>2, <2>q
    <3> QED BY <3>1, <3>2
  <2> HIDE DEF P
  <2>d. DOMAIN t = 1 .. Len(s) - 1
    BY <2>5
  <2>7. ASSUME NEW i \in DOMAIN t
        PROVE  \E j \in DOMAIN s : j # k /\ t[i] = s[j] /\ j = IF i < k THEN i ELSE i + 1
    BY <2>6, <2>d, <2>3, <1>d, <2>5
  <2>8. ASSUME NEW j \in DOMAIN s, j # k
        PROVE  \E i \in DOMAIN t : t[i] = s[j] /\ j = IF i < k THEN i ELSE i + 1
    <3>1. CASE j < k
      <4>1. j \in DOMAIN t /\ t[j] = s[j]
        BY <3>1, <2>6, <2>d, <2>3, <1>d, <2>5
      <4> QED BY <4>1, <3>1
    <3>2. CASE j > k
      <4>1. j - 1 \in DOMAIN t /\ t[j - 1] = s[j] /\ ~ (j - 1 < k) /\ (j - 1) + 1 = j
        BY <3>2, <2>6, <2>d, <2>3, <1>d, <2>5
      <4> QED BY <4>1
    <3> QED BY <3>1, <3>2, <2>8, <2>3, <1>d
  <2>9. \A j \in DOMAIN s : s[j] = u => j = k
    BY <2>3, <1>d DEF IsInjective
  <2>h. DOMAIN s \subseteq Int /\ DOMAIN t \subseteq Int /\ k \in Int /\ k \in DOMAIN s
    BY <1>d, <2>d, <2>3
  <2>10. ToSet(t) = ToSet(s) \ {u}
    <3>1. ASSUME NEW i \in DOMAIN t
          PROVE  t[i] \in ToSet(s) \ {u}
      BY <2>7, <2>9 DEF ToSet
    <3>2. ASSUME NEW j \in DOMAIN s, s[j] # u
          PROVE  s[j] \in ToSet(t)
      <4>1. j # k
        BY <3>2, <2>3
      <4> QED BY <4>1, <2>8 DEF ToSet
    <3> QED BY <3>1, <3>2 DEF ToSet
  <2>11. IsInjective(t)
    <3>1. SUFFICES ASSUME NEW i \in DOMAIN t, NEW j \in DOMAIN t, t[i] = t[j]
                   PROVE  i = j
      BY DEF IsInjective
    <3>2. PICK a \in DOMAIN s : t[i] = s[a] /\ a = IF i < k THEN i ELSE i + 1
      BY <2>7
    <3>3. PICK b \in DOMAIN s : t[j] = s[b] /\ b = IF j < k THEN j ELSE j + 1
      BY <2>7
    <3>4. a = b
      BY <3>1, <3>2, <3>3 DEF IsInjective
    <3> QED BY <3>2, <3>3, <3>4, <2>h
  <2>12. u \in ToSet(s)
    BY <2>3, <1>d DEF ToSet
  <2> QED BY <2>5, <2>10, <2>11, <2>12
<1> QED BY <1>1, <1>2

(*------------------------ the buckets of an index ------------------------*)

(* Enough doublings give a UDF registry of any size its buckets. *)
LEMMA DoubledIs ==
  ASSUME UdfAssumption
  PROVE  Doubled = [k \in Nat |-> IF k = 0 THEN LeastBuckets ELSE 2 * Doubled[k - 1]]
<1> DEFINE step == [p \in Nat \X Nat |-> 2 * p[2]]
<1>1. step \in [Nat \X Nat -> Nat] /\ LeastBuckets \in Nat
  BY DEF UdfAssumption
<1>r. \E f : Recurs(f, Nat, LeastBuckets, step)
  <2> HIDE DEF step
  <2> QED BY <1>1, Recursion
<1>2. PICK f \in [Nat -> Nat] : f[0] = LeastBuckets /\ \A k \in Nat : f[k + 1] = step[<<k, f[k]>>]
  BY <1>r DEF Recurs
<1>3. ASSUME NEW k \in Nat
      PROVE  f[k] = IF k = 0 THEN LeastBuckets ELSE 2 * f[k - 1]
  <2>1. CASE k = 0
    BY <1>2, <2>1
  <2>2. CASE k # 0
    <3>1. k - 1 \in Nat /\ (k - 1) + 1 = k
      BY <2>2
    <3>2. f[(k - 1) + 1] = step[<<k - 1, f[k - 1]>>]
      BY <1>2, <3>1
    <3>3. step[<<k - 1, f[k - 1]>>] = 2 * f[k - 1]
      BY <3>1
    <3> QED BY <2>2, <3>1, <3>2, <3>3
  <2> QED BY <2>1, <2>2
<1>4. f = [k \in Nat |-> IF k = 0 THEN LeastBuckets ELSE 2 * f[k - 1]]
  BY <1>2, <1>3
<1>5. \E g : g = [k \in Nat |-> IF k = 0 THEN LeastBuckets ELSE 2 * g[k - 1]]
  BY <1>4
<1> QED BY <1>5 DEF Doubled

(* However many UDFs there are, an index has at least one bucket. *)
LEMMA BucketCountIs ==
  ASSUME UdfAssumption, NEW n \in Nat
  PROVE  BucketCount(n) \in Nat \ {0} /\ BucketCount(n) >= 2 * n
<1> DEFINE S == {k \in Nat : Doubled[k] \in Nat \ {0} /\ Doubled[k] >= 2 * k}
<1>0. LeastBuckets \in Nat \ {0}
  BY DEF UdfAssumption
<1>1. 0 \in S
  BY <1>0, DoubledIs
<1>2. ASSUME NEW k \in S
      PROVE  k + 1 \in S
  <2>1. k \in Nat /\ Doubled[k] \in Nat \ {0} /\ Doubled[k] >= 2 * k
    OBVIOUS
  <2>2. Doubled[k + 1] = 2 * Doubled[k]
    BY <2>1, DoubledIs
  <2>3. 2 * Doubled[k] \in Nat \ {0} /\ 2 * Doubled[k] >= 2 * (k + 1)
    BY <2>1
  <2> QED BY <2>1, <2>2, <2>3
<1>3. S = Nat
  <2>1. S \in SUBSET Nat
    OBVIOUS
  <2> HIDE DEF S
  <2> QED BY <2>1, <1>1, <1>2, Induction
<1>4. \A k \in Nat : Doubled[k] \in Nat \ {0} /\ Doubled[k] >= 2 * k
  BY <1>3
<1> DEFINE P == {k \in 0 .. n : Doubled[k] >= 2 * n}
<1>5. Min(P) \in P
  <2>1. P \in SUBSET Nat /\ n \in P
    BY <1>4
  <2> HIDE DEF P
  <2> QED BY <2>1, MinPlace
<1> QED BY <1>4, <1>5 DEF BucketCount

Chains(c) == [1 .. c -> Seq(Registrations)]
Home(u, c) == (HashOf[NameOf[u]] % c) + 1

(* A UDF's home is a bucket of the index. *)
LEMMA HomeIs ==
  ASSUME UdfAssumption, NEW c \in Nat \ {0}, NEW ix \in Chains(c), NEW u \in Registrations
  PROVE  /\ Len(ix) = c /\ DOMAIN ix = 1 .. c
         /\ Bucket(ix, NameOf[u]) = Home(u, c) /\ Home(u, c) \in 1 .. c
<1>1. Len(ix) = c /\ DOMAIN ix = 1 .. c
  BY DEF Chains
<1>2. HashOf[NameOf[u]] \in Nat
  BY DEF UdfAssumption
<1>3. HashOf[NameOf[u]] % c \in 0 .. c - 1
  BY <1>2
<1> QED BY <1>1, <1>3 DEF Bucket, Home

(* An insertion touches one chain. *)
LEMMA InsertedIs ==
  ASSUME UdfAssumption, NEW c \in Nat \ {0}, NEW ix \in Chains(c), NEW u \in Registrations
  PROVE  /\ Inserted(ix, u) \in Chains(c)
         /\ Inserted(ix, u)[Home(u, c)] = <<u>> \o ix[Home(u, c)]
         /\ \A b \in 1 .. c : b # Home(u, c) => Inserted(ix, u)[b] = ix[b]
<1>1. Bucket(ix, NameOf[u]) = Home(u, c) /\ Home(u, c) \in 1 .. c
  BY HomeIs
<1>2. <<u>> \o ix[Home(u, c)] \in Seq(Registrations)
  BY <1>1 DEF Chains
<1>3. Inserted(ix, u) = [ix EXCEPT ![Home(u, c)] = <<u>> \o ix[Home(u, c)]]
  BY <1>1 DEF Inserted
<1> QED BY <1>1, <1>2, <1>3 DEF Chains

(* An index of c buckets has each UDF of a set once, where its name leads. *)
Indexed(ix, us, c) ==
  /\ ix \in Chains(c)
  /\ \A b \in 1 .. c :
       /\ IsInjective(ix[b])
       /\ \A u \in Registrations : u \in ToSet(ix[b]) <=> (b = Home(u, c) /\ u \in us)

(* A UDF is put at the front of its chain. *)
LEMMA EnlistIndex ==
  ASSUME UdfAssumption, NEW c \in Nat \ {0}, NEW ix, NEW us, Indexed(ix, us, c),
         NEW u \in Registrations, u \notin us
  PROVE  Indexed(Inserted(ix, u), us \cup {u}, c)
<1> DEFINE new == Inserted(ix, u)
<1>1. /\ new \in Chains(c)
      /\ new[Home(u, c)] = <<u>> \o ix[Home(u, c)]
      /\ \A b \in 1 .. c : b # Home(u, c) => new[b] = ix[b]
  BY InsertedIs DEF Indexed
<1> HIDE DEF new
<1>2. ASSUME NEW b \in 1 .. c, b # Home(u, c)
      PROVE  /\ IsInjective(new[b])
             /\ \A v \in Registrations : v \in ToSet(new[b]) <=> (b = Home(v, c) /\ v \in us \cup {u})
  <2>1. new[b] = ix[b]
    BY <1>1, <1>2
  <2>2. IsInjective(ix[b]) /\ \A v \in Registrations : v \in ToSet(ix[b]) <=> (b = Home(v, c) /\ v \in us)
    BY DEF Indexed
  <2> QED BY <2>1, <2>2, <1>2
<1>3. ASSUME NEW b \in 1 .. c, b = Home(u, c)
      PROVE  /\ IsInjective(new[b])
             /\ \A v \in Registrations : v \in ToSet(new[b]) <=> (b = Home(v, c) /\ v \in us \cup {u})
  <2> DEFINE s == ix[b]
             t == new[b]
  <2>1. /\ IsInjective(s) /\ s \in Seq(Registrations)
        /\ \A v \in Registrations : v \in ToSet(s) <=> (b = Home(v, c) /\ v \in us)
    BY DEF Indexed, Chains
  <2>2. t = Pushed(u, s)
    BY <1>1, <1>3 DEF Pushed
  <2> HIDE DEF s, t
  <2>3. u \notin ToSet(s)
    BY <2>1
  <2>4. ToSet(t) = ToSet(s) \cup {u} /\ IsInjective(t)
    BY ONLY u \in Registrations, <2>1, <2>2, <2>3, Prepended
  <2>5. \A v \in Registrations : v \in ToSet(t) <=> (b = Home(v, c) /\ v \in us \cup {u})
    BY <2>1, <2>4, <1>3
  <2> QED BY <2>4, <2>5 DEF t
<1>4. Indexed(new, us \cup {u}, c)
  BY <1>1, <1>2, <1>3 DEF Indexed
<1> QED BY <1>4 DEF new

FirstOf(l, k) == {l[i] : i \in 1 .. k}

(* Empty chains have none. *)
LEMMA LoadedNone ==
  ASSUME UdfAssumption, NEW c \in Nat \ {0}, NEW l \in Seq(Registrations)
  PROVE  Indexed(NoChains(c), FirstOf(l, 0), c)
<1>1. NoChains(c) \in Chains(c) /\ \A b \in 1 .. c : NoChains(c)[b] = <<>>
  BY DEF NoChains, Chains
<1>2. IsInjective(<<>>) /\ ToSet(<<>>) = {} /\ FirstOf(l, 0) = {}
  BY DEF IsInjective, ToSet, FirstOf
<1> QED BY <1>1, <1>2 DEF Indexed

(* The insertion of the next UDF of the list loads one more. *)
LEMMA LoadedOneMore ==
  ASSUME UdfAssumption, NEW c \in Nat \ {0}, NEW l \in Seq(Registrations), IsInjective(l),
         NEW k \in Nat, k + 1 \in DOMAIN l, NEW ix, Indexed(ix, FirstOf(l, k), c)
  PROVE  Indexed(Inserted(ix, l[k + 1]), FirstOf(l, k + 1), c)
<1>1. l[k + 1] \in Registrations /\ DOMAIN l = 1 .. Len(l) /\ Len(l) \in Nat
  OBVIOUS
<1>2. ASSUME NEW i \in 1 .. k
      PROVE  l[i] # l[k + 1]
  <2>1. i \in DOMAIN l /\ i # k + 1
    BY <1>1
  <2> QED BY <2>1 DEF IsInjective
<1>3. FirstOf(l, k + 1) = FirstOf(l, k) \cup {l[k + 1]}
  <2>1. \A i \in 1 .. k + 1 : i = k + 1 \/ i \in 1 .. k
    OBVIOUS
  <2>2. k + 1 \in 1 .. k + 1 /\ 1 .. k \subseteq 1 .. k + 1
    OBVIOUS
  <2> QED BY <2>1, <2>2 DEF FirstOf
<1>4. l[k + 1] \notin FirstOf(l, k)
  BY <1>2 DEF FirstOf
<1>5. PICK u, us : u \in Registrations /\ u = l[k + 1] /\ us = FirstOf(l, k)
  BY <1>1
<1>6. Indexed(Inserted(ix, u), us \cup {u}, c)
  BY <1>4, <1>5, EnlistIndex
<1> QED BY <1>3, <1>5, <1>6

(* A rebuild loads the whole list, UDF after UDF. *)
Loads(g, l) ==
  g = [k \in 0 .. Len(l) |->
         IF k = 0 THEN NoChains(BucketCount(Len(l))) ELSE Inserted(g[k - 1], l[k])]

(* The function that Rebuilt takes its last value from exists. *)
LEMMA LoadsExists ==
  ASSUME UdfAssumption, NEW l \in Seq(Registrations)
  PROVE  \E g : Loads(g, l)
<1> DEFINE c == BucketCount(Len(l))
           V == Chains(c)
           step == [p \in Nat \X V |-> IF p[1] + 1 \in DOMAIN l THEN Inserted(p[2], l[p[1] + 1]) ELSE p[2]]
<1>1. c \in Nat \ {0}
  BY BucketCountIs
<1> HIDE DEF c
<1>2. ASSUME NEW k \in Nat, NEW ix \in V
      PROVE  step[<<k, ix>>] \in V
  <2>1. CASE k + 1 \in DOMAIN l
    <3>1. l[k + 1] \in Registrations
      BY <2>1
    <3>2. Inserted(ix, l[k + 1]) \in V
      BY <1>1, <3>1, InsertedIs
    <3> QED BY <2>1, <3>2
  <2>2. CASE k + 1 \notin DOMAIN l
    BY <2>2
  <2> QED BY <2>1, <2>2
<1>3. step \in [Nat \X V -> V]
  BY <1>2
<1>4. NoChains(c) \in V
  BY DEF NoChains, Chains
<1>5. PICK f : Recurs(f, V, NoChains(c), step)
  <2> HIDE DEF step, V
  <2> QED BY <1>3, <1>4, Recursion
<1>6. f[0] = NoChains(c) /\ \A k \in Nat : f[k] \in V /\ f[k + 1] = step[<<k, f[k]>>]
  <2> HIDE DEF step, V
  <2> QED BY <1>5 DEF Recurs
<1> DEFINE g == [k \in 0 .. Len(l) |-> f[k]]
<1>7. ASSUME NEW k \in 0 .. Len(l)
      PROVE  g[k] = IF k = 0 THEN NoChains(c) ELSE Inserted(g[k - 1], l[k])
  <2>1. CASE k = 0
    BY <1>6, <2>1
  <2>2. CASE k # 0
    <3>1. k - 1 \in Nat /\ (k - 1) + 1 = k /\ k - 1 \in 0 .. Len(l) /\ k \in DOMAIN l
      BY <2>2
    <3>2. f[k] = step[<<k - 1, f[k - 1]>>] /\ f[k - 1] \in V
      <4> HIDE DEF step, V
      <4> QED BY <1>6, <3>1
    <3>3. step[<<k - 1, f[k - 1]>>] = Inserted(f[k - 1], l[k])
      BY <3>1, <3>2
    <3> QED BY <2>2, <3>1, <3>2, <3>3
  <2> QED BY <2>1, <2>2
<1>8. g = [k \in 0 .. Len(l) |-> IF k = 0 THEN NoChains(c) ELSE Inserted(g[k - 1], l[k])]
  <2>1. \A k \in 0 .. Len(l) : g[k] = IF k = 0 THEN NoChains(c) ELSE Inserted(g[k - 1], l[k])
    BY <1>7
  <2>2. DOMAIN g = 0 .. Len(l) /\ g = [k \in 0 .. Len(l) |-> g[k]]
    OBVIOUS
  <2> HIDE DEF g
  <2> QED BY <2>1, <2>2, Zenon
<1>9. Loads(g, l)
  <2> HIDE DEF g
  <2> QED BY <1>8 DEF Loads, c
<1> QED BY <1>9

(* What the index is after a rebuild. *)
LEMMA RebuiltIs ==
  ASSUME UdfAssumption, NEW l \in Seq(Registrations), IsInjective(l)
  PROVE  /\ BucketCount(Len(l)) \in Nat \ {0}
         /\ Indexed(Rebuilt(l), ToSet(l), BucketCount(Len(l)))
<1> DEFINE c == BucketCount(Len(l))
<1>1. c \in Nat \ {0}
  BY BucketCountIs
<1>2. PICK g : Loads(g, l) /\ Rebuilt(l) = g[Len(l)]
  <2> DEFINE G == CHOOSE g : Loads(g, l)
  <2>1. Loads(G, l)
    BY LoadsExists
  <2>2. Rebuilt(l) = G[Len(l)]
    BY DEF Rebuilt, Loads
  <2> QED BY <2>1, <2>2
<1>3. \A k \in 0 .. Len(l) : g[k] = IF k = 0 THEN NoChains(c) ELSE Inserted(g[k - 1], l[k])
  BY <1>2 DEF Loads
<1> HIDE DEF c
<1> DEFINE S == {k \in Nat : k <= Len(l) => Indexed(g[k], FirstOf(l, k), c)}
<1>4. 0 \in S
  <2>1. g[0] = NoChains(c)
    BY <1>3
  <2> QED BY <1>1, <2>1, LoadedNone
<1>5. ASSUME NEW k \in S
      PROVE  k + 1 \in S
  <2>1. k \in Nat /\ k + 1 \in Nat
    OBVIOUS
  <2>2. CASE k + 1 <= Len(l)
    <3>1. k + 1 \in 0 .. Len(l) /\ k + 1 # 0 /\ (k + 1) - 1 = k /\ k <= Len(l) /\ k + 1 \in DOMAIN l
      BY <2>1, <2>2
    <3>2. g[k + 1] = Inserted(g[k], l[k + 1])
      BY <1>3, <3>1
    <3>3. Indexed(g[k], FirstOf(l, k), c)
      BY <3>1
    <3>4. Indexed(g[k + 1], FirstOf(l, k + 1), c)
      BY <1>1, <2>1, <3>1, <3>2, <3>3, LoadedOneMore
    <3> QED BY <2>1, <3>4
  <2>3. CASE ~ (k + 1 <= Len(l))
    BY <2>1, <2>3
  <2> QED BY <2>2, <2>3
<1>6. S = Nat
  <2>1. S \in SUBSET Nat
    OBVIOUS
  <2> HIDE DEF S
  <2> QED BY <2>1, <1>4, <1>5, Induction
<1>7. Len(l) \in S
  BY <1>6
<1>8. Indexed(g[Len(l)], FirstOf(l, Len(l)), c)
  BY <1>7
<1>9. FirstOf(l, Len(l)) = ToSet(l)
  BY DEF FirstOf, ToSet
<1> QED BY <1>1, <1>2, <1>8, <1>9 DEF c

(*------------------------ the list and its index -------------------------*)

(* the list, newest first *)
ListInv ==
  /\ life \in [Registrations -> {"none", "callable", "listed", "unlisted", "destroyed"}]
  /\ list \in Seq(Registrations) /\ IsInjective(list) /\ size = Len(list)
  /\ \A u \in Registrations : u \in ToSet(list) <=> life[u] = "listed"

(* the index *)
IndexInv ==
  index # <<>> => \E c \in Nat \ {0} : Indexed(index, ToSet(list), c)

(* What is in a sequence, and what is before something in it. *)
LEMMA ToSetOf ==
  ASSUME NEW S, NEW s \in Seq(S)
  PROVE  ToSet(s) \subseteq S
BY DEF ToSet

(* The invariant holds when nothing is registered, ... *)
LEMMA InitLookup == ASSUME UdfInit PROVE ListInv /\ IndexInv
<1>1. <<>> \in Seq(Registrations) /\ Len(<<>>) = 0 /\ ToSet(<<>>) = {} /\ IsInjective(<<>>)
  BY DEF ToSet, IsInjective
<1> QED BY <1>1 DEF UdfInit, ListInv, IndexInv

(* a UDF at the front of the list *)
LEMMA EnlistList ==
  ASSUME ListInv, NEW u \in Registrations, life[u] = "callable",
         life' = [life EXCEPT ![u] = "listed"], list' = <<u>> \o list, size' = size + 1
  PROVE  ListInv' /\ u \notin ToSet(list) /\ ToSet(list') = ToSet(list) \cup {u}
<1>1. u \notin ToSet(list)
  BY DEF ListInv
<1>2. /\ list' \in Seq(Registrations) /\ Len(list') = Len(list) + 1
      /\ ToSet(list') = ToSet(list) \cup {u} /\ IsInjective(list')
  <2>1. list \in Seq(Registrations) /\ IsInjective(list) /\ list' = Pushed(u, list)
    BY DEF ListInv, Pushed
  <2> QED BY ONLY <1>1, <2>1, u \in Registrations, Prepended
<1>3. life' \in [Registrations -> {"none", "callable", "listed", "unlisted", "destroyed"}]
  BY DEF ListInv
<1>4. \A v \in Registrations : v \in ToSet(list') <=> life'[v] = "listed"
  BY <1>2 DEF ListInv
<1>5. size' = Len(list')
  BY <1>2 DEF ListInv
<1> QED BY <1>1, <1>2, <1>3, <1>4, <1>5 DEF ListInv

(* An unlinked UDF leaves the list and its chain. *)
LEMMA UnlistIndex ==
  ASSUME UdfAssumption, NEW c \in Nat \ {0}, NEW ix, NEW us, Indexed(ix, us, c),
         NEW u \in Registrations,
         NEW new, new = [ix EXCEPT ![Bucket(ix, NameOf[u])] = RemoveFirst(@, u)]
  PROVE  Indexed(new, us \ {u}, c)
<1> DEFINE h == Home(u, c)
           t == RemoveFirst(ix[h], u)
           s == ix[h]
<1>1. ix \in Chains(c) /\ h \in 1 .. c /\ Bucket(ix, NameOf[u]) = h /\ DOMAIN ix = 1 .. c
  BY HomeIs DEF Indexed
<1>2. /\ IsInjective(s) /\ s \in Seq(Registrations)
      /\ \A v \in Registrations : v \in ToSet(s) <=> (h = Home(v, c) /\ v \in us)
  BY <1>1 DEF Indexed, Chains
<1>3. new = [ix EXCEPT ![h] = t]
  BY <1>1
<1>0. t = RemoveFirst(s, u)
  OBVIOUS
<1> HIDE DEF h, t, s
<1>4. t \in Seq(Registrations) /\ ToSet(t) = ToSet(s) \ {u} /\ IsInjective(t)
  BY ONLY <1>2, <1>0, Unlinked
<1>5. new \in Chains(c) /\ new[h] = t /\ \A b \in 1 .. c : b # h => new[b] = ix[b]
  BY <1>1, <1>3, <1>4 DEF Chains
<1>6. ASSUME NEW b \in 1 .. c, b # h
      PROVE  /\ IsInjective(new[b])
             /\ \A v \in Registrations : v \in ToSet(new[b]) <=> (b = Home(v, c) /\ v \in us \ {u})
  <2>1. new[b] = ix[b]
    BY <1>5, <1>6
  <2>2. IsInjective(ix[b]) /\ \A v \in Registrations : v \in ToSet(ix[b]) <=> (b = Home(v, c) /\ v \in us)
    BY DEF Indexed
  <2>3. u \notin ToSet(ix[b])
    BY <1>6, <2>2 DEF h
  <2> QED BY <2>1, <2>2, <2>3
<1>7. ASSUME NEW b \in 1 .. c, b = h
      PROVE  /\ IsInjective(new[b])
             /\ \A v \in Registrations : v \in ToSet(new[b]) <=> (b = Home(v, c) /\ v \in us \ {u})
  BY <1>2, <1>4, <1>5, <1>7
<1> QED BY <1>5, <1>6, <1>7 DEF Indexed

(* what is invariant: the list, and its index *)
LookInv == ListInv /\ IndexInv

(* An index is never without buckets. *)
LEMMA HasBuckets ==
  ASSUME NEW c \in Nat \ {0}, NEW ix \in Chains(c)
  PROVE  ix # <<>>
<1>1. 1 \in DOMAIN ix
  BY DEF Chains
<1> QED BY <1>1

(* ... when a UDF is entered, with or without a rebuild of the index, ... *)
LEMMA EnlistStep ==
  ASSUME UdfAssumption, LookInv, NEW u \in Registrations, Enlist(u)
  PROVE  LookInv'
<1>1. /\ life[u] = "callable" /\ life' = [life EXCEPT ![u] = "listed"]
      /\ list' = <<u>> \o list /\ size' = size + 1
  BY DEF Enlist
<1>2. ListInv' /\ u \notin ToSet(list) /\ ToSet(list') = ToSet(list) \cup {u}
  BY <1>1, EnlistList DEF LookInv
<1>3. CASE index' = Rebuilt(list')
  <2>1. list' \in Seq(Registrations) /\ IsInjective(list')
    BY <1>2 DEF ListInv
  <2>2. \E c \in Nat \ {0} : Indexed(Rebuilt(list'), ToSet(list'), c)
    BY <2>1, RebuiltIs
  <2> QED BY <1>2, <1>3, <2>2 DEF LookInv, IndexInv
<1>4. CASE index # <<>> /\ index' = Inserted(index, u)
  <2>1. PICK c \in Nat \ {0} : Indexed(index, ToSet(list), c)
    BY <1>4 DEF LookInv, IndexInv
  <2>2. Indexed(Inserted(index, u), ToSet(list) \cup {u}, c)
    BY <2>1, <1>2, EnlistIndex
  <2> QED BY <1>2, <1>4, <2>2 DEF LookInv, IndexInv
<1>5. CASE index' = <<>>
  BY <1>2, <1>5 DEF LookInv, IndexInv
<1> QED BY <1>3, <1>4, <1>5 DEF Enlist

(* ... when one is taken out ... *)
LEMMA UnlistStep ==
  ASSUME UdfAssumption, LookInv, NEW u \in Registrations, Unlist(u)
  PROVE  LookInv'
<1>1. /\ life[u] = "listed" /\ life' = [life EXCEPT ![u] = "unlisted"]
      /\ list' = RemoveFirst(list, u) /\ size' = size - 1
      /\ index' = IF index = <<>> THEN <<>>
                  ELSE [index EXCEPT ![Bucket(index, NameOf[u])] = RemoveFirst(@, u)]
  BY DEF Unlist
<1>2. list \in Seq(Registrations) /\ IsInjective(list) /\ u \in ToSet(list)
  BY <1>1 DEF LookInv, ListInv
<1>3. /\ list' \in Seq(Registrations) /\ Len(list') = Len(list) - 1
      /\ ToSet(list') = ToSet(list) \ {u} /\ IsInjective(list')
  <2>1. PICK l : l = list'
    OBVIOUS
  <2>2. l = RemoveFirst(list, u)
    BY <1>1, <2>1
  <2>3. /\ l \in Seq(Registrations) /\ Len(l) = Len(list) - 1
        /\ ToSet(l) = ToSet(list) \ {u} /\ IsInjective(l)
    BY ONLY <1>2, <2>2, Unlinked
  <2> QED BY ONLY <2>1, <2>3
<1>4. ListInv'
  <2>1. life' \in [Registrations -> {"none", "callable", "listed", "unlisted", "destroyed"}]
    BY <1>1 DEF LookInv, ListInv
  <2>2. \A v \in Registrations : v \in ToSet(list') <=> life'[v] = "listed"
    BY <1>1, <1>3 DEF LookInv, ListInv
  <2>3. size' = Len(list')
    BY <1>1, <1>3 DEF LookInv, ListInv
  <2> QED BY <1>3, <2>1, <2>2, <2>3 DEF ListInv
<1>5. CASE index = <<>>
  BY <1>1, <1>4, <1>5 DEF LookInv, IndexInv
<1>6. CASE index # <<>>
  <2>1. PICK c \in Nat \ {0} : Indexed(index, ToSet(list), c)
    BY <1>6 DEF LookInv, IndexInv
  <2>2. index' = [index EXCEPT ![Bucket(index, NameOf[u])] = RemoveFirst(@, u)]
    BY <1>1, <1>6
  <2>3. Indexed(index', ToSet(list) \ {u}, c)
    BY <2>1, <2>2, UnlistIndex
  <2> QED BY <1>3, <1>4, <2>3 DEF LookInv, IndexInv
<1> QED BY <1>5, <1>6

(* ... and in every other step: none of them touches the list or the index. *)
LEMMA LookStep ==
  ASSUME UdfAssumption, LookInv, [UdfNext]_udfRegistryVars
  PROVE  LookInv'
<1>1. ASSUME UNCHANGED <<list, index, size>>,
             life' \in [Registrations -> {"none", "callable", "listed", "unlisted", "destroyed"}],
             \A u \in Registrations : life[u] = "listed" <=> life'[u] = "listed"
      PROVE  LookInv'
  <2>1. ListInv'
    BY <1>1 DEF LookInv, ListInv
  <2>2. IndexInv'
    BY <1>1 DEF LookInv, IndexInv
  <2> QED BY <2>1, <2>2 DEF LookInv
<1>2. life \in [Registrations -> {"none", "callable", "listed", "unlisted", "destroyed"}]
  BY DEF LookInv, ListInv
<1>3. ASSUME NEW u \in Registrations, Refuse(u)
      PROVE  LookInv'
  BY <1>1, <1>2, <1>3 DEF Refuse
<1>4. ASSUME NEW u \in Registrations, RegisterUdf(u)
      PROVE  LookInv'
  BY <1>1, <1>2, <1>4 DEF RegisterUdf
<1>5. ASSUME NEW t \in Threads, CallReturns(t)
      PROVE  LookInv'
  BY <1>1, <1>2, <1>5 DEF CallReturns
<1>6. ASSUME NEW t \in Threads, NEW u \in Registrations, Call(t, u)
      PROVE  LookInv'
  BY <1>1, <1>2, <1>6 DEF Call
<1>7. ASSUME NEW t \in Threads, NEW u \in Registrations, DestroyUdf(t, u)
      PROVE  LookInv'
  BY <1>1, <1>2, <1>7 DEF DestroyUdf
<1>8. CASE Inspect
  BY <1>1, <1>2, <1>8 DEF Inspect
<1>9. CASE UdfDone \/ UNCHANGED udfRegistryVars
  BY <1>1, <1>2, <1>9 DEF UdfDone, udfRegistryVars
<1> QED BY <1>3, <1>4, <1>5, <1>6, <1>7, <1>8, <1>9, EnlistStep, UnlistStep DEF UdfNext

(* What a lookup finds in a chain is of that chain and has the name. *)
LEMMA FindsFirst ==
  ASSUME NEW chain \in Seq(Registrations), NEW n, PlacesOf(chain, n) # {}
  PROVE  LET x == chain[Min(PlacesOf(chain, n))] IN x \in ToSet(chain) /\ Named(n, x)
<1> DEFINE P == PlacesOf(chain, n)
<1>1. P \in SUBSET Nat
  BY DEF PlacesOf
<1>2. Min(P) \in P
  <2> HIDE DEF P
  <2> QED BY <1>1, MinPlace DEF P
<1> QED BY <1>2 DEF PlacesOf, ToSet

(* List and index have the same UDFs, each where its name leads. *)
LEMMA InvIndexExact ==
  ASSUME UdfAssumption, LookInv
  PROVE  IndexExact
<1>1. ToSet(list) = Listed
  <2>1. ToSet(list) \subseteq Registrations
    BY ToSetOf DEF LookInv, ListInv
  <2> QED BY <2>1 DEF LookInv, ListInv, Listed
<1>2. ASSUME index # <<>>
      PROVE  /\ \A b \in DOMAIN index :
                  /\ IsInjective(index[b])
                  /\ \A u \in ToSet(index[b]) : b = Bucket(index, NameOf[u])
             /\ UNION {ToSet(index[b]) : b \in DOMAIN index} = Listed
  <2>1. PICK c \in Nat \ {0} : Indexed(index, ToSet(list), c)
    BY <1>2 DEF LookInv, IndexInv
  <2>2. index \in Chains(c) /\ DOMAIN index = 1 .. c
    BY <2>1 DEF Indexed, Chains
  <2>3. \A b \in 1 .. c : ToSet(index[b]) \subseteq Registrations
    BY <2>2, ToSetOf DEF Chains
  <2>4. \A b \in 1 .. c : IsInjective(index[b]) /\ \A u \in Registrations : u \in ToSet(index[b]) <=> (b = Home(u, c) /\ u \in ToSet(list))
    BY <2>1 DEF Indexed
  <2>5. ASSUME NEW b \in DOMAIN index, NEW u \in ToSet(index[b])
        PROVE  b = Bucket(index, NameOf[u])
    BY <2>2, <2>3, <2>4, HomeIs
  <2>6. ASSUME NEW u \in Listed
        PROVE  \E b \in DOMAIN index : u \in ToSet(index[b])
    <3>1. u \in Registrations /\ u \in ToSet(list)
      BY <1>1 DEF Listed
    <3>2. Home(u, c) \in 1 .. c
      BY <2>2, <3>1, HomeIs
    <3> QED BY <2>2, <2>4, <3>1, <3>2
  <2>7. \A b \in DOMAIN index : ToSet(index[b]) \subseteq Listed
    BY <1>1, <2>2, <2>3, <2>4
  <2> QED BY <2>2, <2>4, <2>5, <2>6, <2>7
<1> QED BY <1>1, <1>2 DEF IndexExact, LookInv, ListInv

(*-------------------------------- lookups --------------------------------*)

(* So every lookup finds what LookupExact says. *)
LEMMA InvLookup ==
  ASSUME UdfAssumption, LookInv
  PROVE  LookupExact
<1>1. list \in Seq(Registrations) /\ \A u \in Registrations : u \in ToSet(list) <=> u \in Listed
  BY DEF LookInv, ListInv, Listed
<1>2. ASSUME NEW n \in Names
      PROVE  LET due == {u \in Listed : Named(n, u)} IN
             IF due = {} THEN FindUdf(n) = NoUdf ELSE FindUdf(n) \in due
  <2> DEFINE chain == IF index = <<>> THEN list ELSE index[Bucket(index, n)]
             due   == {u \in Listed : Named(n, u)}
  <2>1. chain \in Seq(Registrations) /\ \A u \in Registrations : Named(n, u) => (u \in ToSet(chain) <=> u \in Listed)
    <3>1. CASE index = <<>>
      BY <1>1, <3>1
    <3>2. CASE index # <<>>
      <4>1. PICK c \in Nat \ {0} : Indexed(index, ToSet(list), c)
        BY <3>2 DEF LookInv, IndexInv
      <4>2. Len(index) = c
        BY <4>1 DEF Indexed, Chains
      <4>3. Bucket(index, n) \in 1 .. c /\ \A u \in Registrations : Named(n, u) => Bucket(index, n) = Home(u, c)
        <5>1. HashOf[n] \in Nat
          BY DEF UdfAssumption
        <5>2. HashOf[n] % c \in 0 .. c - 1
          BY <5>1
        <5>3. Bucket(index, n) \in 1 .. c
          BY <4>2, <5>2 DEF Bucket
        <5> QED BY <4>2, <5>3 DEF Bucket, Home, Named
      <4>4. chain = index[Bucket(index, n)]
        BY <3>2
      <4> HIDE DEF chain
      <4> QED BY <1>1, <4>1, <4>3, <4>4 DEF Indexed, Chains
    <3> QED BY <3>1, <3>2
  <2>2. FindUdf(n) = IF PlacesOf(chain, n) = {} THEN NoUdf ELSE chain[Min(PlacesOf(chain, n))]
    BY DEF FindUdf
  <2> HIDE DEF chain
  <2>3. ToSet(chain) \subseteq Registrations
    BY <2>1, ToSetOf
  <2>4. PlacesOf(chain, n) = {} <=> due = {}
    <3>1. PlacesOf(chain, n) = {} <=> ~ \E u \in ToSet(chain) : Named(n, u)
      BY DEF PlacesOf, ToSet
    <3>2. \A u \in Listed : u \in Registrations
      BY DEF Listed
    <3> QED BY <2>1, <2>3, <3>1, <3>2
  <2>5. ASSUME due # {}
        PROVE  FindUdf(n) \in due
    <3>1. chain[Min(PlacesOf(chain, n))] \in ToSet(chain) /\ Named(n, chain[Min(PlacesOf(chain, n))])
      BY <2>1, <2>4, <2>5, FindsFirst
    <3> QED BY <2>1, <2>2, <2>3, <2>4, <2>5, <3>1
  <2> QED BY <2>2, <2>4, <2>5
<1> QED BY <1>2, InvIndexExact DEF LookupExact

(* In every reachable state, for any registrations, names and hash function: the
   list and the hash index of the UDF registry hold the same UDFs, and a lookup
   finds one of its name if there is one (rducks_runtime_find_udf_locked). *)
THEOREM LookupsAreExact == UdfSpec => []LookupExact
<1>1. UdfInit => LookInv
  BY InitLookup DEF LookInv
<1>2. LookInv /\ [UdfNext]_udfRegistryVars => LookInv'
  BY UdfAssumption, LookStep
<1>3. LookInv => LookupExact
  BY UdfAssumption, InvLookup
<1> QED BY <1>1, <1>2, <1>3, PTL DEF UdfSpec

(*---------------------- rows that R is asked about -----------------------*)

(* What one call makes of row i, whether that ends the evaluation, and the row
   of the result. *)
Outcome(f, prep, i) == Apply(f, Arguments(prep, i)[1])
Refused(p, f, prep, i) ==
  ~Skipped(p, prep, i) /\ (Outcome(f, prep, i) = Fails \/ ~Fits(Outcome(f, prep, i)))
RowOf(p, f, prep, i) == IF Skipped(p, prep, i) THEN Missing ELSE Outcome(f, prep, i)

(* The first k rows of a result, and the arguments of the rows at. *)
FirstRows(p, f, prep, k) == [i \in 1 .. k |-> RowOf(p, f, prep, i)]
SeenAt(prep, at) == [j \in DOMAIN at |-> Arguments(prep, at[j])]

(* The rows evaluated of the first k. *)
Picks(g, p, prep) ==
  g = [i \in 0 .. Rows(prep) |->
         IF i = 0 THEN <<>> ELSE IF Skipped(p, prep, i) THEN g[i - 1] ELSE Append(g[i - 1], i)]

(* Row by row. *)
Steps(g, p, f, prep) ==
  g = [i \in 0 .. Rows(prep) |-> IF i = 0 THEN Nothing ELSE NextRow(p, f, prep, g[i - 1], i)]

(* The function that EvalRows takes its last value from exists, ... *)
LEMMA PicksExists ==
  ASSUME NEW p, NEW prep, Rows(prep) \in Nat
  PROVE  \E g : Picks(g, p, prep)
<1> DEFINE V == Seq(Nat)
           n == Rows(prep)
           step == [q \in Nat \X V |-> IF Skipped(p, prep, q[1] + 1) THEN q[2] ELSE Append(q[2], q[1] + 1)]
<1>1. step \in [Nat \X V -> V]
  <2>1. ASSUME NEW q \in Nat \X V
        PROVE  (IF Skipped(p, prep, q[1] + 1) THEN q[2] ELSE Append(q[2], q[1] + 1)) \in V
    <3>1. q[1] + 1 \in Nat /\ q[2] \in Seq(Nat)
      OBVIOUS
    <3> QED BY <3>1
  <2> QED BY <2>1
<1>2. <<>> \in V
  OBVIOUS
<1>3. PICK h : Recurs(h, V, <<>>, step)
  <2> HIDE DEF V, step
  <2> QED BY <1>1, <1>2, Recursion
<1>4. h[0] = <<>> /\ \A k \in Nat : h[k] \in V /\ h[k + 1] = step[<<k, h[k]>>]
  <2> HIDE DEF V, step
  <2> QED BY <1>3 DEF Recurs
<1> DEFINE g == [k \in 0 .. n |-> h[k]]
<1>5. ASSUME NEW k \in 0 .. n
      PROVE  g[k] = IF k = 0 THEN <<>> ELSE IF Skipped(p, prep, k) THEN g[k - 1] ELSE Append(g[k - 1], k)
  <2>1. CASE k = 0
    BY <1>4, <2>1
  <2>2. CASE k # 0
    <3>1. k - 1 \in Nat /\ (k - 1) + 1 = k /\ k - 1 \in 0 .. n
      BY <2>2
    <3>2. h[k] = step[<<k - 1, h[k - 1]>>] /\ h[k - 1] \in V
      <4> HIDE DEF step, V
      <4> QED BY <1>4, <3>1
    <3>3. h[k] = IF Skipped(p, prep, k) THEN h[k - 1] ELSE Append(h[k - 1], k)
      BY <3>1, <3>2
    <3> QED BY <2>2, <3>1, <3>3
  <2> QED BY <2>1, <2>2
<1>6. Picks(g, p, prep)
  <2>1. DOMAIN g = 0 .. n /\ g = [k \in 0 .. n |-> g[k]]
    OBVIOUS
  <2> HIDE DEF g
  <2>2. g = [k \in 0 .. n |-> IF k = 0 THEN <<>> ELSE IF Skipped(p, prep, k) THEN g[k - 1] ELSE Append(g[k - 1], k)]
    BY <1>5, <2>1, Zenon
  <2> QED BY <2>2 DEF Picks
<1> QED BY <1>6

(* which rows these are *)
Picked(s, p, prep, k) ==
  /\ s \in Seq(1 .. k)
  /\ \A i \in 1 .. k : (\E j \in DOMAIN s : s[j] = i) <=> ~Skipped(p, prep, i)

(* ... and its value k has, once each row is considered, those not skipped. *)
LEMMA PicksUpto ==
  ASSUME NEW p, NEW prep, Rows(prep) \in Nat, NEW g, Picks(g, p, prep)
  PROVE  \A k \in 0 .. Rows(prep) : Picked(g[k], p, prep, k)
<1> DEFINE n == Rows(prep)
           S == {k \in Nat : k <= n => Picked(g[k], p, prep, k)}
<1>1. \A k \in 0 .. n : g[k] = IF k = 0 THEN <<>> ELSE IF Skipped(p, prep, k) THEN g[k - 1] ELSE Append(g[k - 1], k)
  BY DEF Picks
<1>2. 0 \in S
  <2>1. g[0] = <<>>
    BY <1>1
  <2>2. <<>> \in Seq(1 .. 0) /\ \A i \in 1 .. 0 : FALSE
    OBVIOUS
  <2>3. Picked(<<>>, p, prep, 0)
    BY <2>2, Zenon DEF Picked
  <2> QED BY <2>1, <2>3
<1>3. ASSUME NEW k \in S
      PROVE  k + 1 \in S
  <2>1. SUFFICES ASSUME k + 1 <= n
                 PROVE  Picked(g[k + 1], p, prep, k + 1)
    OBVIOUS
  <2> DEFINE s == g[k]
             t == g[k + 1]
  <2>2. k \in Nat /\ k <= n /\ k + 1 \in 0 .. n /\ (k + 1) - 1 = k /\ k + 1 # 0
    BY <2>1
  <2>3. Picked(s, p, prep, k)
    BY <2>2
  <2>4. t = IF Skipped(p, prep, k + 1) THEN s ELSE Append(s, k + 1)
    BY <1>1, <2>2
  <2> HIDE DEF s, t
  <2>5. s \in Seq(1 .. k) /\ \A i \in 1 .. k : (\E j \in DOMAIN s : s[j] = i) <=> ~Skipped(p, prep, i)
    BY <2>3 DEF Picked
  <2>6. s \in Seq(1 .. k + 1) /\ \A i \in 1 .. k + 1 : i = k + 1 \/ i \in 1 .. k
    <3>1. 1 .. k \subseteq 1 .. k + 1
      BY <2>2
    <3>2. \A i \in 1 .. k + 1 : i = k + 1 \/ i \in 1 .. k
      BY <2>2
    <3> QED BY <2>5, <3>1, <3>2
  <2>7. \A j \in DOMAIN s : s[j] # k + 1
    BY <2>2, <2>5
  <2>8. ASSUME Skipped(p, prep, k + 1)
        PROVE  Picked(t, p, prep, k + 1)
    <3>1. t = s
      BY <2>4, <2>8
    <3>2. ASSUME NEW i \in 1 .. k + 1
          PROVE  (\E j \in DOMAIN s : s[j] = i) <=> ~Skipped(p, prep, i)
      <4>1. CASE i = k + 1
        BY <2>7, <2>8, <4>1
      <4>2. CASE i \in 1 .. k
        BY <2>5, <4>2
      <4> QED BY <2>6, <4>1, <4>2
    <3> QED BY <2>6, <3>1, <3>2, Zenon DEF Picked
  <2>9. ASSUME ~Skipped(p, prep, k + 1)
        PROVE  Picked(t, p, prep, k + 1)
    <3>1. t = Append(s, k + 1)
      BY <2>4, <2>9
    <3>2. t \in Seq(1 .. k + 1)
      <4>1. k + 1 \in 1 .. k + 1
        BY <2>2
      <4> QED BY <2>6, <3>1, <4>1
    <3>3. DOMAIN t = 1 .. Len(s) + 1 /\ DOMAIN s = 1 .. Len(s) /\ Len(s) \in Nat
      BY <2>6, <3>1
    <3>4. t[Len(s) + 1] = k + 1 /\ \A j \in DOMAIN s : t[j] = s[j] /\ j \in DOMAIN t
      BY <2>6, <3>1
    <3>5. \A j \in DOMAIN t : j = Len(s) + 1 \/ j \in DOMAIN s
      BY <3>3
    <3>6. ASSUME NEW i \in 1 .. k + 1
          PROVE  (\E j \in DOMAIN t : t[j] = i) <=> ~Skipped(p, prep, i)
      <4>1. CASE i = k + 1
        <5>1. Len(s) + 1 \in DOMAIN t
          BY <3>3
        <5> QED BY <2>9, <3>4, <4>1, <5>1
      <4>2. CASE i \in 1 .. k
        <5>1. i # k + 1
          BY <2>2, <4>2
        <5>2. (\E j \in DOMAIN t : t[j] = i) <=> (\E j \in DOMAIN s : s[j] = i)
          BY <3>4, <3>5, <5>1
        <5> QED BY <2>5, <4>2, <5>2
      <4> QED BY <2>6, <4>1, <4>2
    <3> QED BY <3>2, <3>6, Zenon DEF Picked
  <2>10. Picked(t, p, prep, k + 1)
    BY <2>8, <2>9, Zenon
  <2> QED BY <2>10 DEF t
<1>4. S = Nat
  <2>1. S \in SUBSET Nat
    OBVIOUS
  <2> HIDE DEF S
  <2> QED BY <1>2, <1>3, <2>1, Induction
<1> QED BY <1>4

(*------------------------- one call for each row -------------------------*)

Evaluation(k, o, s) == [ok |-> k, out |-> o, seen |-> s]
Result(o, s) == Evaluation(TRUE, o, s)
Denied(s) == Evaluation(FALSE, <<>>, s)

(* What becomes of an evaluation when R is called, ... *)
LEMMA SeenMore ==
  ASSUME NEW k, NEW o, NEW s, NEW x, NEW r, r = Evaluation(k, o, s)
  PROVE  [r EXCEPT !.seen = Append(@, x)] = Evaluation(k, o, Append(s, x))
BY DEF Evaluation

(* ... when it gives a row, ... *)
LEMMA EmitIs ==
  ASSUME NEW k, NEW o, NEW s, NEW x, NEW r, r = Evaluation(k, o, s)
  PROVE  Emit(r, x) = Evaluation(k, Append(o, x), s)
BY DEF Evaluation, Emit

(* ... and when it ends. *)
LEMMA AbortIs ==
  ASSUME NEW k \in BOOLEAN, NEW o, NEW s, NEW r, r = Evaluation(k, o, s)
  PROVE  Abort(r) = Denied(s)
<1>1. PICK m \in BOOLEAN : m = FALSE
  OBVIOUS
<1>2. PICK q : q = [r EXCEPT !.ok = m]
  OBVIOUS
<1>3. q = Evaluation(m, o, s)
  BY <1>2 DEF Evaluation
<1>4. [q EXCEPT !.out = <<>>] = Evaluation(m, <<>>, s)
  BY <1>3 DEF Evaluation
<1> QED BY <1>1, <1>2, <1>4, Zenon DEF Abort, Denied

(* The parts of an evaluation. *)
LEMMA OkIs ==
  ASSUME NEW k \in BOOLEAN, NEW o, NEW s
  PROVE  Evaluation(k, o, s).ok = k /\ Evaluation(k, o, s).out = o /\ Evaluation(k, o, s).seen = s
BY DEF Evaluation

(* One more row, by what is known of it. *)
LEMMA NextRowIs ==
  ASSUME NEW p, NEW f, NEW prep, NEW i, NEW o, NEW s
  PROVE  /\ NextRow(p, f, prep, Denied(s), i) = Denied(s)
         /\ Skipped(p, prep, i) => NextRow(p, f, prep, Result(o, s), i) = Result(Append(o, Missing), s)
         /\ ~Skipped(p, prep, i) /\ ~Refused(p, f, prep, i) =>
              NextRow(p, f, prep, Result(o, s), i)
                = Result(Append(o, Outcome(f, prep, i)), Append(s, Arguments(prep, i)))
         /\ Refused(p, f, prep, i) /\ p.error = "rethrow" =>
              NextRow(p, f, prep, Result(o, s), i) = Denied(Append(s, Arguments(prep, i)))
<1> DEFINE args == Arguments(prep, i)
           y == Outcome(f, prep, i)
<1>1. NextRow(p, f, prep, Denied(s), i) = Denied(s)
  <2>1. ~ Denied(s).ok
    BY OkIs, Zenon DEF Denied
  <2> QED BY <2>1, Zenon DEF NextRow
<1>2. PICK r, now : r = Result(o, s) /\ now = [r EXCEPT !.seen = Append(@, args)]
  OBVIOUS
<1>b. PICK k \in BOOLEAN : k = TRUE
  OBVIOUS
<1>3. now = Result(o, Append(s, args)) /\ Emit(r, Missing) = Result(Append(o, Missing), s) /\ r.ok
  <2> HIDE DEF args
  <2>1. r = Evaluation(k, o, s)
    BY <1>b, <1>2, Zenon DEF Result
  <2>2. now = Evaluation(k, o, Append(s, args))
    BY <1>2, <2>1, SeenMore
  <2>3. Emit(r, Missing) = Evaluation(k, Append(o, Missing), s)
    BY <2>1, EmitIs
  <2>4. r.ok
    BY <1>b, <2>1, OkIs, Zenon
  <2> QED BY <1>b, <2>2, <2>3, <2>4, Zenon DEF Result
<1>4. Emit(now, y) = Result(Append(o, y), Append(s, args)) /\ Abort(now) = Denied(Append(s, args))
  <2> HIDE DEF args, y
  <2>1. now = Evaluation(k, o, Append(s, args))
    BY <1>b, <1>3, Zenon DEF Result
  <2>2. Emit(now, y) = Evaluation(k, Append(o, y), Append(s, args))
    BY <2>1, EmitIs
  <2>3. Abort(now) = Denied(Append(s, args))
    BY <2>1, AbortIs, Zenon
  <2> QED BY <1>b, <2>2, <2>3, Zenon DEF Result
<1>5. ASSUME Skipped(p, prep, i)
      PROVE  NextRow(p, f, prep, r, i) = Result(Append(o, Missing), s)
  BY <1>3, <1>5, Zenon DEF NextRow
<1>6. ASSUME ~Skipped(p, prep, i)
      PROVE  NextRow(p, f, prep, r, i) =
               IF y = Fails THEN IF p.error = "return_null" THEN Emit(now, Missing) ELSE Abort(now)
               ELSE IF Fits(y) THEN Emit(now, y) ELSE Abort(now)
  <2>1. NextRow(p, f, prep, r, i) = Called(p, f, r, args)
    BY <1>3, <1>6, Zenon DEF NextRow
  <2>2. y = Apply(f, args[1])
    BY DEF Outcome
  <2> HIDE DEF args, y
  <2> QED BY <1>2, <2>1, <2>2, Zenon DEF Called
<1>7. p.error = "rethrow" => p.error # "return_null"
  OBVIOUS
<1> HIDE DEF args, y
<1> QED BY <1>1, <1>2, <1>4, <1>5, <1>6, <1>7 DEF Refused, args, y

(* the values that may occur *)
Outcomes(f, prep) == {Missing} \cup {Outcome(f, prep, i) : i \in Nat}
AllArguments(prep) == {Arguments(prep, i) : i \in Nat}
Evaluations(f, prep) ==
  [ok : BOOLEAN, out : Seq(Outcomes(f, prep)), seen : Seq(AllArguments(prep))]

(* Another row leaves an evaluation one. *)
LEMMA NextRowType ==
  ASSUME NEW p, NEW f, NEW prep, NEW i \in Nat, NEW acc \in Evaluations(f, prep)
  PROVE  NextRow(p, f, prep, acc, i) \in Evaluations(f, prep)
<1> DEFINE args == Arguments(prep, i)
           y == Outcome(f, prep, i)
           O == Outcomes(f, prep)
           A == AllArguments(prep)
<1>1. Missing \in O /\ y \in O /\ args \in A
  BY DEF Outcomes, AllArguments
<1>2. \A a \in Evaluations(f, prep) :
        Abort(a) \in Evaluations(f, prep) /\ \A x \in O : Emit(a, x) \in Evaluations(f, prep)
  <2>1. ASSUME NEW a \in Evaluations(f, prep), NEW x \in O
        PROVE  Emit(a, x) \in Evaluations(f, prep)
    <3>1. a.out \in Seq(O) /\ Append(a.out, x) \in Seq(O)
      BY DEF Evaluations
    <3> HIDE DEF O
    <3> QED BY <3>1 DEF Evaluations, Emit, O
  <2>2. ASSUME NEW a \in Evaluations(f, prep)
        PROVE  Abort(a) \in Evaluations(f, prep)
    <3>1. <<>> \in Seq(O)
      OBVIOUS
    <3> QED BY <3>1 DEF Evaluations, Abort
  <2> QED BY <2>1, <2>2
<1>3. [acc EXCEPT !.seen = Append(@, args)] \in Evaluations(f, prep)
  <2>1. acc.seen \in Seq(A) /\ Append(acc.seen, args) \in Seq(A)
    BY <1>1 DEF Evaluations
  <2> QED BY <2>1 DEF Evaluations
<1>4. y = Apply(f, args[1])
  BY DEF Outcome
<1> DEFINE now == [acc EXCEPT !.seen = Append(@, args)]
<1>5. Called(p, f, acc, args) = IF y = Fails THEN IF p.error = "return_null" THEN Emit(now, Missing) ELSE Abort(now)
                                ELSE IF Fits(y) THEN Emit(now, y) ELSE Abort(now)
  BY <1>4 DEF Called
<1> HIDE DEF now, y, args, O, A
<1>6. Called(p, f, acc, args) \in Evaluations(f, prep)
  BY <1>1, <1>2, <1>3, <1>5 DEF now
<1> QED BY <1>1, <1>2, <1>6 DEF NextRow, args

(* The function that EachRow takes its last value from exists. *)
LEMMA StepsExists ==
  ASSUME NEW p, NEW f, NEW prep, Rows(prep) \in Nat
  PROVE  \E g : Steps(g, p, f, prep)
<1> DEFINE V == Evaluations(f, prep)
           n == Rows(prep)
           step == [q \in Nat \X V |-> NextRow(p, f, prep, q[2], q[1] + 1)]
<1>1. step \in [Nat \X V -> V]
  <2>1. ASSUME NEW q \in Nat \X V
        PROVE  NextRow(p, f, prep, q[2], q[1] + 1) \in V
    <3>1. q[1] + 1 \in Nat /\ q[2] \in V
      OBVIOUS
    <3> HIDE DEF V
    <3> QED BY <3>1, NextRowType DEF V
  <2> QED BY <2>1
<1>2. Nothing \in V
  BY DEF Nothing, Evaluations
<1>3. PICK h : Recurs(h, V, Nothing, step)
  <2> HIDE DEF V, step
  <2> QED BY <1>1, <1>2, Recursion
<1>4. h[0] = Nothing /\ \A k \in Nat : h[k] \in V /\ h[k + 1] = step[<<k, h[k]>>]
  <2> HIDE DEF V, step
  <2> QED BY <1>3 DEF Recurs
<1> DEFINE g == [k \in 0 .. n |-> h[k]]
<1>5. ASSUME NEW k \in 0 .. n
      PROVE  g[k] = IF k = 0 THEN Nothing ELSE NextRow(p, f, prep, g[k - 1], k)
  <2>1. CASE k = 0
    BY <1>4, <2>1
  <2>2. CASE k # 0
    <3>1. k - 1 \in Nat /\ (k - 1) + 1 = k /\ k - 1 \in 0 .. n
      BY <2>2
    <3>2. h[k] = step[<<k - 1, h[k - 1]>>] /\ h[k - 1] \in V
      <4> HIDE DEF step, V
      <4> QED BY <1>4, <3>1
    <3>3. h[k] = NextRow(p, f, prep, h[k - 1], k)
      <4> HIDE DEF V
      <4> QED BY <3>1, <3>2
    <3> QED BY <2>2, <3>1, <3>3
  <2> QED BY <2>1, <2>2
<1>6. Steps(g, p, f, prep)
  <2>1. DOMAIN g = 0 .. n /\ g = [k \in 0 .. n |-> g[k]]
    OBVIOUS
  <2> HIDE DEF g
  <2>2. g = [k \in 0 .. n |-> IF k = 0 THEN Nothing ELSE NextRow(p, f, prep, g[k - 1], k)]
    BY <1>5, <2>1, Zenon
  <2> QED BY <2>2 DEF Steps
<1> QED BY <1>6

(* How the rows of a result and the arguments R saw grow. *)
LEMMA Grows ==
  ASSUME NEW p, NEW f, NEW prep, NEW k \in Nat, NEW m \in Nat, NEW at \in Seq(1 .. m)
  PROVE  /\ FirstRows(p, f, prep, k + 1) = Append(FirstRows(p, f, prep, k), RowOf(p, f, prep, k + 1))
         /\ SeenAt(prep, Append(at, k + 1)) = Append(SeenAt(prep, at), Arguments(prep, k + 1))
<1>1. FirstRows(p, f, prep, k + 1) = Append(FirstRows(p, f, prep, k), RowOf(p, f, prep, k + 1))
  <2> DEFINE O == {RowOf(p, f, prep, i) : i \in Nat}
             o == FirstRows(p, f, prep, k)
             x == RowOf(p, f, prep, k + 1)
             new == FirstRows(p, f, prep, k + 1)
  <2>1. /\ o \in Seq(O) /\ Len(o) = k /\ \A i \in 1 .. k : o[i] = RowOf(p, f, prep, i)
        /\ x \in O
        /\ new \in Seq(O) /\ Len(new) = k + 1 /\ \A i \in 1 .. k + 1 : new[i] = RowOf(p, f, prep, i)
    <3>1. \A i \in 1 .. k + 1 : RowOf(p, f, prep, i) \in O
      OBVIOUS
    <3> HIDE DEF O
    <3> QED BY <3>1 DEF FirstRows
  <2> HIDE DEF O, o, new
  <2>2. Append(o, x) \in Seq(O) /\ Len(Append(o, x)) = k + 1
    BY <2>1
  <2>3. ASSUME NEW i \in 1 .. k + 1
        PROVE  new[i] = Append(o, x)[i]
    <3>1. CASE i = k + 1
      BY <2>1, <3>1
    <3>2. CASE i # k + 1
      <4>1. i \in 1 .. k
        BY <3>2
      <4> QED BY <2>1, <4>1
    <3> QED BY <3>1, <3>2
  <2>4. new = Append(o, x)
    BY <2>1, <2>2, <2>3
  <2> QED BY <2>4 DEF o, new
<1>2. SeenAt(prep, Append(at, k + 1)) = Append(SeenAt(prep, at), Arguments(prep, k + 1))
  <2> DEFINE A == {Arguments(prep, i) : i \in Nat}
             s == SeenAt(prep, at)
             x == Arguments(prep, k + 1)
             long == Append(at, k + 1)
             new == SeenAt(prep, long)
  <2>1. long \in Seq(Nat) /\ Len(long) = Len(at) + 1 /\ long[Len(at) + 1] = k + 1
        /\ (\A j \in 1 .. Len(at) : long[j] = at[j] /\ at[j] \in Nat)
        /\ Len(at) \in Nat /\ at \in Seq(Nat)
    <3>1. at \in Seq(Nat)
      <4>1. 1 .. m \subseteq Nat
        OBVIOUS
      <4> QED BY <4>1
    <3> QED BY <3>1
  <2> HIDE DEF long
  <2>2. \A i \in Nat : Arguments(prep, i) \in A
    OBVIOUS
  <2>x. x \in A
    <3> HIDE DEF A
    <3>1. k + 1 \in Nat
      OBVIOUS
    <3> QED BY <2>2, <3>1
  <2> HIDE DEF A
  <2>3. s \in Seq(A) /\ Len(s) = Len(at) /\ \A j \in 1 .. Len(at) : s[j] = Arguments(prep, at[j])
    <3>1. \A j \in 1 .. Len(at) : Arguments(prep, at[j]) \in A
      BY <2>1, <2>2
    <3>2. s = [j \in 1 .. Len(at) |-> Arguments(prep, at[j])]
      BY <2>1 DEF SeenAt
    <3> HIDE DEF s
    <3> QED BY <2>1, <3>1, <3>2
  <2>4. new \in Seq(A) /\ Len(new) = Len(at) + 1 /\ \A j \in 1 .. Len(at) + 1 : new[j] = Arguments(prep, long[j])
    <3>1. \A j \in 1 .. Len(at) + 1 : Arguments(prep, long[j]) \in A
      BY <2>1, <2>2
    <3>2. new = [j \in 1 .. Len(at) + 1 |-> Arguments(prep, long[j])]
      BY <2>1 DEF SeenAt
    <3> HIDE DEF new
    <3> QED BY <2>1, <3>1, <3>2
  <2> HIDE DEF s, new
  <2>5. Append(s, x) \in Seq(A) /\ Len(Append(s, x)) = Len(at) + 1
    BY <2>1, <2>3, <2>x
  <2>6. ASSUME NEW j \in 1 .. Len(at) + 1
        PROVE  new[j] = Append(s, x)[j]
    <3>1. CASE j = Len(at) + 1
      BY <2>1, <2>3, <2>4, <3>1
    <3>2. CASE j # Len(at) + 1
      <4>1. j \in 1 .. Len(at)
        BY <3>2, <2>1
      <4>2. new[j] = Arguments(prep, at[j])
        BY <2>1, <2>4, <4>1
      <4>3. Append(s, x)[j] = s[j]
        BY <2>3, <4>1, <2>x
      <4> QED BY <2>3, <4>1, <4>2, <4>3
    <3> QED BY <3>1, <3>2
  <2>7. new = Append(s, x)
    BY <2>4, <2>5, <2>6
  <2> QED BY <2>7 DEF s, new, long
<1> QED BY <1>1, <1>2

(* The first k rows: all of their results, or a refusal if one of them is refused. *)
LEMMA ByRowUpto ==
  ASSUME NEW p, p.error = "rethrow", NEW f, NEW prep, Rows(prep) \in Nat,
         NEW h, Picks(h, p, prep), NEW g, Steps(g, p, f, prep)
  PROVE  \A k \in 0 .. Rows(prep) :
           IF \E j \in 1 .. k : Refused(p, f, prep, j) THEN \E s : g[k] = Denied(s)
           ELSE g[k] = Result(FirstRows(p, f, prep, k), SeenAt(prep, h[k]))
<1> DEFINE n == Rows(prep)
           Good(k) == IF \E j \in 1 .. k : Refused(p, f, prep, j) THEN \E s : g[k] = Denied(s)
                      ELSE g[k] = Result(FirstRows(p, f, prep, k), SeenAt(prep, h[k]))
           S == {k \in Nat : k <= n => Good(k)}
<1>1. /\ \A k \in 0 .. n : g[k] = IF k = 0 THEN Nothing ELSE NextRow(p, f, prep, g[k - 1], k)
      /\ \A k \in 0 .. n : h[k] = IF k = 0 THEN <<>> ELSE IF Skipped(p, prep, k) THEN h[k - 1] ELSE Append(h[k - 1], k)
  BY DEF Steps, Picks
<1>2. 0 \in S
  <2>1. g[0] = Nothing /\ h[0] = <<>>
    BY <1>1
  <2>2. FirstRows(p, f, prep, 0) = <<>> /\ SeenAt(prep, <<>>) = <<>>
    BY DEF FirstRows, SeenAt
  <2>3. Nothing = Result(<<>>, <<>>)
    BY DEF Nothing, Result, Evaluation
  <2>4. ~ \E j \in 1 .. 0 : Refused(p, f, prep, j)
    OBVIOUS
  <2>5. Good(0)
    BY <2>1, <2>2, <2>3, <2>4, Zenon
  <2> HIDE DEF Good
  <2> QED BY <2>5
<1>3. ASSUME NEW k \in S
      PROVE  k + 1 \in S
  <2>1. SUFFICES ASSUME k + 1 <= n
                 PROVE  Good(k + 1)
    <3> HIDE DEF Good
    <3> QED OBVIOUS
  <2>2. k \in Nat /\ k <= n /\ k + 1 \in 0 .. n /\ k \in 0 .. n /\ (k + 1) - 1 = k /\ k + 1 # 0
    BY <2>1
  <2>3. Good(k)
    <3> HIDE DEF Good
    <3> QED BY <2>2
  <2>4. /\ g[k + 1] = NextRow(p, f, prep, g[k], k + 1)
        /\ h[k + 1] = IF Skipped(p, prep, k + 1) THEN h[k] ELSE Append(h[k], k + 1)
    BY <1>1, <2>2
  <2>5. \A j \in 1 .. k + 1 : j = k + 1 \/ j \in 1 .. k
    BY <2>2
  <2>6. 1 .. k \subseteq 1 .. k + 1 /\ k + 1 \in 1 .. k + 1
    BY <2>2
  <2>7. h[k] \in Seq(1 .. k)
    BY <2>2, PicksUpto DEF Picked
  <2>8. CASE \E j \in 1 .. k : Refused(p, f, prep, j)
    <3>1. PICK s : g[k] = Denied(s)
      BY <2>3, <2>8
    <3>2. g[k + 1] = Denied(s)
      <4>1. NextRow(p, f, prep, Denied(s), k + 1) = Denied(s)
        BY NextRowIs
      <4> QED BY <2>4, <3>1, <4>1, Zenon
    <3>3. \E j \in 1 .. k + 1 : Refused(p, f, prep, j)
      BY <2>6, <2>8
    <3> QED BY <3>2, <3>3, Zenon
  <2>9. CASE ~ \E j \in 1 .. k : Refused(p, f, prep, j)
    <3> DEFINE o == FirstRows(p, f, prep, k)
               s == SeenAt(prep, h[k])
    <3>1. g[k] = Result(o, s)
      BY <2>3, <2>9
    <3>2. FirstRows(p, f, prep, k + 1) = Append(o, RowOf(p, f, prep, k + 1))
      BY <2>2, <2>7, Grows
    <3>3. SeenAt(prep, Append(h[k], k + 1)) = Append(s, Arguments(prep, k + 1))
      BY <2>2, <2>7, Grows
    <3> HIDE DEF o, s
    <3>4. CASE Refused(p, f, prep, k + 1)
      <4>1. g[k + 1] = Denied(Append(s, Arguments(prep, k + 1)))
        <5>1. NextRow(p, f, prep, Result(o, s), k + 1) = Denied(Append(s, Arguments(prep, k + 1)))
          BY <3>4, NextRowIs
        <5> QED BY <2>4, <3>1, <5>1, Zenon
      <4>2. \E j \in 1 .. k + 1 : Refused(p, f, prep, j)
        BY <2>6, <3>4
      <4> QED BY <4>1, <4>2, Zenon
    <3>5. CASE ~Refused(p, f, prep, k + 1)
      <4>1. ~ \E j \in 1 .. k + 1 : Refused(p, f, prep, j)
        BY <2>5, <2>9, <3>5
      <4>2. CASE Skipped(p, prep, k + 1)
        <5>1. g[k + 1] = Result(Append(o, Missing), s)
          <6>1. NextRow(p, f, prep, Result(o, s), k + 1) = Result(Append(o, Missing), s)
            BY <4>2, NextRowIs
          <6> QED BY <2>4, <3>1, <6>1, Zenon
        <5>2. RowOf(p, f, prep, k + 1) = Missing
          BY <4>2, Zenon DEF RowOf
        <5>3. g[k + 1] = Result(FirstRows(p, f, prep, k + 1), SeenAt(prep, h[k + 1]))
          BY <2>4, <3>2, <4>2, <5>1, <5>2, Zenon DEF s
        <5> QED BY <4>1, <5>3, Zenon
      <4>3. CASE ~Skipped(p, prep, k + 1)
        <5>1. g[k + 1] = Result(Append(o, Outcome(f, prep, k + 1)), Append(s, Arguments(prep, k + 1)))
          <6>1. NextRow(p, f, prep, Result(o, s), k + 1)
                  = Result(Append(o, Outcome(f, prep, k + 1)), Append(s, Arguments(prep, k + 1)))
            BY <3>5, <4>3, NextRowIs
          <6> QED BY <2>4, <3>1, <6>1, Zenon
        <5>2. RowOf(p, f, prep, k + 1) = Outcome(f, prep, k + 1)
          BY <4>3, Zenon DEF RowOf
        <5>3. g[k + 1] = Result(FirstRows(p, f, prep, k + 1), SeenAt(prep, h[k + 1]))
          BY <2>4, <3>2, <3>3, <4>3, <5>1, <5>2, Zenon
        <5> QED BY <4>1, <5>3, Zenon
      <4> QED BY <4>2, <4>3
    <3> QED BY <3>4, <3>5
  <2> QED BY <2>8, <2>9
<1>4. S = Nat
  <2>1. S \in SUBSET Nat
    OBVIOUS
  <2> HIDE DEF S
  <2> QED BY <1>2, <1>3, <2>1, Induction
<1>5. \A k \in 0 .. n : Good(k)
  <2> HIDE DEF Good
  <2> QED BY <1>4
<1> QED BY <1>5

(* The rows evaluated in one call. *)
LEMMA EvalRowsAre ==
  ASSUME NEW p, NEW prep, Rows(prep) \in Nat
  PROVE  \E h : Picks(h, p, prep) /\ EvalRows(p, prep) = h[Rows(prep)]
<1> DEFINE H == CHOOSE h : Picks(h, p, prep)
<1>1. Picks(H, p, prep)
  BY PicksExists
<1>2. EvalRows(p, prep) = H[Rows(prep)]
  BY DEF EvalRows, Picks
<1> QED BY <1>1, <1>2

(* What a call for each row gives, ... *)
LEMMA ByRow ==
  ASSUME NEW p, p.error = "rethrow", NEW f, NEW prep, Rows(prep) \in Nat
  PROVE  IF \E j \in 1 .. Rows(prep) : Refused(p, f, prep, j) THEN \E s : EachRow(p, f, prep) = Denied(s)
         ELSE EachRow(p, f, prep) = Result(FirstRows(p, f, prep, Rows(prep)), SeenAt(prep, EvalRows(p, prep)))
<1>1. PICK h : Picks(h, p, prep) /\ EvalRows(p, prep) = h[Rows(prep)]
  BY EvalRowsAre
<1>2. PICK g : Steps(g, p, f, prep) /\ EachRow(p, f, prep) = g[Rows(prep)]
  <2> DEFINE G == CHOOSE g : Steps(g, p, f, prep)
  <2>1. Steps(G, p, f, prep)
    BY StepsExists
  <2>2. EachRow(p, f, prep) = G[Rows(prep)]
    BY DEF EachRow, Steps
  <2> QED BY <2>1, <2>2
<1>3. Rows(prep) \in 0 .. Rows(prep)
  OBVIOUS
<1> QED BY <1>1, <1>2, <1>3, ByRowUpto

(*------------------------- one call for all rows -------------------------*)

(* ... and what one call for all of them gives. *)
LEMMA AtOnce ==
  ASSUME NEW p, p.error = "rethrow", NEW f, f[1] # "short", NEW prep, Rows(prep) \in Nat
  PROVE  IF \E i \in 1 .. Rows(prep) : Refused(p, f, prep, i) THEN \E s : OneCall(p, f, prep) = Denied(s)
         ELSE OneCall(p, f, prep) = Result(FirstRows(p, f, prep, Rows(prep)), SeenAt(prep, EvalRows(p, prep)))
<1> DEFINE n == Rows(prep)
           at == EvalRows(p, prep)
           args == SeenAt(prep, at)
           all == [j \in DOMAIN at |-> Outcome(f, prep, at[j])]
           nulls == [i \in 1 .. n |-> Missing]
<1>1. /\ at \in Seq(1 .. n)
      /\ \A i \in 1 .. n : (\E j \in DOMAIN at : at[j] = i) <=> ~Skipped(p, prep, i)
  <2>1. PICK h : Picks(h, p, prep) /\ at = h[n]
    BY EvalRowsAre
  <2>2. Picked(h[n], p, prep, n)
    BY <2>1, PicksUpto
  <2> QED BY <2>1, <2>2 DEF Picked
<1>2. OneCall(p, f, prep) =
        IF at = <<>> THEN Result(nulls, <<>>)
        ELSE IF Contains(all, Fails) THEN Denied(args)
        ELSE IF \E j \in DOMAIN all : ~Fits(all[j]) THEN Denied(args)
        ELSE Result(Scatter(all, at, n), args)
  <2>1. all = [j \in DOMAIN at |-> Apply(f, args[j][1])]
    <3>1. \A j \in DOMAIN at : Apply(f, args[j][1]) = Outcome(f, prep, at[j])
      BY DEF SeenAt, Outcome
    <3> QED BY <3>1
  <2>2. Len(all) = Len(at)
    <3>1. DOMAIN all = 1 .. Len(at) /\ Len(at) \in Nat
      BY <1>1
    <3> QED BY <3>1
  <2>3. p.error # "return_null"
    OBVIOUS
  <2>4. args = [j \in DOMAIN at |-> Arguments(prep, at[j])]
    BY DEF SeenAt
  <2>5. [ok |-> TRUE, out |-> nulls, seen |-> <<>>] = Result(nulls, <<>>)
    BY DEF Result, Evaluation
  <2>6. [ok |-> FALSE, out |-> <<>>, seen |-> args] = Denied(args)
    BY DEF Denied, Evaluation
  <2>7. [ok |-> TRUE, out |-> Scatter(all, at, n), seen |-> args] = Result(Scatter(all, at, n), args)
    BY DEF Result, Evaluation
  <2>8. OneCall(p, f, prep) =
          IF at = <<>> THEN [ok |-> TRUE, out |-> nulls, seen |-> <<>>]
          ELSE IF Contains(all, Fails)
          THEN IF p.error = "return_null" THEN [ok |-> TRUE, out |-> nulls, seen |-> args]
               ELSE [ok |-> FALSE, out |-> <<>>, seen |-> args]
          ELSE IF Len(all) # Len(at) \/ \E j \in DOMAIN all : ~Fits(all[j])
          THEN [ok |-> FALSE, out |-> <<>>, seen |-> args]
          ELSE [ok |-> TRUE, out |-> Scatter(all, at, n), seen |-> args]
    <3> HIDE DEF at, args, all
    <3> QED BY <2>1, <2>4, Zenon DEF OneCall, at
  <2> HIDE DEF at, args, all, nulls
  <2> QED BY <2>2, <2>3, <2>5, <2>6, <2>7, <2>8, Zenon
<1>3. CASE at = <<>>
  <2>1. \A i \in 1 .. n : Skipped(p, prep, i)
    BY <1>1, <1>3
  <2>2. nulls = FirstRows(p, f, prep, n)
    BY <2>1 DEF FirstRows, RowOf
  <2>3. SeenAt(prep, at) = <<>>
    BY <1>3 DEF SeenAt
  <2>4. ~ \E i \in 1 .. n : Refused(p, f, prep, i)
    BY <2>1 DEF Refused
  <2>5. OneCall(p, f, prep) = Result(nulls, <<>>)
    BY <1>2, <1>3, Zenon
  <2> QED BY <2>2, <2>3, <2>4, <2>5, Zenon
<1>4. CASE at # <<>>
  <2>1. /\ DOMAIN all = DOMAIN at /\ DOMAIN at = 1 .. Len(at) /\ Len(all) = Len(at)
        /\ \A j \in DOMAIN at : all[j] = Outcome(f, prep, at[j]) /\ at[j] \in 1 .. n /\ ~Skipped(p, prep, at[j])
    <3>1. DOMAIN all = 1 .. Len(at) /\ Len(at) \in Nat /\ DOMAIN at = 1 .. Len(at)
      BY <1>1
    <3>2. \A j \in DOMAIN at : at[j] \in 1 .. n
      BY <1>1
    <3>3. \A j \in DOMAIN at : ~Skipped(p, prep, at[j])
      BY <1>1, <3>2
    <3> QED BY <3>1, <3>2, <3>3
  <2> HIDE DEF at, all
  <2>2. Contains(all, Fails) <=> \E j \in DOMAIN at : Outcome(f, prep, at[j]) = Fails
    BY <2>1 DEF Contains
  <2>3. (\E j \in DOMAIN all : ~Fits(all[j])) <=> \E j \in DOMAIN at : ~Fits(Outcome(f, prep, at[j]))
    BY <2>1
  <2>4. (\E i \in 1 .. n : Refused(p, f, prep, i)) <=>
          \E j \in DOMAIN at : Outcome(f, prep, at[j]) = Fails \/ ~Fits(Outcome(f, prep, at[j]))
    <3>1. ASSUME NEW i \in 1 .. n, Refused(p, f, prep, i)
          PROVE  \E j \in DOMAIN at : Outcome(f, prep, at[j]) = Fails \/ ~Fits(Outcome(f, prep, at[j]))
      BY <1>1, <3>1 DEF Refused, at
    <3>2. ASSUME NEW j \in DOMAIN at, Outcome(f, prep, at[j]) = Fails \/ ~Fits(Outcome(f, prep, at[j]))
          PROVE  Refused(p, f, prep, at[j]) /\ at[j] \in 1 .. n
      BY <2>1, <3>2 DEF Refused
    <3> QED BY <3>1, <3>2
  <2>5. Scatter(all, at, n) = FirstRows(p, f, prep, n)
    <3>1. ASSUME NEW i \in 1 .. n
          PROVE  (IF \E j \in DOMAIN at : at[j] = i THEN all[CHOOSE j \in DOMAIN at : at[j] = i] ELSE Missing)
                   = RowOf(p, f, prep, i)
      <4>1. CASE \E j \in DOMAIN at : at[j] = i
        <5>1. PICK k \in DOMAIN at : at[k] = i /\ k = CHOOSE j \in DOMAIN at : at[j] = i
          BY <4>1
        <5>2. all[k] = Outcome(f, prep, i) /\ ~Skipped(p, prep, i)
          BY <2>1, <5>1
        <5> QED BY <4>1, <5>1, <5>2, Zenon DEF RowOf
      <4>2. CASE ~ \E j \in DOMAIN at : at[j] = i
        <5>1. Skipped(p, prep, i)
          BY <1>1, <4>2 DEF at
        <5> QED BY <4>2, <5>1, Zenon DEF RowOf
      <4> QED BY <4>1, <4>2
    <3> QED BY <3>1, Zenon DEF Scatter, FirstRows
  <2>6. CASE \E i \in 1 .. n : Refused(p, f, prep, i)
    <3>1. OneCall(p, f, prep) = Denied(args)
      BY <1>2, <1>4, <2>2, <2>3, <2>4, <2>6 DEF at, all
    <3> QED BY <2>6, <3>1, Zenon
  <2>7. CASE ~ \E i \in 1 .. n : Refused(p, f, prep, i)
    <3>1. ~Contains(all, Fails) /\ ~ \E j \in DOMAIN all : ~Fits(all[j])
      BY <2>2, <2>3, <2>4, <2>7
    <3>2. OneCall(p, f, prep) = Result(Scatter(all, at, n), args)
      BY <1>2, <1>4, <3>1, Zenon DEF at, all
    <3> QED BY <2>5, <2>7, <3>2, Zenon DEF at
  <2> QED BY <2>6, <2>7
<1> QED BY <1>3, <1>4

(* For any R function that gives a result for each row it is called with, any
   values and any checks of them, where errors are raised: called for each row
   (rducks_rc_direct_scalar_eval_on_r_thread) or once for the rows of a chunk
   (rducks_vectorized_eval_prepared_chunk), R gives the same results or refuses
   both, and sees the same arguments unless it refuses. *)
THEOREM CallsAgree ==
  ASSUME NEW p \in Policies, p.error = "rethrow", NEW f, f[1] # "short",
         NEW prep, Rows(prep) \in Nat
  PROVE  LET one == EachRow(p, f, prep)
             all == OneCall(p, f, prep)
         IN one.ok = all.ok /\ one.out = all.out /\ (one.ok => one.seen = all.seen)
<1>1. CASE \E i \in 1 .. Rows(prep) : Refused(p, f, prep, i)
  <2>1. PICK s : EachRow(p, f, prep) = Denied(s)
    BY <1>1, ByRow
  <2>2. PICK t : OneCall(p, f, prep) = Denied(t)
    BY <1>1, AtOnce
  <2>3. \A x : Denied(x).ok = FALSE /\ Denied(x).out = <<>>
    BY DEF Denied, Evaluation
  <2> QED BY <2>1, <2>2, <2>3
<1>2. CASE ~ \E i \in 1 .. Rows(prep) : Refused(p, f, prep, i)
  BY <1>2, ByRow, AtOnce
<1> QED BY <1>1, <1>2

(*--------------------------- sequences joined ----------------------------*)

(* b[k] counts the elements of the first k of N sequences, L[k] those of each. *)
Counts(b, N, L) ==
  b[0] = 0 /\ \A k \in 1 .. N : L[k] \in Nat /\ b[k] = b[k - 1] + L[k]

(* Every element is one of some sequence. *)
Split(b, L, k) ==
  /\ b[k] \in Nat
  /\ \A i \in 1 .. b[k] : \E m \in 1 .. k : \E j \in 1 .. L[m] : i = b[m - 1] + j
  /\ \A m \in 0 .. k : b[m] \in Nat /\ b[m] <= b[k]

(* That is so for any counts. *)
LEMMA CountsSplit ==
  ASSUME NEW N \in Nat, NEW L, NEW b, Counts(b, N, L)
  PROVE  \A k \in 0 .. N : Split(b, L, k)
<1> DEFINE S == {k \in Nat : k <= N => Split(b, L, k)}
<1>1. 0 \in S
  <2>1. Split(b, L, 0)
    BY DEF Counts, Split
  <2> QED BY <2>1
<1>2. ASSUME NEW k \in S
      PROVE  k + 1 \in S
  <2>1. SUFFICES ASSUME k + 1 <= N
                 PROVE  Split(b, L, k + 1)
    OBVIOUS
  <2>2. k \in Nat /\ k + 1 \in 1 .. N /\ (k + 1) - 1 = k /\ k <= N
    BY <2>1
  <2>3. Split(b, L, k)
    BY <2>2
  <2>4. L[k + 1] \in Nat /\ b[k + 1] = b[k] + L[k + 1]
    BY <2>2 DEF Counts
  <2>5. b[k] \in Nat /\ b[k + 1] \in Nat /\ b[k] <= b[k + 1]
    BY <2>3, <2>4 DEF Split
  <2>6. ASSUME NEW i \in 1 .. b[k + 1]
        PROVE  \E m \in 1 .. k + 1 : \E j \in 1 .. L[m] : i = b[m - 1] + j
    <3>1. CASE i <= b[k]
      <4>1. i \in 1 .. b[k]
        BY <2>5, <3>1
      <4>2. PICK m \in 1 .. k : \E j \in 1 .. L[m] : i = b[m - 1] + j
        BY <2>3, <4>1 DEF Split
      <4>3. m \in 1 .. k + 1
        BY <2>2
      <4> QED BY <4>2, <4>3
    <3>2. CASE ~ (i <= b[k])
      <4>1. i - b[k] \in 1 .. L[k + 1] /\ i = b[k] + (i - b[k])
        BY <2>4, <2>5, <3>2
      <4>2. k + 1 \in 1 .. k + 1
        BY <2>2
      <4>3. \E j \in 1 .. L[k + 1] : i = b[(k + 1) - 1] + j
        BY <2>2, <4>1
      <4> QED BY <4>2, <4>3
    <3> QED BY <3>1, <3>2
  <2>7. ASSUME NEW m \in 0 .. k + 1
        PROVE  b[m] \in Nat /\ b[m] <= b[k + 1]
    <3>1. CASE m = k + 1
      BY <2>5, <3>1
    <3>2. CASE m # k + 1
      <4>1. m \in 0 .. k
        BY <2>2, <3>2
      <4>2. b[m] \in Nat /\ b[m] <= b[k]
        BY <2>3, <4>1 DEF Split
      <4> QED BY <2>5, <4>2
    <3> QED BY <3>1, <3>2
  <2> QED BY <2>5, <2>6, <2>7 DEF Split
<1>3. S = Nat
  <2>1. S \in SUBSET Nat
    OBVIOUS
  <2> HIDE DEF S
  <2> QED BY <1>1, <1>2, <2>1, Induction
<1> QED BY <1>3

(* The function that FlattenSeq takes its last value from. *)
Joins(g, ss) == g = [i \in 1 .. Len(ss) |-> IF i = 1 THEN ss[i] ELSE g[i - 1] \o ss[i]]

(* It exists, for sequences of any elements, ... *)
LEMMA JoinsExists ==
  ASSUME NEW E, NEW ss \in Seq(Seq(E))
  PROVE  \E g : Joins(g, ss)
<1> DEFINE V == Seq(E)
           n == Len(ss)
           step == [q \in Nat \X V |->
                      IF q[1] + 1 \in 1 .. n THEN IF q[1] = 0 THEN ss[1] ELSE q[2] \o ss[q[1] + 1] ELSE q[2]]
<1>0. n \in Nat /\ \A i \in 1 .. n : ss[i] \in V
  OBVIOUS
<1>1. step \in [Nat \X V -> V]
  <2>1. ASSUME NEW k \in Nat, NEW s \in V
        PROVE  (IF k + 1 \in 1 .. n THEN IF k = 0 THEN ss[1] ELSE s \o ss[k + 1] ELSE s) \in V
    <3>1. CASE k + 1 \in 1 .. n
      <4>1. ss[k + 1] \in V /\ (k = 0 => ss[1] \in V)
        BY <1>0, <3>1
      <4>2. s \o ss[k + 1] \in V
        BY <4>1
      <4> HIDE DEF V
      <4> QED BY <3>1, <4>1, <4>2
    <3>2. CASE k + 1 \notin 1 .. n
      BY <3>2
    <3> QED BY <3>1, <3>2
  <2> HIDE DEF V
  <2> QED BY <2>1
<1>2. <<>> \in V
  OBVIOUS
<1>3. PICK h : Recurs(h, V, <<>>, step)
  <2> HIDE DEF V, step
  <2> QED BY <1>1, <1>2, Recursion
<1>4. \A k \in Nat : h[k] \in V /\ h[k + 1] = step[<<k, h[k]>>]
  <2> HIDE DEF V, step
  <2> QED BY <1>3 DEF Recurs
<1> DEFINE g == [k \in 1 .. n |-> h[k]]
<1>5. ASSUME NEW k \in 1 .. n
      PROVE  g[k] = IF k = 1 THEN ss[k] ELSE g[k - 1] \o ss[k]
  <2>1. k - 1 \in Nat /\ (k - 1) + 1 = k /\ (k - 1 = 0 <=> k = 1) /\ (k # 1 => k - 1 \in 1 .. n)
    BY <1>0
  <2>2. h[k] = step[<<k - 1, h[k - 1]>>] /\ h[k - 1] \in V
    <3> HIDE DEF V, step
    <3> QED BY <1>4, <2>1
  <2>3. h[k] = IF k - 1 = 0 THEN ss[1] ELSE h[k - 1] \o ss[k]
    <3> HIDE DEF V
    <3> QED BY <2>1, <2>2
  <2> HIDE DEF V, step, n
  <2> QED BY <2>1, <2>3
<1>6. Joins(g, ss)
  <2>1. DOMAIN g = 1 .. n /\ g = [k \in 1 .. n |-> g[k]]
    OBVIOUS
  <2> HIDE DEF g
  <2>2. g = [k \in 1 .. n |-> IF k = 1 THEN ss[k] ELSE g[k - 1] \o ss[k]]
    BY <1>5, <2>1, Zenon
  <2> QED BY <2>2 DEF Joins
<1> QED BY <1>6

(* Where an element of a sequence is when another precedes it. *)
LEMMA Concatenated ==
  ASSUME NEW E, NEW s \in Seq(E), NEW x \in Seq(E)
  PROVE  /\ s \o x \in Seq(E) /\ Len(s \o x) = Len(s) + Len(x)
         /\ \A i \in 1 .. Len(s) : (s \o x)[i] = s[i]
         /\ \A j \in 1 .. Len(x) : (s \o x)[Len(s) + j] = x[j]
<1> DEFINE t == s \o x
<1>1. /\ t \in Seq(E) /\ Len(t) = Len(s) + Len(x)
      /\ \A i \in 1 .. Len(s) + Len(x) : t[i] = IF i <= Len(s) THEN s[i] ELSE x[i - Len(s)]
  BY ConcatProperties
<1>2. Len(s) \in Nat /\ Len(x) \in Nat
  OBVIOUS
<1> HIDE DEF t
<1>3. ASSUME NEW i \in 1 .. Len(s)
      PROVE  t[i] = s[i]
  <2>1. i \in 1 .. Len(s) + Len(x) /\ i <= Len(s)
    BY <1>2
  <2> QED BY <1>1, <2>1, Zenon
<1>4. ASSUME NEW j \in 1 .. Len(x)
      PROVE  t[Len(s) + j] = x[j]
  <2>1. Len(s) + j \in 1 .. Len(s) + Len(x) /\ ~ (Len(s) + j <= Len(s)) /\ (Len(s) + j) - Len(s) = j
    BY <1>2
  <2> QED BY <1>1, <2>1, Zenon
<1> QED BY <1>1, <1>3, <1>4 DEF t

(* What is where, in the first k sequences. *)
JoinedTo(s, ss, E, b, k) ==
  /\ s \in Seq(E) /\ Len(s) = b[k]
  /\ \A m \in 1 .. k : \A j \in 1 .. Len(ss[m]) : s[b[m - 1] + j] = ss[m][j]

(* ... and its value k joins the first k. *)
LEMMA JoinsUpto ==
  ASSUME NEW E, NEW ss \in Seq(Seq(E)), NEW g, Joins(g, ss), NEW b,
         Counts(b, Len(ss), [k \in DOMAIN ss |-> Len(ss[k])])
  PROVE  \A k \in 1 .. Len(ss) : JoinedTo(g[k], ss, E, b, k)
<1> DEFINE n == Len(ss)
           L == [k \in DOMAIN ss |-> Len(ss[k])]
           S == {k \in Nat : k \in 1 .. n => JoinedTo(g[k], ss, E, b, k)}
<1>0. n \in Nat /\ DOMAIN ss = 1 .. n /\ \A k \in 1 .. n : ss[k] \in Seq(E) /\ L[k] = Len(ss[k]) /\ Len(ss[k]) \in Nat
  OBVIOUS
<1>1. \A k \in 1 .. n : g[k] = IF k = 1 THEN ss[k] ELSE g[k - 1] \o ss[k]
  BY DEF Joins
<1>2. \A k \in 0 .. n : Split(b, L, k)
  <2> HIDE DEF L
  <2> QED BY <1>0, CountsSplit DEF L
<1>3. \A k \in 1 .. n : b[k] = b[k - 1] + Len(ss[k])
  BY <1>0 DEF Counts
<1>b. b[0] = 0
  BY DEF Counts
<1> HIDE DEF L
<1>4. 0 \in S
  OBVIOUS
<1>5. ASSUME NEW k \in S
      PROVE  k + 1 \in S
  <2>1. SUFFICES ASSUME k + 1 \in 1 .. n
                 PROVE  JoinedTo(g[k + 1], ss, E, b, k + 1)
    OBVIOUS
  <2>2. k \in Nat /\ (k + 1) - 1 = k
    OBVIOUS
  <2>3. CASE k = 0
    <3>1. k + 1 = 1 /\ g[1] = ss[1] /\ 1 \in 1 .. n
      BY <1>1, <2>1, <2>3
    <3>2. ss[1] \in Seq(E) /\ b[1] = Len(ss[1]) /\ Len(ss[1]) \in Nat
      BY <1>0, <1>3, <1>b, <3>1
    <3>3. ASSUME NEW m \in 1 .. 1, NEW j \in 1 .. Len(ss[m])
          PROVE  ss[1][b[m - 1] + j] = ss[m][j]
      <4>1. m = 1 /\ b[m - 1] + j = j
        BY <1>b
      <4> QED BY <4>1
    <3>4. JoinedTo(ss[1], ss, E, b, 1)
      BY <3>2, <3>3 DEF JoinedTo
    <3> QED BY <3>1, <3>4
  <2>4. CASE k # 0
    <3> DEFINE s == g[k]
               x == ss[k + 1]
               t == g[k + 1]
    <3>1. k \in 1 .. n /\ k + 1 # 1 /\ k \in 0 .. n
      BY <2>1, <2>2, <2>4
    <3>2. JoinedTo(s, ss, E, b, k)
      BY <3>1
    <3>3. t = s \o x /\ x \in Seq(E) /\ b[k + 1] = b[k] + Len(x)
      BY <1>0, <1>1, <1>3, <2>1, <2>2, <3>1
    <3> HIDE DEF s, x, t
    <3>4. s \in Seq(E) /\ Len(s) = b[k] /\ \A m \in 1 .. k : \A j \in 1 .. Len(ss[m]) : s[b[m - 1] + j] = ss[m][j]
      BY <3>2 DEF JoinedTo
    <3>j. /\ s \o x \in Seq(E) /\ Len(s \o x) = Len(s) + Len(x)
          /\ \A i \in 1 .. Len(s) : (s \o x)[i] = s[i]
          /\ \A j \in 1 .. Len(x) : (s \o x)[Len(s) + j] = x[j]
      <4>1. s \in Seq(E) /\ x \in Seq(E)
        BY <3>3, <3>4
      <4> QED BY <4>1, Concatenated
    <3>5. t \in Seq(E) /\ Len(t) = b[k + 1]
      BY ONLY <3>3, <3>4, <3>j
    <3>6. /\ \A i \in 1 .. Len(s) : t[i] = s[i]
          /\ \A j \in 1 .. Len(x) : t[Len(s) + j] = x[j]
      BY ONLY <3>3, <3>j, Zenon
    <3>7. ASSUME NEW m \in 1 .. k + 1, NEW j \in 1 .. Len(ss[m])
          PROVE  t[b[m - 1] + j] = ss[m][j]
      <4>1. CASE m = k + 1
        BY <2>2, <3>4, <3>6, <4>1 DEF x
      <4>2. CASE m # k + 1
        <5>1. m \in 1 .. k /\ m - 1 \in 0 .. k /\ m \in 1 .. n /\ m \in 0 .. k
          BY <2>1, <2>2, <4>2
        <5>2. b[m - 1] \in Nat /\ b[m] \in Nat /\ b[m] <= b[k]
          BY <1>2, <3>1, <5>1 DEF Split
        <5>3. b[m] = b[m - 1] + Len(ss[m]) /\ Len(ss[m]) \in Nat
          BY <1>0, <1>3, <5>1
        <5>4. b[m - 1] + j \in 1 .. Len(s)
          <6>1. j \in Nat /\ 1 <= j /\ j <= Len(ss[m])
            BY <5>3
          <6>2. \A u, v, w, l, d \in Nat : v = u + l /\ v <= w /\ 1 <= d /\ d <= l => u + d \in 1 .. w
            OBVIOUS
          <6>3. b[k] \in Nat
            BY <1>2, <3>1 DEF Split
          <6> QED BY ONLY <3>4, <5>2, <5>3, <6>1, <6>2, <6>3
        <5> QED BY <3>4, <3>6, <5>1, <5>4
      <4> QED BY <4>1, <4>2
    <3>8. JoinedTo(t, ss, E, b, k + 1)
      BY <3>5, <3>7 DEF JoinedTo
    <3> QED BY <3>8 DEF t
  <2> QED BY <2>3, <2>4
<1>6. S = Nat
  <2>1. S \in SUBSET Nat
    OBVIOUS
  <2> HIDE DEF S
  <2> QED BY <1>4, <1>5, <2>1, Induction
<1>7. ASSUME NEW k \in 1 .. n
      PROVE  JoinedTo(g[k], ss, E, b, k)
  <2>1. k \in S
    <3>1. k \in Nat
      OBVIOUS
    <3> HIDE DEF S
    <3> QED BY <1>6, <3>1
  <2> QED BY <2>1
<1> QED BY <1>7

(* Where an element of a sequence is when all of them are joined. *)
LEMMA Flattened ==
  ASSUME NEW E, NEW ss \in Seq(Seq(E)), ss # <<>>, NEW b,
         Counts(b, Len(ss), [k \in DOMAIN ss |-> Len(ss[k])])
  PROVE  JoinedTo(FlattenSeq(ss), ss, E, b, Len(ss))
<1> DEFINE G == CHOOSE g : Joins(g, ss)
<1>1. Joins(G, ss)
  BY JoinsExists
<1>2. Len(ss) # 0 /\ Len(ss) \in 1 .. Len(ss)
  OBVIOUS
<1>3. FlattenSeq(ss) = G[Len(ss)]
  BY <1>2 DEF FlattenSeq, Joins
<1> HIDE DEF G
<1> QED BY <1>1, <1>2, <1>3, JoinsUpto

(*---------------------- one call for several chunks ----------------------*)

(* The prepared arguments of some chunks: columns as long as the chunk has rows. *)
Chunks(preps, Cols, Vals) ==
  /\ preps \in Seq([columns : [Cols -> Seq(Vals)], top : Seq(BOOLEAN)]) /\ preps # <<>>
  /\ \A k \in DOMAIN preps : \A c \in Cols : Len(preps[k].columns[c]) = Rows(preps[k])

(* The function that RowsBefore takes its value from. *)
Sums(b, preps) ==
  b = [j \in 0 .. Len(preps) |-> IF j = 0 THEN 0 ELSE b[j - 1] + Rows(preps[j])]

(* It exists ... *)
LEMMA SumsExists ==
  ASSUME NEW preps, Len(preps) \in Nat, \A k \in 1 .. Len(preps) : Rows(preps[k]) \in Nat
  PROVE  \E b : Sums(b, preps)
<1> DEFINE n == Len(preps)
           step == [q \in Nat \X Nat |-> IF q[1] + 1 \in 1 .. n THEN q[2] + Rows(preps[q[1] + 1]) ELSE q[2]]
<1>1. step \in [Nat \X Nat -> Nat]
  <2>1. ASSUME NEW q \in Nat \X Nat
        PROVE  (IF q[1] + 1 \in 1 .. n THEN q[2] + Rows(preps[q[1] + 1]) ELSE q[2]) \in Nat
    <3>1. q[1] + 1 \in 1 .. n => Rows(preps[q[1] + 1]) \in Nat
      OBVIOUS
    <3> QED BY <3>1
  <2> QED BY <2>1
<1>2. PICK h : Recurs(h, Nat, 0, step)
  <2> HIDE DEF step
  <2> QED BY <1>1, Recursion
<1>3. h[0] = 0 /\ \A k \in Nat : h[k] \in Nat /\ h[k + 1] = step[<<k, h[k]>>]
  <2> HIDE DEF step
  <2> QED BY <1>2 DEF Recurs
<1> DEFINE g == [k \in 0 .. n |-> h[k]]
<1>4. ASSUME NEW k \in 0 .. n
      PROVE  g[k] = IF k = 0 THEN 0 ELSE g[k - 1] + Rows(preps[k])
  <2>1. CASE k = 0
    BY <1>3, <2>1
  <2>2. CASE k # 0
    <3>1. k - 1 \in Nat /\ (k - 1) + 1 = k /\ k - 1 \in 0 .. n /\ k \in 1 .. n
      BY <2>2
    <3>2. h[k] = step[<<k - 1, h[k - 1]>>] /\ h[k - 1] \in Nat
      <4> HIDE DEF step
      <4> QED BY <1>3, <3>1
    <3>3. h[k] = h[k - 1] + Rows(preps[k])
      BY <3>1, <3>2
    <3> QED BY <2>2, <3>1, <3>3
  <2> QED BY <2>1, <2>2
<1>5. Sums(g, preps)
  <2>1. DOMAIN g = 0 .. n /\ g = [k \in 0 .. n |-> g[k]]
    OBVIOUS
  <2> HIDE DEF g
  <2>2. g = [k \in 0 .. n |-> IF k = 0 THEN 0 ELSE g[k - 1] + Rows(preps[k])]
    BY <1>4, <2>1, Zenon
  <2> QED BY <2>2 DEF Sums
<1> QED BY <1>5

(* ... and counts the rows before each chunk. *)
LEMMA RowsBeforeIs ==
  ASSUME NEW preps, Len(preps) \in Nat, \A k \in 1 .. Len(preps) : Rows(preps[k]) \in Nat
  PROVE  \E b : /\ Counts(b, Len(preps), [k \in 1 .. Len(preps) |-> Rows(preps[k])])
                /\ \A k \in 1 .. Len(preps) : RowsBefore(preps, k) = b[k - 1]
<1> DEFINE b == CHOOSE b : Sums(b, preps)
           n == Len(preps)
           L == [k \in 1 .. n |-> Rows(preps[k])]
<1>1. Sums(b, preps)
  BY SumsExists
<1>2. \A k \in 1 .. n : RowsBefore(preps, k) = b[k - 1]
  BY DEF RowsBefore, Sums
<1> HIDE DEF b
<1>3. \A k \in 0 .. n : b[k] = IF k = 0 THEN 0 ELSE b[k - 1] + Rows(preps[k])
  BY <1>1 DEF Sums
<1>4. \A k \in 1 .. n : k \in 0 .. n /\ k # 0
  OBVIOUS
<1>5. Counts(b, n, L)
  <2>1. \A k \in 1 .. n : L[k] = Rows(preps[k])
    OBVIOUS
  <2>2. 0 \in 0 .. n
    OBVIOUS
  <2> HIDE DEF L
  <2> QED BY <1>3, <1>4, <2>1, <2>2 DEF Counts
<1> QED BY <1>2, <1>5

(* The rows of prep are those of all after row lo. *)
PartAt(all, prep, lo) ==
  \A j \in 1 .. Rows(prep) :
    all.top[lo + j] = prep.top[j] /\ Arguments(all, lo + j) = Arguments(prep, j)

Placed(all, preps, b) == \A m \in 1 .. Len(preps) : PartAt(all, preps[m], b[m - 1])

(* The batch has the rows of the chunks, one chunk after the other. *)
LEMMA BatchIs ==
  ASSUME NEW Cols, NEW Vals, NEW preps, Chunks(preps, Cols, Vals), NEW b,
         Counts(b, Len(preps), [k \in 1 .. Len(preps) |-> Rows(preps[k])])
  PROVE  /\ Rows(BatchPrepared(preps)) = b[Len(preps)]
         /\ Placed(BatchPrepared(preps), preps, b)
<1> DEFINE N == Len(preps)
           B == BatchPrepared(preps)
           tops == [k \in DOMAIN preps |-> preps[k].top]
           column(c) == [k \in DOMAIN preps |-> preps[k].columns[c]]
           L == [k \in 1 .. N |-> Rows(preps[k])]
<1>1. /\ N \in Nat /\ N # 0 /\ DOMAIN preps = 1 .. N /\ 1 \in 1 .. N
      /\ \A k \in 1 .. N : /\ preps[k].top \in Seq(BOOLEAN)
                           /\ Rows(preps[k]) = Len(preps[k].top)
                           /\ DOMAIN preps[k].columns = Cols
                           /\ \A c \in Cols : /\ preps[k].columns[c] \in Seq(Vals)
                                              /\ Len(preps[k].columns[c]) = Rows(preps[k])
  <2> DEFINE P == [columns : [Cols -> Seq(Vals)], top : Seq(BOOLEAN)]
  <2>1. /\ preps \in Seq(P) /\ preps # <<>>
        /\ \A k \in DOMAIN preps : \A c \in Cols : Len(preps[k].columns[c]) = Rows(preps[k])
    BY DEF Chunks
  <2>2. ASSUME NEW x \in P
        PROVE  x.top \in Seq(BOOLEAN) /\ DOMAIN x.columns = Cols /\ \A c \in Cols : x.columns[c] \in Seq(Vals)
    OBVIOUS
  <2> HIDE DEF P
  <2>3. N \in Nat /\ N # 0 /\ DOMAIN preps = 1 .. N /\ 1 \in 1 .. N /\ \A k \in 1 .. N : preps[k] \in P
    BY <2>1
  <2> QED BY <2>1, <2>2, <2>3, Zenon DEF Rows
<1>2. B.top = FlattenSeq(tops) /\ DOMAIN B.columns = Cols /\ \A c \in Cols : B.columns[c] = FlattenSeq(column(c))
  BY <1>1 DEF BatchPrepared
<1> HIDE DEF B
<1>3. JoinedTo(FlattenSeq(tops), tops, BOOLEAN, b, N) /\ Len(tops) = N /\ \A k \in 1 .. N : tops[k] = preps[k].top
  <2>1. /\ tops \in Seq(Seq(BOOLEAN)) /\ Len(tops) = N /\ DOMAIN tops = 1 .. N
        /\ \A k \in 1 .. N : tops[k] = preps[k].top
    BY <1>1
  <2> HIDE DEF tops
  <2>2. tops # <<>>
    BY <1>1, <2>1
  <2>3. [k \in DOMAIN tops |-> Len(tops[k])] = L
    BY <1>1, <2>1
  <2> HIDE DEF L, N
  <2>4. Counts(b, Len(tops), [k \in DOMAIN tops |-> Len(tops[k])])
    BY <2>1, <2>3 DEF L, N
  <2>5. JoinedTo(FlattenSeq(tops), tops, BOOLEAN, b, Len(tops))
    BY <2>1, <2>2, <2>4, Flattened
  <2> QED BY <2>1, <2>5
<1>4. ASSUME NEW c \in Cols
      PROVE  /\ JoinedTo(FlattenSeq(column(c)), column(c), Vals, b, N)
             /\ \A k \in 1 .. N : column(c)[k] = preps[k].columns[c]
  <2> DEFINE ss == column(c)
  <2>1. /\ ss \in Seq(Seq(Vals)) /\ Len(ss) = N /\ DOMAIN ss = 1 .. N
        /\ \A k \in 1 .. N : ss[k] = preps[k].columns[c]
    BY <1>1
  <2> HIDE DEF ss
  <2>2. ss # <<>>
    BY <1>1, <2>1
  <2>3. [k \in DOMAIN ss |-> Len(ss[k])] = L
    BY <1>1, <2>1
  <2> HIDE DEF L, N
  <2>4. Counts(b, Len(ss), [k \in DOMAIN ss |-> Len(ss[k])])
    BY <2>1, <2>3 DEF L, N
  <2>5. JoinedTo(FlattenSeq(ss), ss, Vals, b, Len(ss))
    BY <2>1, <2>2, <2>4, Flattened
  <2> QED BY <2>1, <2>5 DEF ss
<1> HIDE DEF tops, column, L
<1>5. Rows(B) = b[N]
  BY <1>2, <1>3 DEF JoinedTo, Rows
<1>6. ASSUME NEW m \in 1 .. N, NEW j \in 1 .. Rows(preps[m])
      PROVE  /\ B.top[b[m - 1] + j] = preps[m].top[j]
             /\ Arguments(B, b[m - 1] + j) = Arguments(preps[m], j)
  <2>1. B.top[b[m - 1] + j] = preps[m].top[j]
    <3>1. j \in 1 .. Len(tops[m]) /\ tops[m] = preps[m].top
      BY <1>1, <1>3
    <3>2. FlattenSeq(tops)[b[m - 1] + j] = tops[m][j]
      BY <1>3, <3>1, Zenon DEF JoinedTo
    <3> QED BY <1>2, <3>1, <3>2, Zenon
  <2>2. ASSUME NEW c \in Cols
        PROVE  B.columns[c][b[m - 1] + j] = preps[m].columns[c][j]
    <3>1. JoinedTo(FlattenSeq(column(c)), column(c), Vals, b, N) /\ column(c)[m] = preps[m].columns[c]
      BY <1>4, Zenon
    <3>2. Len(preps[m].columns[c]) = Rows(preps[m])
      BY <1>1, Zenon
    <3>3. FlattenSeq(column(c))[b[m - 1] + j] = column(c)[m][j]
      BY <3>1, <3>2, Zenon DEF JoinedTo
    <3>4. B.columns[c] = FlattenSeq(column(c))
      BY <1>2, Zenon
    <3> QED BY <3>1, <3>3, <3>4, Zenon
  <2>3. Arguments(B, b[m - 1] + j) = [c \in Cols |-> B.columns[c][b[m - 1] + j]]
    BY <1>2 DEF Arguments
  <2>4. Arguments(preps[m], j) = [c \in Cols |-> preps[m].columns[c][j]]
    BY <1>1 DEF Arguments
  <2> QED BY <2>1, <2>2, <2>3, <2>4
<1>7. Placed(B, preps, b)
  BY <1>6 DEF Placed, PartAt
<1> QED BY <1>5, <1>7 DEF B

(* What becomes of a row of a chunk is what becomes of its row of the batch. *)
SameRows(p, f, all, prep, lo) ==
  \A j \in 1 .. Rows(prep) :
    /\ Refused(p, f, all, lo + j) <=> Refused(p, f, prep, j)
    /\ RowOf(p, f, all, lo + j) = RowOf(p, f, prep, j)

(* Where a chunk is part of a batch, that is so. *)
LEMMA PartHasSameRows ==
  ASSUME NEW p, NEW f, NEW all, NEW prep, NEW lo, PartAt(all, prep, lo)
  PROVE  SameRows(p, f, all, prep, lo)
<1>1. ASSUME NEW j \in 1 .. Rows(prep)
      PROVE  /\ Refused(p, f, all, lo + j) <=> Refused(p, f, prep, j)
             /\ RowOf(p, f, all, lo + j) = RowOf(p, f, prep, j)
  <2>1. all.top[lo + j] = prep.top[j] /\ Arguments(all, lo + j) = Arguments(prep, j)
    BY DEF PartAt
  <2>2. Skipped(p, all, lo + j) <=> Skipped(p, prep, j)
    BY <2>1, Zenon DEF Skipped
  <2>3. Outcome(f, all, lo + j) = Outcome(f, prep, j)
    BY <2>1, Zenon DEF Outcome
  <2> QED BY <2>2, <2>3, Zenon DEF Refused, RowOf
<1> QED BY <1>1, Zenon DEF SameRows

(* The rows of a chunk's result are those of its part of the batch's. *)
SameResult(p, f, all, prep, lo, total) ==
  SubSeq(FirstRows(p, f, all, total), lo + 1, lo + Rows(prep)) = FirstRows(p, f, prep, Rows(prep))

(* Where a chunk is part of a batch, that is so. *)
LEMMA PartOfRows ==
  ASSUME NEW p, NEW f, NEW all, NEW prep, NEW lo \in Nat, PartAt(all, prep, lo),
         Rows(prep) \in Nat, NEW total \in Nat, lo + Rows(prep) <= total
  PROVE  SameResult(p, f, all, prep, lo, total)
<1> DEFINE O == {RowOf(p, f, all, i) : i \in Nat}
           s == FirstRows(p, f, all, total)
           n == Rows(prep)
<1>1. s \in Seq(O) /\ Len(s) = total /\ \A i \in 1 .. total : s[i] = RowOf(p, f, all, i)
  <2>1. \A i \in 1 .. total : RowOf(p, f, all, i) \in O
    OBVIOUS
  <2> HIDE DEF O
  <2> QED BY <2>1 DEF FirstRows
<1> HIDE DEF s, O
<1>2. ASSUME NEW i \in 1 .. n
      PROVE  RowOf(p, f, all, lo + i) = RowOf(p, f, prep, i)
  BY PartHasSameRows DEF SameRows
<1>a. n \in Nat /\ lo + n <= total
  OBVIOUS
<1> HIDE DEF n
<1>b. PICK from \in Int, to \in Int : from = lo + 1 /\ to = lo + n
  BY <1>a
<1> DEFINE t == SubSeq(s, from, to)
<1>3. t \in Seq(O) /\ Len(t) = n /\ \A i \in 1 .. n : t[i] = s[lo + i]
  <2>1. \A i \in from .. to : s[i] \in O
    BY <1>1, <1>a, <1>b
  <2>2. /\ t \in Seq(O) /\ Len(t) = IF from <= to THEN to - from + 1 ELSE 0
        /\ \A i \in 1 .. to - from + 1 : t[i] = s[from + i - 1]
    BY <2>1, SubSeqProperties
  <2>3. to - from + 1 = n /\ (IF from <= to THEN to - from + 1 ELSE 0) = n
        /\ \A i \in 1 .. n : from + i - 1 = lo + i
    BY <1>a, <1>b
  <2> HIDE DEF t
  <2> QED BY <2>2, <2>3
<1> HIDE DEF t
<1>4. ASSUME NEW i \in 1 .. n
      PROVE  t[i] = RowOf(p, f, prep, i)
  <2>1. lo + i \in 1 .. total
    BY <1>a
  <2> QED BY <1>1, <1>2, <1>3, <2>1
<1>5. t = [i \in 1 .. n |-> RowOf(p, f, prep, i)]
  <2>1. t = [i \in 1 .. Len(t) |-> t[i]]
    BY <1>3
  <2> QED BY <1>3, <1>4, <2>1
<1> QED BY <1>5, <1>b DEF FirstRows, SameResult, t, s, n

(* So it is for one call for several chunks (rducks_rc_vectorized_batch_execute_impl):
   each chunk gets the results that a call for it alone gives, and all are refused
   if any of them would be. *)
THEOREM BatchesAgree ==
  ASSUME NEW p \in Policies, p.error = "rethrow", NEW f, f[1] # "short",
         NEW Cols, NEW Vals, NEW preps, Chunks(preps, Cols, Vals)
  PROVE  LET parts == BatchCall(p, f, preps) IN
         IF \A k \in DOMAIN preps : OneCall(p, f, preps[k]).ok
         THEN \A k \in DOMAIN preps : parts[k].ok /\ parts[k].out = OneCall(p, f, preps[k]).out
         ELSE \A k \in DOMAIN preps : ~parts[k].ok
<1> DEFINE N == Len(preps)
           B == BatchPrepared(preps)
           L == [k \in 1 .. N |-> Rows(preps[k])]
           res == OneCall(p, f, B)
           parts == BatchCall(p, f, preps)
<1>1. /\ N \in Nat /\ DOMAIN preps = 1 .. N
      /\ \A k \in 1 .. N : Rows(preps[k]) \in Nat /\ L[k] = Rows(preps[k])
  BY DEF Chunks, Rows
<1>2. PICK b : Counts(b, N, L) /\ \A k \in 1 .. N : RowsBefore(preps, k) = b[k - 1]
  <2> HIDE DEF L
  <2> QED BY <1>1, RowsBeforeIs DEF L
<1>3. Rows(B) = b[N] /\ Placed(B, preps, b)
  BY <1>2, BatchIs
<1>p. \A k \in 1 .. N : PartAt(B, preps[k], b[k - 1])
  BY <1>3 DEF Placed
<1>s. \A k \in 1 .. N : SameRows(p, f, B, preps[k], b[k - 1])
  BY <1>p, PartHasSameRows, Zenon
<1>4. \A k \in 0 .. N : Split(b, L, k)
  <2> HIDE DEF L
  <2> QED BY <1>1, <1>2, CountsSplit
<1>5. b[N] \in Nat /\ \A k \in 0 .. N : b[k] \in Nat /\ b[k] <= b[N]
  <2>1. N \in 0 .. N
    BY <1>1
  <2> QED BY <1>4, <2>1 DEF Split
<1>6. \A k \in 1 .. N : b[k] = b[k - 1] + Rows(preps[k])
  BY <1>1, <1>2 DEF Counts
<1> HIDE DEF N, B, L
<1>7. (\E i \in 1 .. Rows(B) : Refused(p, f, B, i)) <=>
        \E k \in 1 .. N : \E j \in 1 .. Rows(preps[k]) : Refused(p, f, preps[k], j)
  <2>1. ASSUME NEW i \in 1 .. Rows(B), Refused(p, f, B, i)
        PROVE  \E k \in 1 .. N : \E j \in 1 .. Rows(preps[k]) : Refused(p, f, preps[k], j)
    <3>1. N \in 0 .. N
      BY <1>1
    <3>2. PICK k \in 1 .. N : \E j \in 1 .. L[k] : i = b[k - 1] + j
      BY <1>3, <1>4, <3>1 DEF Split
    <3>3. PICK j \in 1 .. Rows(preps[k]) : i = b[k - 1] + j
      BY <1>1, <3>2
    <3>4. Refused(p, f, preps[k], j)
      BY <1>s, <2>1, <3>3 DEF SameRows
    <3> QED BY <3>4
  <2>2. ASSUME NEW k \in 1 .. N, NEW j \in 1 .. Rows(preps[k]), Refused(p, f, preps[k], j)
        PROVE  \E i \in 1 .. Rows(B) : Refused(p, f, B, i)
    <3>1. Refused(p, f, B, b[k - 1] + j)
      BY <1>s, <2>2 DEF SameRows
    <3>2. k - 1 \in 0 .. N /\ k \in 0 .. N
      BY <1>1
    <3>3. b[k - 1] \in Nat /\ b[k] <= b[N] /\ b[k] = b[k - 1] + Rows(preps[k])
      BY <1>5, <1>6, <3>2
    <3>4. Rows(preps[k]) \in Nat /\ b[N] \in Nat
      BY <1>1, <1>5
    <3>5. b[k - 1] + j \in 1 .. Rows(B)
      <4>1. \A u, v, w, l, d \in Nat : v = u + l /\ v <= w /\ 1 <= d /\ d <= l => u + d \in 1 .. w
        OBVIOUS
      <4>2. j \in Nat /\ 1 <= j /\ j <= Rows(preps[k]) /\ b[k] \in Nat
        BY <1>5, <3>2, <3>4
      <4>3. b[k - 1] + j \in 1 .. b[N]
        BY ONLY <3>3, <3>4, <4>1, <4>2
      <4> QED BY <1>3, <4>3
    <3> QED BY <3>1, <3>5
  <2> QED BY <2>1, <2>2
<1>8. \A x : Denied(x).ok = FALSE /\ \A o : Result(o, x).ok = TRUE /\ Result(o, x).out = o
  BY DEF Denied, Result, Evaluation
<1>9. ASSUME NEW k \in 1 .. N
      PROVE  /\ OneCall(p, f, preps[k]).ok <=> ~ \E j \in 1 .. Rows(preps[k]) : Refused(p, f, preps[k], j)
             /\ OneCall(p, f, preps[k]).ok =>
                  OneCall(p, f, preps[k]).out = FirstRows(p, f, preps[k], Rows(preps[k]))
  <2>1. Rows(preps[k]) \in Nat
    BY <1>1
  <2>2. IF \E j \in 1 .. Rows(preps[k]) : Refused(p, f, preps[k], j) THEN \E s : OneCall(p, f, preps[k]) = Denied(s)
        ELSE OneCall(p, f, preps[k]) = Result(FirstRows(p, f, preps[k], Rows(preps[k])),
                                              SeenAt(preps[k], EvalRows(p, preps[k])))
    BY <2>1, AtOnce
  <2> QED BY <1>8, <2>2, Zenon
<1>10. IF \E i \in 1 .. Rows(B) : Refused(p, f, B, i) THEN \E s : res = Denied(s)
       ELSE res = Result(FirstRows(p, f, B, Rows(B)), SeenAt(B, EvalRows(p, B)))
  <2>1. Rows(B) \in Nat
    BY <1>3, <1>5
  <2> QED BY <2>1, AtOnce
<1>11. \A k \in 1 .. N :
         parts[k] = IF res.ok THEN [res EXCEPT !.out = SubSeq(@, b[k - 1] + 1, b[k - 1] + Rows(preps[k]))] ELSE res
  BY <1>1, <1>2 DEF BatchCall, B
<1> HIDE DEF res, parts
<1>12. CASE \A k \in DOMAIN preps : OneCall(p, f, preps[k]).ok
  <2>1. ~ \E i \in 1 .. Rows(B) : Refused(p, f, B, i)
    BY <1>1, <1>7, <1>9, <1>12, Zenon
  <2> DEFINE o == FirstRows(p, f, B, Rows(B))
             s == SeenAt(B, EvalRows(p, B))
  <2>2. res = Result(o, s) /\ res.ok
    BY <1>8, <1>10, <2>1, Zenon
  <2> HIDE DEF o, s
  <2>3. ASSUME NEW k \in DOMAIN preps
        PROVE  parts[k].ok /\ parts[k].out = OneCall(p, f, preps[k]).out
    <3> DEFINE x == SubSeq(o, b[k - 1] + 1, b[k - 1] + Rows(preps[k]))
    <3>1. k \in 1 .. N
      BY <1>1
    <3>2. parts[k] = [res EXCEPT !.out = SubSeq(@, b[k - 1] + 1, b[k - 1] + Rows(preps[k]))]
      BY <1>11, <2>2, <3>1, Zenon
    <3>3. parts[k] = Result(x, s)
      BY <2>2, <3>2 DEF Result, Evaluation
    <3>4. x = FirstRows(p, f, preps[k], Rows(preps[k]))
      <4>1. k - 1 \in 0 .. N /\ k \in 0 .. N
        BY <1>1, <3>1
      <4>2. b[k - 1] \in Nat /\ b[k] <= b[N] /\ b[k] = b[k - 1] + Rows(preps[k])
        BY <1>5, <1>6, <3>1, <4>1
      <4>3. Rows(preps[k]) \in Nat /\ Rows(B) \in Nat /\ b[k - 1] + Rows(preps[k]) <= Rows(B)
        BY <1>1, <1>3, <1>5, <3>1, <4>2
      <4>4. PICK lo \in Nat : lo = b[k - 1]
        BY <4>2
      <4>5. PartAt(B, preps[k], lo) /\ lo + Rows(preps[k]) <= Rows(B)
        BY <1>p, <3>1, <4>3, <4>4
      <4>6. SameResult(p, f, B, preps[k], lo, Rows(B))
        BY <4>3, <4>5, PartOfRows
      <4> QED BY <4>4, <4>6 DEF o, SameResult
    <3>5. OneCall(p, f, preps[k]).out = x
      BY <1>9, <1>12, <3>1, <3>4
    <3> HIDE DEF x
    <3>6. Result(x, s).ok = TRUE /\ Result(x, s).out = x
      BY <1>8
    <3> QED BY <3>3, <3>5, <3>6, Zenon
  <2> QED BY <1>12, <2>3, Zenon DEF parts
<1>13. CASE ~ \A k \in DOMAIN preps : OneCall(p, f, preps[k]).ok
  <2>1. \E i \in 1 .. Rows(B) : Refused(p, f, B, i)
    BY <1>1, <1>7, <1>9, <1>13, Zenon
  <2>2. ~res.ok
    BY <1>8, <1>10, <2>1, Zenon
  <2>3. \A k \in DOMAIN preps : ~parts[k].ok
    BY <1>1, <1>11, <2>2, Zenon
  <2> QED BY <1>13, <2>3, Zenon DEF parts
<1> QED BY <1>12, <1>13

(*------------------------- one layer of a column -------------------------*)

(* A part of a child, as its rows are read. *)
Slots(E, at, len) == [j \in 1 .. len |-> E[at + j - 1]]

Leaves == {"int", "text", "tag"}
Kinds == {"list", "map", "array", "struct", "union"} \cup Leaves

(* A row of each kind as it is read: one that is NULL, *)
LEMMA ReadNull ==
  ASSUME NEW t, NEW v, NEW row, NEW E, row \in v.null
  PROVE  ReadRow(t, v, row, E) = Null
BY Zenon DEF ReadRow

(* a list, whose entry says where its elements are, *)
LEMMA ReadList ==
  ASSUME NEW t, NEW v, NEW row, NEW E, row \notin v.null, t.k = "list"
  PROVE  ReadRow(t, v, row, E) = <<"seq", Slots(E[1], v.data[row][1], v.data[row][2])>>
BY DEF ReadRow, Slots

(* a map, whose entry says where its keys and values are, *)
LEMMA ReadMap ==
  ASSUME NEW t, NEW v, NEW row, NEW E, row \notin v.null, t.k = "map"
  PROVE  ReadRow(t, v, row, E) = <<"map", Slots(E[1], v.data[row][1], v.data[row][2]),
                                         Slots(E[2], v.data[row][1], v.data[row][2])>>
BY DEF ReadRow, Slots

(* an array, whose row says it, *)
LEMMA ReadArray ==
  ASSUME NEW t, NEW v, NEW row, NEW E, row \notin v.null, t.k = "array"
  PROVE  ReadRow(t, v, row, E) = <<"seq", Slots(E[1], row * t.n, t.n)>>
BY DEF ReadRow, Slots

(* a struct, *)
LEMMA ReadStruct ==
  ASSUME NEW t, NEW v, NEW row, NEW E, row \notin v.null, t.k = "struct"
  PROVE  ReadRow(t, v, row, E) = <<"struct", [i \in DOMAIN t.of |-> E[i][row]]>>
BY DEF ReadRow

(* a union with a tag, *)
LEMMA ReadUnion ==
  ASSUME NEW t, NEW v, NEW row, NEW E, row \notin v.null, t.k = "union",
         row \notin v.child[1].null, NEW i, i = v.child[1].data[row] + 1, i \in DOMAIN t.of
  PROVE  ReadRow(t, v, row, E) = <<"union", i, E[i + 1][row]>>
BY DEF ReadRow

(* and a scalar, which may be one that R takes for NA. *)
LEMMA ReadLeaf ==
  ASSUME NEW t, NEW v, NEW row, NEW E, row \notin v.null, t.k \in Leaves
  PROVE  ReadRow(t, v, row, E) = IF t.k = "int" /\ v.data[row] = Least THEN Null ELSE <<"leaf", v.data[row]>>
BY DEF ReadRow, Leaves

(* What a type is made of. *)
TypeOver(t, TypeSet) ==
  /\ t.k \in Kinds
  /\ t.k \notin Leaves => t.of \in Seq(TypeSet)
  /\ t.k \in {"list", "array"} => Len(t.of) = 1
  /\ t.k = "map" => Len(t.of) = 2
  /\ t.k = "array" => t.n \in Nat

(* What DuckDB's vectors have in the rows that are not NULL. *)
Sound(t, v, n) ==
  /\ t.k \in {"list", "map"} => \A r \in Valid(v, n) : v.data[r][1] \in Nat /\ v.data[r][2] \in Nat
  /\ t.k = "union" => \A r \in Valid(v, n) : r \notin v.child[1].null /\ v.child[1].data[r] + 1 \in DOMAIN t.of
  /\ t.k \in Leaves => \A r \in Valid(v, n) : r \in DOMAIN v.data

(* A part of the values of a child. *)
LEMMA SlotsAre ==
  ASSUME NEW e, NEW m \in Nat, NEW at \in Nat, NEW len \in Nat, at + len <= m
  PROVE  SubSeq([j \in 1 .. m |-> e[j - 1]], at + 1, at + len) = Slots(e, at, len)
<1> DEFINE O == {e[r] : r \in Nat}
           s == [j \in 1 .. m |-> e[j - 1]]
<1>1. s \in Seq(O) /\ Len(s) = m /\ \A j \in 1 .. m : s[j] = e[j - 1] /\ s[j] \in O
  <2>1. \A j \in 1 .. m : e[j - 1] \in O
    <3>1. \A j \in 1 .. m : j - 1 \in Nat
      OBVIOUS
    <3> QED BY <3>1
  <2> HIDE DEF O
  <2> QED BY <2>1
<1> HIDE DEF s, O
<1>2. PICK from \in Int, to \in Int : from = at + 1 /\ to = at + len
  OBVIOUS
<1> DEFINE t == SubSeq(s, from, to)
<1>3. t \in Seq(O) /\ Len(t) = len /\ \A i \in 1 .. len : t[i] = s[at + i]
  <2>1. \A i \in from .. to : s[i] \in O
    BY <1>1, <1>2
  <2>2. /\ t \in Seq(O) /\ Len(t) = IF from <= to THEN to - from + 1 ELSE 0
        /\ \A i \in 1 .. to - from + 1 : t[i] = s[from + i - 1]
    BY <2>1, SubSeqProperties
  <2>3. to - from + 1 = len /\ (IF from <= to THEN to - from + 1 ELSE 0) = len
        /\ \A i \in 1 .. len : from + i - 1 = at + i
    BY <1>2
  <2> HIDE DEF t
  <2> QED BY <2>2, <2>3
<1> HIDE DEF t
<1>4. ASSUME NEW i \in 1 .. len
      PROVE  t[i] = e[at + i - 1]
  <2>1. at + i \in 1 .. m
    OBVIOUS
  <2> QED BY <1>1, <1>3, <2>1
<1>5. t = [j \in 1 .. len |-> e[at + j - 1]]
  <2>1. t = [j \in 1 .. Len(t) |-> t[j]]
    BY <1>3
  <2> QED BY <1>3, <1>4, <2>1
<1> QED BY <1>2, <1>5 DEF Slots, t, s

(* The values of a function at finitely many places have a maximum. *)
HasMax(A) == A \in SUBSET Nat /\ \E x \in A : \A y \in A : x >= y

(* The maximum of a set that has one is its largest member. *)
LEMMA MaxIs ==
  ASSUME NEW A, HasMax(A)
  PROVE  Max(A) \in Nat /\ \A y \in A : y <= Max(A)
<1>1. PICK x \in A : \A y \in A : x >= y
  BY DEF HasMax
<1>2. Max(A) \in A /\ \A y \in A : Max(A) >= y
  BY <1>1 DEF Max
<1> QED BY <1>2 DEF HasMax

(* One more number leaves a set with a maximum. *)
LEMMA MaxWith ==
  ASSUME NEW A, HasMax(A), NEW z \in Nat
  PROVE  HasMax(A \cup {z})
<1>1. PICK x \in A : \A y \in A : x >= y
  BY DEF HasMax
<1>2. x \in Nat /\ A \in SUBSET Nat
  BY DEF HasMax
<1>3. CASE z >= x
  <2>1. \A y \in A \cup {z} : z >= y
    BY <1>1, <1>2, <1>3
  <2> QED BY <1>2, <2>1 DEF HasMax
<1>4. CASE ~ (z >= x)
  <2>1. \A y \in A \cup {z} : x >= y
    BY <1>1, <1>2, <1>4
  <2> QED BY <1>2, <2>1 DEF HasMax
<1> QED BY <1>3, <1>4

Heights(e, P) == {0} \cup {e[r] : r \in P}

(* The values at finitely many places have a maximum. *)
LEMMA Highest ==
  ASSUME NEW n \in Nat, NEW P \in SUBSET (0 .. n - 1), NEW e, \A r \in P : e[r] \in Nat
  PROVE  HasMax(Heights(e, P))
<1> DEFINE Q(k) == {q \in P : q < k}
           A(k) == {0} \cup {e[r] : r \in Q(k)}
           S == {k \in Nat : HasMax(A(k))}
<1>0. P \in SUBSET Nat /\ \A q \in P : q < n /\ ~ (q < 0)
  OBVIOUS
<1>1. 0 \in S
  <2>1. Q(0) = {}
    BY <1>0
  <2>2. A(0) = {0}
    BY <2>1
  <2>3. HasMax({0})
    BY DEF HasMax
  <2> HIDE DEF A
  <2> QED BY <2>2, <2>3
<1>2. ASSUME NEW k \in S
      PROVE  k + 1 \in S
  <2>1. k \in Nat /\ HasMax(A(k))
    OBVIOUS
  <2>2. Q(k + 1) = IF k \in P THEN Q(k) \cup {k} ELSE Q(k)
    <3>1. \A q \in P : q < k + 1 <=> (q < k \/ q = k)
      BY <1>0, <2>1
    <3> QED BY <3>1
  <2> HIDE DEF Q
  <2>3. k \in P => A(k + 1) = A(k) \cup {e[k]}
    BY <2>2
  <2>4. k \notin P => A(k + 1) = A(k)
    BY <2>2
  <2> HIDE DEF A
  <2>5. HasMax(A(k + 1))
    BY <2>1, <2>3, <2>4, MaxWith
  <2> QED BY <2>1, <2>5
<1>3. S = Nat
  <2>1. S \in SUBSET Nat
    OBVIOUS
  <2> HIDE DEF S
  <2> QED BY <1>1, <1>2, <2>1, Induction
<1>4. HasMax(A(n))
  <2> HIDE DEF A
  <2> QED BY <1>3
<1>5. Q(n) = P
  BY <1>0
<1> HIDE DEF Q
<1>6. A(n) = {0} \cup {e[r] : r \in P}
  BY <1>5
<1> QED BY <1>4, <1>6 DEF Heights

(* The rows of a child include those of every entry (ripc: the child count). *)
LEMMA ExtentIs ==
  ASSUME NEW v, NEW n \in Nat, \A r \in Valid(v, n) : v.data[r][1] \in Nat /\ v.data[r][2] \in Nat
  PROVE  /\ Extent(v, n) \in Nat
         /\ \A r \in Valid(v, n) : v.data[r][1] + v.data[r][2] <= Extent(v, n)
<1> DEFINE P == Valid(v, n)
           e == [r \in P |-> v.data[r][1] + v.data[r][2]]
<1>1. P \in SUBSET (0 .. n - 1)
  BY DEF Valid, Below
<1>2. \A r \in P : e[r] \in Nat /\ e[r] = v.data[r][1] + v.data[r][2]
  OBVIOUS
<1>3. {e[r] : r \in P} = {v.data[r][1] + v.data[r][2] : r \in P}
  OBVIOUS
<1> HIDE DEF P, e
<1>4. HasMax(Heights(e, P))
  BY <1>1, <1>2, Highest
<1>5. HasMax({0} \cup {v.data[r][1] + v.data[r][2] : r \in P})
  BY <1>3, <1>4 DEF Heights
<1>6. Extent(v, n) = Max({0} \cup {v.data[r][1] + v.data[r][2] : r \in P})
  BY DEF Extent, P
<1>7. \A r \in P : v.data[r][1] + v.data[r][2] \in {0} \cup {v.data[q][1] + v.data[q][2] : q \in P}
  OBVIOUS
<1> QED BY <1>5, <1>6, <1>7, MaxIs DEF P

(* The rows 0 .. n - 1 of those that e has, as values of R's. *)
RowsFrom(e, n) == [j \in 1 .. n |-> e[j - 1]]

(* What the decoder makes of a row that is not NULL, by kind. *)
DecodedRow(t, w, parts, row) == Decoded(t, w, parts)[row + 1]

Part(xs, at, len) == SubSeq(xs, at + 1, at + len)

(* A row of each kind as the worker decodes it: a list, *)
LEMMA DecodeList ==
  ASSUME NEW t, NEW w, NEW parts, NEW row, row + 1 \in 1 .. w.rows, (row + 1) - 1 = row, row \notin w.null,
         t.k = "list"
  PROVE  DecodedRow(t, w, parts, row) = <<"seq", Part(parts[1], w.data[row][1], w.data[row][2])>>
BY DEF DecodedRow, Decoded, Part

(* a map, *)
LEMMA DecodeMap ==
  ASSUME NEW t, NEW w, NEW parts, NEW row, row + 1 \in 1 .. w.rows, (row + 1) - 1 = row, row \notin w.null,
         t.k = "map"
  PROVE  DecodedRow(t, w, parts, row) = <<"map", Part(parts[1], w.data[row][1], w.data[row][2]),
                                                 Part(parts[2], w.data[row][1], w.data[row][2])>>
BY DEF DecodedRow, Decoded, Part

(* an array, *)
LEMMA DecodeArray ==
  ASSUME NEW t, NEW w, NEW parts, NEW row, row + 1 \in 1 .. w.rows, (row + 1) - 1 = row, row \notin w.null, t.k = "array"
  PROVE  DecodedRow(t, w, parts, row) = <<"seq", SubSeq(parts[1], row * t.n + 1, (row + 1) * t.n)>>
BY DEF DecodedRow, Decoded

(* a struct, *)
LEMMA DecodeStruct ==
  ASSUME NEW t, NEW w, NEW parts, NEW row, row + 1 \in 1 .. w.rows, (row + 1) - 1 = row, row \notin w.null, t.k = "struct"
  PROVE  DecodedRow(t, w, parts, row) = <<"struct", [i \in DOMAIN t.of |-> parts[i][row + 1]]>>
BY DEF DecodedRow, Decoded

(* a union, *)
LEMMA DecodeUnion ==
  ASSUME NEW t, NEW w, NEW parts, NEW row, row + 1 \in 1 .. w.rows, (row + 1) - 1 = row, row \notin w.null, t.k = "union",
         NEW i, i = parts[1][row + 1][2] + 1
  PROVE  DecodedRow(t, w, parts, row) = <<"union", i, parts[i + 1][row + 1]>>
BY DEF DecodedRow, Decoded

(* a scalar, *)
LEMMA DecodeLeaf ==
  ASSUME NEW t, NEW w, NEW parts, NEW row, row + 1 \in 1 .. w.rows, (row + 1) - 1 = row, row \notin w.null, t.k \in Leaves
  PROVE  DecodedRow(t, w, parts, row) = IF t.k = "int" /\ w.data[row] = Least THEN Null ELSE <<"leaf", w.data[row]>>
BY DEF DecodedRow, Decoded, Leaves

(* and a NULL. *)
LEMMA DecodeNull ==
  ASSUME NEW t, NEW w, NEW parts, NEW row, row + 1 \in 1 .. w.rows, (row + 1) - 1 = row, row \in w.null
  PROVE  DecodedRow(t, w, parts, row) = Null
BY DEF DecodedRow, Decoded

(* One layer of the wire vector of a column. *)
EncodedAs(w, t, v, n) ==
  /\ w.rows = n /\ w.null = v.null \cap Below(n)
  /\ t.k \in {"list", "map"} => \A r \in Valid(v, n) : w.data[r] = v.data[r]
  /\ t.k \notin {"list", "map"} => \A r \in Valid(v, n) : r \in DOMAIN v.data => w.data[r] = v.data[r]

(* Encoding keeps the data of the rows that are not NULL. *)
LEMMA EncodedIs ==
  ASSUME NEW t, NEW v, NEW n \in Nat, NEW cs
  PROVE  EncodedAs(Encoded(t, v, n, cs), t, v, n)
<1> DEFINE w == Encoded(t, v, n, cs)
<1>1. w.rows = n /\ w.null = v.null \cap Below(n)
  BY DEF Encoded
<1>2. w.data = IF t.k \in {"list", "map"}
               THEN [r \in Below(n) |-> IF r \in v.null THEN <<0, 0>> ELSE v.data[r]]
               ELSE Restrict(v.data, DOMAIN v.data \cap Below(n))
  BY DEF Encoded
<1> HIDE DEF w
<1>3. ASSUME t.k \in {"list", "map"}, NEW r \in Valid(v, n)
      PROVE  w.data[r] = v.data[r]
  BY <1>2, <1>3 DEF Valid
<1>4. ASSUME t.k \notin {"list", "map"}, NEW r \in Valid(v, n), r \in DOMAIN v.data
      PROVE  w.data[r] = v.data[r]
  BY <1>2, <1>4 DEF Valid, Restrict
<1>5. EncodedAs(w, t, v, n)
  BY <1>1, <1>3, <1>4 DEF EncodedAs
<1> QED BY <1>5 DEF w

(* One layer of a type. *)
LEMMA ChildrenAre ==
  ASSUME NEW TypeSet, NEW t, TypeOver(t, TypeSet)
  PROVE  /\ t.k \in {"list", "array"} => DOMAIN Children(t) = {1}
         /\ t.k = "map" => DOMAIN Children(t) = {1, 2}
         /\ t.k = "struct" => DOMAIN Children(t) = DOMAIN t.of
         /\ t.k = "union" => /\ 1 \in DOMAIN Children(t) /\ Children(t)[1] = Tag
                             /\ \A i \in DOMAIN t.of : i + 1 \in DOMAIN Children(t)
                             /\ \A c \in DOMAIN Children(t) \ {1} :
                                  c - 1 \in DOMAIN t.of /\ Children(t)[c] = t.of[c - 1]
         /\ t.k \in Leaves => DOMAIN Children(t) = {}
<1>1. CASE t.k \in {"list", "array", "map", "struct"}
  <2>1. Children(t) = t.of /\ t.of \in Seq(TypeSet)
    BY <1>1 DEF Children, TypeOver, Leaves
  <2>2. DOMAIN t.of = 1 .. Len(t.of)
    BY <2>1
  <2>3. CASE t.k \in {"list", "array"}
    <3>1. Len(t.of) = 1 /\ 1 .. 1 = {1}
      BY <2>3 DEF TypeOver
    <3> QED BY <2>1, <2>2, <2>3, <3>1 DEF Leaves
  <2>4. CASE t.k = "map"
    <3>1. Len(t.of) = 2 /\ 1 .. 2 = {1, 2}
      BY <2>4 DEF TypeOver
    <3> QED BY <2>1, <2>2, <2>4, <3>1 DEF Leaves
  <2>5. CASE t.k = "struct"
    BY <2>1, <2>5 DEF Leaves
  <2> QED BY <1>1, <2>3, <2>4, <2>5
<1>2. CASE t.k = "union"
  <2>1. Children(t) = <<Tag>> \o t.of /\ t.of \in Seq(TypeSet)
    BY <1>2 DEF Children, TypeOver, Leaves
  <2> DEFINE U == TypeSet \cup {Tag}
  <2>2. <<Tag>> \in Seq(U) /\ t.of \in Seq(U) /\ Len(<<Tag>>) = 1 /\ <<Tag>>[1] = Tag /\ Len(t.of) \in Nat
        /\ DOMAIN t.of = 1 .. Len(t.of)
    BY <2>1
  <2> HIDE DEF U
  <2>3. /\ <<Tag>> \o t.of \in Seq(U) /\ Len(<<Tag>> \o t.of) = Len(<<Tag>>) + Len(t.of)
        /\ \A i \in 1 .. Len(<<Tag>>) : (<<Tag>> \o t.of)[i] = <<Tag>>[i]
        /\ \A j \in 1 .. Len(t.of) : (<<Tag>> \o t.of)[Len(<<Tag>>) + j] = t.of[j]
    BY <2>2, Concatenated
  <2>4. Children(t) \in Seq(U) /\ Len(Children(t)) = 1 + Len(t.of) /\ Children(t)[1] = Tag
    BY <2>1, <2>2, <2>3
  <2>5. DOMAIN Children(t) = 1 .. 1 + Len(t.of)
    BY <2>4
  <2>6. \A j \in 1 .. Len(t.of) : Children(t)[1 + j] = t.of[j]
    BY <2>1, <2>2, <2>3
  <2>7. ASSUME NEW c \in DOMAIN Children(t) \ {1}
        PROVE  c - 1 \in DOMAIN t.of /\ Children(t)[c] = t.of[c - 1]
    <3>1. PICK j \in 1 .. Len(t.of) : j = c - 1 /\ 1 + j = c
      BY <2>2, <2>5
    <3> QED BY <2>2, <2>6, <3>1
  <2> QED BY <1>2, <2>2, <2>4, <2>5, <2>7 DEF Leaves
<1>3. CASE t.k \in Leaves
  BY <1>3 DEF Children, Leaves
<1> QED BY <1>1, <1>2, <1>3 DEF TypeOver, Kinds

(* The rows of an array lie one after the other. *)
LEMMA Products ==
  ASSUME NEW n \in Nat, NEW row \in Nat, row < n, NEW s \in Nat
  PROVE  /\ row * s \in Nat /\ n * s \in Nat
         /\ (row + 1) * s = row * s + s
         /\ row * s + s <= n * s
<1>1. PICK d \in Nat : n = row + 1 + d
  <2>1. n - row - 1 \in Nat /\ n = row + 1 + (n - row - 1)
    OBVIOUS
  <2> QED BY <2>1
<1>2. d * s \in Nat /\ row * s \in Nat /\ n * s \in Nat
  OBVIOUS
<1>3. (row + 1) * s = row * s + s
  OBVIOUS
<1>4. n * s = row * s + s + d * s
  BY <1>1
<1> QED BY <1>2, <1>3, <1>4

(* What a column of one type has in its children, and theirs. *)
Layer(t, v, n, E, parts) ==
  /\ \A c \in DOMAIN Children(t) : parts[c] = RowsFrom(E[c], ChildRows(t, v, n))
  /\ t.k = "union" => \A r \in Valid(v, n) : E[1][r] = <<"leaf", v.child[1].data[r]>>

(* A row arrives when the rows of the children do. *)
LEMMA RowArrives ==
  ASSUME NEW TypeSet, NEW t, TypeOver(t, TypeSet), NEW v, NEW n \in Nat, Sound(t, v, n),
         NEW cs, NEW E, NEW parts, Layer(t, v, n, E, parts),
         NEW w, w = Encoded(t, v, n, cs), NEW row \in Below(n)
  PROVE  DecodedRow(t, w, parts, row) = ReadRow(t, v, row, E)
<1>1. row \in Nat /\ row < n /\ row + 1 \in 1 .. n /\ (row + 1) - 1 = row
  BY DEF Below
<1>2. /\ w.rows = n /\ w.null = v.null \cap Below(n)
      /\ t.k \in {"list", "map"} => \A r \in Valid(v, n) : w.data[r] = v.data[r]
      /\ t.k \notin {"list", "map"} => \A r \in Valid(v, n) : r \in DOMAIN v.data => w.data[r] = v.data[r]
  <2>1. EncodedAs(w, t, v, n)
    BY EncodedIs
  <2> QED BY <2>1 DEF EncodedAs
<1>3. /\ t.k \in {"list", "array"} => DOMAIN Children(t) = {1}
      /\ t.k = "map" => DOMAIN Children(t) = {1, 2}
      /\ t.k = "struct" => DOMAIN Children(t) = DOMAIN t.of
      /\ t.k = "union" => /\ 1 \in DOMAIN Children(t) /\ Children(t)[1] = Tag
                          /\ \A i \in DOMAIN t.of : i + 1 \in DOMAIN Children(t)
  BY ChildrenAre
<1>4. CASE row \in v.null
  <2>1. row \in w.null /\ row + 1 \in 1 .. w.rows
    BY <1>1, <1>2, <1>4
  <2>2. DecodedRow(t, w, parts, row) = Null
    BY <1>1, <2>1, DecodeNull
  <2>3. ReadRow(t, v, row, E) = Null
    BY <1>4, ReadNull
  <2> QED BY <2>2, <2>3
<1>5. CASE row \notin v.null
  <2>1. row \notin w.null /\ row + 1 \in 1 .. w.rows /\ row \in Valid(v, n)
    BY <1>1, <1>2, <1>5 DEF Valid
  <2>2. CASE t.k \in {"list", "map"}
    <3>1. \A r \in Valid(v, n) : v.data[r][1] \in Nat /\ v.data[r][2] \in Nat
      BY <2>2 DEF Sound
    <3>2. PICK at \in Nat, len \in Nat : at = v.data[row][1] /\ len = v.data[row][2]
      BY <2>1, <3>1
    <3>3. PICK m \in Nat : m = ChildRows(t, v, n) /\ m = Extent(v, n) /\ at + len <= m
      <4>1. Extent(v, n) \in Nat /\ \A r \in Valid(v, n) : v.data[r][1] + v.data[r][2] <= Extent(v, n)
        BY <3>1, ExtentIs
      <4>2. ChildRows(t, v, n) = Extent(v, n)
        BY <2>2 DEF ChildRows
      <4> QED BY <2>1, <3>2, <4>1, <4>2
    <3>4. \A e : Part(RowsFrom(e, m), at, len) = Slots(e, at, len)
      BY <3>3, SlotsAre DEF Part, RowsFrom
    <3>5. at = w.data[row][1] /\ len = w.data[row][2]
      BY <1>2, <2>1, <2>2, <3>2
    <3>6. ASSUME NEW c \in DOMAIN Children(t)
          PROVE  Part(parts[c], at, len) = Slots(E[c], at, len)
      BY <3>3, <3>4 DEF Layer
    <3>7. CASE t.k = "list"
      <4>1. DecodedRow(t, w, parts, row) = <<"seq", Part(parts[1], at, len)>>
        BY <1>1, <2>1, <3>5, <3>7, DecodeList
      <4>2. ReadRow(t, v, row, E) = <<"seq", Slots(E[1], at, len)>>
        BY <1>5, <3>2, <3>7, ReadList
      <4> QED BY <1>3, <3>6, <3>7, <4>1, <4>2
    <3>8. CASE t.k = "map"
      <4>1. DecodedRow(t, w, parts, row)
              = <<"map", Part(parts[1], at, len), Part(parts[2], at, len)>>
        BY <1>1, <2>1, <3>5, <3>8, DecodeMap
      <4>2. ReadRow(t, v, row, E) = <<"map", Slots(E[1], at, len), Slots(E[2], at, len)>>
        BY <1>5, <3>2, <3>8, ReadMap
      <4> QED BY <1>3, <3>6, <3>8, <4>1, <4>2
    <3> QED BY <2>2, <3>7, <3>8
  <2>3. CASE t.k = "array"
    <3>1. PICK s \in Nat : s = t.n
      BY <2>3 DEF TypeOver
    <3>2. /\ row * s \in Nat /\ n * s \in Nat
          /\ (row + 1) * s = row * s + s
          /\ row * s + s <= n * s
      BY <1>1, <3>1, Products
    <3>3. PICK at \in Nat, m \in Nat : at = row * s /\ m = n * s /\ at + s <= m /\ (row + 1) * s = at + s
      BY <3>2
    <3>4. \A e : Part(RowsFrom(e, m), at, s) = Slots(e, at, s)
      <4>1. at + s <= m
        BY <3>3
      <4> QED BY ONLY <4>1, SlotsAre DEF Part, RowsFrom
    <3>5. parts[1] = RowsFrom(E[1], m)
      BY <1>3, <2>3, <3>1, <3>3 DEF Layer, ChildRows
    <3>6. DecodedRow(t, w, parts, row) = <<"seq", Part(parts[1], at, s)>>
      <4>1. DecodedRow(t, w, parts, row) = <<"seq", SubSeq(parts[1], row * t.n + 1, (row + 1) * t.n)>>
        BY <1>1, <2>1, <2>3, DecodeArray
      <4> QED BY <3>1, <3>3, <4>1 DEF Part
    <3>7. ReadRow(t, v, row, E) = <<"seq", Slots(E[1], at, s)>>
      <4>1. ReadRow(t, v, row, E) = <<"seq", Slots(E[1], row * t.n, t.n)>>
        BY <1>5, <2>3, ReadArray
      <4> QED BY <3>1, <3>3, <4>1
    <3> QED BY <3>4, <3>5, <3>6, <3>7
  <2>4. CASE t.k = "struct"
    <3>1. \A i \in DOMAIN t.of : parts[i] = RowsFrom(E[i], n)
      BY <1>3, <2>4 DEF Layer, ChildRows
    <3>2. \A i \in DOMAIN t.of : parts[i][row + 1] = E[i][row]
      <4>1. \A e : RowsFrom(e, n)[row + 1] = e[row]
        BY <1>1 DEF RowsFrom
      <4> QED BY <3>1, <4>1
    <3>3. DecodedRow(t, w, parts, row) = <<"struct", [i \in DOMAIN t.of |-> parts[i][row + 1]]>>
      BY <1>1, <2>1, <2>4, DecodeStruct
    <3>4. ReadRow(t, v, row, E) = <<"struct", [i \in DOMAIN t.of |-> E[i][row]]>>
      BY <1>5, <2>4, ReadStruct
    <3>5. [i \in DOMAIN t.of |-> parts[i][row + 1]] = [i \in DOMAIN t.of |-> E[i][row]]
      BY <3>2
    <3> QED BY <3>3, <3>4, <3>5
  <2>5. CASE t.k = "union"
    <3>1. PICK i : i = v.child[1].data[row] + 1
      OBVIOUS
    <3>2. row \notin v.child[1].null /\ i \in DOMAIN t.of
      BY <2>1, <2>5, <3>1 DEF Sound
    <3>3. parts[1] = RowsFrom(E[1], n) /\ parts[i + 1] = RowsFrom(E[i + 1], n)
      BY <1>3, <2>5, <3>2 DEF Layer, ChildRows
    <3>4. parts[1][row + 1] = E[1][row] /\ parts[i + 1][row + 1] = E[i + 1][row]
      BY <1>1, <3>3 DEF RowsFrom
    <3>5. i = parts[1][row + 1][2] + 1
      <4>1. E[1][row] = <<"leaf", v.child[1].data[row]>>
        BY <2>1, <2>5 DEF Layer
      <4> QED BY <3>1, <3>4, <4>1
    <3>6. DecodedRow(t, w, parts, row) = <<"union", i, parts[i + 1][row + 1]>>
      BY <1>1, <2>1, <2>5, <3>5, DecodeUnion
    <3>7. ReadRow(t, v, row, E) = <<"union", i, E[i + 1][row]>>
      BY <1>5, <2>5, <3>1, <3>2, ReadUnion
    <3> QED BY <3>4, <3>6, <3>7
  <2>6. CASE t.k \in Leaves
    <3>1. row \in DOMAIN v.data
      BY <2>1, <2>6 DEF Sound
    <3>2. w.data[row] = v.data[row]
      BY <1>2, <2>1, <2>6, <3>1 DEF Leaves
    <3>3. DecodedRow(t, w, parts, row) = IF t.k = "int" /\ w.data[row] = Least THEN Null ELSE <<"leaf", w.data[row]>>
      BY <1>1, <2>1, <2>6, DecodeLeaf
    <3>4. ReadRow(t, v, row, E) = IF t.k = "int" /\ v.data[row] = Least THEN Null ELSE <<"leaf", v.data[row]>>
      BY <1>5, <2>6, ReadLeaf
    <3> QED BY <3>2, <3>3, <3>4
  <2> QED BY <2>2, <2>3, <2>4, <2>5, <2>6 DEF TypeOver, Kinds
<1> QED BY <1>4, <1>5

(* A column arrives when its children do. *)
LEMMA LayerArrives ==
  ASSUME NEW TypeSet, NEW t, TypeOver(t, TypeSet), NEW v, NEW n \in Nat, Sound(t, v, n),
         NEW cs, NEW E, NEW parts, Layer(t, v, n, E, parts)
  PROVE  Decoded(t, Encoded(t, v, n, cs), parts) = [i \in 1 .. n |-> ReadRow(t, v, i - 1, E)]
<1> DEFINE w == Encoded(t, v, n, cs)
           d == Decoded(t, w, parts)
<1>1. w.rows = n
  <2> HIDE DEF w
  <2>1. EncodedAs(w, t, v, n)
    BY EncodedIs DEF w
  <2> QED BY <2>1 DEF EncodedAs
<1> HIDE DEF w
<1>2. d = [i \in 1 .. w.rows |-> d[i]]
  BY DEF Decoded
<1>3. ASSUME NEW i \in 1 .. n
      PROVE  d[i] = ReadRow(t, v, i - 1, E)
  <2>1. PICK row \in Below(n) : row = i - 1 /\ row + 1 = i
    BY DEF Below
  <2>2. DecodedRow(t, w, parts, row) = ReadRow(t, v, row, E)
    BY RowArrives DEF w
  <2> QED BY <2>1, <2>2 DEF DecodedRow
<1> HIDE DEF d
<1>4. d = [i \in 1 .. n |-> ReadRow(t, v, i - 1, E)]
  BY <1>1, <1>2, <1>3
<1> QED BY <1>4 DEF d, w

(*--------------- arguments, from DuckDB's vectors to R values ------------*)

(* A column of any type, as a tree of nodes: D.t has their types, D.v their vectors
   and D.n their rows, D.kid[p][c] is the node of the child c of node p, which is
   less high. *)
ColumnTree(D, TypeSet) ==
  \A p \in D.nodes :
    /\ TypeOver(D.t[p], TypeSet) /\ D.n[p] \in Nat /\ D.height[p] \in Nat
    /\ Sound(D.t[p], D.v[p], D.n[p])
    /\ \A c \in DOMAIN Children(D.t[p]) :
         /\ D.kid[p][c] \in D.nodes /\ D.height[D.kid[p][c]] < D.height[p]
         /\ D.t[D.kid[p][c]] = Children(D.t[p])[c]
         /\ D.v[D.kid[p][c]] = D.v[p].child[c]
         /\ D.n[D.kid[p][c]] = ChildRows(D.t[p], D.v[p], D.n[p])

(* what f has for the children of p *)
OfKids(D, p, f) == [c \in DOMAIN Children(D.t[p]) |-> f[D.kid[p][c]]]

(* What Read, Encode and ToValues have at each node. *)
ReadOver(D, vector, read) ==
  \A p \in D.nodes : \A r \in Nat : read[p][r] = ReadRow(D.t[p], vector[p], r, OfKids(D, p, read))
EncodeOver(D, wire) ==
  \A p \in D.nodes : wire[p] = Encoded(D.t[p], D.v[p], D.n[p], OfKids(D, p, wire))
DecodeOver(D, wire, values) ==
  \A p \in D.nodes : values[p] = Decoded(D.t[p], wire[p], OfKids(D, p, values))

(* Induction over the heights of a tree. *)
LEMMA ByHeight ==
  ASSUME NEW P, NEW h, \A p \in P : h[p] \in Nat, NEW G \in SUBSET P,
         \A p \in P : (\A q \in P : h[q] < h[p] => q \in G) => p \in G
  PROVE  G = P
<1> DEFINE S == {n \in Nat : \A p \in P : h[p] < n => p \in G}
<1>1. 0 \in S
  OBVIOUS
<1>2. ASSUME NEW n \in S
      PROVE  n + 1 \in S
  <2>1. n \in Nat /\ \A p \in P : h[p] < n => p \in G
    OBVIOUS
  <2>2. ASSUME NEW p \in P, h[p] < n + 1
        PROVE  p \in G
    <3>1. \A q \in P : h[q] < h[p] => h[q] < n
      BY <2>1, <2>2
    <3> QED BY <2>1, <3>1
  <2> QED BY <2>1, <2>2
<1>3. S = Nat
  <2>1. S \in SUBSET Nat
    OBVIOUS
  <2> HIDE DEF S
  <2> QED BY <1>1, <1>2, <2>1, Induction
<1>4. ASSUME NEW p \in P
      PROVE  p \in G
  <2>1. h[p] + 1 \in S /\ h[p] < h[p] + 1
    BY <1>3
  <2> QED BY <2>1
<1> QED BY <1>4

(* A column of any type, with any number of rows, reaches an R worker with the values that the
   direct evaluator would have read from it (rducks_quack_vector_from_duckdb and
   rducks_native_array_to_values against rducks_rc_direct_arg): what WireFaithful states of arguments. *)
THEOREM ArgumentsArrive ==
  ASSUME NEW TypeSet, NEW D, ColumnTree(D, TypeSet),
         NEW read, ReadOver(D, D.v, read), NEW wire, EncodeOver(D, wire),
         NEW values, DecodeOver(D, wire, values)
  PROVE  \A p \in D.nodes : values[p] = RowsFrom(read[p], D.n[p])
<1> DEFINE G == {p \in D.nodes : values[p] = RowsFrom(read[p], D.n[p])}
<1>1. ASSUME NEW p \in D.nodes, \A q \in D.nodes : D.height[q] < D.height[p] => q \in G
      PROVE  p \in G
  <2> DEFINE t == D.t[p]
             v == D.v[p]
             n == D.n[p]
             E == OfKids(D, p, read)
             parts == OfKids(D, p, values)
  <2>1. TypeOver(t, TypeSet) /\ n \in Nat /\ Sound(t, v, n)
    BY DEF ColumnTree
  <2>2. ASSUME NEW c \in DOMAIN Children(t)
        PROVE  /\ E[c] = read[D.kid[p][c]] /\ parts[c] = values[D.kid[p][c]]
               /\ D.kid[p][c] \in D.nodes /\ D.t[D.kid[p][c]] = Children(t)[c] /\ D.v[D.kid[p][c]] = v.child[c]
               /\ parts[c] = RowsFrom(E[c], ChildRows(t, v, n))
    <3>1. PICK q : q = D.kid[p][c]
      OBVIOUS
    <3>2. /\ q \in D.nodes /\ D.height[q] < D.height[p] /\ D.t[q] = Children(t)[c]
          /\ D.v[q] = v.child[c] /\ D.n[q] = ChildRows(t, v, n)
      BY <3>1 DEF ColumnTree
    <3>3. values[q] = RowsFrom(read[q], D.n[q])
      BY <1>1, <3>2
    <3>4. E[c] = read[q] /\ parts[c] = values[q]
      BY <3>1 DEF OfKids
    <3> QED BY <3>1, <3>2, <3>3, <3>4
  <2>3. ASSUME t.k = "union", NEW r \in Valid(v, n)
        PROVE  E[1][r] = <<"leaf", v.child[1].data[r]>>
    <3>1. 1 \in DOMAIN Children(t) /\ Children(t)[1] = Tag
      BY <2>1, <2>3, ChildrenAre
    <3>2. PICK q : q = D.kid[p][1]
      OBVIOUS
    <3>3. E[1] = read[q] /\ q \in D.nodes /\ D.t[q] = Tag /\ D.v[q] = v.child[1]
      BY <2>2, <3>1, <3>2
    <3>4. r \in Nat /\ r \notin v.child[1].null
      BY <2>1, <2>3 DEF Sound, Valid, Below
    <3>5. read[q][r] = ReadRow(Tag, v.child[1], r, OfKids(D, q, read))
      BY <3>3, <3>4 DEF ReadOver
    <3>6. Tag.k \in Leaves /\ Tag.k # "int"
      BY DEF Tag, Leaves
    <3>7. ReadRow(Tag, v.child[1], r, OfKids(D, q, read)) = <<"leaf", v.child[1].data[r]>>
      BY <3>4, <3>6, ReadLeaf
    <3> QED BY <3>3, <3>5, <3>7
  <2>4. Layer(t, v, n, E, parts)
    <3> HIDE DEF E, parts, t, v, n
    <3> QED BY <2>2, <2>3 DEF Layer
  <2>5. values[p] = Decoded(t, Encoded(t, v, n, OfKids(D, p, wire)), parts)
    BY DEF DecodeOver, EncodeOver
  <2>6. Decoded(t, Encoded(t, v, n, OfKids(D, p, wire)), parts) = [i \in 1 .. n |-> ReadRow(t, v, i - 1, E)]
    <3> HIDE DEF E, parts, t, v, n
    <3> QED BY <2>1, <2>4, LayerArrives
  <2>7. \A i \in 1 .. n : read[p][i - 1] = ReadRow(t, v, i - 1, E)
    <3>1. \A i \in 1 .. n : i - 1 \in Nat
      BY <2>1
    <3> QED BY <3>1 DEF ReadOver
  <2>8. RowsFrom(read[p], n) = [i \in 1 .. n |-> ReadRow(t, v, i - 1, E)]
    BY <2>7 DEF RowsFrom
  <2> QED BY <2>5, <2>6, <2>8
<1>2. G = D.nodes
  <2>1. \A p \in D.nodes : D.height[p] \in Nat
    BY DEF ColumnTree
  <2>2. G \in SUBSET D.nodes
    OBVIOUS
  <2> HIDE DEF G
  <2>3. \A p \in D.nodes : (\A q \in D.nodes : D.height[q] < D.height[p] => q \in G) => p \in G
    BY <1>1
  <2>4. PICK P, h : P = D.nodes /\ h = D.height
    OBVIOUS
  <2>5. /\ \A p \in P : h[p] \in Nat
        /\ G \in SUBSET P
        /\ \A p \in P : (\A q \in P : h[q] < h[p] => q \in G) => p \in G
    BY <2>1, <2>2, <2>3, <2>4
  <2>6. G = P
    BY ONLY <2>5, ByHeight
  <2> QED BY <2>4, <2>6
<1> QED BY <1>2

(*--------------- results, from R values to DuckDB's vectors --------------*)

(* A value that is not NULL, of a type; U has all values. *)
OfType(t, x, U) ==
  /\ t.k \in {"list", "array"} => \E s \in Seq(U) : x = <<"seq", s>> /\ (t.k = "array" => Len(s) = t.n)
  /\ t.k = "map" => \E ks, vs \in Seq(U) : x = <<"map", ks, vs>> /\ Len(ks) = Len(vs)
  /\ t.k = "struct" => \E m \in [DOMAIN t.of -> U] : x = <<"struct", m>>
  /\ t.k = "union" => \E i \in DOMAIN t.of : \E y \in U : x = <<"union", i, y>>
  /\ t.k \in Leaves => \E d : x = <<"leaf", d>> /\ (t.k = "int" => d # Least)

(* The values of a column. *)
AllOfType(t, xs, U) ==
  Null \in U /\ xs \in Seq(U) /\ \A i \in DOMAIN xs : xs[i] # Null => OfType(t, xs[i], U)

(* The function that Offset takes its value from. *)
OffsetSums(g, L) == g = [j \in 0 .. Len(L) |-> IF j = 0 THEN 0 ELSE g[j - 1] + L[j]]

(* There is such a function. *)
LEMMA OffsetSumsExist ==
  ASSUME NEW L \in Seq(Nat)
  PROVE  \E g : OffsetSums(g, L)
<1> DEFINE n == Len(L)
           step == [q \in Nat \X Nat |-> IF q[1] + 1 \in 1 .. n THEN q[2] + L[q[1] + 1] ELSE q[2]]
<1>0. n \in Nat /\ \A i \in 1 .. n : L[i] \in Nat
  OBVIOUS
<1>1. step \in [Nat \X Nat -> Nat]
  <2>1. ASSUME NEW k \in Nat, NEW s \in Nat
        PROVE  (IF k + 1 \in 1 .. n THEN s + L[k + 1] ELSE s) \in Nat
    BY <1>0
  <2> QED BY <2>1
<1>2. PICK h : Recurs(h, Nat, 0, step)
  <2> HIDE DEF step
  <2> QED BY <1>1, Recursion
<1>3. h[0] = 0 /\ \A k \in Nat : h[k] \in Nat /\ h[k + 1] = step[<<k, h[k]>>]
  <2> HIDE DEF step
  <2> QED BY <1>2 DEF Recurs
<1> DEFINE g == [k \in 0 .. n |-> h[k]]
<1>4. ASSUME NEW k \in 0 .. n
      PROVE  g[k] = IF k = 0 THEN 0 ELSE g[k - 1] + L[k]
  <2>1. CASE k = 0
    BY <1>3, <2>1
  <2>2. CASE k # 0
    <3>1. k - 1 \in Nat /\ (k - 1) + 1 = k /\ k - 1 \in 0 .. n /\ k \in 1 .. n
      BY <1>0, <2>2
    <3>2. h[k] = step[<<k - 1, h[k - 1]>>] /\ h[k - 1] \in Nat
      <4> HIDE DEF step
      <4> QED BY <1>3, <3>1
    <3>3. h[k] = h[k - 1] + L[k]
      BY <3>1, <3>2
    <3> QED BY <2>2, <3>1, <3>3
  <2> QED BY <2>1, <2>2
<1>5. OffsetSums(g, L)
  <2>1. g = [k \in 0 .. n |-> g[k]]
    OBVIOUS
  <2> HIDE DEF g
  <2>2. g = [k \in 0 .. n |-> IF k = 0 THEN 0 ELSE g[k - 1] + L[k]]
    BY <1>4, <2>1, Zenon
  <2> QED BY <2>2 DEF OffsetSums
<1> QED BY <1>5

(* The offsets count the elements of the rows before. *)
OffsetsOf(b, L) == Counts(b, Len(L), L) /\ \A i \in 1 .. Len(L) + 1 : Offset(L, i) = b[i - 1]

(* Offset is what such sums have before a row. *)
LEMMA OffsetIs ==
  ASSUME NEW L \in Seq(Nat)
  PROVE  \E b : OffsetsOf(b, L)
<1> DEFINE G == CHOOSE g : OffsetSums(g, L)
<1>1. OffsetSums(G, L)
  BY OffsetSumsExist
<1>2. \A i : Offset(L, i) = G[i - 1]
  BY DEF Offset, OffsetSums
<1> HIDE DEF G
<1>3. Len(L) \in Nat /\ \A k \in 1 .. Len(L) : L[k] \in Nat
  OBVIOUS
<1>4. G[0] = 0
  BY <1>1, <1>3 DEF OffsetSums
<1>5. ASSUME NEW k \in 1 .. Len(L)
      PROVE  G[k] = G[k - 1] + L[k]
  <2>1. k \in 0 .. Len(L) /\ k # 0
    BY <1>3
  <2> QED BY <1>1, <2>1 DEF OffsetSums
<1>6. OffsetsOf(G, L)
  BY <1>2, <1>3, <1>4, <1>5 DEF OffsetsOf, Counts
<1> QED BY <1>6

(* A row of a child whose rows are the joined parts of the values. *)
LEMMA PartIs ==
  ASSUME NEW U, NEW ss \in Seq(Seq(U)), NEW b, Counts(b, Len(ss), [k \in DOMAIN ss |-> Len(ss[k])]),
         NEW e, RowsFrom(e, Len(FlattenSeq(ss))) = FlattenSeq(ss),
         NEW k \in 1 .. Len(ss)
  PROVE  Slots(e, b[k - 1], Len(ss[k])) = ss[k]
<1> DEFINE f == FlattenSeq(ss)
           L == [i \in DOMAIN ss |-> Len(ss[i])]
           n == Len(ss)
<1>1. JoinedTo(f, ss, U, b, n)
  <2>1. ss # <<>>
    OBVIOUS
  <2> QED BY <2>1, Flattened
<1> HIDE DEF f
<1>2. /\ f \in Seq(U) /\ Len(f) = b[n]
      /\ \A m \in 1 .. n : \A j \in 1 .. Len(ss[m]) : f[b[m - 1] + j] = ss[m][j]
  BY <1>1 DEF JoinedTo
<1>3. n \in Nat /\ \A i \in 1 .. n : ss[i] \in Seq(U) /\ L[i] = Len(ss[i]) /\ Len(ss[i]) \in Nat
  OBVIOUS
<1>4. Split(b, L, n)
  <2>1. \A i \in 0 .. n : Split(b, L, i)
    <3> HIDE DEF L
    <3> QED BY <1>3, CountsSplit DEF L
  <2> QED BY <1>3, <2>1
<1>5. PICK at \in Nat, len \in Nat : at = b[k - 1] /\ len = Len(ss[k]) /\ at + len <= Len(f)
  <2>1. b[k] = b[k - 1] + Len(ss[k])
    BY <1>3 DEF Counts
  <2>2. k - 1 \in 0 .. n /\ k \in 0 .. n
    BY <1>3
  <2>3. b[k - 1] \in Nat /\ b[k] \in Nat /\ b[k] <= b[n]
    BY <1>4, <2>2 DEF Split
  <2> QED BY <1>2, <1>3, <2>1, <2>3
<1>6. RowsFrom(e, Len(f)) = f
  BY DEF f
<1>7. ASSUME NEW j \in 1 .. len
      PROVE  e[at + j - 1] = ss[k][j]
  <2>1. PICK i \in 1 .. Len(f) : i = at + j /\ i - 1 = at + j - 1
    <3>1. PICK l \in Nat : l = Len(f) /\ at + len <= l
      BY <1>2, <1>5
    <3>2. at + j \in 1 .. l /\ (at + j) - 1 = at + j - 1
      BY ONLY <3>1
    <3> QED BY <3>1, <3>2
  <2>2. f[i] = e[i - 1]
    BY <1>6 DEF RowsFrom
  <2>3. f[b[k - 1] + j] = ss[k][j]
    <3>1. j \in 1 .. Len(ss[k])
      BY <1>5
    <3> QED BY <1>2, <3>1, Zenon
  <2> QED BY <1>5, <2>1, <2>2, <2>3
<1>8. [j \in 1 .. len |-> e[at + j - 1]] = ss[k]
  <2>1. ss[k] = [j \in 1 .. len |-> ss[k][j]]
    BY <1>3, <1>5
  <2> QED BY <1>7, <2>1
<1> QED BY <1>5, <1>8 DEF Slots

(* The parts of the values that follow each other in child c of a list, a map or an array. *)
PartsOf(t, xs, c) == [i \in DOMAIN xs |-> Share(t, xs[i], c)]

(* Such parts, joined, are the values of the child. *)
LEMMA JoinedParts ==
  ASSUME NEW t, t.k \in {"list", "map", "array"}, NEW xs, NEW c
  PROVE  ChildValues(t, xs, c) = FlattenSeq(PartsOf(t, xs, c))
<1>1. CASE t.k = "array"
  BY <1>1 DEF ChildValues, PartsOf, Share
<1>2. CASE t.k \in {"list", "map"}
  BY <1>2 DEF ChildValues, PartsOf, Share, Flat
<1> QED BY <1>1, <1>2

(* The parts of the values of lists and maps have the lengths of their entries. *)
EntryParts(ss, t, xs, U) ==
  /\ ss \in Seq(Seq(U)) /\ Len(ss) = Len(xs) /\ DOMAIN ss = DOMAIN xs
  /\ Lengths(xs) \in Seq(Nat) /\ Len(Lengths(xs)) = Len(xs)
  /\ [k \in DOMAIN ss |-> Len(ss[k])] = Lengths(xs)

(* Each part has as many values as its entry says. *)
LEMMA EntryPartsAre ==
  ASSUME NEW t, t.k \in {"list", "map"}, NEW U, NEW xs, AllOfType(t, xs, U),
         NEW c \in {1, 2}, t.k = "list" => c = 1
  PROVE  EntryParts(PartsOf(t, xs, c), t, xs, U)
<1> DEFINE ss == PartsOf(t, xs, c)
           L == Lengths(xs)
<1>1. xs \in Seq(U) /\ Len(xs) \in Nat /\ DOMAIN xs = 1 .. Len(xs)
  BY DEF AllOfType
<1>2. ASSUME NEW k \in DOMAIN xs
      PROVE  ss[k] \in Seq(U) /\ Len(ss[k]) = L[k] /\ L[k] \in Nat
  <2>1. CASE xs[k] = Null
    BY <2>1 DEF PartsOf, Share, Lengths, Count
  <2>2. CASE xs[k] # Null
    <3>1. OfType(t, xs[k], U)
      BY <2>2 DEF AllOfType
    <3>2. xs[k][c + 1] \in Seq(U) /\ Len(xs[k][c + 1]) = Len(xs[k][2])
      <4>1. CASE t.k = "list"
        BY <3>1, <4>1 DEF OfType
      <4>2. CASE t.k = "map"
        <5>1. PICK ks \in Seq(U), vs \in Seq(U) : xs[k] = <<"map", ks, vs>> /\ Len(ks) = Len(vs)
          BY <3>1, <4>2 DEF OfType
        <5> QED BY <5>1
      <4> QED BY <4>1, <4>2
    <3>3. ss[k] = xs[k][c + 1] /\ L[k] = Len(xs[k][2])
      BY <2>2 DEF PartsOf, Share, Lengths, Count
    <3>4. Len(ss[k]) \in Nat
      BY <3>2, <3>3
    <3> QED BY <3>2, <3>3, <3>4
  <2> QED BY <2>1, <2>2
<1>3. DOMAIN ss = DOMAIN xs /\ DOMAIN L = DOMAIN xs /\ ss = [k \in DOMAIN xs |-> ss[k]] /\ L = [k \in DOMAIN xs |-> L[k]]
  BY DEF PartsOf, Share, Lengths, Count
<1> HIDE DEF ss, L
<1>4. ss \in Seq(Seq(U)) /\ Len(ss) = Len(xs)
  BY <1>1, <1>2, <1>3
<1>5. L \in Seq(Nat) /\ Len(L) = Len(xs)
  BY <1>1, <1>2, <1>3
<1>6. [k \in DOMAIN ss |-> Len(ss[k])] = L
  BY <1>2, <1>3
<1> QED BY <1>3, <1>4, <1>5, <1>6 DEF EntryParts, ss, L

(* The offsets of lists and maps are where their parts are. *)
LEMMA EntriesReturn ==
  ASSUME NEW t, t.k \in {"list", "map"}, NEW U, NEW xs, AllOfType(t, xs, U),
         NEW c \in {1, 2}, t.k = "list" => c = 1,
         NEW e, RowsFrom(e, Len(ChildValues(t, xs, c))) = ChildValues(t, xs, c),
         NEW i \in DOMAIN xs, xs[i] # Null
  PROVE  Slots(e, Offset(Lengths(xs), i), Lengths(xs)[i]) = xs[i][c + 1]
<1> DEFINE ss == PartsOf(t, xs, c)
           L == Lengths(xs)
<1>1. Len(xs) \in Nat /\ DOMAIN xs = 1 .. Len(xs)
  BY DEF AllOfType
<1>2. EntryParts(ss, t, xs, U)
  BY EntryPartsAre
<1>3. L[i] = Len(ss[i])
  <2>1. DOMAIN ss = DOMAIN xs /\ [k \in DOMAIN ss |-> Len(ss[k])] = L
    BY <1>2 DEF EntryParts
  <2> HIDE DEF ss, L
  <2> QED BY <2>1
<1> HIDE DEF ss, L
<1>4. ss \in Seq(Seq(U)) /\ Len(ss) = Len(xs)
  BY <1>2 DEF EntryParts
<1>5. L \in Seq(Nat) /\ Len(L) = Len(xs)
  BY <1>2 DEF EntryParts, L
<1>6. PICK b : OffsetsOf(b, L)
  BY <1>5, OffsetIs
<1>7. [k \in DOMAIN ss |-> Len(ss[k])] = L
  BY <1>2 DEF EntryParts, L
<1>8. Counts(b, Len(ss), [k \in DOMAIN ss |-> Len(ss[k])]) /\ Offset(L, i) = b[i - 1]
  <2>1. i \in 1 .. Len(L) + 1 /\ Len(ss) = Len(L)
    BY <1>1, <1>4, <1>5
  <2>2. Counts(b, Len(L), L) /\ \A k \in 1 .. Len(L) + 1 : Offset(L, k) = b[k - 1]
    BY <1>6 DEF OffsetsOf
  <2> QED BY <1>7, <2>1, <2>2
<1>9. RowsFrom(e, Len(FlattenSeq(ss))) = FlattenSeq(ss) /\ i \in 1 .. Len(ss)
  BY <1>1, <1>4, JoinedParts DEF ss
<1>10. Slots(e, b[i - 1], Len(ss[i])) = ss[i]
  BY <1>4, <1>8, <1>9, PartIs
<1>11. ss[i] = xs[i][c + 1]
  BY DEF ss, PartsOf, Share
<1> QED BY <1>3, <1>8, <1>10, <1>11 DEF L

(* The parts of the values of arrays have the same length. *)
ArrayParts(ss, b, t, xs, U) ==
  /\ ss \in Seq(Seq(U)) /\ Len(ss) = Len(xs) /\ DOMAIN ss = DOMAIN xs
  /\ \A k \in DOMAIN xs : Len(ss[k]) = t.n
  /\ Counts(b, Len(ss), [k \in DOMAIN ss |-> Len(ss[k])])
  /\ \A k \in Nat : b[k] = k * t.n

(* They are the elements of each row, in the order of the rows. *)
LEMMA ArrayPartsAre ==
  ASSUME NEW t, t.k = "array", t.n \in Nat, NEW U, NEW xs, AllOfType(t, xs, U)
  PROVE  ArrayParts(PartsOf(t, xs, 1), [k \in Nat |-> k * t.n], t, xs, U)
<1> DEFINE ss == PartsOf(t, xs, 1)
           b == [k \in Nat |-> k * t.n]
<1>1. xs \in Seq(U) /\ Len(xs) \in Nat /\ DOMAIN xs = 1 .. Len(xs) /\ Null \in U
  BY DEF AllOfType
<1>2. ASSUME NEW k \in DOMAIN xs
      PROVE  ss[k] \in Seq(U) /\ Len(ss[k]) = t.n
  <2>1. CASE xs[k] = Null
    BY <1>1, <2>1 DEF PartsOf, Share
  <2>2. CASE xs[k] # Null
    <3>1. OfType(t, xs[k], U)
      BY <2>2 DEF AllOfType
    <3>2. PICK s \in Seq(U) : xs[k] = <<"seq", s>> /\ Len(s) = t.n
      BY <3>1 DEF OfType
    <3>3. ss[k] = s
      BY <2>2, <3>2 DEF PartsOf, Share
    <3> QED BY <3>2, <3>3
  <2> QED BY <2>1, <2>2
<1>3. DOMAIN ss = DOMAIN xs /\ ss = [k \in DOMAIN xs |-> ss[k]]
  BY DEF PartsOf, Share
<1> HIDE DEF ss
<1>4. ss \in Seq(Seq(U)) /\ Len(ss) = Len(xs)
  BY <1>1, <1>2, <1>3
<1>5. Counts(b, Len(ss), [k \in DOMAIN ss |-> Len(ss[k])])
  <2>1. b[0] = 0
    OBVIOUS
  <2>2. ASSUME NEW k \in 1 .. Len(ss)
        PROVE  Len(ss[k]) \in Nat /\ b[k] = b[k - 1] + Len(ss[k])
    <3>1. PICK q \in Nat : k = q + 1 /\ k - 1 = q /\ k \in Nat
      <4>1. k - 1 \in Nat /\ k = (k - 1) + 1
        BY <1>1, <1>4
      <4> QED BY <4>1
    <3>2. (q + 1) * t.n = q * t.n + t.n
      OBVIOUS
    <3> QED BY <1>1, <1>2, <1>4, <3>1, <3>2
  <2>3. \A k \in 1 .. Len(ss) : k \in DOMAIN ss
    BY <1>1, <1>3, <1>4
  <2> HIDE DEF b
  <2> QED BY <2>1, <2>2, <2>3 DEF Counts
<1>6. \A k \in Nat : b[k] = k * t.n
  OBVIOUS
<1> HIDE DEF b
<1>7. ArrayParts(ss, b, t, xs, U)
  BY <1>2, <1>3, <1>4, <1>5, <1>6 DEF ArrayParts
<1> QED BY <1>7 DEF ss, b

(* The elements of arrays are where their rows are, ... *)
LEMMA ArraysReturn ==
  ASSUME NEW t, t.k = "array", t.n \in Nat, NEW U, NEW xs, AllOfType(t, xs, U),
         NEW e, RowsFrom(e, Len(ChildValues(t, xs, 1))) = ChildValues(t, xs, 1),
         NEW i \in DOMAIN xs, xs[i] # Null, NEW row \in Nat, row + 1 = i
  PROVE  Slots(e, row * t.n, t.n) = xs[i][2]
<1> DEFINE ss == PartsOf(t, xs, 1)
           b == [k \in Nat |-> k * t.n]
<1>1. ArrayParts(ss, b, t, xs, U)
  BY ArrayPartsAre
<1>2. ss[i] = xs[i][2]
  BY DEF PartsOf, Share
<1>3. ChildValues(t, xs, 1) = FlattenSeq(ss)
  BY JoinedParts
<1> HIDE DEF ss, b
<1>4. i \in 1 .. Len(ss) /\ i - 1 = row
  <2>1. Len(ss) = Len(xs) /\ DOMAIN xs = 1 .. Len(xs) /\ i \in Nat
    BY <1>1 DEF ArrayParts, AllOfType
  <2> QED BY <2>1
<1>5. Slots(e, b[i - 1], Len(ss[i])) = ss[i]
  <2>1. ss \in Seq(Seq(U)) /\ Counts(b, Len(ss), [k \in DOMAIN ss |-> Len(ss[k])])
    BY <1>1 DEF ArrayParts
  <2>2. RowsFrom(e, Len(FlattenSeq(ss))) = FlattenSeq(ss)
    BY <1>3
  <2> QED BY <1>4, <2>1, <2>2, PartIs
<1>6. b[i - 1] = row * t.n /\ Len(ss[i]) = t.n
  BY <1>1, <1>4 DEF ArrayParts
<1> QED BY <1>2, <1>5, <1>6

(* ... and as many as the rows ask for. *)
LEMMA ArrayElements ==
  ASSUME NEW t, t.k = "array", t.n \in Nat, NEW U, NEW xs, AllOfType(t, xs, U)
  PROVE  Len(ChildValues(t, xs, 1)) = Len(xs) * t.n
<1> DEFINE ss == PartsOf(t, xs, 1)
           b == [k \in Nat |-> k * t.n]
<1>1. ArrayParts(ss, b, t, xs, U) /\ Len(xs) \in Nat
  BY ArrayPartsAre DEF AllOfType
<1>2. ChildValues(t, xs, 1) = FlattenSeq(ss)
  BY JoinedParts
<1> HIDE DEF ss, b
<1>3. CASE ss = <<>>
  <2>1. Len(xs) = 0 /\ 0 * t.n = 0
    BY <1>1, <1>3 DEF ArrayParts
  <2>2. Len(FlattenSeq(<<>>)) = 0
    BY DEF FlattenSeq
  <2> QED BY <1>2, <1>3, <2>1, <2>2
<1>4. CASE ss # <<>>
  <2>1. JoinedTo(FlattenSeq(ss), ss, U, b, Len(ss))
    BY <1>1, <1>4, Flattened DEF ArrayParts
  <2>2. Len(FlattenSeq(ss)) = b[Len(ss)] /\ Len(ss) = Len(xs)
    BY <1>1, <2>1 DEF JoinedTo, ArrayParts
  <2> QED BY <1>1, <1>2, <2>2 DEF ArrayParts
<1> QED BY <1>3, <1>4

(* One layer of the vector that values are written to. *)
ReceivedAs(v, t, xs, cs, i, row) ==
  /\ row \in v.null <=> xs[i] = Null
  /\ v.child = cs
  /\ t.k \in {"list", "map"} => v.data[row] = <<Offset(Lengths(xs), i), Lengths(xs)[i]>>
  /\ t.k \in Leaves /\ xs[i] # Null => v.data[row] = xs[i][2]

(* It is NULL where the values are, and has their data elsewhere. *)
LEMMA ReceivedIs ==
  ASSUME NEW t, NEW xs, Len(xs) \in Nat, DOMAIN xs = 1 .. Len(xs), NEW ws, NEW cs,
         NEW i \in DOMAIN xs, NEW row \in Nat, row = i - 1, row + 1 = i
  PROVE  ReceivedAs(Received(t, Packed(t, xs, ws), cs), t, xs, cs, i, row)
<1> DEFINE w == Packed(t, xs, ws)
           v == Received(t, w, cs)
<1>1. v.null = w.null /\ v.data = w.data /\ v.child = cs
  BY DEF Received
<1>2. w.null = {k - 1 : k \in {j \in DOMAIN xs : xs[j] = Null}}
  BY DEF Packed
<1>3. row \in w.null <=> xs[i] = Null
  <2>1. ASSUME NEW k \in DOMAIN xs, row = k - 1
        PROVE  k = i
    BY <2>1
  <2> HIDE DEF w
  <2> QED BY <1>2, <2>1
<1>4. ASSUME t.k \in {"list", "map"}
      PROVE  w.data[row] = <<Offset(Lengths(xs), i), Lengths(xs)[i]>>
  <2>1. w.data = [r \in Below(Len(xs)) |-> <<Offset(Lengths(xs), r + 1), Lengths(xs)[r + 1]>>]
    BY <1>4 DEF Packed
  <2>2. row \in Below(Len(xs))
    BY DEF Below
  <2> HIDE DEF w
  <2> QED BY <2>1, <2>2
<1>5. ASSUME t.k \in Leaves, xs[i] # Null
      PROVE  w.data[row] = xs[i][2]
  <2>1. w.data = [r \in {k - 1 : k \in {j \in DOMAIN xs : xs[j] # Null}} |-> xs[r + 1][2]]
    BY <1>5 DEF Packed, Leaves
  <2>2. row \in {k - 1 : k \in {j \in DOMAIN xs : xs[j] # Null}}
    BY <1>5
  <2> HIDE DEF w
  <2> QED BY <2>1, <2>2
<1> HIDE DEF v, w
<1>6. ReceivedAs(v, t, xs, cs, i, row)
  BY <1>1, <1>3, <1>4, <1>5 DEF ReceivedAs
<1> QED BY <1>6 DEF v, w

(* The values of the children of structs and unions. *)
LEMMA StructParts ==
  ASSUME NEW t, t.k = "struct", NEW xs, NEW c, NEW i \in DOMAIN xs, xs[i] # Null,
         xs[i][1] = "struct"
  PROVE  ChildValues(t, xs, c)[i] = xs[i][2][c]
BY DEF ChildValues, Parts, ByName

(* A union's tag goes to the first child and its value to the one of its member. *)
LEMMA UnionParts ==
  ASSUME NEW t, t.k = "union", NEW xs, NEW i \in DOMAIN xs, xs[i] # Null, NEW m \in Nat \ {0}, xs[i][2] = m
  PROVE  ChildValues(t, xs, 1)[i] = <<"leaf", m - 1>> /\ ChildValues(t, xs, m + 1)[i] = xs[i][3]
BY DEF ChildValues, Parts, Member

(* Both have as many values in each child as there are rows. *)
LEMMA PartsAre ==
  ASSUME NEW t, t.k \in {"struct", "union"}, NEW xs, Len(xs) \in Nat, DOMAIN xs = 1 .. Len(xs), NEW c
  PROVE  Len(ChildValues(t, xs, c)) = Len(xs) /\ DOMAIN ChildValues(t, xs, c) = DOMAIN xs
<1> DEFINE f == ChildValues(t, xs, c)
<1>1. DOMAIN f = DOMAIN xs
  BY DEF ChildValues, Parts, Member
<1>2. f = [i \in 1 .. Len(xs) |-> f[i]]
  BY DEF ChildValues, Parts, Member
<1> HIDE DEF f
<1>3. Len(f) = Len(xs)
  BY <1>1, <1>2
<1> QED BY <1>1, <1>3 DEF f

(* What a column that is written has in its children. *)
Written(t, xs, cs, E) ==
  /\ \A c \in DOMAIN Children(t) : RowsFrom(E[c], Len(ChildValues(t, xs, c))) = ChildValues(t, xs, c)
  /\ t.k = "union" => \A i \in DOMAIN xs : xs[i] # Null =>
       i - 1 \notin cs[1].null /\ cs[1].data[i - 1] = xs[i][2] - 1

(* A row reads back when the rows of the children do. *)
LEMMA RowReturns ==
  ASSUME NEW TypeSet, NEW t, TypeOver(t, TypeSet), NEW U, NEW xs, AllOfType(t, xs, U),
         NEW cs, NEW E, Written(t, xs, cs, E),
         NEW i \in DOMAIN xs, NEW row \in Nat, row = i - 1, row + 1 = i,
         NEW v, ReceivedAs(v, t, xs, cs, i, row)
  PROVE  ReadRow(t, v, row, E) = xs[i]
<1>1. xs \in Seq(U) /\ Len(xs) \in Nat /\ DOMAIN xs = 1 .. Len(xs)
  BY DEF AllOfType
<1>2. /\ row \in v.null <=> xs[i] = Null
      /\ v.child = cs
      /\ t.k \in {"list", "map"} => v.data[row] = <<Offset(Lengths(xs), i), Lengths(xs)[i]>>
      /\ t.k \in Leaves /\ xs[i] # Null => v.data[row] = xs[i][2]
  BY DEF ReceivedAs
<1>3. /\ t.k \in {"list", "array"} => DOMAIN Children(t) = {1}
      /\ t.k = "map" => DOMAIN Children(t) = {1, 2}
      /\ t.k = "struct" => DOMAIN Children(t) = DOMAIN t.of
      /\ t.k = "union" => /\ 1 \in DOMAIN Children(t) /\ Children(t)[1] = Tag
                          /\ \A m \in DOMAIN t.of : m + 1 \in DOMAIN Children(t)
  BY ChildrenAre
<1>4. CASE xs[i] = Null
  <2>1. row \in v.null
    BY <1>2, <1>4
  <2> QED BY <1>4, <2>1, ReadNull
<1>5. CASE xs[i] # Null
  <2>1. row \notin v.null /\ OfType(t, xs[i], U)
    BY <1>2, <1>5 DEF AllOfType
  <2>2. CASE t.k \in {"list", "map"}
    <3>1. v.data[row][1] = Offset(Lengths(xs), i) /\ v.data[row][2] = Lengths(xs)[i]
      BY <1>2, <2>2
    <3>2. ASSUME NEW c \in DOMAIN Children(t)
          PROVE  Slots(E[c], v.data[row][1], v.data[row][2]) = xs[i][c + 1]
      <4>1. c \in {1, 2} /\ (t.k = "list" => c = 1)
        BY <1>3, <2>2
      <4>2. RowsFrom(E[c], Len(ChildValues(t, xs, c))) = ChildValues(t, xs, c)
        BY DEF Written
      <4>3. Slots(E[c], Offset(Lengths(xs), i), Lengths(xs)[i]) = xs[i][c + 1]
        BY <1>5, <2>2, <4>1, <4>2, EntriesReturn
      <4> QED BY <3>1, <4>3
    <3>3. CASE t.k = "list"
      <4>1. PICK s \in Seq(U) : xs[i] = <<"seq", s>>
        BY <2>1, <3>3 DEF OfType
      <4>2. Slots(E[1], v.data[row][1], v.data[row][2]) = xs[i][1 + 1] /\ 1 + 1 = 2
        BY <1>3, <3>2, <3>3
      <4>3. ReadRow(t, v, row, E) = <<"seq", Slots(E[1], v.data[row][1], v.data[row][2])>>
        BY <2>1, <3>3, ReadList
      <4> QED BY <4>1, <4>2, <4>3
    <3>4. CASE t.k = "map"
      <4>1. PICK ks \in Seq(U), vs \in Seq(U) : xs[i] = <<"map", ks, vs>>
        BY <2>1, <3>4 DEF OfType
      <4>2. /\ Slots(E[1], v.data[row][1], v.data[row][2]) = xs[i][1 + 1] /\ 1 + 1 = 2
            /\ Slots(E[2], v.data[row][1], v.data[row][2]) = xs[i][2 + 1] /\ 2 + 1 = 3
        BY <1>3, <3>2, <3>4
      <4>3. ReadRow(t, v, row, E) = <<"map", Slots(E[1], v.data[row][1], v.data[row][2]),
                                            Slots(E[2], v.data[row][1], v.data[row][2])>>
        BY <2>1, <3>4, ReadMap
      <4> QED BY <4>1, <4>2, <4>3
    <3> QED BY <2>2, <3>3, <3>4
  <2>3. CASE t.k = "array"
    <3>1. PICK s \in Seq(U) : xs[i] = <<"seq", s>>
      BY <2>1, <2>3 DEF OfType
    <3>2. RowsFrom(E[1], Len(ChildValues(t, xs, 1))) = ChildValues(t, xs, 1)
      BY <1>3, <2>3 DEF Written
    <3>3. Slots(E[1], row * t.n, t.n) = xs[i][2]
      <4>1. t.n \in Nat
        BY <2>3 DEF TypeOver
      <4> QED BY <1>5, <2>3, <3>2, <4>1, ArraysReturn
    <3>4. ReadRow(t, v, row, E) = <<"seq", Slots(E[1], row * t.n, t.n)>>
      BY <2>1, <2>3, ReadArray
    <3> QED BY <3>1, <3>3, <3>4
  <2>4. CASE t.k = "struct"
    <3>1. PICK m \in [DOMAIN t.of -> U] : xs[i] = <<"struct", m>>
      BY <2>1, <2>4 DEF OfType
    <3>2. ASSUME NEW c \in DOMAIN t.of
          PROVE  E[c][row] = m[c]
      <4>1. ChildValues(t, xs, c)[i] = m[c]
        <5>1. xs[i][1] = "struct" /\ xs[i][2] = m
          BY <3>1
        <5> QED BY <1>5, <2>4, <5>1, StructParts
      <4>2. Len(ChildValues(t, xs, c)) = Len(xs)
        BY <1>1, <2>4, PartsAre
      <4>3. RowsFrom(E[c], Len(xs)) = ChildValues(t, xs, c)
        BY <1>3, <2>4, <4>2 DEF Written
      <4>4. RowsFrom(E[c], Len(xs))[i] = E[c][row]
        BY <1>1 DEF RowsFrom
      <4> QED BY <4>1, <4>3, <4>4
    <3>3. ReadRow(t, v, row, E) = <<"struct", [c \in DOMAIN t.of |-> E[c][row]]>>
      BY <2>1, <2>4, ReadStruct
    <3>4. [c \in DOMAIN t.of |-> E[c][row]] = m
      BY <3>2
    <3> QED BY <3>1, <3>3, <3>4
  <2>5. CASE t.k = "union"
    <3>1. PICK m \in DOMAIN t.of, y \in U : xs[i] = <<"union", m, y>>
      BY <2>1, <2>5 DEF OfType
    <3>2. m \in Nat \ {0} /\ (m - 1) + 1 = m
      <4>1. t.of \in Seq(TypeSet)
        BY <2>5 DEF TypeOver, Leaves
      <4> QED BY <4>1
    <3>3. row \notin v.child[1].null /\ v.child[1].data[row] = m - 1
      <4>1. cs[1].data[i - 1] = xs[i][2] - 1 /\ i - 1 \notin cs[1].null
        BY <1>5, <2>5 DEF Written
      <4>2. xs[i][2] = m
        BY <3>1
      <4> QED BY <1>2, <4>1, <4>2
    <3>4. E[m + 1][row] = y
      <4>1. ChildValues(t, xs, m + 1)[i] = y
        <5>1. xs[i][2] = m /\ xs[i][3] = y
          BY <3>1
        <5> QED BY <1>5, <2>5, <3>2, <5>1, UnionParts
      <4>2. Len(ChildValues(t, xs, m + 1)) = Len(xs)
        BY <1>1, <2>5, PartsAre
      <4>3. RowsFrom(E[m + 1], Len(xs)) = ChildValues(t, xs, m + 1)
        BY <1>3, <2>5, <4>2 DEF Written
      <4>4. RowsFrom(E[m + 1], Len(xs))[i] = E[m + 1][row]
        BY <1>1 DEF RowsFrom
      <4> QED BY <4>1, <4>3, <4>4
    <3>5. m = v.child[1].data[row] + 1
      BY <3>2, <3>3
    <3>6. ReadRow(t, v, row, E) = <<"union", m, E[m + 1][row]>>
      BY <2>1, <2>5, <3>3, <3>5, ReadUnion
    <3> QED BY <3>1, <3>4, <3>6
  <2>6. CASE t.k \in Leaves
    <3>1. PICK d : xs[i] = <<"leaf", d>> /\ (t.k = "int" => d # Least)
      BY <2>1, <2>6 DEF OfType
    <3>2. v.data[row] = d
      BY <1>2, <1>5, <2>6, <3>1
    <3>3. ReadRow(t, v, row, E) = IF t.k = "int" /\ v.data[row] = Least THEN Null ELSE <<"leaf", v.data[row]>>
      BY <2>1, <2>6, ReadLeaf
    <3> QED BY <3>1, <3>2, <3>3
  <2> QED BY <2>2, <2>3, <2>4, <2>5, <2>6 DEF TypeOver, Kinds
<1> QED BY <1>4, <1>5

(* The values of a column of any type and of its children: D.x has them. *)
ValueTree(D, TypeSet, U) ==
  \A p \in D.nodes :
    /\ TypeOver(D.t[p], TypeSet) /\ D.height[p] \in Nat
    /\ AllOfType(D.t[p], D.x[p], U)
    /\ \A c \in DOMAIN Children(D.t[p]) :
         /\ D.kid[p][c] \in D.nodes /\ D.height[D.kid[p][c]] < D.height[p]
         /\ D.t[D.kid[p][c]] = Children(D.t[p])[c]
         /\ D.x[D.kid[p][c]] = ChildValues(D.t[p], D.x[p], c)

(* What FromValues and WriteBack have at each node. *)
PackOver(D, wire) ==
  \A p \in D.nodes : wire[p] = Packed(D.t[p], D.x[p], OfKids(D, p, wire))
ReceiveOver(D, wire, vector) ==
  \A p \in D.nodes : vector[p] = Received(D.t[p], wire[p], OfKids(D, p, vector))

(* What the vectors of a column and of its children have in their rows. *)
Holding(D, vector) ==
  \A p \in D.nodes : \A i \in DOMAIN D.x[p] : \A row \in Nat : row = i - 1 /\ row + 1 = i =>
    ReceivedAs(vector[p], D.t[p], D.x[p], OfKids(D, p, vector), i, row)

(* Vectors that hold the values of a column and of its children read back as these. *)
LEMMA ColumnReturns ==
  ASSUME NEW TypeSet, NEW U, NEW D, ValueTree(D, TypeSet, U), NEW vector, Holding(D, vector),
         NEW read, ReadOver(D, vector, read)
  PROVE  \A p \in D.nodes : RowsFrom(read[p], Len(D.x[p])) = D.x[p]
<1> DEFINE G == {p \in D.nodes : RowsFrom(read[p], Len(D.x[p])) = D.x[p]}
<1>1. ASSUME NEW p \in D.nodes, \A q \in D.nodes : D.height[q] < D.height[p] => q \in G
      PROVE  p \in G
  <2> DEFINE t == D.t[p]
             xs == D.x[p]
             E == OfKids(D, p, read)
             cs == OfKids(D, p, vector)
  <2>1. TypeOver(t, TypeSet) /\ AllOfType(t, xs, U) /\ Len(xs) \in Nat /\ DOMAIN xs = 1 .. Len(xs)
    <3>1. TypeOver(t, TypeSet) /\ AllOfType(t, xs, U)
      BY DEF ValueTree
    <3> HIDE DEF t, xs
    <3> QED BY <3>1 DEF AllOfType
  <2>2. ASSUME NEW c \in DOMAIN Children(t)
        PROVE  /\ E[c] = read[D.kid[p][c]] /\ cs[c] = vector[D.kid[p][c]]
               /\ D.kid[p][c] \in D.nodes /\ D.t[D.kid[p][c]] = Children(t)[c]
               /\ D.x[D.kid[p][c]] = ChildValues(t, xs, c)
               /\ RowsFrom(E[c], Len(ChildValues(t, xs, c))) = ChildValues(t, xs, c)
    <3>1. PICK q : q = D.kid[p][c]
      OBVIOUS
    <3>2. /\ q \in D.nodes /\ D.height[q] < D.height[p] /\ D.t[q] = Children(t)[c]
          /\ D.x[q] = ChildValues(t, xs, c)
      BY <3>1 DEF ValueTree
    <3>3. RowsFrom(read[q], Len(D.x[q])) = D.x[q]
      BY <1>1, <3>2
    <3>4. E[c] = read[q] /\ cs[c] = vector[q]
      BY <3>1 DEF OfKids
    <3> QED BY <3>1, <3>2, <3>3, <3>4
  <2>3. ASSUME t.k = "union", NEW i \in DOMAIN xs, xs[i] # Null
        PROVE  i - 1 \notin cs[1].null /\ cs[1].data[i - 1] = xs[i][2] - 1
    <3>1. 1 \in DOMAIN Children(t) /\ Children(t)[1] = Tag
      BY <2>1, <2>3, ChildrenAre
    <3>2. PICK q : q = D.kid[p][1]
      OBVIOUS
    <3>3. cs[1] = vector[q] /\ q \in D.nodes /\ D.t[q] = Tag /\ D.x[q] = ChildValues(t, xs, 1)
      BY <2>2, <3>1, <3>2
    <3>4. PICK row \in Nat : row = i - 1 /\ row + 1 = i
      BY <2>1
    <3>5. PICK m \in Nat \ {0} : xs[i][2] = m
      <4>1. OfType(t, xs[i], U)
        BY <2>1, <2>3 DEF AllOfType
      <4>2. PICK m \in DOMAIN t.of, y \in U : xs[i] = <<"union", m, y>>
        BY <2>3, <4>1 DEF OfType
      <4>3. t.of \in Seq(TypeSet)
        BY <2>1, <2>3 DEF TypeOver, Leaves
      <4>4. m \in Nat \ {0}
        BY <4>3
      <4> QED BY <4>2, <4>4
    <3>6. D.x[q][i] = <<"leaf", m - 1>>
      BY <2>3, <3>3, <3>5, UnionParts
    <3>7. Len(D.x[q]) \in Nat /\ DOMAIN D.x[q] = 1 .. Len(D.x[q]) /\ i \in DOMAIN D.x[q]
      BY <2>1, <2>3, <3>3, PartsAre
    <3>8. ReceivedAs(vector[q], D.t[q], D.x[q], OfKids(D, q, vector), i, row)
      BY <3>3, <3>4, <3>7 DEF Holding
    <3>9. ReceivedAs(vector[q], Tag, D.x[q], OfKids(D, q, vector), i, row)
      BY <3>3, <3>8
    <3>10. D.x[q][i] # Null /\ D.x[q][i][2] = m - 1 /\ Tag.k \in Leaves
      BY <3>6 DEF Null, Tag, Leaves
    <3>11. row \notin vector[q].null /\ vector[q].data[row] = m - 1
      BY <3>9, <3>10 DEF ReceivedAs
    <3> QED BY <3>3, <3>4, <3>5, <3>11
  <2>4. Written(t, xs, cs, E)
    <3> HIDE DEF E, cs, t, xs
    <3> QED BY <2>2, <2>3 DEF Written
  <2>6. ASSUME NEW i \in DOMAIN xs
        PROVE  read[p][i - 1] = xs[i]
    <3>1. PICK row \in Nat : row = i - 1 /\ row + 1 = i
      BY <2>1
    <3>2. read[p][row] = ReadRow(t, vector[p], row, E)
      BY DEF ReadOver
    <3>3. ReceivedAs(vector[p], t, xs, cs, i, row)
      BY <3>1 DEF Holding
    <3>4. ReadRow(t, vector[p], row, E) = xs[i]
      <4> HIDE DEF E, cs, t, xs
      <4> QED BY <2>1, <2>4, <3>1, <3>3, RowReturns
    <3> QED BY <3>1, <3>2, <3>4
  <2>7. RowsFrom(read[p], Len(xs)) = xs
    <3>1. xs = [i \in 1 .. Len(xs) |-> xs[i]]
      BY <2>1 DEF AllOfType
    <3> HIDE DEF xs
    <3> QED BY <2>1, <2>6, <3>1 DEF RowsFrom
  <2> QED BY <2>7
<1>2. G = D.nodes
  <2>1. \A p \in D.nodes : D.height[p] \in Nat
    BY DEF ValueTree
  <2>2. G \in SUBSET D.nodes
    OBVIOUS
  <2> HIDE DEF G
  <2>3. \A p \in D.nodes : (\A q \in D.nodes : D.height[q] < D.height[p] => q \in G) => p \in G
    BY <1>1
  <2>4. PICK P, h : P = D.nodes /\ h = D.height
    OBVIOUS
  <2>5. /\ \A p \in P : h[p] \in Nat
        /\ G \in SUBSET P
        /\ \A p \in P : (\A q \in P : h[q] < h[p] => q \in G) => p \in G
    BY <2>1, <2>2, <2>3, <2>4
  <2>6. G = P
    BY ONLY <2>5, ByHeight
  <2> QED BY <2>4, <2>6
<1> QED BY <1>2

(* The results of an R worker, of any type and any number of rows, come back to DuckDB unchanged
   (rducks_native_array_from_values and rducks_quack_write_vector_to_duckdb, read by
   rducks_rc_direct_arg): what WireFaithful states of results. *)
THEOREM ResultsComeBack ==
  ASSUME NEW TypeSet, NEW U, NEW D, ValueTree(D, TypeSet, U),
         NEW wire, PackOver(D, wire), NEW vector, ReceiveOver(D, wire, vector),
         NEW read, ReadOver(D, vector, read)
  PROVE  \A p \in D.nodes : RowsFrom(read[p], Len(D.x[p])) = D.x[p]
<1>1. ASSUME NEW p \in D.nodes, NEW i \in DOMAIN D.x[p], NEW row \in Nat, row = i - 1, row + 1 = i
      PROVE  ReceivedAs(vector[p], D.t[p], D.x[p], OfKids(D, p, vector), i, row)
  <2>1. D.x[p] \in Seq(U)
    BY DEF ValueTree, AllOfType
  <2>2. Len(D.x[p]) \in Nat /\ DOMAIN D.x[p] = 1 .. Len(D.x[p])
    BY <2>1
  <2>3. vector[p] = Received(D.t[p], Packed(D.t[p], D.x[p], OfKids(D, p, wire)), OfKids(D, p, vector))
    BY DEF PackOver, ReceiveOver
  <2> QED BY <1>1, <2>2, <2>3, ReceivedIs
<1>2. Holding(D, vector)
  BY <1>1 DEF Holding
<1> QED BY <1>2, ColumnReturns

(* The extension refuses none of the wire vectors that a worker makes of results of their type
   (the checks of rducks_quack_write_vector_to_duckdb): Writable, in WireFaithful. *)
THEOREM ResultsAreAccepted ==
  ASSUME NEW TypeSet, NEW U, NEW D, ValueTree(D, TypeSet, U), NEW wire, PackOver(D, wire)
  PROVE  \A p \in D.nodes : Fitting(D.t[p], wire[p])
<1> SUFFICES ASSUME NEW p \in D.nodes
             PROVE  Fitting(D.t[p], wire[p])
  OBVIOUS
<1> DEFINE t == D.t[p]
           xs == D.x[p]
           ws == OfKids(D, p, wire)
<1>1. TypeOver(t, TypeSet) /\ AllOfType(t, xs, U) /\ Len(xs) \in Nat /\ DOMAIN xs = 1 .. Len(xs)
  <2>1. TypeOver(t, TypeSet) /\ AllOfType(t, xs, U)
    BY DEF ValueTree
  <2> HIDE DEF t, xs
  <2> QED BY <2>1 DEF AllOfType
<1>2. wire[p].rows = Len(xs) /\ wire[p].child = ws
  <2>1. wire[p] = Packed(t, xs, ws)
    BY DEF PackOver
  <2> HIDE DEF t, xs, ws
  <2> QED BY <2>1 DEF Packed
<1>3. ASSUME t.k \in {"array", "union"}
      PROVE  \E q \in D.nodes :
               /\ ws[1] = wire[q] /\ D.t[q] = Children(t)[1] /\ D.x[q] = ChildValues(t, xs, 1)
               /\ wire[q] = Packed(D.t[q], D.x[q], OfKids(D, q, wire))
  <2>1. 1 \in DOMAIN Children(t)
    BY <1>1, <1>3, ChildrenAre
  <2>2. PICK q : q = D.kid[p][1]
    OBVIOUS
  <2>3. q \in D.nodes /\ D.t[q] = Children(t)[1] /\ D.x[q] = ChildValues(t, xs, 1)
    BY <2>1, <2>2 DEF ValueTree
  <2>4. ws[1] = wire[q]
    BY <2>1, <2>2 DEF OfKids
  <2>5. wire[q] = Packed(D.t[q], D.x[q], OfKids(D, q, wire))
    BY <2>3 DEF PackOver
  <2> QED BY <2>3, <2>4, <2>5
<1> HIDE DEF t, xs, ws
<1>4. ASSUME t.k = "array"
      PROVE  wire[p].child[1].rows = wire[p].rows * t.n
  <2>1. PICK q \in D.nodes : /\ ws[1] = wire[q] /\ D.x[q] = ChildValues(t, xs, 1)
                             /\ wire[q] = Packed(D.t[q], D.x[q], OfKids(D, q, wire))
    BY <1>3, <1>4
  <2>2. wire[q].rows = Len(ChildValues(t, xs, 1))
    BY <2>1 DEF Packed
  <2>3. Len(ChildValues(t, xs, 1)) = Len(xs) * t.n
    <3>1. t.n \in Nat
      BY <1>1, <1>4 DEF TypeOver
    <3> QED BY <1>1, <1>4, <3>1, ArrayElements
  <2> QED BY <1>2, <2>1, <2>2, <2>3
<1>5. ASSUME t.k = "union", NEW r \in Valid(wire[p].child[1], wire[p].rows)
      PROVE  wire[p].child[1].data[r] \in 0 .. Len(t.of) - 1
  <2>1. PICK q \in D.nodes : /\ ws[1] = wire[q] /\ D.t[q] = Tag /\ D.x[q] = ChildValues(t, xs, 1)
                             /\ wire[q] = Packed(D.t[q], D.x[q], OfKids(D, q, wire))
    <3>1. Children(t)[1] = Tag
      BY <1>1, <1>5, ChildrenAre
    <3> QED BY <1>3, <1>5, <3>1
  <2>2. PICK i \in DOMAIN xs : r \in Nat /\ r = i - 1 /\ r + 1 = i
    <3>1. r \in Nat /\ r + 1 \in 1 .. Len(xs) /\ (r + 1) - 1 = r
      BY <1>1, <1>2, <1>5 DEF Valid, Below
    <3> QED BY <1>1, <3>1
  <2>3. Len(D.x[q]) \in Nat /\ DOMAIN D.x[q] = 1 .. Len(D.x[q]) /\ i \in DOMAIN D.x[q]
    BY <1>1, <1>5, <2>1, PartsAre
  <2>4. ReceivedAs(Received(Tag, wire[q], <<>>), Tag, D.x[q], <<>>, i, r)
    BY <2>1, <2>2, <2>3, ReceivedIs
  <2>5. Received(Tag, wire[q], <<>>).null = wire[q].null /\ Received(Tag, wire[q], <<>>).data = wire[q].data
    BY DEF Received
  <2>6. Tag.k \in Leaves
    BY DEF Tag, Leaves
  <2>7. D.x[q][i] # Null /\ wire[q].data[r] = D.x[q][i][2]
    <3>1. r \notin wire[q].null
      BY <1>2, <1>5, <2>1 DEF Valid
    <3> QED BY <2>4, <2>5, <2>6, <3>1 DEF ReceivedAs
  <2>8. xs[i] # Null
    <3>1. ChildValues(t, xs, 1)[i] # Null
      BY <2>1, <2>7
    <3> QED BY <1>5, <3>1 DEF ChildValues, Parts, Member
  <2>9. PICK m \in DOMAIN t.of, y \in U : xs[i] = <<"union", m, y>>
    <3>1. OfType(t, xs[i], U)
      BY <1>1, <2>8 DEF AllOfType
    <3> QED BY <1>5, <3>1 DEF OfType
  <2>10. t.of \in Seq(TypeSet) /\ m \in 1 .. Len(t.of) /\ Len(t.of) \in Nat
    BY <1>1, <1>5 DEF TypeOver, Leaves
  <2>11. ChildValues(t, xs, 1)[i] = <<"leaf", m - 1>>
    <3>1. m \in Nat \ {0} /\ xs[i][2] = m
      BY <2>9, <2>10
    <3> QED BY <1>5, <2>8, <3>1, UnionParts
  <2>12. wire[q].data[r] = m - 1
    BY <2>1, <2>7, <2>11
  <2> QED BY <1>2, <2>1, <2>10, <2>12
<1>6. Fitting(t, wire[p])
  BY <1>4, <1>5 DEF Fitting
<1> QED BY <1>6 DEF t

(*-------------------- rows written one after the other -------------------*)

(* The vector v of a child after the rows of part, from row at on; g is what Write makes of a
   vector, a row and a value. *)
WrittenOn(g, v, at, part) == InTurn(LAMBDA u, j : g[<<u, at + j - 1, part[j]>>], v, Len(part))

(* The function that InTurn takes its value from. *)
Turns(h, g, v, at, part) ==
  h = [j \in 0 .. Len(part) |-> IF j = 0 THEN v ELSE g[<<h[j - 1], at + j - 1, part[j]>>]]

(* w[at + j] is what comes of w[at] by the first j rows of part. *)
Follows(g, w, at, part) ==
  \A j \in 1 .. Len(part) : g[<<w[at + j - 1], at + j - 1, part[j]>>] = w[at + j]

(* What w has after the last row of part. *)
EndsAt(g, w, at, part) == WrittenOn(g, w[at], at, part) = w[at + Len(part)]

(* What each row makes of the vector before it is what the next row starts from. *)
LEMMA WrittenOnIs ==
  ASSUME NEW g, NEW w, NEW at \in Nat, NEW part, Len(part) \in Nat,
         Follows(g, w, at, part)
  PROVE  EndsAt(g, w, at, part)
<1> DEFINE n == Len(part)
           v == w[at]
           f == [j \in 0 .. n |-> w[at + j]]
           G == CHOOSE h : Turns(h, g, v, at, part)
<1>0. \A j \in 1 .. n : g[<<w[at + j - 1], at + j - 1, part[j]>>] = w[at + j]
  BY DEF Follows
<1>1. Turns(f, g, v, at, part)
  <2>1. ASSUME NEW j \in 0 .. n
        PROVE  f[j] = IF j = 0 THEN v ELSE g[<<f[j - 1], at + j - 1, part[j]>>]
    <3>1. CASE j = 0
      <4>1. at + 0 = at
        OBVIOUS
      <4> QED BY <3>1, <4>1
    <3>2. CASE j # 0
      <4>1. j \in 1 .. n /\ j - 1 \in 0 .. n /\ at + (j - 1) = at + j - 1
        BY <3>2
      <4>2. f[j - 1] = w[at + j - 1]
        BY <4>1
      <4> QED BY <1>0, <3>2, <4>1, <4>2
    <3> QED BY <3>1, <3>2
  <2>2. f = [j \in 0 .. n |-> f[j]]
    OBVIOUS
  <2> HIDE DEF f, v
  <2>3. f = [j \in 0 .. n |-> IF j = 0 THEN v ELSE g[<<f[j - 1], at + j - 1, part[j]>>]]
    BY <2>1, <2>2, Zenon
  <2> QED BY <2>3 DEF Turns
<1>2. Turns(G, g, v, at, part)
  <2> HIDE DEF f, v
  <2> QED BY <1>1
<1>3. WrittenOn(g, v, at, part) = G[n]
  BY DEF WrittenOn, InTurn, Turns
<1> HIDE DEF G, v
<1>4. \A j \in 0 .. n : G[j] = IF j = 0 THEN v ELSE g[<<G[j - 1], at + j - 1, part[j]>>]
  BY <1>2 DEF Turns
<1> DEFINE S == {j \in Nat : j <= n => G[j] = w[at + j]}
<1>5. 0 \in S
  <2>1. 0 \in 0 .. n /\ at + 0 = at
    OBVIOUS
  <2>2. G[0] = v
    BY <1>4, <2>1
  <2> QED BY <2>1, <2>2 DEF v
<1>6. ASSUME NEW k \in S
      PROVE  k + 1 \in S
  <2>1. SUFFICES ASSUME k + 1 <= n
                 PROVE  G[k + 1] = w[at + (k + 1)]
    OBVIOUS
  <2>2. k \in Nat /\ k + 1 \in 1 .. n /\ k + 1 \in 0 .. n /\ k + 1 # 0 /\ (k + 1) - 1 = k
        /\ at + (k + 1) - 1 = at + k /\ k <= n
    BY <2>1
  <2>3. G[k] = w[at + k]
    BY <2>2
  <2>4. G[k + 1] = g[<<G[k], at + (k + 1) - 1, part[k + 1]>>]
    BY <1>4, <2>2
  <2>5. g[<<w[at + (k + 1) - 1], at + (k + 1) - 1, part[k + 1]>>] = w[at + (k + 1)]
    BY <1>0, <2>2
  <2> QED BY <2>2, <2>3, <2>4, <2>5
<1>7. S = Nat
  <2>1. S \in SUBSET Nat
    OBVIOUS
  <2> HIDE DEF S
  <2> QED BY <1>5, <1>6, <2>1, Induction
<1>8. G[n] = w[at + n]
  <2>1. n \in Nat /\ n <= n
    OBVIOUS
  <2>2. n \in S
    BY <1>7, <2>1
  <2> QED BY <2>1, <2>2
<1> QED BY <1>3, <1>8 DEF v, EndsAt

(* A vector has these fields. *)
IsVector(v) == v = [null |-> v.null, data |-> v.data, size |-> v.size, child |-> v.child]

Stored(d, row, y) == [r \in DOMAIN d \cup {row} |-> IF r = row THEN y ELSE d[r]]

(* What WriteRow makes of a vector v. *)
RowWritten(u, t, v, row, x, children) ==
  /\ IsVector(u) /\ u.child = children
  /\ u.null = IF x = Null THEN v.null \cup {row} ELSE v.null \ {row}
  /\ t.k \in {"list", "map"} => u.size = v.size + Count(x) /\ u.data = Stored(v.data, row, <<v.size, Count(x)>>)
  /\ t.k \in Leaves /\ x # Null => u.data = Stored(v.data, row, x[2])
  /\ t.k \in Leaves /\ x = Null => u.data = v.data

(* A row marks itself NULL or valid, and stores its entry or its value. *)
LEMMA WriteRowIs ==
  ASSUME NEW t, t.k \in Kinds, NEW v, IsVector(v), NEW row, NEW x, NEW children
  PROVE  RowWritten(WriteRow(t, v, row, x, children), t, v, row, x, children)
<1> DEFINE N == IF x = Null THEN v.null \cup {row} ELSE v.null \ {row}
           new == [Marked(v, row, x) EXCEPT !.child = children]
           r1 == [null |-> N, data |-> v.data, size |-> v.size, child |-> children]
<1>1. new = r1
  <2>1. SetNull(v, row) = [null |-> v.null \cup {row}, data |-> v.data, size |-> v.size, child |-> v.child]
    BY DEF SetNull, IsVector
  <2>2. SetValid(v, row) = [null |-> v.null \ {row}, data |-> v.data, size |-> v.size, child |-> v.child]
    BY DEF SetValid, IsVector
  <2>3. CASE x = Null
    BY <2>1, <2>3 DEF Marked
  <2>4. CASE x # Null
    BY <2>2, <2>4 DEF Marked
  <2> QED BY <2>3, <2>4
<1> HIDE DEF N
<1>2. CASE t.k \in {"list", "map"}
  <2>1. WriteRow(t, v, row, x, children) = Store(Committed(new, Count(x)), row, <<v.size, Count(x)>>)
    BY <1>2 DEF WriteRow
  <2> HIDE DEF new
  <2>2. Committed(new, Count(x)) = [null |-> N, data |-> v.data, size |-> v.size + Count(x), child |-> children]
    BY <1>1 DEF Committed
  <2>3. Store(Committed(new, Count(x)), row, <<v.size, Count(x)>>)
          = [null |-> N, data |-> Stored(v.data, row, <<v.size, Count(x)>>), size |-> v.size + Count(x),
             child |-> children]
    BY <2>2 DEF Store, Stored
  <2> QED BY <1>2, <2>1, <2>3 DEF RowWritten, IsVector, N, Leaves
<1>3. CASE t.k \in {"array", "struct", "union"} \/ (t.k \in Leaves /\ x = Null)
  <2>1. WriteRow(t, v, row, x, children) = new
    BY <1>3 DEF WriteRow, Leaves
  <2> HIDE DEF new
  <2> QED BY <1>1, <1>3, <2>1 DEF RowWritten, IsVector, N, Leaves
<1>4. CASE t.k \in Leaves /\ x # Null
  <2>1. WriteRow(t, v, row, x, children) = Store(new, row, x[2])
    BY <1>4 DEF WriteRow, Leaves
  <2> HIDE DEF new
  <2>2. Store(new, row, x[2]) = [null |-> N, data |-> Stored(v.data, row, x[2]), size |-> v.size, child |-> children]
    BY <1>1 DEF Store, Stored
  <2> QED BY <1>4, <2>1, <2>2 DEF RowWritten, IsVector, N, Leaves
<1> QED BY <1>2, <1>3, <1>4 DEF Kinds

(* f joins the parts ss, of which part k begins after b[k - 1] elements. *)
InPlace(b, ss, f, n) ==
  /\ b[0] = 0 /\ b[n] = Len(f) /\ \A k \in 0 .. n : b[k] \in Nat
  /\ \A k \in 1 .. n :
       /\ Len(ss[k]) \in Nat /\ b[k] = b[k - 1] + Len(ss[k])
       /\ \A j \in 1 .. Len(ss[k]) : b[k - 1] + j \in 1 .. Len(f) /\ f[b[k - 1] + j] = ss[k][j]

(* Parts that are joined are in place. *)
LEMMA JoinedInPlace ==
  ASSUME NEW U, NEW ss \in Seq(Seq(U)), ss # <<>>, NEW b, NEW n, n = Len(ss),
         Counts(b, n, [k \in DOMAIN ss |-> Len(ss[k])])
  PROVE  InPlace(b, ss, FlattenSeq(ss), n)
<1> DEFINE f == FlattenSeq(ss)
           L == [i \in DOMAIN ss |-> Len(ss[i])]
<1>1. JoinedTo(f, ss, U, b, n)
  BY Flattened
<1> HIDE DEF f
<1>2. /\ f \in Seq(U) /\ Len(f) = b[n]
      /\ \A m \in 1 .. n : \A j \in 1 .. Len(ss[m]) : f[b[m - 1] + j] = ss[m][j]
  BY <1>1 DEF JoinedTo
<1>3. n \in Nat /\ \A i \in 1 .. n : ss[i] \in Seq(U) /\ L[i] = Len(ss[i]) /\ Len(ss[i]) \in Nat
  OBVIOUS
<1>4. \A i \in 0 .. n : Split(b, L, i)
  <2> HIDE DEF L
  <2> QED BY <1>3, CountsSplit DEF L
<1>5. b[0] = 0 /\ \A k \in 0 .. n : b[k] \in Nat /\ b[k] <= b[n]
  <2>1. Split(b, L, n)
    BY <1>3, <1>4
  <2> QED BY <2>1 DEF Split, Counts
<1>6. ASSUME NEW k \in 1 .. n
      PROVE  b[k] = b[k - 1] + Len(ss[k])
  BY <1>3 DEF Counts
<1>7. ASSUME NEW k \in 1 .. n, NEW j \in 1 .. Len(ss[k])
      PROVE  b[k - 1] + j \in 1 .. Len(f)
  <2>1. PICK at \in Nat, len \in Nat, all \in Nat : at = b[k - 1] /\ len = Len(ss[k]) /\ all = Len(f) /\ at + len <= all
    <3>1. k - 1 \in 0 .. n /\ k \in 0 .. n
      BY <1>3
    <3>2. b[k - 1] \in Nat /\ b[k] <= Len(f) /\ Len(ss[k]) \in Nat /\ Len(f) \in Nat
      BY <1>2, <1>3, <1>5, <3>1
    <3>3. b[k - 1] + Len(ss[k]) <= Len(f)
      BY <1>6, <3>2
    <3> QED BY <3>2, <3>3
  <2>2. at + j \in 1 .. all
    BY <2>1
  <2> QED BY <2>1, <2>2
<1>8. InPlace(b, ss, f, n)
  BY <1>2, <1>3, <1>5, <1>6, <1>7 DEF InPlace
<1> QED BY <1>8 DEF f

(* Where the children of a column have the rows of each value: those of row k follow the first
   b[k - 1], which is where the writer puts them. *)
RowsPlaced(b, t, xs) ==
  /\ \A c \in DOMAIN Children(t) : InPlace(b, PartsOf(t, xs, c), ChildValues(t, xs, c), Len(xs))
  /\ t.k \in {"list", "map"} =>
       b[0] = 0 /\ \A k \in 1 .. Len(xs) : b[k - 1] = Offset(Lengths(xs), k) /\ b[k] = b[k - 1] + Count(xs[k])
  /\ t.k = "array" => \A k \in Nat : b[k] = k * t.n
  /\ t.k \in {"struct", "union"} => \A k \in Nat : b[k] = k

(* There are such places. *)
LEMMA PlacesOfRowsExist ==
  ASSUME NEW TypeSet, NEW t, TypeOver(t, TypeSet), NEW U, NEW xs, AllOfType(t, xs, U), xs # <<>>
  PROVE  \E b : RowsPlaced(b, t, xs)
<1>1. xs \in Seq(U) /\ Len(xs) \in Nat /\ DOMAIN xs = 1 .. Len(xs) /\ Len(xs) # 0
  BY DEF AllOfType
<1>2. /\ t.k \in {"list", "array"} => DOMAIN Children(t) = {1}
      /\ t.k = "map" => DOMAIN Children(t) = {1, 2}
      /\ t.k \in Leaves => DOMAIN Children(t) = {}
  BY ChildrenAre
<1>3. CASE t.k \in {"list", "map"}
  <2> DEFINE L == Lengths(xs)
  <2>1. \A c \in DOMAIN Children(t) : c \in {1, 2} /\ (t.k = "list" => c = 1)
    BY <1>2, <1>3
  <2>2. L \in Seq(Nat) /\ Len(L) = Len(xs)
    <3>1. EntryParts(PartsOf(t, xs, 1), t, xs, U)
      BY <1>3, EntryPartsAre
    <3> QED BY <3>1 DEF EntryParts
  <2>3. \A k \in 1 .. Len(xs) : L[k] = Count(xs[k])
    BY <1>1 DEF Lengths
  <2> HIDE DEF L
  <2>4. PICK b : OffsetsOf(b, L)
    BY <2>2, OffsetIs
  <2>5. Counts(b, Len(xs), L) /\ \A k \in 1 .. Len(xs) + 1 : Offset(L, k) = b[k - 1]
    BY <2>2, <2>4 DEF OffsetsOf
  <2>6. ASSUME NEW c \in DOMAIN Children(t)
        PROVE  InPlace(b, PartsOf(t, xs, c), ChildValues(t, xs, c), Len(xs))
    <3> DEFINE ss == PartsOf(t, xs, c)
    <3>1. EntryParts(ss, t, xs, U)
      BY <1>3, <2>1, EntryPartsAre
    <3>2. ChildValues(t, xs, c) = FlattenSeq(ss)
      BY <1>3, JoinedParts
    <3> HIDE DEF ss
    <3>3. ss \in Seq(Seq(U)) /\ Len(xs) = Len(ss) /\ [k \in DOMAIN ss |-> Len(ss[k])] = L
      BY <3>1 DEF EntryParts, L
    <3>4. ss # <<>>
      BY <1>1, <3>3
    <3>5. InPlace(b, ss, FlattenSeq(ss), Len(xs))
      BY <2>5, <3>3, <3>4, JoinedInPlace
    <3> QED BY <3>2, <3>5 DEF ss
  <2>7. ASSUME NEW k \in 1 .. Len(xs)
        PROVE  b[k - 1] = Offset(L, k) /\ b[k] = b[k - 1] + Count(xs[k])
    <3>1. k \in 1 .. Len(xs) + 1
      BY <1>1
    <3> QED BY <2>3, <2>5, <3>1 DEF Counts
  <2>8. b[0] = 0
    BY <2>5 DEF Counts
  <2>9. RowsPlaced(b, t, xs)
    BY <1>3, <2>6, <2>7, <2>8 DEF RowsPlaced, L
  <2> QED BY <2>9
<1>4. CASE t.k = "array"
  <2> DEFINE ss == PartsOf(t, xs, 1)
             b == [k \in Nat |-> k * t.n]
  <2>1. t.n \in Nat
    BY <1>4 DEF TypeOver
  <2>2. ArrayParts(ss, b, t, xs, U)
    BY <1>4, <2>1, ArrayPartsAre
  <2>3. ChildValues(t, xs, 1) = FlattenSeq(ss)
    BY <1>4, JoinedParts
  <2> HIDE DEF ss, b
  <2>4. ss \in Seq(Seq(U)) /\ Len(xs) = Len(ss) /\ Counts(b, Len(ss), [k \in DOMAIN ss |-> Len(ss[k])])
    BY <2>2 DEF ArrayParts
  <2>5. ss # <<>>
    BY <1>1, <2>4
  <2>6. InPlace(b, ss, FlattenSeq(ss), Len(xs))
    BY <2>4, <2>5, JoinedInPlace
  <2>7. \A k \in Nat : b[k] = k * t.n
    BY <2>2 DEF ArrayParts
  <2>8. RowsPlaced(b, t, xs)
    BY <1>2, <1>4, <2>3, <2>6, <2>7 DEF RowsPlaced, ss
  <2> QED BY <2>8
<1>5. CASE t.k \in {"struct", "union"}
  <2> DEFINE b == [k \in Nat |-> k]
  <2>1. \A k \in Nat : b[k] = k
    OBVIOUS
  <2> HIDE DEF b
  <2>2. ASSUME NEW c \in DOMAIN Children(t)
        PROVE  InPlace(b, PartsOf(t, xs, c), ChildValues(t, xs, c), Len(xs))
    <3> DEFINE ss == PartsOf(t, xs, c)
               f == ChildValues(t, xs, c)
    <3>1. Len(f) = Len(xs)
      BY <1>1, <1>5, PartsAre
    <3>2. ASSUME NEW k \in 1 .. Len(xs)
          PROVE  ss[k] = <<f[k]>>
      <4>1. CASE t.k = "struct"
        <5>1. xs[k] # Null => xs[k][1] = "struct"
          BY <1>1, <4>1 DEF AllOfType, OfType
        <5> QED BY <1>1, <4>1, <5>1 DEF PartsOf, Share, ChildValues, Parts, ByName
      <4>2. CASE t.k = "union"
        BY <1>1, <4>2 DEF PartsOf, Share, ChildValues, Parts
      <4> QED BY <1>5, <4>1, <4>2
    <3> HIDE DEF ss, f
    <3>3. ASSUME NEW k \in 1 .. Len(xs)
          PROVE  /\ Len(ss[k]) = 1 /\ b[k] = b[k - 1] + 1
                 /\ \A j \in 1 .. 1 : b[k - 1] + j \in 1 .. Len(f) /\ f[b[k - 1] + j] = ss[k][j]
      <4>1. k \in Nat /\ k - 1 \in Nat /\ (k - 1) + 1 = k
        BY <1>1
      <4>2. b[k] = k /\ b[k - 1] = k - 1
        BY <2>1, <4>1
      <4>3. ss[k] = <<f[k]>>
        BY <3>2
      <4>4. Len(ss[k]) = 1 /\ ss[k][1] = f[k]
        BY <4>3
      <4> QED BY <3>1, <4>1, <4>2, <4>4
    <3>4. b[0] = 0 /\ b[Len(xs)] = Len(f) /\ \A k \in 0 .. Len(xs) : b[k] \in Nat
      BY <1>1, <2>1, <3>1
    <3>5. ASSUME NEW k \in 1 .. Len(xs)
          PROVE  /\ Len(ss[k]) \in Nat /\ b[k] = b[k - 1] + Len(ss[k])
                 /\ \A j \in 1 .. Len(ss[k]) : b[k - 1] + j \in 1 .. Len(f) /\ f[b[k - 1] + j] = ss[k][j]
      <4>1. Len(ss[k]) = 1
        BY <3>3
      <4> QED BY <3>3, <4>1
    <3>6. InPlace(b, ss, f, Len(xs))
      BY <3>4, <3>5, Zenon DEF InPlace
    <3> QED BY <3>6 DEF ss, f
  <2>3. RowsPlaced(b, t, xs)
    BY <1>5, <2>1, <2>2 DEF RowsPlaced
  <2> QED BY <2>3
<1>6. CASE t.k \in Leaves
  BY <1>2, <1>6 DEF RowsPlaced, Leaves
<1> QED BY <1>3, <1>4, <1>5, <1>6 DEF TypeOver, Kinds

(* Write at one node, where F[c] is Write at child c. *)
WriteBy(t, v, row, x, F) ==
  WriteRow(t, v, row, x, [c \in DOMAIN v.child |-> WrittenOn(F[c], v.child[c], First(t, v, row), Share(t, x, c))])

(* Child c has w[c][j] after its first j values. *)
Fed(F, w, t, xs) ==
  \A c \in DOMAIN Children(t) : \A j \in Below(Len(ChildValues(t, xs, c))) :
    F[c][<<w[c][j], j, ChildValues(t, xs, c)[j + 1]>>] = w[c][j + 1]

(* What a row of the vector v has when x was written to it; at is where its elements are. *)
RowHas(v, t, row, x, at) ==
  /\ row \in v.null <=> x = Null
  /\ t.k \in {"list", "map"} => row \in DOMAIN v.data /\ v.data[row] = <<at, Count(x)>>
  /\ t.k \in Leaves /\ x # Null => row \in DOMAIN v.data /\ v.data[row] = x[2]

(* The vector v has the first k of the values xs. *)
HasRows(v, t, xs, k, b, w) ==
  /\ IsVector(v) /\ v.child = [c \in DOMAIN Children(t) |-> w[c][b[k]]]
  /\ t.k \in {"list", "map"} => v.size = b[k]
  /\ \A r \in Below(k) : RowHas(v, t, r, xs[r + 1], b[r])

(* A row that is written leaves those before it as they were. *)
LEMMA RowsStay ==
  ASSUME NEW t, t.k \in Kinds, NEW v, NEW u, NEW k \in Nat, NEW y, NEW cs, RowWritten(u, t, v, k, y, cs),
         NEW r \in Nat, r # k, NEW x, NEW at, RowHas(v, t, r, x, at)
  PROVE  RowHas(u, t, r, x, at)
<1>1. u.null = IF y = Null THEN v.null \cup {k} ELSE v.null \ {k}
  BY DEF RowWritten
<1>2. r \in u.null <=> r \in v.null
  BY <1>1
<1>3. ASSUME r \in DOMAIN v.data, t.k \in {"list", "map"} \cup Leaves
      PROVE  r \in DOMAIN u.data /\ u.data[r] = v.data[r]
  <2>1. \/ u.data = Stored(v.data, k, <<v.size, Count(y)>>)
        \/ u.data = Stored(v.data, k, y[2])
        \/ u.data = v.data
    BY <1>3 DEF RowWritten
  <2> QED BY <1>3, <2>1 DEF Stored
<1> QED BY <1>2, <1>3 DEF RowHas

(* The row that is written has its value. *)
LEMMA RowIsWritten ==
  ASSUME NEW t, t.k \in Kinds, NEW v, NEW u, NEW k \in Nat, NEW y, NEW cs, RowWritten(u, t, v, k, y, cs),
         NEW at, t.k \in {"list", "map"} => v.size = at
  PROVE  RowHas(u, t, k, y, at)
BY DEF RowHas, RowWritten, Stored, Leaves

(* The writer goes on where the children of the rows before end. *)
LEMMA WritesNextRow ==
  ASSUME NEW t, t.k \in Kinds, NEW xs, NEW n, n = Len(xs), n \in Nat, NEW b, RowsPlaced(b, t, xs),
         DOMAIN xs = 1 .. n, NEW F, NEW w, Fed(F, w, t, xs),
         NEW k \in Nat, k < n, NEW v, HasRows(v, t, xs, k, b, w)
  PROVE  HasRows(WriteBy(t, v, k, xs[k + 1], F), t, xs, k + 1, b, w)
<1> DEFINE x == xs[k + 1]
           at == First(t, v, k)
           cs == [c \in DOMAIN v.child |-> WrittenOn(F[c], v.child[c], at, Share(t, x, c))]
           u == WriteRow(t, v, k, x, cs)
<1>1. PICK i \in 1 .. n : i = k + 1 /\ i - 1 = k /\ k \in 0 .. n
  OBVIOUS
<1>2. IsVector(v) /\ v.child = [c \in DOMAIN Children(t) |-> w[c][b[k]]]
      /\ (t.k \in {"list", "map"} => v.size = b[k])
  BY DEF HasRows
<1>3. ASSUME DOMAIN Children(t) # {}, t.k \notin Leaves
      PROVE  at = b[k]
  BY <1>1, <1>2, <1>3 DEF First, RowsPlaced, Kinds
<1>4. t.k \in Leaves => DOMAIN Children(t) = {}
  BY DEF Leaves, Children
<1>5. ASSUME NEW c \in DOMAIN Children(t)
      PROVE  cs[c] = w[c][b[k + 1]]
  <2> DEFINE part == Share(t, x, c)
             f == ChildValues(t, xs, c)
  <2>1. at = b[k] /\ v.child[c] = w[c][b[k]] /\ c \in DOMAIN v.child
    BY <1>2, <1>3, <1>4
  <2>2. PartsOf(t, xs, c)[i] = part
    BY <1>1 DEF PartsOf
  <2>3. cs[c] = WrittenOn(F[c], w[c][at], at, part)
    BY <2>1
  <2>4. InPlace(b, PartsOf(t, xs, c), f, n)
    BY DEF RowsPlaced
  <2> HIDE DEF part, f, at
  <2>5. /\ b[k] \in Nat /\ Len(part) \in Nat /\ b[i] = b[k] + Len(part)
        /\ \A j \in 1 .. Len(part) : b[k] + j \in 1 .. Len(f) /\ f[b[k] + j] = part[j]
    BY <1>1, <2>2, <2>4 DEF InPlace
  <2>6. ASSUME NEW j \in 1 .. Len(part)
        PROVE  F[c][<<w[c][at + j - 1], at + j - 1, part[j]>>] = w[c][at + j]
    <3> SUFFICES F[c][<<w[c][at + j - 1], at + j - 1, part[j]>>] = w[c][at + j]
      OBVIOUS
    <3>0. at \in Nat /\ j \in Nat /\ j >= 1
      BY <2>1, <2>5
    <3>1. PICK m \in Int : m = at + j - 1 /\ m + 1 = at + j /\ m >= 0
      BY ONLY <3>0
    <3>2. m + 1 \in 1 .. Len(f) /\ f[m + 1] = part[j]
      BY <2>1, <2>5, <3>1
    <3>3. m \in Below(Len(f))
      BY <3>1, <3>2 DEF Below
    <3>4. F[c][<<w[c][m], m, f[m + 1]>>] = w[c][m + 1]
      BY <3>3 DEF Fed, f
    <3> QED BY <3>1, <3>2, <3>4
  <2>7. at \in Nat /\ Len(part) \in Nat
    BY <2>1, <2>5
  <2>8. Follows(F[c], w[c], at, part)
    BY <2>6 DEF Follows
  <2>9. EndsAt(F[c], w[c], at, part)
    BY <2>7, <2>8, WrittenOnIs
  <2>10. WrittenOn(F[c], w[c][at], at, part) = w[c][at + Len(part)]
    BY <2>9 DEF EndsAt
  <2> QED BY <1>1, <2>1, <2>3, <2>5, <2>10
<1>6. cs = [c \in DOMAIN Children(t) |-> w[c][b[k + 1]]]
  <2>1. cs = [c \in DOMAIN v.child |-> cs[c]] /\ DOMAIN v.child = DOMAIN Children(t)
    BY <1>2
  <2> HIDE DEF cs
  <2> QED BY <1>5, <2>1
<1> HIDE DEF cs
<1>7. RowWritten(u, t, v, k, x, cs)
  BY <1>2, WriteRowIs
<1>8. IsVector(u) /\ u.child = cs
  BY <1>7 DEF RowWritten
<1>9. ASSUME t.k \in {"list", "map"}
      PROVE  u.size = b[k + 1]
  <2>1. u.size = v.size + Count(x)
    BY <1>7, <1>9 DEF RowWritten
  <2>2. b[i] = b[i - 1] + Count(xs[i])
    BY <1>9 DEF RowsPlaced
  <2> QED BY <1>1, <1>2, <1>9, <2>1, <2>2
<1> HIDE DEF u
<1>10. ASSUME NEW r \in Below(k + 1)
       PROVE  RowHas(u, t, r, xs[r + 1], b[r])
  <2>1. CASE r = k
    BY <1>2, <1>7, <2>1, RowIsWritten
  <2>2. CASE r # k
    <3>1. r \in Below(k) /\ r \in Nat
      BY <2>2 DEF Below
    <3>2. RowHas(v, t, r, xs[r + 1], b[r])
      BY <3>1 DEF HasRows
    <3> QED BY <1>7, <2>2, <3>1, <3>2, RowsStay
  <2> QED BY <2>1, <2>2
<1>11. HasRows(u, t, xs, k + 1, b, w)
  BY <1>6, <1>8, <1>9, <1>10 DEF HasRows
<1> QED BY <1>11 DEF u, cs, WriteBy

(* Write at each node, and the vectors it makes of a new one, row after row. *)
WriteOver(D, write, vecs) ==
  \A p \in D.nodes :
    /\ vecs[p][0] = Empty([c \in DOMAIN Children(D.t[p]) |-> OfKids(D, p, vecs)[c][0]])
    /\ \A k \in Below(Len(D.x[p])) :
         /\ vecs[p][k + 1] = write[p][<<vecs[p][k], k, D.x[p][k + 1]>>]
         /\ write[p][<<vecs[p][k], k, D.x[p][k + 1]>>]
              = WriteBy(D.t[p], vecs[p][k], k, D.x[p][k + 1], OfKids(D, p, write))

(* A new vector has no rows. *)
LEMMA NewHasNoRows ==
  ASSUME NEW t, t.k \in Kinds, NEW xs, Len(xs) \in Nat, NEW b, RowsPlaced(b, t, xs), t.k = "array" => t.n \in Nat,
         NEW w, NEW v, v = Empty([c \in DOMAIN Children(t) |-> w[c][0]])
  PROVE  HasRows(v, t, xs, 0, b, w)
<1> DEFINE cs == [c \in DOMAIN Children(t) |-> w[c][0]]
<1>1. DOMAIN Children(t) # {} => b[0] = 0
  BY DEF RowsPlaced, InPlace
<1>2. cs = [c \in DOMAIN Children(t) |-> w[c][b[0]]]
  BY <1>1
<1> HIDE DEF cs
<1>3. v = [null |-> {}, data |-> <<>>, size |-> 0, child |-> cs]
  BY DEF Empty, cs
<1>4. IsVector(v) /\ v.child = cs /\ v.size = 0
  BY <1>3 DEF IsVector
<1>5. t.k \in {"list", "map"} => b[0] = 0
  BY DEF RowsPlaced
<1>6. Below(0) = {}
  BY DEF Below
<1> QED BY <1>2, <1>4, <1>5, <1>6 DEF HasRows

(* After the last row the vector and its children have the column and its children. *)
LEMMA LastRow ==
  ASSUME NEW t, t.k \in Kinds, NEW xs, NEW n, n = Len(xs), n \in Nat, DOMAIN xs = 1 .. n,
         NEW b, RowsPlaced(b, t, xs), NEW w, NEW v, HasRows(v, t, xs, n, b, w),
         NEW cs, cs = [c \in DOMAIN Children(t) |-> w[c][Len(ChildValues(t, xs, c))]],
         NEW i \in DOMAIN xs, NEW row \in Nat, row = i - 1, row + 1 = i
  PROVE  ReceivedAs(v, t, xs, cs, i, row)
<1>1. RowHas(v, t, row, xs[i], b[row])
  <2>1. row \in Below(n)
    BY DEF Below
  <2> QED BY <2>1 DEF HasRows
<1>2. v.child = cs
  <2>1. \A c \in DOMAIN Children(t) : b[n] = Len(ChildValues(t, xs, c))
    BY DEF RowsPlaced, InPlace
  <2>2. v.child = [c \in DOMAIN Children(t) |-> w[c][b[n]]]
    BY DEF HasRows
  <2> QED BY <2>1, <2>2
<1>3. t.k \in {"list", "map"} => b[row] = Offset(Lengths(xs), i)
  BY DEF RowsPlaced
<1>4. Lengths(xs)[i] = Count(xs[i])
  BY DEF Lengths
<1> QED BY <1>1, <1>2, <1>3, <1>4 DEF ReceivedAs, RowHas

(* The vector of a node after k rows has k rows. *)
LEMMA RowsAreWritten ==
  ASSUME NEW TypeSet, NEW U, NEW D, ValueTree(D, TypeSet, U),
         NEW write, NEW vecs, WriteOver(D, write, vecs),
         NEW p \in D.nodes, NEW b, RowsPlaced(b, D.t[p], D.x[p])
  PROVE  \A k \in 0 .. Len(D.x[p]) : HasRows(vecs[p][k], D.t[p], D.x[p], k, b, OfKids(D, p, vecs))
<1> DEFINE t == D.t[p]
           xs == D.x[p]
           n == Len(xs)
           F == OfKids(D, p, write)
           w == OfKids(D, p, vecs)
           S == {k \in Nat : k <= n => HasRows(vecs[p][k], t, xs, k, b, w)}
<1>1. TypeOver(t, TypeSet) /\ AllOfType(t, xs, U)
  BY DEF ValueTree
<1>2. t.k \in Kinds /\ (t.k = "array" => t.n \in Nat)
  <2> HIDE DEF t
  <2> QED BY <1>1 DEF TypeOver
<1>3. n \in Nat /\ DOMAIN xs = 1 .. n
  <2> HIDE DEF xs, t
  <2> QED BY <1>1 DEF AllOfType
<1>4. Fed(F, w, t, xs)
  <2>1. ASSUME NEW c \in DOMAIN Children(t), NEW j \in Below(Len(ChildValues(t, xs, c)))
        PROVE  F[c][<<w[c][j], j, ChildValues(t, xs, c)[j + 1]>>] = w[c][j + 1]
    <3>1. PICK q : q = D.kid[p][c]
      OBVIOUS
    <3>2. q \in D.nodes /\ D.x[q] = ChildValues(t, xs, c)
      BY <3>1 DEF ValueTree
    <3>3. F[c] = write[q] /\ w[c] = vecs[q]
      BY <3>1 DEF OfKids
    <3>4. vecs[q][j + 1] = write[q][<<vecs[q][j], j, D.x[q][j + 1]>>]
      BY <3>2 DEF WriteOver
    <3> QED BY <3>2, <3>3, <3>4
  <2> HIDE DEF F, w, t, xs
  <2> QED BY <2>1 DEF Fed
<1>5. 0 \in S
  <2>1. vecs[p][0] = Empty([c \in DOMAIN Children(t) |-> w[c][0]])
    BY DEF WriteOver
  <2> HIDE DEF w, t, xs
  <2>2. RowsPlaced(b, t, xs)
    BY DEF t, xs
  <2>3. HasRows(vecs[p][0], t, xs, 0, b, w)
    BY <1>2, <1>3, <2>1, <2>2, NewHasNoRows
  <2> QED BY <2>3
<1>6. ASSUME NEW k \in S
      PROVE  k + 1 \in S
  <2> SUFFICES ASSUME k + 1 <= n
               PROVE  HasRows(vecs[p][k + 1], t, xs, k + 1, b, w)
    OBVIOUS
  <2>1. k \in Nat /\ k < n /\ k <= n
    BY <1>3
  <2>2. HasRows(vecs[p][k], t, xs, k, b, w)
    BY <2>1
  <2>3. k \in Below(n)
    BY <1>3, <2>1 DEF Below
  <2>4. vecs[p][k + 1] = WriteBy(t, vecs[p][k], k, xs[k + 1], F)
    BY <2>3 DEF WriteOver
  <2>5. RowsPlaced(b, t, xs)
    OBVIOUS
  <2> HIDE DEF S, t, xs, F, w
  <2>6. HasRows(WriteBy(t, vecs[p][k], k, xs[k + 1], F), t, xs, k + 1, b, w)
    BY <1>2, <1>3, <1>4, <2>1, <2>2, <2>5, WritesNextRow
  <2> QED BY <2>4, <2>6
<1>7. S = Nat
  <2>1. S \in SUBSET Nat
    OBVIOUS
  <2> HIDE DEF S
  <2> QED BY <1>5, <1>6, <2>1, Induction
<1> QED BY <1>3, <1>7

(* What is written, row by row, reads back. *)
THEOREM RowsReadBack ==
  ASSUME NEW TypeSet, NEW U, NEW D, ValueTree(D, TypeSet, U),
         NEW write, NEW vecs, WriteOver(D, write, vecs),
         NEW vector, \A p \in D.nodes : vector[p] = vecs[p][Len(D.x[p])],
         NEW read, ReadOver(D, vector, read)
  PROVE  \A p \in D.nodes : RowsFrom(read[p], Len(D.x[p])) = D.x[p]
<1>1. ASSUME NEW p \in D.nodes, NEW i \in DOMAIN D.x[p], NEW row \in Nat, row = i - 1, row + 1 = i
      PROVE  ReceivedAs(vector[p], D.t[p], D.x[p], OfKids(D, p, vector), i, row)
  <2> DEFINE t == D.t[p]
             xs == D.x[p]
             w == OfKids(D, p, vecs)
             cs == OfKids(D, p, vector)
  <2>1. TypeOver(t, TypeSet) /\ AllOfType(t, xs, U)
    BY DEF ValueTree
  <2>2. cs = [c \in DOMAIN Children(t) |-> w[c][Len(ChildValues(t, xs, c))]]
    <3>1. ASSUME NEW c \in DOMAIN Children(t)
          PROVE  vector[D.kid[p][c]] = w[c][Len(ChildValues(t, xs, c))]
      <4>1. PICK q : q = D.kid[p][c]
        OBVIOUS
      <4>2. q \in D.nodes /\ D.x[q] = ChildValues(t, xs, c)
        BY <4>1 DEF ValueTree
      <4>3. w[c] = vecs[q]
        BY <4>1 DEF OfKids
      <4> QED BY <4>1, <4>2, <4>3
    <3>2. cs = [c \in DOMAIN Children(t) |-> vector[D.kid[p][c]]]
      BY DEF OfKids
    <3> HIDE DEF cs, w, t, xs
    <3> QED BY <3>1, <3>2
  <2>3. ASSUME NEW b, RowsPlaced(b, t, xs)
        PROVE  HasRows(vecs[p][Len(xs)], t, xs, Len(xs), b, w)
    <3>1. \A k \in 0 .. Len(xs) : HasRows(vecs[p][k], t, xs, k, b, w)
      BY <2>3, RowsAreWritten
    <3>2. Len(xs) \in Nat
      <4> HIDE DEF xs, t
      <4> QED BY <2>1 DEF AllOfType
    <3> HIDE DEF xs, t, w
    <3> QED BY <3>1, <3>2
  <2>4. vector[p] = vecs[p][Len(xs)] /\ i \in DOMAIN xs
    OBVIOUS
  <2> HIDE DEF t, xs, w, cs
  <2>5. t.k \in Kinds /\ Len(xs) \in Nat /\ DOMAIN xs = 1 .. Len(xs) /\ xs # <<>>
    BY <2>1, <2>4 DEF TypeOver, AllOfType
  <2>6. PICK b : RowsPlaced(b, t, xs)
    BY <2>1, <2>5, PlacesOfRowsExist
  <2>7. HasRows(vector[p], t, xs, Len(xs), b, w)
    BY <2>3, <2>4, <2>6
  <2>8. ReceivedAs(vector[p], t, xs, cs, i, row)
    BY <1>1, <2>2, <2>4, <2>5, <2>6, <2>7, LastRow
  <2> QED BY <2>8 DEF t, xs, cs
<1>2. Holding(D, vector)
  BY <1>1 DEF Holding
<1> QED BY <1>2, ColumnReturns
=============================================================================
