---------------------------- MODULE ProviderProofs ----------------------------
(***************************************************************************)
(* Proofs about Provider, for any UDFs, runtimes, keys, endpoints, numbers *)
(* of attempts and limits: a UDF that DuckDB may call is served by every   *)
(* worker of its provider, and R at rest has left no worker process behind *)
(* that no release will find.                                              *)
(***************************************************************************)
EXTENDS Provider, TLAPS, SequenceTheorems, FiniteSetTheorems

StartOps   == {"launch", "setup", "ping"}
CallOps    == StartOps \cup {"register"}
ReleaseOps == {"release", "stop"}
Messages   == {WirePing, WireStop} \cup {WireRegister(u) : u \in Udfs}
Answers    == {"asked", "ok", "lost", "failed", "error"}

CallFrames ==
  [op : CallOps, token : Tokens, udf : Udfs, by : Nat, ends : Seq(Peers), attempt : Nat,
   keys : {{}}, msg : Messages, todo : Seq(Peers), at : Answers]
ReleaseFrames ==
  [op : ReleaseOps, token : Tokens, by : Nat, attempt : {0}, keys : SUBSET Keys,
   msg : {WireStop}, todo : Seq(Peers), at : Answers]
Frames == CallFrames \cup ReleaseFrames

Providers == [key : Keys, started : BOOLEAN, ends : Seq(Peers)]
Memories  == [known : SUBSET Udfs, order : Seq(Udfs), heard : Seq(Udfs)]

Typed ==
  /\ frames \in Seq(Frames) /\ store \in [Keys -> Nat] /\ provider \in Seq(Providers)
  /\ anchor \in [Tokens -> {"none", "attached", "detached"}]
  /\ udf \in [Udfs -> [life : {"new", "making", "callable", "refused"}, by : Nat]]
  /\ peer \in [Peers -> {"off", "daemon", "looping", "serving", "killed", "crashed"}]
  /\ launchedBy \in [Processes -> Nat] /\ memory \in [Peers -> Memories]
  /\ late \in [Peers -> SUBSET Messages]

(* Only the outermost call registers a UDF, and no two are about one runtime. *)
Shape ==
  /\ \A i \in DOMAIN frames : frames[i].op \in CallOps => i = 1
  /\ \A i, j \in DOMAIN frames : frames[i].token = frames[j].token => i = j

(* the workers of a request that have not answered it *)
Pending(f) ==
  IF f.todo = <<>> THEN {} ELSE IF f.at = "ok" THEN Range(Tail(f.todo)) ELSE Range(f.todo)

(* A provider with endpoints of the user has these; another has processes that
   were launched for it. *)
Its(ends, p) ==
  \A w \in Range(ends) :
    IF Theirs[provider[p].key] = <<>> THEN w \in Processes /\ launchedBy[w] = p
    ELSE w \in UserOwned

Ready(w) == peer[w] \in {"serving", "crashed"}
Knows(w, u) == peer[w] = "crashed" \/ u \in Range(memory[w].heard)

(* what a registration relies on *)
CallOK(f) ==
  /\ f.by \in DOMAIN provider /\ store[provider[f.by].key] = f.by
  /\ TokenOf[provider[f.by].key] = f.token
  /\ udf[f.udf] = [life |-> "making", by |-> f.by]
  /\ f.op = "register" <=> provider[f.by].started
  /\ f.op \in {"launch", "setup"} =>
       Theirs[provider[f.by].key] = <<>> /\ (f.todo = <<>> \/ f.at = "failed")
  /\ f.op \in {"setup", "ping"} => Its(f.ends, f.by)
  /\ f.op # "register" => f.msg = WirePing
  /\ f.op = "ping" => \A w \in Range(f.ends) : w \in Pending(f) \/ Ready(w)
  /\ f.op = "register" =>
       /\ f.msg = WireRegister(f.udf)
       /\ \A w \in Range(provider[f.by].ends) : w \in Pending(f) \/ Knows(w, f.udf)

(* what a release relies on *)
ReleaseOK(f) ==
  /\ anchor[f.token] = "detached"
  /\ \A k \in Keys : TokenOf[k] = f.token /\ store[k] # 0 => k \in f.keys
  /\ f.op = "release" => f.todo = <<>>
  /\ f.op = "stop" =>
       /\ f.by \in DOMAIN provider /\ provider[f.by].started
       /\ Theirs[provider[f.by].key] = <<>> /\ TokenOf[provider[f.by].key] = f.token
       /\ \A w \in Range(f.todo) : w \in Processes /\ launchedBy[w] = f.by

FrameOK(f) == IF f.op \in CallOps THEN CallOK(f) ELSE ReleaseOK(f)
FramesOK == \A i \in DOMAIN frames : FrameOK(frames[i])

(* A started provider is in the store, and its workers serve or have crashed. *)
ProvidersOK ==
  \A p \in DOMAIN provider : provider[p].started =>
    /\ store[provider[p].key] = p /\ Its(provider[p].ends, p)
    /\ ~BeingStopped(p) => \A w \in Range(provider[p].ends) : Ready(w)

StoreOK ==
  \A k \in Keys : store[k] # 0 =>
    /\ store[k] \in DOMAIN provider /\ provider[store[k]].key = k
    /\ anchor[TokenOf[k]] # "none"

(* a call is starting w *)
StartingIt(w) ==
  \E i \in DOMAIN frames : /\ frames[i].op \in {"setup", "ping"}
                           /\ frames[i].by = launchedBy[w] /\ w \in Range(frames[i].ends)

(* A process that lives belongs to a started provider or to one that starts. *)
PeersOK ==
  /\ \A w \in UserOwned : Ready(w)
  /\ \A w \in Processes : Alive(w) =>
       /\ launchedBy[w] \in DOMAIN provider
       /\ \/ /\ provider[launchedBy[w]].started
             /\ w \in Range(provider[launchedBy[w]].ends)
          \/ StartingIt(w)

LaunchesOK == Launched = 1 .. Cardinality(Launched)

(* A stop request is sent by a release that still stops its worker's provider. *)
LateOK ==
  \A w \in Peers : WireStop \in late[w] => w \in Processes /\ BeingStopped(launchedBy[w])

(* A provider of callable UDFs is started or gone, and its workers know them. *)
CallablesOK ==
  \A u \in Udfs : udf[u].life = "callable" =>
    /\ udf[u].by \in DOMAIN provider
    /\ store[provider[udf[u].by].key] = udf[u].by => provider[udf[u].by].started
    /\ provider[udf[u].by].started /\ ~BeingStopped(udf[u].by) =>
         \A w \in Range(provider[udf[u].by].ends) : Knows(w, u)

Distinct(s) == \A i, j \in 1 .. Len(s) : s[i] = s[j] => i = j
EndOf(o, h) == Len(o) <= Len(h) /\ \A i \in 1 .. Len(o) : o[i] = h[Len(h) - Len(o) + i]

(* A worker's order is the end of what it heard, each UDF once. *)
MemoryOK(m) ==
  /\ Distinct(m.heard) /\ EndOf(m.order, m.heard) /\ m.known = Range(m.order)
  /\ Len(m.order) <= RegistryMax /\ (Len(m.order) < RegistryMax => Len(m.order) = Len(m.heard))
MemoriesOK == \A w \in Peers : MemoryOK(memory[w])

ProviderInv ==
  /\ Typed /\ Shape /\ FramesOK /\ ProvidersOK /\ StoreOK /\ PeersOK /\ LaunchesOK
  /\ LateOK /\ CallablesOK /\ MemoriesOK

(*-------------------------------- the stack ------------------------------*)

(* what a step does to the stack: the call at i goes on as g, *)
Replaces(i, g) ==
  /\ frames' \in Seq(Frames) /\ DOMAIN frames' = DOMAIN frames
  /\ \A j \in DOMAIN frames : frames'[j] = IF j = i THEN g ELSE frames[j]

(* the innermost call returns, *)
Pops ==
  /\ frames' \in Seq(Frames) /\ DOMAIN frames' = DOMAIN frames \ {Len(frames)}
  /\ \A j \in DOMAIN frames' : frames'[j] = frames[j]

(* or another begins. *)
Pushes(g) ==
  /\ frames' \in Seq(Frames) /\ DOMAIN frames' = 1 .. Len(frames) + 1
  /\ frames'[Len(frames) + 1] = g /\ \A j \in DOMAIN frames : frames'[j] = frames[j]

LEMMA ReplaceAtPlace ==
  ASSUME frames \in Seq(Frames), NEW i \in DOMAIN frames, NEW g \in Frames,
         frames' = [frames EXCEPT ![i] = g]
  PROVE  Replaces(i, g)
<1>1. frames' \in Seq(Frames) /\ DOMAIN frames' = DOMAIN frames
  OBVIOUS
<1>2. \A j \in DOMAIN frames : frames'[j] = IF j = i THEN g ELSE frames[j]
  OBVIOUS
<1> QED BY <1>1, <1>2 DEF Replaces

LEMMA InnerFacts ==
  ASSUME frames \in Seq(Frames), frames # <<>>
  PROVE  Len(frames) \in DOMAIN frames /\ Inner = frames[Len(frames)] /\ Inner \in Frames
  BY DEF Inner, Last

LEMMA FrameAt ==
  ASSUME frames \in Seq(Frames), NEW i \in DOMAIN frames
  PROVE  frames[i] \in Frames
  OBVIOUS

LEMMA InnerMoves ==
  ASSUME frames \in Seq(Frames), frames # <<>>, NEW g \in Frames, frames' = Now(g)
  PROVE  Replaces(Len(frames), g)
  BY InnerFacts, ReplaceAtPlace DEF Now

LEMMA InnerReturns ==
  ASSUME frames \in Seq(Frames), frames # <<>>, frames' = Return
  PROVE  Pops
<1>1. PICK n \in Nat : Len(frames) = n + 1 /\ DOMAIN frames = 1 .. n + 1
  <2>1. Len(frames) \in Nat /\ Len(frames) # 0 /\ DOMAIN frames = 1 .. Len(frames)
    OBVIOUS
  <2>2. Len(frames) - 1 \in Nat /\ (Len(frames) - 1) + 1 = Len(frames)
    BY <2>1
  <2> QED BY <2>1, <2>2
<1>2. frames' = SubSeq(frames, 1, n)
  BY <1>1 DEF Return, Front
<1>3. /\ frames' \in Seq(Frames) /\ DOMAIN frames' = 1 .. n
      /\ \A j \in 1 .. n : frames'[j] = frames[j]
  BY <1>1, <1>2
<1>4. 1 .. n = (1 .. n + 1) \ {n + 1}
  OBVIOUS
<1> QED BY <1>1, <1>3, <1>4 DEF Pops

LEMMA InnerCalls ==
  ASSUME frames \in Seq(Frames), NEW g \in Frames, frames' = Append(frames, g)
  PROVE  Pushes(g)
  BY DEF Pushes

(* The call of a registration is alone when it goes on. *)
LEMMA CallIsAlone ==
  ASSUME frames \in Seq(Frames), Shape, frames # <<>>, Inner.op \in CallOps
  PROVE  Len(frames) = 1 /\ DOMAIN frames = {1} /\ Inner = frames[1] /\ Inner \in CallFrames
<1>1. Len(frames) = 1 /\ Inner = frames[1] /\ Inner \in Frames
  BY InnerFacts DEF Shape
<1>2. DOMAIN frames = {1}
  BY <1>1
<1>3. Inner \in CallFrames
  BY <1>1 DEF Frames, ReleaseFrames, CallOps, StartOps, ReleaseOps
<1> QED BY <1>1, <1>2, <1>3

LEMMA ShapeReplace ==
  ASSUME Shape, NEW i \in DOMAIN frames, NEW g \in Frames, Replaces(i, g),
         g.token = frames[i].token, g.op \in CallOps => frames[i].op \in CallOps
  PROVE  Shape'
  BY DEF Shape, Replaces

LEMMA ShapePop ==
  ASSUME Shape, Pops
  PROVE  Shape'
  BY DEF Shape, Pops

LEMMA ShapePush ==
  ASSUME Shape, frames \in Seq(Frames), NEW g \in Frames, Pushes(g),
         frames = <<>> \/ g.op \notin CallOps, \A i \in DOMAIN frames : frames[i].token # g.token
  PROVE  Shape'
<1>1. PICK n \in Nat : n = Len(frames) /\ DOMAIN frames = 1 .. n
  OBVIOUS
<1>2. \A i \in DOMAIN frames' : i \in DOMAIN frames \/ i = n + 1
  BY <1>1 DEF Pushes
<1>3. frames'[n + 1] = g /\ \A j \in DOMAIN frames : frames'[j] = frames[j]
  BY <1>1 DEF Pushes
<1>4. \A i \in DOMAIN frames' : frames'[i].op \in CallOps => i = 1
  <2>1. frames = <<>> => n = 0
    BY <1>1
  <2> QED BY <1>2, <1>3, <2>1 DEF Shape
<1>5. \A i, j \in DOMAIN frames' : frames'[i].token = frames'[j].token => i = j
  BY <1>2, <1>3 DEF Shape
<1> QED BY <1>4, <1>5 DEF Shape

(*------------------------------ what is kept -----------------------------*)

(* a worker goes on, or crashes; what it heard it does not forget before *)
Lives(w) ==
  /\ Ready(w) => Ready(w)'
  /\ \A u \in Udfs : Knows(w, u) => Knows(w, u)'

(* So does each worker but those that were launched for p. *)
Kept(p) ==
  /\ \A w \in Processes : launchedBy[w] # 0 => launchedBy'[w] = launchedBy[w]
  /\ \A w \in Peers : (w \in Processes /\ launchedBy[w] = p) \/ Lives(w)

(* Provider q stays as it is. *)
Steady(q) ==
  /\ q \in DOMAIN provider' /\ provider'[q] = provider[q]
  /\ store'[provider[q].key] = store[provider[q].key]

LEMMA PeerKinds == UserOwned \cap Processes = {} /\ Peers = Processes \cup UserOwned
  BY ProviderAssumption DEF Peers

LEMMA ProviderNumbers ==
  ASSUME Typed, NEW p \in DOMAIN provider
  PROVE  p \in Nat /\ p # 0 /\ provider[p] \in Providers
  BY DEF Typed

LEMMA ItsKept ==
  ASSUME NEW ends \in Seq(Peers), NEW q, q # 0, Its(ends, q), provider'[q] = provider[q], NEW p, Kept(p)
  PROVE  /\ Its(ends, q)'
         /\ p # q => \A w \in Range(ends) : Lives(w)
<1>1. \A w \in Range(ends) : w \in Peers
  BY DEF Range
<1>2. CASE Theirs[provider[q].key] = <<>>
  BY <1>1, <1>2 DEF Its, Kept
<1>3. CASE Theirs[provider[q].key] # <<>>
  BY <1>1, <1>3, PeerKinds DEF Its, Kept
<1> QED BY <1>2, <1>3

LEMMA FrameFields ==
  ASSUME NEW f \in CallFrames
  PROVE  /\ f.op \in CallOps /\ f.udf \in Udfs /\ f.ends \in Seq(Peers) /\ f.todo \in Seq(Peers)
         /\ f.token \in Tokens /\ f.by \in Nat /\ f.at \in Answers /\ f.msg \in Messages
         /\ f.attempt \in Nat /\ f.keys = {}
  BY DEF CallFrames

LEMMA CallKept ==
  ASSUME Typed, ProvidersOK, NEW f \in CallFrames, CallOK(f), Steady(f.by),
         udf'[f.udf] = udf[f.udf], NEW p, Kept(p), p # f.by
  PROVE  CallOK(f)'
<1>1. f.by \in DOMAIN provider /\ f.by # 0 /\ provider[f.by] \in Providers
  BY ProviderNumbers DEF CallOK
<1>2. provider'[f.by] = provider[f.by] /\ f.by \in DOMAIN provider'
      /\ store'[provider[f.by].key] = store[provider[f.by].key]
  BY DEF Steady
<1>3. f.op \in {"setup", "ping"} => Its(f.ends, f.by)' /\ \A w \in Range(f.ends) : Lives(w)
  BY <1>1, <1>2, ItsKept, FrameFields DEF CallOK
<1>4. f.op = "register" => \A w \in Range(provider[f.by].ends) : Lives(w)
  <2> SUFFICES ASSUME f.op = "register" PROVE \A w \in Range(provider[f.by].ends) : Lives(w)
    OBVIOUS
  <2>1. Its(provider[f.by].ends, f.by) /\ provider[f.by].ends \in Seq(Peers)
    BY <1>1 DEF CallOK, ProvidersOK, Providers
  <2> QED BY <1>1, <1>2, <2>1, ItsKept
<1>5. f.op = "ping" => \A w \in Range(f.ends) : w \in Pending(f) \/ Ready(w)'
  BY <1>3 DEF CallOK, Lives
<1>6. f.op = "register" => \A w \in Range(provider[f.by].ends) : w \in Pending(f) \/ Knows(w, f.udf)'
  BY <1>4, FrameFields DEF CallOK, Lives
<1>7. /\ f.by \in DOMAIN provider' /\ store'[provider'[f.by].key] = f.by
      /\ TokenOf[provider'[f.by].key] = f.token
      /\ udf'[f.udf] = [life |-> "making", by |-> f.by]
      /\ f.op = "register" <=> provider'[f.by].started
      /\ f.op \in {"launch", "setup"} =>
           Theirs[provider'[f.by].key] = <<>> /\ (f.todo = <<>> \/ f.at = "failed")
      /\ f.op # "register" => f.msg = WirePing
      /\ f.op = "register" => f.msg = WireRegister(f.udf)
  BY <1>1, <1>2 DEF CallOK
<1> QED BY <1>2, <1>3, <1>5, <1>6, <1>7 DEF CallOK

LEMMA ReleaseKept ==
  ASSUME Typed, NEW f \in ReleaseFrames, ReleaseOK(f), anchor'[f.token] = anchor[f.token],
         \A k \in Keys : TokenOf[k] = f.token => store'[k] = store[k],
         f.op = "stop" => Steady(f.by), NEW p, Kept(p)
  PROVE  ReleaseOK(f)'
<1>1. /\ anchor'[f.token] = "detached"
      /\ \A k \in Keys : TokenOf[k] = f.token /\ store'[k] # 0 => k \in f.keys
      /\ f.op = "release" => f.todo = <<>>
  BY DEF ReleaseOK
<1>2. ASSUME f.op = "stop"
      PROVE  /\ f.by \in DOMAIN provider' /\ provider'[f.by].started
             /\ Theirs[provider'[f.by].key] = <<>> /\ TokenOf[provider'[f.by].key] = f.token
             /\ \A w \in Range(f.todo) : w \in Processes /\ launchedBy'[w] = f.by
  <2>1. /\ f.by \in DOMAIN provider /\ f.by # 0 /\ provider[f.by].started
        /\ Theirs[provider[f.by].key] = <<>> /\ TokenOf[provider[f.by].key] = f.token
        /\ \A w \in Range(f.todo) : w \in Processes /\ launchedBy[w] = f.by
    BY <1>2, ProviderNumbers DEF ReleaseOK
  <2> QED BY <1>2, <2>1 DEF Steady, Kept
<1> QED BY <1>1, <1>2 DEF ReleaseOK

(* A step about one runtime leaves what the calls about others rely on. *)
Confined(t) ==
  /\ udf' = udf
  /\ \A q \in DOMAIN provider : TokenOf[provider[q].key] # t => Steady(q)
  /\ \A s \in Tokens : s # t => anchor'[s] = anchor[s]
  /\ \A k \in Keys : TokenOf[k] # t => store'[k] = store[k]

LEMMA OthersKept ==
  ASSUME ProviderInv, NEW t, Confined(t), NEW p, Kept(p),
         p \in DOMAIN provider => TokenOf[provider[p].key] = t,
         NEW f \in Frames, FrameOK(f), f.token # t
  PROVE  FrameOK(f)'
<1>1. CASE f \in CallFrames
  <2>1. f.op \in CallOps /\ CallOK(f)
    BY <1>1, FrameFields DEF FrameOK
  <2>2. f.by \in DOMAIN provider /\ TokenOf[provider[f.by].key] = f.token
    BY <2>1 DEF CallOK
  <2>3. Steady(f.by) /\ p # f.by /\ udf'[f.udf] = udf[f.udf]
    BY <2>2 DEF Confined
  <2>4. CallOK(f)'
    BY <1>1, <2>1, <2>3, CallKept DEF ProviderInv
  <2> QED BY <2>1, <2>4 DEF FrameOK
<1>2. CASE f \in ReleaseFrames
  <2>1. f.op \notin CallOps /\ ReleaseOK(f) /\ f.token \in Tokens
    BY <1>2 DEF FrameOK, ReleaseFrames, ReleaseOps, CallOps, StartOps
  <2>2. f.op = "stop" => Steady(f.by)
    BY <2>1 DEF ReleaseOK, Confined
  <2>3. anchor'[f.token] = anchor[f.token] /\ \A k \in Keys : TokenOf[k] = f.token => store'[k] = store[k]
    BY <2>1 DEF Confined
  <2>4. ReleaseOK(f)'
    BY <1>2, <2>1, <2>2, <2>3, ReleaseKept DEF ProviderInv
  <2> QED BY <2>1, <2>4 DEF FrameOK
<1> QED BY <1>1, <1>2 DEF Frames

(* So the stack is fit after a step of the call at i, *)
LEMMA FramesReplace ==
  ASSUME ProviderInv, NEW i \in DOMAIN frames, NEW g \in Frames, Replaces(i, g), FrameOK(g)',
         Confined(g.token), g.token = frames[i].token, NEW p, Kept(p),
         p \in DOMAIN provider => TokenOf[provider[p].key] = g.token
  PROVE  FramesOK'
<1> SUFFICES ASSUME NEW j \in DOMAIN frames' PROVE FrameOK(frames[j])'
  BY DEF FramesOK
<1>1. CASE j = i
  BY <1>1 DEF Replaces
<1>2. CASE j # i
  <2>1. PICK f : f = frames[j]
    OBVIOUS
  <2>2. j \in DOMAIN frames /\ f = frames'[j] /\ FrameOK(f) /\ f.token # g.token
    BY <1>2, <2>1 DEF Replaces, ProviderInv, Shape, FramesOK
  <2>4. f \in Frames
    BY <2>1, <2>2, FrameAt DEF ProviderInv, Typed
  <2>3. FrameOK(f)'
    BY <2>2, <2>4, OthersKept
  <2> QED BY <2>2, <2>3
<1> QED BY <1>1, <1>2

(* or after the innermost one's last. *)
LEMMA FramesPop ==
  ASSUME ProviderInv, frames # <<>>, Pops, Confined(Inner.token), NEW p, Kept(p),
         p \in DOMAIN provider => TokenOf[provider[p].key] = Inner.token
  PROVE  FramesOK'
<1> SUFFICES ASSUME NEW j \in DOMAIN frames' PROVE FrameOK(frames[j])'
  BY DEF FramesOK
<1>1. Len(frames) \in DOMAIN frames /\ Inner = frames[Len(frames)]
  BY InnerFacts DEF ProviderInv, Typed
<1>2. PICK f : f = frames[j]
  OBVIOUS
<1>3. j \in DOMAIN frames /\ j # Len(frames) /\ f = frames'[j]
  BY <1>2 DEF Pops
<1>4. f \in Frames /\ FrameOK(f) /\ f.token # Inner.token
  <2>1. f \in Frames
    BY <1>2, <1>3, FrameAt DEF ProviderInv, Typed
  <2>2. FrameOK(f)
    BY <1>2, <1>3 DEF ProviderInv, FramesOK
  <2>3. f.token # Inner.token
    BY <1>1, <1>2, <1>3 DEF ProviderInv, Shape
  <2> QED BY <2>1, <2>2, <2>3
<1>5. FrameOK(f)'
  BY <1>4, OthersKept
<1> QED BY <1>3, <1>5

(*---------------------------- serving callables --------------------------*)

LEMMA ServedKept ==
  ASSUME ProviderInv, NEW p, Kept(p),
         (p \in DOMAIN provider' /\ provider'[p].started) => BeingStopped(p)',
         \A q \in DOMAIN provider' : provider'[q].started => q \in DOMAIN provider /\ Steady(q),
         \A q \in DOMAIN provider : BeingStopped(q) => BeingStopped(q)' \/ ~provider'[q].started
  PROVE  ProvidersOK'
<1> SUFFICES ASSUME NEW q \in DOMAIN provider', provider'[q].started
             PROVE  /\ store'[provider'[q].key] = q /\ Its(provider[q].ends, q)'
                    /\ ~BeingStopped(q)' => \A w \in Range(provider'[q].ends) : Ready(w)'
  BY DEF ProvidersOK
<1>1. q \in DOMAIN provider /\ Steady(q)
  OBVIOUS
<1>2. q # 0 /\ provider[q].ends \in Seq(Peers)
  BY <1>1, ProviderNumbers DEF ProviderInv, Providers
<1>3. /\ provider[q].started /\ store[provider[q].key] = q /\ Its(provider[q].ends, q)
      /\ ~BeingStopped(q) => \A w \in Range(provider[q].ends) : Ready(w)
  BY <1>1 DEF ProviderInv, ProvidersOK, Steady
<1>4. provider'[q] = provider[q]
  BY <1>1 DEF Steady
<1>6. PICK es : es = provider[q].ends /\ es = provider'[q].ends
  BY <1>4
<1>7. Its(es, q)' /\ (p # q => \A w \in Range(es) : Lives(w))
  BY <1>2, <1>3, <1>4, <1>6, ItsKept
<1>8. ~BeingStopped(q)' => \A w \in Range(es) : Ready(w)'
  BY <1>1, <1>3, <1>6, <1>7 DEF Lives
<1>9. Its(es, q)' <=> Its(provider[q].ends, q)'
  BY <1>6
<1> QED BY <1>1, <1>3, <1>4, <1>6, <1>7, <1>8, <1>9 DEF Steady

LEMMA CallablesKept ==
  ASSUME ProviderInv, NEW p, Kept(p),
         (p \in DOMAIN provider' /\ provider'[p].started) => BeingStopped(p)',
         DOMAIN provider \subseteq DOMAIN provider',
         \A q \in DOMAIN provider' : provider'[q].started => q \in DOMAIN provider /\ Steady(q),
         \A q \in DOMAIN provider : BeingStopped(q) => BeingStopped(q)' \/ ~provider'[q].started,
         \A q \in DOMAIN provider : store'[provider'[q].key] = q =>
           store[provider[q].key] = q /\ provider'[q] = provider[q],
         \A u \in Udfs : udf'[u].life = "callable" => udf'[u] = udf[u]
  PROVE  CallablesOK'
<1> SUFFICES ASSUME NEW u \in Udfs, udf'[u].life = "callable"
             PROVE  /\ udf'[u].by \in DOMAIN provider'
                    /\ store'[provider'[udf'[u].by].key] = udf'[u].by => provider'[udf'[u].by].started
                    /\ provider'[udf'[u].by].started /\ ~BeingStopped(udf[u].by)' =>
                         \A w \in Range(provider'[udf'[u].by].ends) : Knows(w, u)'
  BY DEF CallablesOK
<1>1. PICK q : q = udf[u].by
  OBVIOUS
<1>2. udf'[u].by = q /\ q \in DOMAIN provider
      /\ (store[provider[q].key] = q => provider[q].started)
      /\ (provider[q].started /\ ~BeingStopped(q) => \A w \in Range(provider[q].ends) : Knows(w, u))
  BY <1>1 DEF ProviderInv, CallablesOK
<1>3. (BeingStopped(q)' <=> BeingStopped(udf[u].by)')
  BY <1>2
<1>4. ASSUME provider'[q].started, ~BeingStopped(q)'
      PROVE  \A w \in Range(provider'[q].ends) : Knows(w, u)'
  <2>1. Steady(q) /\ ~BeingStopped(q) /\ p # q /\ q # 0
    BY <1>2, <1>4, ProviderNumbers DEF ProviderInv
  <2>2. provider'[q] = provider[q] /\ provider[q].started
    BY <1>4, <2>1 DEF Steady
  <2>3. Its(provider[q].ends, q) /\ provider[q].ends \in Seq(Peers)
    BY <1>2, <2>2, ProviderNumbers DEF ProviderInv, ProvidersOK, Providers
  <2>4. \A w \in Range(provider[q].ends) : Lives(w)
    BY <2>1, <2>2, <2>3, ItsKept
  <2> QED BY <1>2, <2>1, <2>2, <2>4 DEF Lives
<1> QED BY <1>2, <1>3, <1>4

(*------------------------- the rest of the invariant ---------------------*)

LEMMA StopsReplace ==
  ASSUME NEW i \in DOMAIN frames, NEW g, Replaces(i, g),
         frames[i].op = "stop" => g.op = "stop" /\ g.by = frames[i].by
  PROVE  \A q : BeingStopped(q) => BeingStopped(q)'
<1> SUFFICES ASSUME NEW q, BeingStopped(q) PROVE BeingStopped(q)'
  OBVIOUS
<1>1. PICK j \in DOMAIN frames : frames[j].op = "stop" /\ frames[j].by = q
  BY DEF BeingStopped
<1>2. j \in DOMAIN frames' /\ frames'[j].op = "stop" /\ frames'[j].by = q
  BY <1>1 DEF Replaces
<1> QED BY <1>2 DEF BeingStopped

LEMMA StopsPop ==
  ASSUME frames \in Seq(Frames), frames # <<>>, Pops, Inner.op # "stop"
  PROVE  \A q : BeingStopped(q) => BeingStopped(q)'
<1> SUFFICES ASSUME NEW q, BeingStopped(q) PROVE BeingStopped(q)'
  OBVIOUS
<1>1. PICK j \in DOMAIN frames : frames[j].op = "stop" /\ frames[j].by = q
  BY DEF BeingStopped
<1>2. j # Len(frames)
  BY <1>1, InnerFacts
<1>3. j \in DOMAIN frames' /\ frames'[j].op = "stop" /\ frames'[j].by = q
  BY <1>1, <1>2 DEF Pops
<1> QED BY <1>3 DEF BeingStopped

LEMMA StopsPush ==
  ASSUME frames \in Seq(Frames), NEW g, Pushes(g)
  PROVE  \A q : BeingStopped(q) => BeingStopped(q)'
<1> SUFFICES ASSUME NEW q, BeingStopped(q) PROVE BeingStopped(q)'
  OBVIOUS
<1>1. PICK j \in DOMAIN frames : frames[j].op = "stop" /\ frames[j].by = q
  BY DEF BeingStopped
<1>2. j \in DOMAIN frames' /\ frames'[j].op = "stop" /\ frames'[j].by = q
  BY <1>1 DEF Pushes
<1> QED BY <1>2 DEF BeingStopped

(* A provider being stopped is one that was started here. *)
LEMMA StoppedIsStarted ==
  ASSUME ProviderInv, NEW q, BeingStopped(q)
  PROVE  q \in DOMAIN provider /\ provider[q].started /\ Theirs[provider[q].key] = <<>> /\ q # 0
<1>1. PICK j \in DOMAIN frames : frames[j].op = "stop" /\ frames[j].by = q
  BY DEF BeingStopped
<1>2. FrameOK(frames[j])
  BY <1>1 DEF ProviderInv, FramesOK
<1>3. ReleaseOK(frames[j])
  BY <1>1, <1>2 DEF FrameOK, CallOps, StartOps
<1>4. q \in DOMAIN provider /\ provider[q].started /\ Theirs[provider[q].key] = <<>>
  BY <1>1, <1>3 DEF ReleaseOK
<1> QED BY <1>4, ProviderNumbers DEF ProviderInv

LEMMA LateKept ==
  ASSUME ProviderInv, \A w \in Processes : launchedBy[w] # 0 => launchedBy'[w] = launchedBy[w],
         \A w \in Peers : WireStop \in late'[w] =>
           \/ WireStop \in late[w]
           \/ w \in Processes /\ BeingStopped(launchedBy[w]),
         \A q : BeingStopped(q) =>
           \/ BeingStopped(q)'
           \/ \A w \in Processes : launchedBy[w] = q => late'[w] = {}
  PROVE  LateOK'
<1> SUFFICES ASSUME NEW w \in Peers, WireStop \in late'[w]
             PROVE  w \in Processes /\ BeingStopped(launchedBy[w])'
  BY DEF LateOK
<1>1. PICK q : q = launchedBy[w]
  OBVIOUS
<1>2. w \in Processes /\ BeingStopped(q)
  BY <1>1 DEF ProviderInv, LateOK
<1>3. launchedBy'[w] = q
  BY <1>1, <1>2, StoppedIsStarted
<1>4. BeingStopped(q)'
  BY <1>1, <1>2
<1> QED BY <1>2, <1>3, <1>4

LEMMA PeersKept ==
  ASSUME ProviderInv, \A w \in UserOwned : Ready(w) => Ready(w)',
         \A w \in Processes : Alive(w)' =>
           /\ Alive(w) /\ launchedBy'[w] = launchedBy[w]
           /\ launchedBy[w] \in DOMAIN provider => Steady(launchedBy[w])
           /\ StartingIt(w) => StartingIt(w)'
  PROVE  PeersOK'
<1>1. \A w \in UserOwned : Ready(w)'
  BY DEF ProviderInv, PeersOK
<1>2. ASSUME NEW w \in Processes, Alive(w)'
      PROVE  /\ launchedBy'[w] \in DOMAIN provider'
             /\ \/ /\ provider'[launchedBy'[w]].started
                   /\ w \in Range(provider'[launchedBy'[w]].ends)
                \/ StartingIt(w)'
  <2>1. Alive(w) /\ launchedBy'[w] = launchedBy[w] /\ (StartingIt(w) => StartingIt(w)')
    BY <1>2
  <2>2. /\ launchedBy[w] \in DOMAIN provider
        /\ \/ /\ provider[launchedBy[w]].started
              /\ w \in Range(provider[launchedBy[w]].ends)
           \/ StartingIt(w)
    BY <2>1 DEF ProviderInv, PeersOK
  <2>3. Steady(launchedBy[w])
    BY <1>2, <2>2
  <2>4. launchedBy[w] \in DOMAIN provider' /\ provider'[launchedBy[w]] = provider[launchedBy[w]]
    BY <2>3 DEF Steady
  <2> QED BY <2>1, <2>2, <2>4
<1> QED BY <1>1, <1>2 DEF PeersOK

LEMMA StoreKept ==
  ASSUME ProviderInv,
         \A k \in Keys : store'[k] # 0 =>
           /\ store'[k] = store[k]
           /\ store[k] \in DOMAIN provider =>
                store[k] \in DOMAIN provider' /\ provider'[store[k]].key = provider[store[k]].key
           /\ anchor[TokenOf[k]] # "none" => anchor'[TokenOf[k]] # "none"
  PROVE  StoreOK'
<1> SUFFICES ASSUME NEW k \in Keys, store'[k] # 0
             PROVE  /\ store'[k] \in DOMAIN provider' /\ provider'[store'[k]].key = k
                    /\ anchor'[TokenOf[k]] # "none"
  BY DEF StoreOK
<1>1. store'[k] = store[k] /\ store[k] # 0
  OBVIOUS
<1>2. store[k] \in DOMAIN provider /\ provider[store[k]].key = k /\ anchor[TokenOf[k]] # "none"
  BY <1>1 DEF ProviderInv, StoreOK
<1> QED BY <1>1, <1>2

LEMMA BlankIsOK == Blank \in Memories /\ MemoryOK(Blank)
<1>1. Blank \in Memories /\ Len(Blank.heard) = 0 /\ Len(Blank.order) = 0
  BY DEF Blank, Memories
<1>2. Range(Blank.order) = {}
  BY DEF Blank, Range
<1> QED BY <1>1, <1>2, ProviderAssumption DEF MemoryOK, Distinct, EndOf, Blank

LEMMA MemoriesKept ==
  ASSUME ProviderInv, \A w \in Peers : memory'[w] \in {memory[w], Blank}
  PROVE  MemoriesOK'
<1> SUFFICES ASSUME NEW w \in Peers, NEW m, m = memory'[w] PROVE MemoryOK(m)
  BY DEF MemoriesOK
<1>1. CASE m = memory[w]
  BY <1>1 DEF ProviderInv, MemoriesOK
<1>2. CASE m = Blank
  BY <1>2, BlankIsOK
<1> QED BY <1>1, <1>2

(*------------------------ steps of the stack alone -----------------------*)

Idle == UNCHANGED <<store, provider, anchor, udf, peer, launchedBy, memory>>

LEMMA IdleKeeps ==
  ASSUME ProviderInv, Idle
  PROVE  /\ Kept(0) /\ 0 \notin DOMAIN provider /\ \A t : Confined(t)
         /\ \A q \in DOMAIN provider : Steady(q)
         /\ LaunchesOK' /\ StoreOK' /\ MemoriesOK'
<1>1. \A w : Lives(w)
  BY DEF Idle, Lives, Ready, Knows
<1>2. Kept(0)
  BY <1>1 DEF Idle, Kept
<1>3. \A q \in DOMAIN provider : Steady(q)
  BY DEF Steady, Idle
<1>4. \A t : Confined(t)
  BY <1>3 DEF Confined, Idle
<1>5. 0 \notin DOMAIN provider
  BY ProviderNumbers DEF ProviderInv
<1>6. LaunchesOK' /\ MemoriesOK'
  BY DEF Idle, ProviderInv, LaunchesOK, Launched, MemoriesOK
<1>7. StoreOK'
  BY DEF Idle, ProviderInv, StoreOK
<1> QED BY <1>2, <1>3, <1>4, <1>5, <1>6, <1>7

(* late may grow by what a request under way asks. *)
LateMoves ==
  /\ late' \in [Peers -> SUBSET Messages]
  /\ \A w \in Peers : WireStop \in late'[w] =>
       WireStop \in late[w] \/ (w \in Processes /\ BeingStopped(launchedBy[w]))

LEMMA IdleStep ==
  ASSUME ProviderInv, Idle, LateMoves, frames' \in Seq(Frames), Shape', FramesOK',
         \A q : BeingStopped(q) => BeingStopped(q)',
         \A w \in Processes : StartingIt(w) => StartingIt(w)'
  PROVE  ProviderInv'
<1>1. Typed'
  BY DEF ProviderInv, Typed, Idle, LateMoves
<1>2. /\ Kept(0) /\ 0 \notin DOMAIN provider /\ \A q \in DOMAIN provider : Steady(q)
      /\ LaunchesOK' /\ StoreOK' /\ MemoriesOK'
  BY IdleKeeps
<1>3. /\ provider' = provider /\ udf' = udf /\ launchedBy' = launchedBy /\ peer' = peer
      /\ store' = store
  BY DEF Idle
<1>4. ProvidersOK'
  BY <1>2, <1>3, ServedKept
<1>5. CallablesOK'
  BY <1>2, <1>3, CallablesKept
<1>6. LateOK'
  BY <1>3, LateKept DEF LateMoves
<1>7. PeersOK'
  <2>1. \A w : (Alive(w)' <=> Alive(w)) /\ (Ready(w)' <=> Ready(w))
    BY <1>3 DEF Alive, Ready
  <2> QED BY <1>2, <1>3, <2>1, PeersKept
<1> QED BY <1>1, <1>2, <1>4, <1>5, <1>6, <1>7 DEF ProviderInv

LEMMA StartingReplace ==
  ASSUME NEW i \in DOMAIN frames, NEW g, Replaces(i, g), launchedBy' = launchedBy,
         frames[i].op \in {"setup", "ping"} =>
           g.op \in {"setup", "ping"} /\ g.by = frames[i].by /\ g.ends = frames[i].ends
  PROVE  \A w \in Processes : StartingIt(w) => StartingIt(w)'
<1> SUFFICES ASSUME NEW w \in Processes, StartingIt(w) PROVE StartingIt(w)'
  OBVIOUS
<1>1. PICK j \in DOMAIN frames : /\ frames[j].op \in {"setup", "ping"}
                                 /\ frames[j].by = launchedBy[w] /\ w \in Range(frames[j].ends)
  BY DEF StartingIt
<1>2. /\ j \in DOMAIN frames' /\ frames'[j].op \in {"setup", "ping"}
      /\ frames'[j].by = launchedBy'[w] /\ w \in Range(frames'[j].ends)
  BY <1>1 DEF Replaces
<1> QED BY <1>2 DEF StartingIt

(* A call goes on and changes nothing else. *)
LEMMA GoesOn ==
  ASSUME ProviderInv, Idle, LateMoves, NEW i \in DOMAIN frames, NEW g \in Frames,
         Replaces(i, g), FrameOK(g)', g.token = frames[i].token,
         g.op \in CallOps => frames[i].op \in CallOps,
         frames[i].op = "stop" => g.op = "stop" /\ g.by = frames[i].by,
         frames[i].op \in {"setup", "ping"} =>
           g.op \in {"setup", "ping"} /\ g.by = frames[i].by /\ g.ends = frames[i].ends
  PROVE  ProviderInv'
<1>1. Kept(0) /\ 0 \notin DOMAIN provider /\ Confined(g.token)
  BY IdleKeeps
<1>2. Shape'
  BY ShapeReplace DEF ProviderInv
<1>3. FramesOK'
  BY <1>1, FramesReplace
<1>4. \A q : BeingStopped(q) => BeingStopped(q)'
  BY StopsReplace
<1>5. \A w \in Processes : StartingIt(w) => StartingIt(w)'
  BY StartingReplace DEF Idle
<1> QED BY <1>2, <1>3, <1>4, <1>5, IdleStep DEF Replaces

(* What a frame relies on does not mention the stack or the late requests. *)
LEMMA IdleFrame ==
  ASSUME Idle, NEW g
  PROVE  FrameOK(g)' <=> FrameOK(g)
<1>1. CallOK(g)' <=> CallOK(g)
  BY DEF Idle, CallOK, Its, Ready, Knows
<1>2. ReleaseOK(g)' <=> ReleaseOK(g)
  BY DEF Idle, ReleaseOK
<1> QED BY <1>1, <1>2 DEF FrameOK

(*------------------------------- transactions ----------------------------*)

(* the same call, with another request or another answer *)
SameCall(f, g) ==
  /\ g.op = f.op /\ g.token = f.token /\ g.by = f.by /\ g.keys = f.keys /\ g.msg = f.msg
  /\ f \in CallFrames => g.udf = f.udf /\ g.ends = f.ends

LEMMA AtChanges ==
  ASSUME NEW f \in Frames, NEW a \in Answers, NEW g, g = [f EXCEPT !.at = a]
  PROVE  g \in Frames /\ SameCall(f, g) /\ g.todo = f.todo /\ g.at = a
<1>1. CASE f \in CallFrames
  BY <1>1 DEF CallFrames, Frames, SameCall
<1>2. CASE f \in ReleaseFrames
  <2>1. f \notin CallFrames
    BY <1>2 DEF CallFrames, ReleaseFrames, CallOps, StartOps, ReleaseOps
  <2> QED BY <1>2, <2>1 DEF ReleaseFrames, Frames, SameCall
<1> QED BY <1>1, <1>2 DEF Frames

Asks(f, m, td, g) == g = Asking(f, m, td)

LEMMA TodoChanges ==
  ASSUME NEW f \in Frames, NEW td \in Seq(Peers), NEW g, Asks(f, f.msg, td, g)
  PROVE  g \in Frames /\ SameCall(f, g) /\ g.todo = td /\ g.at = "asked"
<1>1. CASE f \in CallFrames
  BY <1>1 DEF CallFrames, Frames, SameCall, Asks, Asking, Answers
<1>2. CASE f \in ReleaseFrames
  <2>1. f \notin CallFrames
    BY <1>2 DEF CallFrames, ReleaseFrames, CallOps, StartOps, ReleaseOps
  <2> QED BY <1>2, <2>1 DEF ReleaseFrames, Frames, SameCall, Asks, Asking, Answers
<1> QED BY <1>1, <1>2 DEF Frames

LEMMA FrameTodo ==
  ASSUME NEW f \in Frames
  PROVE  f.todo \in Seq(Peers) /\ f.msg \in Messages /\ f.at \in Answers /\ f.token \in Tokens
         /\ f.op \in CallOps \cup ReleaseOps
         /\ (f.op \in CallOps <=> f \in CallFrames) /\ (f.op \in ReleaseOps <=> f \in ReleaseFrames)
         /\ CallOps \cap ReleaseOps = {}
<1>1. CASE f \in CallFrames
  BY <1>1 DEF CallFrames, ReleaseFrames, CallOps, StartOps, ReleaseOps
<1>2. CASE f \in ReleaseFrames
  BY <1>2 DEF CallFrames, ReleaseFrames, CallOps, StartOps, ReleaseOps, Messages
<1> QED BY <1>1, <1>2 DEF Frames

LEMMA TailFacts ==
  ASSUME NEW s \in Seq(Peers), s # <<>>
  PROVE  /\ Head(s) \in Peers /\ Head(s) \in Range(s)
         /\ Tail(s) \in Seq(Peers) /\ Range(Tail(s)) \subseteq Range(s)
         /\ \A x \in Range(s) : x = Head(s) \/ x \in Range(Tail(s))
<1>1. PICK n \in Nat : Len(s) = n + 1 /\ DOMAIN s = 1 .. n + 1
  <2>1. Len(s) \in Nat /\ Len(s) # 0 /\ DOMAIN s = 1 .. Len(s)
    OBVIOUS
  <2>2. Len(s) - 1 \in Nat /\ (Len(s) - 1) + 1 = Len(s)
    BY <2>1
  <2> QED BY <2>1, <2>2
<1>2. /\ Tail(s) \in Seq(Peers) /\ Len(Tail(s)) = n /\ DOMAIN Tail(s) = 1 .. n
      /\ \A i \in 1 .. n : Tail(s)[i] = s[i + 1]
  BY <1>1, HeadTailProperties
<1>3. Head(s) = s[1] /\ 1 \in DOMAIN s /\ Head(s) \in Peers
  BY <1>1
<1>4. Head(s) \in Range(s)
  BY <1>3 DEF Range
<1>5. Range(Tail(s)) \subseteq Range(s)
  <2> SUFFICES ASSUME NEW i \in 1 .. n PROVE Tail(s)[i] \in Range(s)
    BY <1>2 DEF Range
  <2>1. i + 1 \in DOMAIN s
    BY <1>1
  <2> QED BY <1>2, <2>1 DEF Range
<1>6. ASSUME NEW i \in DOMAIN s, i # 1 PROVE s[i] \in Range(Tail(s))
  <2>1. PICK j \in 1 .. n : i = j + 1
    <3>1. i - 1 \in 1 .. n /\ i = (i - 1) + 1
      BY <1>1, <1>6
    <3> QED BY <3>1
  <2>2. Tail(s)[j] \in Range(Tail(s))
    BY <1>2 DEF Range
  <2> QED BY <1>2, <2>1, <2>2
<1> QED BY <1>2, <1>3, <1>4, <1>5, <1>6 DEF Range

LEMMA NothingInRange == Range(<<>>) = {}
  BY DEF Range

(* A call goes on well when those still to answer are no fewer. *)
LEMMA StillOK ==
  ASSUME NEW f \in Frames, NEW g \in Frames, FrameOK(f), SameCall(f, g),
         Pending(f) \subseteq Pending(g), Range(g.todo) \subseteq Range(f.todo),
         f.op \in {"launch", "setup"} => g.todo = <<>> \/ g.at = "failed",
         f.op = "release" => g.todo = <<>>
  PROVE  FrameOK(g)
<1>1. CASE f \in CallFrames
  <2>1. CallOK(f) /\ f.op \in CallOps
    BY <1>1, FrameTodo DEF FrameOK
  <2>2. CallOK(g)
    BY <1>1, <2>1 DEF SameCall, CallOK
  <2> QED BY <2>1, <2>2 DEF SameCall, FrameOK
<1>2. CASE f \in ReleaseFrames
  <2>1. ReleaseOK(f) /\ f.op \notin CallOps
    BY <1>2, FrameTodo DEF FrameOK
  <2>2. ReleaseOK(g)
    BY <2>1 DEF SameCall, ReleaseOK
  <2> QED BY <2>1, <2>2 DEF SameCall, FrameOK
<1> QED BY <1>1, <1>2 DEF Frames

(* So does every step of a transaction that changes at or todo. *)
LEMMA TransactionStep ==
  ASSUME ProviderInv, Idle, LateMoves, NEW i \in DOMAIN frames, NEW g \in Frames, Replaces(i, g),
         SameCall(frames[i], g), FrameOK(g)
  PROVE  ProviderInv'
<1>1. PICK f : f = frames[i]
  OBVIOUS
<1>2. f \in Frames
  BY <1>1, FrameAt DEF ProviderInv, Typed
<1>3. f.op \in {"setup", "ping"} => f \in CallFrames
  BY <1>2, FrameTodo DEF CallOps, StartOps
<1>4. FrameOK(g)'
  BY IdleFrame
<1>5. /\ g.token = frames[i].token /\ (g.op \in CallOps => frames[i].op \in CallOps)
      /\ (frames[i].op = "stop" => g.op = "stop" /\ g.by = frames[i].by)
      /\ (frames[i].op \in {"setup", "ping"} =>
            g.op \in {"setup", "ping"} /\ g.by = frames[i].by /\ g.ends = frames[i].ends)
  BY <1>1, <1>3 DEF SameCall
<1> QED BY <1>4, <1>5, GoesOn

LEMMA NothingLate ==
  ASSUME ProviderInv, UNCHANGED <<store, provider, anchor, udf, peer, launchedBy, memory, late>>
  PROVE  Idle /\ LateMoves
  BY DEF Idle, LateMoves, ProviderInv, Typed

LEMMA AnsweredStep ==
  ASSUME ProviderInv, Answered
  PROVE  ProviderInv'
<1>0. PICK i, f, m, td : i = Len(frames) /\ f = Inner /\ m = f.msg /\ td = Tail(f.todo)
  OBVIOUS
<1>a. PICK g : g = Asking(f, m, td) /\ Asks(f, m, td, g)
  BY DEF Asks
<1>1. i \in DOMAIN frames /\ f = frames[i] /\ f \in Frames /\ f.todo # <<>> /\ f.at = "ok"
  BY <1>0, InnerFacts DEF ProviderInv, Typed, Answered
<1>2. Idle /\ LateMoves
  BY NothingLate DEF Answered
<1>3. f.todo \in Seq(Peers) /\ td \in Seq(Peers) /\ Range(td) \subseteq Range(f.todo)
  BY <1>1, <1>0, FrameTodo, TailFacts
<1>4. g \in Frames /\ SameCall(f, g) /\ g.todo = td /\ g.at = "asked"
  <2>1. Asks(f, f.msg, td, g)
    BY <1>0, <1>a
  <2> QED BY <2>1, <1>1, <1>3, TodoChanges
<1>5. FrameOK(f)
  BY <1>1 DEF ProviderInv, FramesOK
<1>6. f.op \notin {"launch", "setup", "release"}
  BY <1>1, <1>5 DEF FrameOK, CallOK, ReleaseOK, CallOps, StartOps
<1>7. Pending(f) \subseteq Pending(g)
  BY <1>0, <1>1, <1>4, NothingInRange DEF Pending
<1>8. FrameOK(g)
  BY <1>1, <1>3, <1>4, <1>5, <1>6, <1>7, StillOK
<1>9. Replaces(i, g)
  BY <1>0, <1>4, <1>a, InnerMoves DEF ProviderInv, Typed, Answered
<1> QED BY <1>1, <1>2, <1>4, <1>8, <1>9, TransactionStep

(* An answer other than "ok", or none, leaves the worker among those to ask. *)
LEMMA AnswerFails ==
  ASSUME ProviderInv, NEW i \in DOMAIN frames, frames[i].at \in {"asked", "lost"},
         frames[i].todo # <<>>, NEW a \in {"asked", "lost", "failed", "error"},
         frames' = [frames EXCEPT ![i] = [frames[i] EXCEPT !.at = a]], Idle, LateMoves
  PROVE  ProviderInv'
<1> DEFINE f == frames[i]
           g == [f EXCEPT !.at = a]
<1>1. f \in Frames /\ a \in Answers
  BY FrameAt DEF ProviderInv, Typed, Answers
<1>2. g \in Frames /\ SameCall(f, g) /\ g.todo = f.todo /\ g.at = a
  BY <1>1, AtChanges
<1>3. FrameOK(f)
  BY DEF ProviderInv, FramesOK
<1>4. f.op \notin {"launch", "setup", "release"}
  BY <1>3 DEF FrameOK, CallOK, ReleaseOK, CallOps, StartOps
<1>5. Pending(f) \subseteq Pending(g)
  BY <1>2 DEF Pending
<1>6. FrameOK(g)
  BY <1>1, <1>2, <1>3, <1>4, <1>5, StillOK
<1>7. Replaces(i, g)
  BY <1>2, ReplaceAtPlace DEF ProviderInv, Typed
<1> HIDE DEF g
<1> QED BY <1>2, <1>6, <1>7, TransactionStep

LEMMA TryFailsStep ==
  ASSUME ProviderInv, TryFails
  PROVE  ProviderInv'
<1>1. PICK i, f : i = Len(frames) /\ f = Inner
  OBVIOUS
<1>2. i \in DOMAIN frames /\ f = frames[i] /\ f \in Frames
  BY <1>1, InnerFacts DEF ProviderInv, Typed, TryFails
<1>3. PICK a \in {"asked", "failed"} : frames' = Now([f EXCEPT !.at = a])
  BY <1>1 DEF TryFails
<1>4. frames' = [frames EXCEPT ![i] = [frames[i] EXCEPT !.at = a]]
  BY <1>1, <1>2, <1>3 DEF Now
<1>5. Idle /\ f.at \in {"asked", "lost"} /\ f.todo # <<>>
  BY <1>1 DEF Idle, TryFails
<1>6. LateMoves
  <2>1. CASE UNCHANGED late
    BY <2>1 DEF LateMoves, ProviderInv, Typed
  <2>2. CASE f.at = "asked" /\ late' = [late EXCEPT ![Head(f.todo)] = @ \cup {f.msg}]
    <3>1. f.msg \in Messages /\ f.todo \in Seq(Peers)
      BY <1>2, FrameTodo
    <3>2. PICK h \in Peers : h = Head(f.todo) /\ h \in Range(f.todo)
      BY <1>5, <3>1, TailFacts
    <3>3. /\ late' \in [Peers -> SUBSET Messages]
          /\ \A w \in Peers : late'[w] = IF w = h THEN late[w] \cup {f.msg} ELSE late[w]
      BY <2>2, <3>1, <3>2 DEF ProviderInv, Typed
    <3>4. ASSUME f.msg = WireStop PROVE h \in Processes /\ BeingStopped(launchedBy[h])
      <4>1. FrameOK(f)
        BY <1>2 DEF ProviderInv, FramesOK
      <4>2. f.op \notin CallOps
        <5>1. \A u : WireRegister(u) # WireStop
          BY DEF WireRegister, WireStop
        <5>2. WirePing # WireStop
          BY DEF WirePing, WireStop
        <5> QED BY <3>4, <4>1, <5>1, <5>2 DEF FrameOK, CallOK
      <4>3. ReleaseOK(f) /\ f.op = "stop"
        <5>1. ReleaseOK(f) /\ f.op \in ReleaseOps
          BY <1>2, <4>1, <4>2, FrameTodo DEF FrameOK
        <5> QED BY <1>5, <5>1 DEF ReleaseOK, ReleaseOps
      <4>4. h \in Processes /\ launchedBy[h] = f.by
        BY <3>2, <4>3 DEF ReleaseOK
      <4> QED BY <1>2, <4>3, <4>4 DEF BeingStopped
    <3> QED BY <3>3, <3>4 DEF LateMoves
  <2> QED BY <1>1, <2>1, <2>2 DEF TryFails
<1> QED BY <1>2, <1>3, <1>4, <1>5, <1>6, AnswerFails

LEMMA ServeErrorStep ==
  ASSUME ProviderInv, NEW i \in DOMAIN frames, ServeError(i)
  PROVE  ProviderInv'
<1>1. PICK a \in {"error", "lost"} : frames' = [frames EXCEPT ![i].at = a]
  BY DEF ServeError
<1>2. frames' = [frames EXCEPT ![i] = [frames[i] EXCEPT !.at = a]]
  BY <1>1
<1>3. frames[i].todo # <<>> /\ frames[i].at \in {"asked", "lost"}
  BY DEF ServeError
<1>4. Idle /\ LateMoves
  BY NothingLate DEF ServeError
<1> QED BY <1>1, <1>2, <1>3, <1>4, AnswerFails

LEMMA StopUnansweredStep ==
  ASSUME ProviderInv, StopUnanswered
  PROVE  ProviderInv'
<1>0. PICK i, f, m, td : i = Len(frames) /\ f = Inner /\ m = WireStop /\ td = Tail(f.todo)
  OBVIOUS
<1>a. PICK g : g = Asking(f, m, td) /\ Asks(f, m, td, g)
  BY DEF Asks
<1>1. /\ i \in DOMAIN frames /\ f = frames[i] /\ f \in Frames /\ f.op = "stop"
      /\ f.todo # <<>> /\ f.at = "failed"
  BY <1>0, InnerFacts DEF ProviderInv, Typed, StopUnanswered, Doing
<1>2. Idle /\ LateMoves
  BY NothingLate DEF StopUnanswered
<1>3. f \in ReleaseFrames /\ m = f.msg
  BY <1>0, <1>1, FrameTodo DEF ReleaseFrames, ReleaseOps
<1>4. f.todo \in Seq(Peers) /\ td \in Seq(Peers) /\ Range(td) \subseteq Range(f.todo)
  BY <1>1, <1>0, FrameTodo, TailFacts
<1>5. g \in Frames /\ SameCall(f, g) /\ g.todo = td /\ g.at = "asked"
  <2>1. Asks(f, f.msg, td, g)
    BY <1>0, <1>1, <1>3, <1>4, <1>a
  <2> QED BY <2>1, <1>1, <1>3, <1>4, TodoChanges
<1>6. ReleaseOK(f)
  BY <1>1 DEF ProviderInv, FramesOK, FrameOK, CallOps, StartOps
<1>7. FrameOK(g)
  <2>1. ReleaseOK(g)
    BY <1>1, <1>4, <1>5, <1>6 DEF SameCall, ReleaseOK
  <2> QED BY <1>1, <1>5, <2>1 DEF SameCall, FrameOK, CallOps, StartOps
<1>8. Replaces(i, g)
  <2>1. frames' = Now(g) /\ frames # <<>> /\ frames \in Seq(Frames)
    BY <1>0, <1>a DEF StopUnanswered, Doing, ProviderInv, Typed
  <2> QED BY <1>0, <1>5, <2>1, InnerMoves
<1> QED BY <1>1, <1>2, <1>5, <1>7, <1>8, TransactionStep

(*--------------------------------- release -------------------------------*)

(* a release goes on to another key, *)
Removes(f, k, g) == g = [f EXCEPT !.op = "release", !.keys = @ \ {k}, !.by = 0]

LEMMA RemovedFrame ==
  ASSUME NEW f \in ReleaseFrames, NEW k, NEW g, Removes(f, k, g)
  PROVE  /\ g \in ReleaseFrames /\ g \in Frames /\ g.op = "release" /\ g.token = f.token
         /\ g.keys = f.keys \ {k} /\ g.todo = f.todo
<1>1. g \in ReleaseFrames
  BY DEF Removes, ReleaseFrames, ReleaseOps
<1>2. g.op = "release" /\ g.token = f.token /\ g.keys = f.keys \ {k} /\ g.todo = f.todo
  BY DEF Removes, ReleaseFrames
<1> QED BY <1>1, <1>2 DEF Frames

(* or to the workers of a provider. *)
TurnsTo(f, p, td, g) == g = Asking([f EXCEPT !.op = "stop", !.by = p], WireStop, td)

LEMMA StoppingFrame ==
  ASSUME NEW f \in ReleaseFrames, NEW p \in Nat, NEW td \in Seq(Peers), NEW g, TurnsTo(f, p, td, g)
  PROVE  /\ g \in ReleaseFrames /\ g \in Frames /\ g.op = "stop" /\ g.token = f.token /\ g.by = p
         /\ g.keys = f.keys /\ g.todo = td
<1>1. g \in ReleaseFrames
  BY DEF TurnsTo, ReleaseFrames, ReleaseOps, Asking, Answers
<1>2. g.op = "stop" /\ g.token = f.token /\ g.keys = f.keys /\ g.todo = td /\ g.by = p
  BY DEF TurnsTo, ReleaseFrames, Asking
<1> QED BY <1>1, <1>2 DEF Frames

LEMMA ReleasingFacts ==
  ASSUME ProviderInv, Doing("release") \/ Doing("stop")
  PROVE  /\ frames # <<>> /\ frames \in Seq(Frames) /\ Len(frames) \in DOMAIN frames
         /\ Inner = frames[Len(frames)] /\ Inner \in Frames /\ Inner \in ReleaseFrames
         /\ ReleaseOK(Inner) /\ Inner.token \in Tokens
<1>1. /\ frames # <<>> /\ frames \in Seq(Frames) /\ Len(frames) \in DOMAIN frames
      /\ Inner = frames[Len(frames)] /\ Inner \in Frames
  BY InnerFacts DEF ProviderInv, Typed, Doing
<1>2. Inner \in ReleaseFrames /\ Inner.op \notin CallOps /\ Inner.token \in Tokens
  BY <1>1, FrameTodo DEF Doing, ReleaseOps
<1>3. ReleaseOK(Inner)
  BY <1>1, <1>2 DEF ProviderInv, FramesOK, FrameOK
<1> QED BY <1>1, <1>2, <1>3

LEMMA SkipKeyStep ==
  ASSUME ProviderInv, NEW k \in Keys, SkipKey(k)
  PROVE  ProviderInv'
<1>0. PICK i, f : i = Len(frames) /\ f = Inner
  OBVIOUS
<1>a. PICK g : Removes(f, k, g)
  BY DEF Removes
<1>1. /\ frames # <<>> /\ frames \in Seq(Frames) /\ i \in DOMAIN frames /\ f = frames[i]
      /\ f \in Frames /\ f \in ReleaseFrames /\ ReleaseOK(f) /\ f.op = "release"
  BY <1>0, ReleasingFacts DEF SkipKey, Doing
<1>2. Idle /\ LateMoves
  BY NothingLate DEF SkipKey
<1>3. /\ g \in ReleaseFrames /\ g \in Frames /\ g.op = "release" /\ g.token = f.token
      /\ g.keys = f.keys \ {k} /\ g.todo = f.todo
  BY <1>1, <1>a, RemovedFrame
<1>4. Replaces(i, g)
  BY <1>0, <1>1, <1>3, <1>a, InnerMoves DEF SkipKey, Removed, Removes
<1>5. TokenOf[k] # f.token
  BY <1>0 DEF SkipKey
<1>6. FrameOK(g)
  BY <1>1, <1>3, <1>5 DEF FrameOK, ReleaseOK, CallOps, StartOps
<1>7. FrameOK(g)'
  BY <1>2, <1>6, IdleFrame
<1>8. g.op \notin CallOps
  BY <1>3 DEF CallOps, StartOps
<1> QED BY <1>1, <1>2, <1>3, <1>4, <1>7, <1>8, GoesOn

LEMMA ReleaseFailsStep ==
  ASSUME ProviderInv, NEW k \in Keys, ReleaseFails(k)
  PROVE  ProviderInv'
<1>1. /\ frames # <<>> /\ frames \in Seq(Frames) /\ Inner.op = "release"
  BY ReleasingFacts DEF ReleaseFails, Doing
<1>2. Idle /\ LateMoves
  BY NothingLate DEF ReleaseFails
<1>3. Pops
  BY <1>1, InnerReturns DEF ReleaseFails
<1>4. Shape'
  BY <1>3, ShapePop DEF ProviderInv
<1>5. FramesOK'
  BY <1>1, <1>2, <1>3, IdleKeeps, FramesPop
<1>6. \A q : BeingStopped(q) => BeingStopped(q)'
  BY <1>1, <1>3, StopsPop
<1>7. ASSUME NEW w \in Processes, StartingIt(w) PROVE StartingIt(w)'
  <2>1. PICK j \in DOMAIN frames : /\ frames[j].op \in {"setup", "ping"}
                                   /\ frames[j].by = launchedBy[w] /\ w \in Range(frames[j].ends)
    BY <1>7 DEF StartingIt
  <2>2. j # Len(frames)
    BY <1>1, <2>1, InnerFacts
  <2> QED BY <1>2, <1>3, <2>1, <2>2 DEF StartingIt, Pops, Idle
<1> QED BY <1>2, <1>3, <1>4, <1>5, <1>6, <1>7, IdleStep DEF Pops

(* a provider is asked to stop, *)
LEMMA StopKeyAsksStep ==
  ASSUME ProviderInv, NEW k \in Keys, StopKey(k),
         provider[store[k]].started /\ Theirs[k] = <<>>
  PROVE  ProviderInv'
<1>0. PICK i, f, p, td : i = Len(frames) /\ f = Inner /\ p = store[k] /\ td = provider[p].ends
  OBVIOUS
<1>a. PICK g : g = Asking([f EXCEPT !.op = "stop", !.by = p], WireStop, td) /\ TurnsTo(f, p, td, g)
  BY DEF TurnsTo
<1>1. /\ frames # <<>> /\ frames \in Seq(Frames) /\ i \in DOMAIN frames /\ f = frames[i]
      /\ f \in Frames /\ f \in ReleaseFrames /\ ReleaseOK(f) /\ f.op = "release"
  BY <1>0, ReleasingFacts DEF StopKey, Doing
<1>2. Idle /\ LateMoves /\ frames' = Now(g)
  <2>1. frames' = Now(g) /\ UNCHANGED <<store, provider, anchor, udf, peer, launchedBy, memory, late>>
    BY <1>0, <1>a DEF StopKey
  <2> QED BY <2>1, NothingLate
<1>3. /\ p \in DOMAIN provider /\ provider[p].key = k /\ provider[p].started /\ Theirs[k] = <<>>
      /\ TokenOf[k] = f.token
  BY <1>0 DEF StopKey, ProviderInv, StoreOK
<1>4. p \in Nat /\ p # 0 /\ td \in Seq(Peers) /\ Its(td, p)
  BY <1>0, <1>3, ProviderNumbers DEF ProviderInv, ProvidersOK, Providers
<1>5. /\ g \in ReleaseFrames /\ g \in Frames /\ g.op = "stop" /\ g.token = f.token /\ g.by = p
      /\ g.keys = f.keys /\ g.todo = td
  BY <1>1, <1>4, <1>a, StoppingFrame
<1>6. \A w \in Range(td) : w \in Processes /\ launchedBy[w] = p
  BY <1>3, <1>4 DEF Its
<1>7. ReleaseOK(g)
  BY <1>1, <1>3, <1>5, <1>6 DEF ReleaseOK
<1>8. FrameOK(g)' /\ g.op \notin CallOps
  BY <1>2, <1>5, <1>7, IdleFrame DEF FrameOK, CallOps, StartOps
<1>9. Replaces(i, g)
  BY <1>0, <1>1, <1>2, <1>5, InnerMoves
<1> QED BY <1>1, <1>2, <1>5, <1>8, <1>9, GoesOn

(* No call is about a runtime that is not in use. *)
LEMMA NoneUsed ==
  ASSUME NEW t, ~Used(t)
  PROVE  \A i \in DOMAIN frames : frames[i].token # t
  BY DEF Used

LEMMA ReleaseStep ==
  ASSUME ProviderInv, NEW t \in Tokens, Release(t)
  PROVE  ProviderInv'
<1>1. PICK g : g = [op |-> "release", token |-> t, by |-> 0, attempt |-> 0,
                    keys |-> {k \in Keys : store[k] # 0}, msg |-> WireStop, todo |-> <<>>, at |-> "asked"]
  OBVIOUS
<1>2. /\ g \in ReleaseFrames /\ g.token = t /\ g.op = "release" /\ g.todo = <<>>
      /\ g.keys = {k \in Keys : store[k] # 0}
  BY <1>1 DEF ReleaseFrames, ReleaseOps, Answers
<1>3. frames \in Seq(Frames) /\ g \in Frames /\ frames' = Append(frames, g)
  BY <1>1, <1>2 DEF Release, ProviderInv, Typed, Frames
<1>4. Pushes(g)
  BY <1>3, InnerCalls
<1>5. \A i \in DOMAIN frames : frames[i].token # t
  BY NoneUsed DEF Release
<1>6. /\ store' = store /\ provider' = provider /\ udf' = udf /\ peer' = peer
      /\ launchedBy' = launchedBy /\ memory' = memory /\ late' = late
      /\ anchor' = [anchor EXCEPT ![t] = "detached"]
  BY DEF Release
<1>7. /\ anchor' \in [Tokens -> {"none", "attached", "detached"}] /\ anchor'[t] = "detached"
      /\ \A s \in Tokens : s # t => anchor'[s] = anchor[s]
  BY <1>6 DEF ProviderInv, Typed
<1>8. Typed'
  BY <1>4, <1>6, <1>7 DEF ProviderInv, Typed, Pushes
<1>9. g.op \notin CallOps
  BY <1>2 DEF CallOps, StartOps
<1>10. Shape'
  BY <1>2, <1>3, <1>4, <1>5, <1>9, ShapePush DEF ProviderInv
<1>11. Kept(0) /\ 0 \notin DOMAIN provider /\ \A q \in DOMAIN provider : Steady(q)
  <2>1. \A w : Lives(w)
    BY <1>6 DEF Lives, Ready, Knows
  <2>2. 0 \notin DOMAIN provider
    BY ProviderNumbers DEF ProviderInv
  <2> QED BY <1>6, <2>1, <2>2 DEF Kept, Steady
<1>12. Confined(t)
  BY <1>6, <1>7, <1>11 DEF Confined
<1>13. FramesOK'
  <2> SUFFICES ASSUME NEW j \in DOMAIN frames' PROVE FrameOK(frames[j])'
    BY DEF FramesOK
  <2>1. CASE j \in DOMAIN frames
    <3>1. PICK f : f = frames[j]
      OBVIOUS
    <3>2. f \in Frames /\ FrameOK(f) /\ f.token # t /\ frames'[j] = f
      BY <1>4, <1>5, <2>1, <3>1, FrameAt DEF ProviderInv, Typed, FramesOK, Pushes
    <3>3. FrameOK(f)'
      BY <1>11, <1>12, <3>2, OthersKept
    <3> QED BY <3>2, <3>3
  <2>2. CASE j \notin DOMAIN frames
    <3>1. frames'[j] = g
      BY <1>3, <1>4, <2>2 DEF Pushes
    <3>2. ReleaseOK(g)'
      BY <1>2, <1>6, <1>7 DEF ReleaseOK
    <3> QED BY <1>9, <3>1, <3>2 DEF FrameOK
  <2> QED BY <2>1, <2>2
<1>14. \A q : BeingStopped(q) => BeingStopped(q)'
  BY <1>3, <1>4, StopsPush
<1>15. ProvidersOK' /\ CallablesOK'
  BY <1>6, <1>11, <1>14, ServedKept, CallablesKept
<1>16. LateOK'
  BY <1>6, <1>14, LateKept
<1>17. StoreOK'
  <2>1. \A k \in Keys : TokenOf[k] \in Tokens
    BY ProviderAssumption
  <2> QED BY <1>6, <1>7, <2>1, StoreKept
<1>18. PeersOK'
  <2>1. ASSUME NEW w \in Processes, StartingIt(w) PROVE StartingIt(w)'
    <3>1. PICK j \in DOMAIN frames : /\ frames[j].op \in {"setup", "ping"}
                                     /\ frames[j].by = launchedBy[w] /\ w \in Range(frames[j].ends)
      BY <2>1 DEF StartingIt
    <3>2. /\ j \in DOMAIN frames' /\ frames'[j].op \in {"setup", "ping"}
          /\ frames'[j].by = launchedBy'[w] /\ w \in Range(frames'[j].ends)
      BY <1>3, <1>4, <1>6, <3>1 DEF Pushes
    <3> QED BY <3>2 DEF StartingIt
  <2>2. \A w : (Alive(w)' <=> Alive(w)) /\ (Ready(w)' <=> Ready(w))
    BY <1>6 DEF Alive, Ready
  <2> QED BY <1>6, <1>11, <2>1, <2>2, PeersKept
<1>19. LaunchesOK' /\ MemoriesOK'
  BY <1>6 DEF ProviderInv, LaunchesOK, Launched, MemoriesOK
<1> QED BY <1>8, <1>10, <1>13, <1>15, <1>16, <1>17, <1>18, <1>19 DEF ProviderInv

(*------------------------- a provider is given up ------------------------*)

(* Provider p, of key k, leaves the store. *)
Drops(p, k) ==
  /\ provider' \in Seq(Providers) /\ DOMAIN provider' = DOMAIN provider
  /\ \A q \in DOMAIN provider : q # p => provider'[q] = provider[q]
  /\ ~provider'[p].started /\ provider'[p].key = k
  /\ store' \in [Keys -> Nat] /\ store'[k] = 0 /\ \A j \in Keys : j # k => store'[j] = store[j]
  /\ anchor' = anchor /\ launchedBy' = launchedBy

(* Its processes have ended, the others go on. *)
Leaves(p) ==
  /\ peer' \in [Peers -> {"off", "daemon", "looping", "serving", "killed", "crashed"}]
  /\ memory' \in [Peers -> Memories] /\ late' \in [Peers -> SUBSET Messages]
  /\ \A w \in Peers : late'[w] \subseteq late[w] /\ memory'[w] \in {memory[w], Blank}
  /\ \A w \in Processes : launchedBy[w] = p => ~Alive(w)'
  /\ \A w \in Peers : \/ w \in Processes /\ launchedBy[w] = p
                      \/ peer'[w] = peer[w] /\ memory'[w] = memory[w]

LEMMA DropKeeps ==
  ASSUME ProviderInv, NEW p \in DOMAIN provider, NEW k, k = provider[p].key, store[k] = p,
         Drops(p, k), Leaves(p),
         \A w \in Processes : Alive(w)' => (StartingIt(w) => StartingIt(w)'),
         \A q : BeingStopped(q) =>
           BeingStopped(q)' \/ (q = p /\ \A w \in Processes : launchedBy[w] = p => late'[w] = {}),
         \A u \in Udfs : udf'[u].life = "callable" => udf'[u] = udf[u]
  PROVE  /\ ProvidersOK' /\ StoreOK' /\ PeersOK' /\ LaunchesOK' /\ LateOK' /\ CallablesOK'
         /\ MemoriesOK' /\ Kept(p)
         /\ \A q \in DOMAIN provider : provider[q].key # k => Steady(q)
<1>0. p \in Nat /\ p # 0 /\ k \in Keys /\ launchedBy' = launchedBy
  BY ProviderNumbers DEF ProviderInv, Providers, Drops
<1>1. \A w \in Peers : (w \in Processes /\ launchedBy[w] = p) \/ Lives(w)
  BY DEF Leaves, Lives, Ready, Knows
<1>2. Kept(p)
  BY <1>0, <1>1 DEF Kept
<1>3. ASSUME NEW q \in DOMAIN provider, provider[q].key # k PROVE Steady(q)
  <2>1. q # p /\ provider[q].key \in Keys
    BY <1>3, ProviderNumbers DEF ProviderInv, Providers
  <2> QED BY <1>3, <2>1 DEF Drops, Steady
<1>4. ASSUME NEW q \in DOMAIN provider', provider'[q].started
      PROVE  q \in DOMAIN provider /\ Steady(q)
  <2>1. q \in DOMAIN provider /\ q # p /\ provider[q].started
    BY <1>4 DEF Drops
  <2>2. provider[q].key # k
    BY <2>1 DEF ProviderInv, ProvidersOK
  <2> QED BY <1>3, <2>1, <2>2
<1>5. \A q \in DOMAIN provider : BeingStopped(q) => BeingStopped(q)' \/ ~provider'[q].started
  BY DEF Drops
<1>6. ~provider'[p].started /\ DOMAIN provider' = DOMAIN provider
  BY DEF Drops
<1>7. ProvidersOK'
  BY <1>2, <1>4, <1>5, <1>6, ServedKept
<1>8. CallablesOK'
  <2>1. ASSUME NEW q \in DOMAIN provider, store'[provider'[q].key] = q
        PROVE  store[provider[q].key] = q /\ provider'[q] = provider[q]
    <3>1. q # 0 /\ provider[q].key \in Keys
      BY ProviderNumbers DEF ProviderInv, Providers
    <3>2. q # p
      BY <1>0, <2>1, <3>1 DEF Drops
    <3> QED BY <2>1, <3>1, <3>2 DEF Drops
  <2> QED BY <1>2, <1>4, <1>5, <1>6, <2>1, CallablesKept
<1>9. StoreOK'
  <2> SUFFICES ASSUME NEW j \in Keys, store'[j] # 0
               PROVE  /\ store'[j] = store[j]
                      /\ store[j] \in DOMAIN provider =>
                           store[j] \in DOMAIN provider' /\ provider'[store[j]].key = provider[store[j]].key
                      /\ anchor[TokenOf[j]] # "none" => anchor'[TokenOf[j]] # "none"
    BY StoreKept
  <2>1. j # k /\ store'[j] = store[j] /\ anchor' = anchor
    BY DEF Drops
  <2>2. ASSUME store[j] \in DOMAIN provider PROVE provider'[store[j]].key = provider[store[j]].key
    BY <2>2 DEF Drops
  <2> QED BY <1>6, <2>1, <2>2
<1>10. LaunchesOK'
  BY <1>0 DEF ProviderInv, LaunchesOK, Launched
<1>11. LateOK'
  <2>1. \A w \in Peers : WireStop \in late'[w] => WireStop \in late[w]
    BY DEF Leaves
  <2> QED BY <1>0, <2>1, LateKept
<1>12. MemoriesOK'
  BY MemoriesKept DEF Leaves
<1>13. PeersOK'
  <2>1. \A w \in UserOwned : Ready(w) => Ready(w)'
    BY <1>1, PeerKinds DEF Lives
  <2>2. ASSUME NEW w \in Processes, Alive(w)'
        PROVE  /\ Alive(w) /\ (launchedBy[w] \in DOMAIN provider => Steady(launchedBy[w]))
    <3>1. w \in Peers /\ launchedBy[w] # p
      BY <2>2, PeerKinds DEF Leaves
    <3>2. Alive(w)
      BY <2>2, <3>1 DEF Leaves, Alive
    <3>3. CASE provider[launchedBy[w]].started /\ launchedBy[w] \in DOMAIN provider
      <4>1. store[provider[launchedBy[w]].key] = launchedBy[w]
        BY <3>3 DEF ProviderInv, ProvidersOK
      <4> QED BY <1>3, <3>1, <3>2, <3>3, <4>1
    <3>4. CASE StartingIt(w)
      <4>1. PICK i \in DOMAIN frames : frames[i].op \in {"setup", "ping"} /\ frames[i].by = launchedBy[w]
        BY <3>4 DEF StartingIt
      <4>2. CallOK(frames[i])
        BY <4>1 DEF ProviderInv, FramesOK, FrameOK, CallOps, StartOps
      <4>3. store[provider[launchedBy[w]].key] = launchedBy[w] /\ launchedBy[w] \in DOMAIN provider
        BY <4>1, <4>2 DEF CallOK
      <4> QED BY <1>3, <3>1, <3>2, <4>3
    <3> QED BY <3>2, <3>3, <3>4 DEF ProviderInv, PeersOK
  <2> QED BY <1>0, <2>1, <2>2, PeersKept
<1> QED BY <1>2, <1>3, <1>7, <1>8, <1>9, <1>10, <1>11, <1>12, <1>13

LEMMA ProviderChanges ==
  ASSUME provider \in Seq(Providers), NEW p \in DOMAIN provider, NEW v \in Providers,
         provider' = [provider EXCEPT ![p] = v]
  PROVE  /\ provider' \in Seq(Providers) /\ DOMAIN provider' = DOMAIN provider
         /\ provider'[p] = v /\ \A q \in DOMAIN provider : q # p => provider'[q] = provider[q]
  OBVIOUS

LEMMA ProviderOff ==
  ASSUME NEW v \in Providers
  PROVE  /\ [v EXCEPT !.started = FALSE] \in Providers
         /\ [v EXCEPT !.started = FALSE].key = v.key /\ ~[v EXCEPT !.started = FALSE].started
         /\ [v EXCEPT !.started = FALSE, !.ends = <<>>] \in Providers
         /\ [v EXCEPT !.started = FALSE, !.ends = <<>>].key = v.key
         /\ ~[v EXCEPT !.started = FALSE, !.ends = <<>>].started
<1>1. ASSUME NEW u, u = [v EXCEPT !.started = FALSE]
      PROVE  u \in Providers /\ u.key = v.key /\ ~u.started
  <2>1. u \in Providers
    BY <1>1 DEF Providers
  <2>2. u.key = v.key /\ ~u.started
    BY <1>1 DEF Providers
  <2> QED BY <2>1, <2>2
<1>2. ASSUME NEW u, u = [v EXCEPT !.started = FALSE, !.ends = <<>>]
      PROVE  u \in Providers /\ u.key = v.key /\ ~u.started
  <2>0. PICK e : e = <<>> /\ e \in Seq(Peers)
    <3>1. <<>> \in Seq(Peers)
      BY EmptySeq
    <3> QED BY <3>1
  <2>1. u \in Providers
    <3>1. PICK x : x = [v EXCEPT !.started = FALSE]
      OBVIOUS
    <3>2. u = [x EXCEPT !.ends = e]
      BY <1>2, <2>0, <3>1
    <3>3. x \in Providers
      BY <1>1, <3>1
    <3> QED BY <2>0, <3>2, <3>3 DEF Providers
  <2>2. u.key = v.key /\ ~u.started
    BY <1>2 DEF Providers
  <2> QED BY <2>1, <2>2
<1> QED BY <1>1, <1>2

(* mirai::daemons(NULL) *)
LEMMA ReapFacts ==
  ASSUME ProviderInv, NEW p, Reap(p)
  PROVE  /\ Leaves(p)
         /\ \A w \in Processes : launchedBy[w] = p => late'[w] = {}
<1>1. /\ peer' = [w \in Peers |-> IF w \in Processes /\ launchedBy[w] = p THEN "killed" ELSE peer[w]]
      /\ memory' = [w \in Peers |-> IF w \in Processes /\ launchedBy[w] = p THEN Blank ELSE memory[w]]
      /\ late' = [w \in Peers |-> IF w \in Processes /\ launchedBy[w] = p THEN {} ELSE late[w]]
  BY DEF Reap, End
<1>2. peer' \in [Peers -> {"off", "daemon", "looping", "serving", "killed", "crashed"}]
      /\ memory' \in [Peers -> Memories] /\ late' \in [Peers -> SUBSET Messages]
  BY <1>1, BlankIsOK DEF ProviderInv, Typed
<1>3. \A w \in Processes : w \in Peers
  BY PeerKinds
<1>4. \A w \in Processes : launchedBy[w] = p => peer'[w] = "killed" /\ late'[w] = {}
  BY <1>1, <1>3
<1> QED BY <1>1, <1>2, <1>4 DEF Leaves, Alive

(* The store entry of a provider of runtime t goes when the innermost call is a
   release of t; this one then goes on to the next key. *)
LEMMA RemovesStep ==
  ASSUME ProviderInv, Doing("release") \/ Doing("stop"), NEW p \in DOMAIN provider, NEW k,
         k = provider[p].key, store[k] = p, TokenOf[k] = Inner.token,
         Drops(p, k), Leaves(p), frames' = Removed(Inner, k), udf' = udf, Inner.todo = <<>>,
         Inner.op = "stop" => Inner.by = p /\ \A w \in Processes : launchedBy[w] = p => late'[w] = {}
  PROVE  ProviderInv'
<1>0. PICK i, f : i = Len(frames) /\ f = Inner
  OBVIOUS
<1>a. PICK g : g = [f EXCEPT !.op = "release", !.keys = @ \ {k}, !.by = 0] /\ Removes(f, k, g)
  BY DEF Removes
<1>1. /\ frames # <<>> /\ frames \in Seq(Frames) /\ i \in DOMAIN frames /\ f = frames[i]
      /\ f \in Frames /\ f \in ReleaseFrames /\ ReleaseOK(f) /\ f.op \in {"release", "stop"}
      /\ f.todo = <<>>
  BY <1>0, ReleasingFacts DEF Doing
<1>2. /\ g \in ReleaseFrames /\ g \in Frames /\ g.op = "release" /\ g.token = f.token
      /\ g.keys = f.keys \ {k} /\ g.todo = f.todo
  BY <1>1, <1>a, RemovedFrame
<1>3. Replaces(i, g)
  BY <1>0, <1>1, <1>2, <1>a, InnerMoves DEF Removed
<1>4. g.op \notin CallOps /\ f.op \notin {"setup", "ping"}
  BY <1>1, <1>2 DEF CallOps, StartOps
<1>5. Typed'
  BY <1>3 DEF ProviderInv, Typed, Drops, Leaves, Replaces
<1>6. Shape'
  BY <1>1, <1>2, <1>3, <1>4, ShapeReplace DEF ProviderInv
<1>7. \A w \in Processes : StartingIt(w) => StartingIt(w)'
  BY <1>1, <1>3, <1>4, StartingReplace DEF Drops
<1>8. ASSUME NEW q, BeingStopped(q)
      PROVE  BeingStopped(q)' \/ (q = p /\ \A w \in Processes : launchedBy[w] = p => late'[w] = {})
  <2>1. PICK j \in DOMAIN frames : frames[j].op = "stop" /\ frames[j].by = q
    BY <1>8 DEF BeingStopped
  <2>2. CASE j = i
    BY <1>0, <1>1, <2>1, <2>2
  <2>3. CASE j # i
    <3>1. j \in DOMAIN frames' /\ frames'[j] = frames[j]
      BY <1>3, <2>3 DEF Replaces
    <3> QED BY <2>1, <3>1 DEF BeingStopped
  <2> QED BY <2>2, <2>3
<1>9. /\ ProvidersOK' /\ StoreOK' /\ PeersOK' /\ LaunchesOK' /\ LateOK' /\ CallablesOK'
      /\ MemoriesOK' /\ Kept(p)
      /\ \A q \in DOMAIN provider : provider[q].key # k => Steady(q)
  BY <1>7, <1>8, DropKeeps
<1>10. Confined(g.token)
  BY <1>0, <1>2, <1>9 DEF Confined, Drops
<1>11. FrameOK(g)'
  <2>1. ReleaseOK(g)'
    <3>1. anchor'[g.token] = "detached"
      BY <1>1, <1>2 DEF ReleaseOK, Drops
    <3>2. \A j \in Keys : TokenOf[j] = g.token /\ store'[j] # 0 => j \in g.keys
      BY <1>1, <1>2 DEF ReleaseOK, Drops
    <3> QED BY <1>1, <1>2, <3>1, <3>2 DEF ReleaseOK
  <2> QED BY <1>4, <2>1 DEF FrameOK
<1>12. FramesOK'
  BY <1>0, <1>1, <1>2, <1>3, <1>9, <1>10, <1>11, FramesReplace
<1> QED BY <1>5, <1>6, <1>9, <1>12 DEF ProviderInv

(* A provider that is not started, or has workers of the user, goes at once; *)
LEMMA StopKeyRemovesStep ==
  ASSUME ProviderInv, NEW k \in Keys, StopKey(k),
         ~(provider[store[k]].started /\ Theirs[k] = <<>>)
  PROVE  ProviderInv'
<1>1. PICK p : p = store[k]
  OBVIOUS
<1>2. p \in DOMAIN provider /\ provider[p].key = k /\ p \in Nat /\ provider[p] \in Providers
  BY <1>1, ProviderNumbers DEF StopKey, ProviderInv, StoreOK
<1>3. /\ provider' = [provider EXCEPT ![p].started = FALSE] /\ store' = [store EXCEPT ![k] = 0]
      /\ frames' = Removed(Inner, k) /\ Doing("release") /\ TokenOf[k] = Inner.token
      /\ UNCHANGED <<anchor, udf, peer, launchedBy, memory, late>>
  BY <1>1 DEF StopKey
<1>4. Drops(p, k)
  <2>1. /\ provider' \in Seq(Providers) /\ DOMAIN provider' = DOMAIN provider
        /\ \A q \in DOMAIN provider : q # p => provider'[q] = provider[q]
        /\ ~provider'[p].started /\ provider'[p].key = k
    <3>a. PICK v \in Providers : v = provider[p]
      BY <1>2, <1>3
    <3> DEFINE u == [v EXCEPT !.started = FALSE]
    <3>1. u \in Providers /\ u.key = k /\ ~u.started
      BY <1>2, <3>a, ProviderOff
    <3>2. provider' = [provider EXCEPT ![p] = u]
      BY <1>3, <3>a
    <3> HIDE DEF u
    <3>4. provider \in Seq(Providers)
      BY DEF ProviderInv, Typed
    <3> QED BY <1>2, <3>1, <3>2, <3>4, ProviderChanges
  <2>2. store' \in [Keys -> Nat] /\ store'[k] = 0 /\ \A j \in Keys : j # k => store'[j] = store[j]
    BY <1>3 DEF ProviderInv, Typed
  <2> QED BY <1>3, <2>1, <2>2 DEF Drops
<1>5. ASSUME NEW w \in Processes, launchedBy[w] = p PROVE ~Alive(w)
  <2> SUFFICES ASSUME Alive(w) PROVE FALSE
    OBVIOUS
  <2>1. CASE provider[p].started /\ w \in Range(provider[p].ends)
    <3>1. Its(provider[p].ends, p) /\ Theirs[k] # <<>>
      BY <1>1, <1>2, <2>1 DEF ProviderInv, ProvidersOK
    <3> QED BY <1>2, <2>1, <3>1, PeerKinds DEF Its
  <2>2. CASE StartingIt(w)
    <3>1. PICK i \in DOMAIN frames : frames[i].op \in {"setup", "ping"} /\ frames[i].by = p
      BY <1>5, <2>2 DEF StartingIt
    <3>2. CallOK(frames[i])
      BY <3>1 DEF ProviderInv, FramesOK, FrameOK, CallOps, StartOps
    <3>3. frames[i].token = Inner.token
      BY <1>2, <1>3, <3>1, <3>2 DEF CallOK
    <3>4. i = Len(frames) /\ Inner = frames[i] /\ Inner.op = "release"
      BY <1>3, <3>3, ReleasingFacts DEF ProviderInv, Shape, Doing
    <3> QED BY <3>1, <3>4
  <2> QED BY <1>5, <2>1, <2>2 DEF ProviderInv, PeersOK
<1>6. Leaves(p)
  BY <1>3, <1>5 DEF Leaves, ProviderInv, Typed, Alive
<1>7. Inner.op = "release" /\ Inner.todo = <<>>
  BY <1>3, ReleasingFacts DEF Doing, ReleaseOK
<1> QED BY <1>1, <1>2, <1>3, <1>4, <1>6, <1>7, RemovesStep

LEMMA StopKeyStep ==
  ASSUME ProviderInv, NEW k \in Keys, StopKey(k)
  PROVE  ProviderInv'
  BY StopKeyAsksStep, StopKeyRemovesStep

(* one whose workers were asked, with their processes. *)
LEMMA StoppedStep ==
  ASSUME ProviderInv, Stopped
  PROVE  ProviderInv'
<1>1. PICK p, k : p = Inner.by /\ k = provider[p].key
  OBVIOUS
<1>2. /\ p \in DOMAIN provider /\ provider[p].started /\ TokenOf[k] = Inner.token
      /\ Inner.todo = <<>> /\ Inner.op = "stop" /\ Doing("stop")
  BY <1>1, ReleasingFacts DEF Stopped, ReleaseOK, Doing
<1>3. p \in Nat /\ provider[p] \in Providers /\ store[k] = p /\ k \in Keys
  BY <1>1, <1>2, ProviderNumbers DEF ProviderInv, ProvidersOK, Providers
<1>4. /\ provider' = [provider EXCEPT ![p].started = FALSE, ![p].ends = <<>>]
      /\ store' = [store EXCEPT ![k] = 0] /\ frames' = Removed(Inner, k) /\ Reap(p)
      /\ UNCHANGED <<anchor, udf, launchedBy>>
  BY <1>1 DEF Stopped
<1>5. Drops(p, k)
  <2>1. /\ provider' \in Seq(Providers) /\ DOMAIN provider' = DOMAIN provider
        /\ \A q \in DOMAIN provider : q # p => provider'[q] = provider[q]
        /\ ~provider'[p].started /\ provider'[p].key = k
    <3>a. PICK v \in Providers : v = provider[p]
      BY <1>2, <1>3
    <3> DEFINE u == [v EXCEPT !.started = FALSE, !.ends = <<>>]
    <3>1. u \in Providers /\ u.key = k /\ ~u.started
      BY <1>1, <3>a, ProviderOff
    <3>2. provider' = [provider EXCEPT ![p] = u]
      BY <1>4, <3>a
    <3> HIDE DEF u
    <3>4. provider \in Seq(Providers)
      BY DEF ProviderInv, Typed
    <3> QED BY <1>2, <3>1, <3>2, <3>4, ProviderChanges
  <2>2. store' \in [Keys -> Nat] /\ store'[k] = 0 /\ \A j \in Keys : j # k => store'[j] = store[j]
    BY <1>3, <1>4 DEF ProviderInv, Typed
  <2> QED BY <1>4, <2>1, <2>2 DEF Drops
<1>6. Leaves(p) /\ \A w \in Processes : launchedBy[w] = p => late'[w] = {}
  BY <1>4, ReapFacts
<1> QED BY <1>1, <1>2, <1>3, <1>4, <1>5, <1>6, RemovesStep

(* The last key is done: the runtime is detached. *)
LEMMA ReleasedStep ==
  ASSUME ProviderInv, Released
  PROVE  ProviderInv'
<1>0. PICK f, t : f = Inner /\ t = f.token
  OBVIOUS
<1>1. /\ frames # <<>> /\ frames \in Seq(Frames) /\ f = frames[Len(frames)]
      /\ Len(frames) \in DOMAIN frames /\ ReleaseOK(f) /\ f.op = "release" /\ t \in Tokens /\ f.keys = {}
  BY <1>0, ReleasingFacts DEF Released, Doing
<1>2. /\ store' = store /\ provider' = provider /\ udf' = udf /\ peer' = peer
      /\ launchedBy' = launchedBy /\ memory' = memory /\ late' = late
      /\ anchor' = [anchor EXCEPT ![t] = "none"] /\ frames' = Return
  BY <1>0 DEF Released
<1>3. /\ anchor' \in [Tokens -> {"none", "attached", "detached"}]
      /\ \A s \in Tokens : s # t => anchor'[s] = anchor[s]
  BY <1>2 DEF ProviderInv, Typed
<1>4. Pops
  BY <1>1, <1>2, InnerReturns
<1>5. Typed'
  BY <1>2, <1>3, <1>4 DEF ProviderInv, Typed, Pops
<1>6. Shape'
  BY <1>4, ShapePop DEF ProviderInv
<1>7. Kept(0) /\ 0 \notin DOMAIN provider /\ \A q \in DOMAIN provider : Steady(q)
  <2>1. \A w : Lives(w)
    BY <1>2 DEF Lives, Ready, Knows
  <2>2. 0 \notin DOMAIN provider
    BY ProviderNumbers DEF ProviderInv
  <2> QED BY <1>2, <2>1, <2>2 DEF Kept, Steady
<1>8. Confined(t)
  BY <1>2, <1>3, <1>7 DEF Confined
<1>9. FramesOK'
  BY <1>0, <1>1, <1>4, <1>7, <1>8, FramesPop
<1>10. \A q : BeingStopped(q) => BeingStopped(q)'
  BY <1>0, <1>1, <1>4, StopsPop
<1>11. ProvidersOK' /\ CallablesOK'
  BY <1>2, <1>7, <1>10, ServedKept, CallablesKept
<1>12. LateOK'
  BY <1>2, <1>10, LateKept
<1>13. StoreOK'
  <2>1. ASSUME NEW k \in Keys, store'[k] # 0, anchor[TokenOf[k]] # "none"
        PROVE  anchor'[TokenOf[k]] # "none"
    <3>1. TokenOf[k] # t /\ TokenOf[k] \in Tokens
      BY <1>0, <1>1, <1>2, <2>1, ProviderAssumption DEF ReleaseOK
    <3> QED BY <1>3, <2>1, <3>1
  <2> QED BY <1>2, <2>1, StoreKept
<1>14. PeersOK'
  <2>1. ASSUME NEW w \in Processes, StartingIt(w) PROVE StartingIt(w)'
    <3>1. PICK j \in DOMAIN frames : /\ frames[j].op \in {"setup", "ping"}
                                     /\ frames[j].by = launchedBy[w] /\ w \in Range(frames[j].ends)
      BY <2>1 DEF StartingIt
    <3>2. j # Len(frames)
      BY <1>1, <3>1
    <3> QED BY <1>2, <1>4, <3>1, <3>2 DEF StartingIt, Pops
  <2>2. \A w : (Alive(w)' <=> Alive(w)) /\ (Ready(w)' <=> Ready(w))
    BY <1>2 DEF Alive, Ready
  <2> QED BY <1>2, <1>7, <2>1, <2>2, PeersKept
<1>15. LaunchesOK' /\ MemoriesOK'
  BY <1>2 DEF ProviderInv, LaunchesOK, Launched, MemoriesOK
<1> QED BY <1>5, <1>6, <1>9, <1>11, <1>12, <1>13, <1>14, <1>15 DEF ProviderInv

(*------------------------------ registrations ----------------------------*)

LEMMA CallFacts ==
  ASSUME ProviderInv, frames # <<>>, Inner.op \in CallOps
  PROVE  /\ frames \in Seq(Frames) /\ Len(frames) = 1 /\ DOMAIN frames = {1} /\ Inner = frames[1]
         /\ Inner \in CallFrames /\ Inner \in Frames /\ CallOK(Inner)
         /\ Inner.by \in DOMAIN provider /\ Inner.by \in Nat /\ Inner.by # 0
         /\ provider[Inner.by] \in Providers /\ provider[Inner.by].key \in Keys
         /\ Inner.udf \in Udfs /\ Inner.token \in Tokens
         /\ \A q : ~BeingStopped(q)
<1>1. /\ frames \in Seq(Frames) /\ Len(frames) = 1 /\ DOMAIN frames = {1} /\ Inner = frames[1]
      /\ Inner \in CallFrames /\ Inner \in Frames
  BY CallIsAlone, InnerFacts DEF ProviderInv, Typed
<1>2. CallOK(Inner) /\ Inner.by \in DOMAIN provider
  BY <1>1 DEF ProviderInv, FramesOK, FrameOK, CallOK
<1>3. /\ Inner.by \in Nat /\ Inner.by # 0 /\ provider[Inner.by] \in Providers
      /\ provider[Inner.by].key \in Keys
  BY <1>2, ProviderNumbers DEF ProviderInv, Providers
<1>4. Inner.udf \in Udfs /\ Inner.token \in Tokens
  BY <1>1, FrameFields
<1>5. \A q : ~BeingStopped(q)
  BY <1>1 DEF BeingStopped, CallOps, StartOps
<1> QED BY <1>1, <1>2, <1>3, <1>4, <1>5

(* A call that returns leaves an empty stack. *)
LEMMA CallReturns ==
  ASSUME ProviderInv, frames # <<>>, Inner.op \in CallOps, frames' = Return
  PROVE  /\ frames' \in Seq(Frames) /\ DOMAIN frames' = {} /\ Shape' /\ FramesOK'
         /\ \A q : ~BeingStopped(q)'
         /\ \A w : ~StartingIt(w)'
<1>1. DOMAIN frames = {1} /\ Len(frames) = 1 /\ frames \in Seq(Frames)
  BY CallFacts
<1>2. Pops
  BY <1>1, InnerReturns
<1>3. frames' \in Seq(Frames) /\ DOMAIN frames' = {}
  BY <1>1, <1>2 DEF Pops
<1> QED BY <1>3 DEF Shape, FramesOK, BeingStopped, StartingIt

(* A registration ends, well or not. *)
LEMMA EndsStep ==
  ASSUME ProviderInv, Doing("register"), frames' = Return,
         UNCHANGED <<store, provider, anchor, peer, launchedBy, memory, late>>,
         NEW v \in [life : {"callable", "refused"}, by : Nat], udf' = [udf EXCEPT ![Inner.udf] = v],
         v.life = "callable" => v.by = Inner.by /\ Inner.todo = <<>>
  PROVE  ProviderInv'
<1>1. PICK f : f = Inner
  OBVIOUS
<1>2. /\ f \in CallFrames /\ CallOK(f) /\ f.udf \in Udfs /\ f.op = "register" /\ f.by \in DOMAIN provider
      /\ frames # <<>> /\ Inner.op \in CallOps /\ \A q : ~BeingStopped(q)
  BY <1>1, CallFacts DEF Doing, CallOps
<1>3. /\ frames' \in Seq(Frames) /\ DOMAIN frames' = {} /\ Shape' /\ FramesOK'
      /\ \A q : ~BeingStopped(q)'
  BY <1>2, CallReturns
<1>4. /\ udf' \in [Udfs -> [life : {"new", "making", "callable", "refused"}, by : Nat]]
      /\ \A u \in Udfs : udf'[u] = IF u = f.udf THEN v ELSE udf[u]
  BY <1>1, <1>2 DEF ProviderInv, Typed
<1>5. Typed'
  BY <1>3, <1>4 DEF ProviderInv, Typed
<1>6. ProvidersOK'
  BY <1>2, <1>3 DEF ProviderInv, ProvidersOK, Its, Ready
<1>7. StoreOK' /\ LaunchesOK' /\ MemoriesOK'
  BY DEF ProviderInv, StoreOK, LaunchesOK, Launched, MemoriesOK
<1>8. PeersOK'
  <2>1. \A w : ~StartingIt(w)
    BY <1>1, <1>2, CallFacts DEF StartingIt
  <2> QED BY <2>1 DEF ProviderInv, PeersOK, Ready, Alive
<1>9. LateOK'
  BY <1>2 DEF ProviderInv, LateOK
<1>10. CallablesOK'
  <2> SUFFICES ASSUME NEW u \in Udfs, udf'[u].life = "callable"
               PROVE  /\ udf'[u].by \in DOMAIN provider
                      /\ store[provider[udf'[u].by].key] = udf'[u].by => provider[udf'[u].by].started
                      /\ provider[udf'[u].by].started =>
                           \A w \in Range(provider[udf'[u].by].ends) : Knows(w, u)
    BY DEF CallablesOK, Knows
  <2>1. CASE u = f.udf
    <3>1. udf'[u].by = f.by /\ f.todo = <<>>
      BY <1>1, <1>4, <2>1
    <3>2. Pending(f) = {}
      BY <3>1 DEF Pending
    <3> QED BY <1>2, <2>1, <3>1, <3>2 DEF CallOK
  <2>2. CASE u # f.udf
    <3>1. udf'[u] = udf[u]
      BY <1>4, <2>2
    <3> QED BY <1>2, <3>1 DEF ProviderInv, CallablesOK
  <2> QED BY <2>1, <2>2
<1> QED BY <1>3, <1>5, <1>6, <1>7, <1>8, <1>9, <1>10 DEF ProviderInv

LEMMA RegisteredStep ==
  ASSUME ProviderInv, Registered
  PROVE  ProviderInv'
<1>1. PICK f : f = Inner
  OBVIOUS
<1>2. CallOK(f) /\ f.udf \in Udfs /\ f.by \in Nat /\ f.todo = <<>>
  BY <1>1, CallFacts DEF Registered, Doing, CallOps
<1>3. PICK v : v = [life |-> "callable", by |-> f.by]
  OBVIOUS
<1>4. udf[f.udf] = [life |-> "making", by |-> f.by]
  BY <1>2 DEF CallOK
<1>5. udf' = [udf EXCEPT ![f.udf] = v]
  <2>1. udf' = [udf EXCEPT ![f.udf] = [udf[f.udf] EXCEPT !.life = "callable"]]
    BY <1>1 DEF Registered
  <2>2. ASSUME NEW b PROVE [[life |-> "making", by |-> b] EXCEPT !.life = "callable"]
                           = [life |-> "callable", by |-> b]
    OBVIOUS
  <2>3. [udf[f.udf] EXCEPT !.life = "callable"] = v
    BY <1>3, <1>4, <2>2
  <2> QED BY <2>1, <2>3
<1>6. v \in [life : {"callable", "refused"}, by : Nat] /\ v.by = f.by
  BY <1>2, <1>3
<1> QED BY <1>1, <1>2, <1>5, <1>6, EndsStep DEF Registered

LEMMA RegisterFailsStep ==
  ASSUME ProviderInv, RegisterFails
  PROVE  ProviderInv'
<1>1. PICK v : v = [life |-> "refused", by |-> 0]
  OBVIOUS
<1>2. v \in [life : {"callable", "refused"}, by : Nat] /\ v.life # "callable"
  BY <1>1
<1>3. udf' = [udf EXCEPT ![Inner.udf] = v]
  BY <1>1 DEF RegisterFails
<1> QED BY <1>2, <1>3, EndsStep DEF RegisterFails

(*-------------------------------- starting up ----------------------------*)

(* the call of a registration goes on *)
LEMMA CallGoes ==
  ASSUME ProviderInv, frames # <<>>, Inner.op \in CallOps, NEW g \in CallFrames, frames' = Now(g),
         g.token = Inner.token, CallOK(g)'
  PROVE  /\ frames' \in Seq(Frames) /\ DOMAIN frames' = {1} /\ frames'[1] = g
         /\ Shape' /\ FramesOK' /\ \A q : ~BeingStopped(q)'
<1>1. /\ frames \in Seq(Frames) /\ Len(frames) = 1 /\ DOMAIN frames = {1} /\ g \in Frames
      /\ g.op \in CallOps /\ g.op # "stop"
  BY CallFacts, FrameFields DEF Frames, CallOps, StartOps
<1>2. Replaces(1, g)
  BY <1>1, InnerMoves
<1>3. frames' \in Seq(Frames) /\ DOMAIN frames' = {1} /\ frames'[1] = g
  BY <1>1, <1>2 DEF Replaces
<1>4. FrameOK(g)'
  BY <1>1 DEF FrameOK
<1>5. FramesOK'
  BY <1>3, <1>4 DEF FramesOK
<1> QED BY <1>1, <1>3, <1>5 DEF Shape, BeingStopped

(* A provider that starts owns no process, unless it started them already. *)
LEMMA NoneYet ==
  ASSUME ProviderInv, frames # <<>>, Inner.op \in StartOps,
         NEW w \in Processes, Alive(w), launchedBy[w] = Inner.by
  PROVE  Inner.op \in {"setup", "ping"} /\ w \in Range(Inner.ends)
<1>1. DOMAIN frames = {1} /\ Inner = frames[1] /\ CallOK(Inner)
  BY CallFacts DEF CallOps
<1>2. ~provider[Inner.by].started
  BY <1>1 DEF CallOK, StartOps
<1>3. StartingIt(w)
  BY <1>2 DEF ProviderInv, PeersOK
<1> QED BY <1>1, <1>3 DEF StartingIt

(* the frame of a call in another place, *)
Becomes(f, o, es, g) == g = [f EXCEPT !.op = o, !.ends = es]

LEMMA CallBecomes ==
  ASSUME NEW f \in CallFrames, NEW o \in CallOps, NEW es \in Seq(Peers), NEW g, Becomes(f, o, es, g)
  PROVE  /\ g \in CallFrames /\ g.op = o /\ g.ends = es /\ g.token = f.token /\ g.by = f.by
         /\ g.udf = f.udf /\ g.msg = f.msg /\ g.todo = f.todo /\ g.at = f.at
         /\ g.attempt = f.attempt
<1>1. g \in CallFrames
  BY DEF CallFrames, Becomes
<1>2. /\ g.op = o /\ g.ends = es /\ g.token = f.token /\ g.by = f.by
      /\ g.udf = f.udf /\ g.msg = f.msg /\ g.todo = f.todo /\ g.at = f.at /\ g.attempt = f.attempt
  BY DEF CallFrames, Becomes
<1> QED BY <1>1, <1>2

(* in another attempt, *)
Tries(f, o, a, g) == g = [f EXCEPT !.op = o, !.attempt = a]

LEMMA CallTries ==
  ASSUME NEW f \in CallFrames, NEW o \in CallOps, NEW a \in Nat, NEW g, Tries(f, o, a, g)
  PROVE  /\ g \in CallFrames /\ g.op = o /\ g.ends = f.ends /\ g.token = f.token /\ g.by = f.by
         /\ g.udf = f.udf /\ g.msg = f.msg /\ g.todo = f.todo /\ g.at = f.at
<1>1. g \in CallFrames
  BY DEF CallFrames, Tries
<1>2. /\ g.op = o /\ g.ends = f.ends /\ g.token = f.token /\ g.by = f.by
      /\ g.udf = f.udf /\ g.msg = f.msg /\ g.todo = f.todo /\ g.at = f.at
  BY DEF CallFrames, Tries
<1> QED BY <1>1, <1>2

(* or with another request. *)
LEMMA CallAsks ==
  ASSUME NEW f \in CallFrames, NEW m \in Messages, NEW td \in Seq(Peers), NEW g, Asks(f, m, td, g)
  PROVE  /\ g \in CallFrames /\ g.op = f.op /\ g.ends = f.ends /\ g.token = f.token /\ g.by = f.by
         /\ g.udf = f.udf /\ g.msg = m /\ g.todo = td /\ g.at = "asked"
<1>1. g \in CallFrames
  BY DEF CallFrames, Asks, Asking, Answers
<1>2. /\ g.op = f.op /\ g.ends = f.ends /\ g.token = f.token /\ g.by = f.by
      /\ g.udf = f.udf /\ g.msg = m /\ g.todo = td /\ g.at = "asked"
  BY DEF CallFrames, Asks, Asking
<1> QED BY <1>1, <1>2

(* Processes are launched from the first that is not in use. *)
LEMMA LaunchedFacts ==
  ASSUME ProviderInv
  PROVE  /\ Cardinality(Launched) \in Nat /\ Launched = 1 .. Cardinality(Launched)
         /\ \A w \in Processes : launchedBy[w] # 0 <=> w \in Launched
<1>1. IsFiniteSet(Processes)
  BY ProviderAssumption, FS_Interval DEF Processes
<1>2. Launched \subseteq Processes
  BY DEF Launched
<1>3. IsFiniteSet(Launched)
  BY <1>1, <1>2, FS_Subset
<1>4. Cardinality(Launched) \in Nat
  BY <1>3, FS_CardinalityType
<1> QED BY <1>4 DEF ProviderInv, LaunchesOK, Launched

Numbers(n, m, es) == es = [i \in 1 .. m |-> n + i]

LEMMA NumbersOf ==
  ASSUME NEW n \in Nat, NEW m \in Nat, n + m <= MaxProcesses, NEW es, Numbers(n, m, es)
  PROVE  /\ es \in Seq(Peers) /\ Range(es) = n + 1 .. n + m /\ Range(es) \subseteq Processes
         /\ 1 .. n + m = (1 .. n) \cup (n + 1 .. n + m)
<1>0. es = [i \in 1 .. m |-> n + i]
  BY DEF Numbers
<1>1. MaxProcesses \in Nat
  BY ProviderAssumption
<1>2. \A i \in 1 .. m : n + i \in n + 1 .. n + m /\ n + i \in Processes
  BY <1>1 DEF Processes
<1>3. es \in [1 .. m -> Peers]
  BY <1>0, <1>2, PeerKinds
<1>4. es \in Seq(Peers)
  BY <1>3
<1>5. Range(es) = n + 1 .. n + m
  <2>1. \A x \in Range(es) : x \in n + 1 .. n + m
    BY <1>0, <1>2 DEF Range
  <2>2. ASSUME NEW x \in n + 1 .. n + m PROVE x \in Range(es)
    <3>1. x - n \in 1 .. m /\ n + (x - n) = x
      OBVIOUS
    <3>2. DOMAIN es = 1 .. m /\ es[x - n] = x
      BY <1>0, <3>1
    <3> QED BY <3>1, <3>2 DEF Range
  <2> QED BY <2>1, <2>2
<1>6. Range(es) \subseteq Processes
  BY <1>1, <1>5 DEF Processes
<1> QED BY <1>4, <1>5, <1>6

(* mirai::daemons launches the processes of an attempt. *)
LEMMA LaunchStep ==
  ASSUME ProviderInv, Launch
  PROVE  ProviderInv'
<1>0. PICK f, p, n, m, es :
        /\ f = Inner /\ p = f.by /\ n = Cardinality(Launched) /\ m = Count[provider[p].key]
        /\ es = [i \in 1 .. m |-> n + i] /\ Numbers(n, m, es)
  BY DEF Numbers
<1>a. PICK g : g = [f EXCEPT !.op = "setup", !.ends = es] /\ Becomes(f, "setup", es, g)
  BY DEF Becomes
<1>1. /\ frames # <<>> /\ f.op = "launch" /\ Inner.op \in CallOps /\ Inner.op \in StartOps
      /\ f \in CallFrames /\ CallOK(f) /\ p \in DOMAIN provider /\ p \in Nat /\ p # 0
      /\ provider[p].key \in Keys /\ DOMAIN frames = {1} /\ frames[1] = f
      /\ \A q : ~BeingStopped(q)
  BY <1>0, CallFacts DEF Launch, Doing, CallOps, StartOps
<1>2. m \in Nat
  BY <1>0, <1>1, ProviderAssumption
<1>3. n \in Nat /\ Launched = 1 .. n /\ \A w \in Processes : launchedBy[w] # 0 <=> w \in 1 .. n
  BY <1>0, LaunchedFacts
<1>4. /\ n + m <= MaxProcesses
      /\ peer' = [w \in Peers |-> IF w \in n + 1 .. n + m THEN "daemon" ELSE peer[w]]
      /\ launchedBy' = [w \in Processes |-> IF w \in n + 1 .. n + m THEN p ELSE launchedBy[w]]
      /\ frames' = Now(g)
      /\ store' = store /\ provider' = provider /\ anchor' = anchor /\ udf' = udf
      /\ memory' = memory /\ late' = late
  BY <1>0, <1>a DEF Launch
<1>5. /\ es \in Seq(Peers) /\ Range(es) = n + 1 .. n + m /\ Range(es) \subseteq Processes
      /\ 1 .. n + m = (1 .. n) \cup (n + 1 .. n + m)
  <2>1. Numbers(n, m, es) /\ n + m <= MaxProcesses /\ n \in Nat /\ m \in Nat
    BY <1>0, <1>2, <1>3, <1>4
  <2> QED BY <2>1, NumbersOf
<1>6. /\ g \in CallFrames /\ g.op = "setup" /\ g.ends = es /\ g.token = f.token /\ g.by = p
      /\ g.udf = f.udf /\ g.msg = f.msg /\ g.todo = f.todo /\ g.at = f.at
  BY <1>0, <1>1, <1>5, <1>a, CallBecomes DEF CallOps, StartOps
<1>7. /\ \A w \in Peers : peer'[w] = IF w \in Range(es) THEN "daemon" ELSE peer[w]
      /\ \A w \in Processes : launchedBy'[w] = IF w \in Range(es) THEN p ELSE launchedBy[w]
      /\ \A w \in Range(es) : w \notin 1 .. n
  BY <1>3, <1>4, <1>5
<1>8. /\ peer' \in [Peers -> {"off", "daemon", "looping", "serving", "killed", "crashed"}]
      /\ launchedBy' \in [Processes -> Nat]
  BY <1>1, <1>4 DEF ProviderInv, Typed
<1>9. Kept(0)
  <2>1. ASSUME NEW w \in Peers, ~(w \in Processes /\ launchedBy[w] = 0) PROVE Lives(w)
    <3>1. w \notin Range(es)
      BY <1>3, <1>5, <1>7, <2>1
    <3>2. peer'[w] = peer[w] /\ memory' = memory
      BY <1>4, <1>7, <3>1
    <3> QED BY <3>2 DEF Lives, Ready, Knows
  <2>2. \A w \in Processes : launchedBy[w] # 0 => launchedBy'[w] = launchedBy[w]
    BY <1>3, <1>7
  <2> QED BY <2>1, <2>2 DEF Kept
<1>10. CallOK(g)'
  <2>1. Its(es, p)'
    BY <1>0, <1>1, <1>4, <1>5, <1>7 DEF Its, CallOK
  <2>2. Its(g.ends, g.by)'
    BY <1>6, <2>1
  <2> QED BY <1>0, <1>1, <1>4, <1>6, <2>2 DEF CallOK
<1>11. /\ frames' \in Seq(Frames) /\ DOMAIN frames' = {1} /\ frames'[1] = g
       /\ Shape' /\ FramesOK' /\ \A q : ~BeingStopped(q)'
  BY <1>0, <1>1, <1>4, <1>6, <1>10, CallGoes
<1>12. Typed'
  BY <1>4, <1>8, <1>11 DEF ProviderInv, Typed
<1>13. 0 \notin DOMAIN provider' /\ \A q \in DOMAIN provider : Steady(q)
  BY <1>4, ProviderNumbers DEF ProviderInv, Steady
<1>14. ProvidersOK' /\ CallablesOK'
  BY <1>1, <1>4, <1>9, <1>13, ServedKept, CallablesKept
<1>15. StoreOK' /\ MemoriesOK' /\ LateOK'
  BY <1>1, <1>4 DEF ProviderInv, StoreOK, MemoriesOK, LateOK
<1>16. LaunchesOK'
  <2>1. Launched' = 1 .. n + m
    <3>1. \A w \in Processes : launchedBy'[w] # 0 <=> w \in 1 .. n + m
      BY <1>1, <1>3, <1>5, <1>7
    <3>2. 1 .. n + m \subseteq Processes
      BY <1>2, <1>3, <1>4, ProviderAssumption DEF Processes
    <3> QED BY <3>1, <3>2 DEF Launched
  <2>2. Cardinality(1 .. n + m) = n + m
    BY <1>2, <1>3, FS_Interval
  <2> QED BY <2>1, <2>2 DEF LaunchesOK
<1>17. PeersOK'
  <2>1. \A w \in UserOwned : Ready(w)'
    BY <1>5, <1>7, PeerKinds DEF Ready, ProviderInv, PeersOK
  <2>2. ASSUME NEW w \in Processes, Alive(w)'
        PROVE  /\ launchedBy'[w] \in DOMAIN provider'
               /\ \/ /\ provider'[launchedBy'[w]].started
                     /\ w \in Range(provider'[launchedBy'[w]].ends)
                  \/ StartingIt(w)'
    <3>1. CASE w \in Range(es)
      <4>1. launchedBy'[w] = p
        BY <1>7, <3>1
      <4>2. StartingIt(w)'
        BY <1>6, <1>11, <3>1, <4>1 DEF StartingIt
      <4> QED BY <1>1, <1>4, <4>1, <4>2
    <3>2. CASE w \notin Range(es)
      <4>1. Alive(w) /\ launchedBy'[w] = launchedBy[w]
        BY <1>7, <2>2, <3>2, PeerKinds DEF Alive
      <4>2. ~StartingIt(w)
        BY <1>1 DEF StartingIt
      <4> QED BY <1>4, <4>1, <4>2 DEF ProviderInv, PeersOK
    <3> QED BY <3>1, <3>2
  <2> QED BY <2>1, <2>2 DEF PeersOK
<1> QED BY <1>11, <1>12, <1>14, <1>15, <1>16, <1>17 DEF ProviderInv

(* A step that concerns workers only. *)
LEMMA WorkersStep ==
  ASSUME ProviderInv, UNCHANGED <<store, provider, anchor, udf, launchedBy>>, LateMoves,
         peer' \in [Peers -> {"off", "daemon", "looping", "serving", "killed", "crashed"}],
         memory' \in [Peers -> Memories], MemoriesOK',
         frames' \in Seq(Frames), Shape', FramesOK',
         NEW p, Kept(p), p \in DOMAIN provider => BeingStopped(p)' \/ ~provider[p].started,
         \A q : BeingStopped(q) => BeingStopped(q)',
         \A w \in Processes : Alive(w)' => Alive(w) /\ (StartingIt(w) => StartingIt(w)')
  PROVE  ProviderInv'
<1>1. Typed'
  BY DEF ProviderInv, Typed, LateMoves
<1>2. \A q \in DOMAIN provider : Steady(q)
  BY DEF Steady
<1>3. ProvidersOK'
  BY <1>2, ServedKept
<1>4. CallablesOK'
  BY <1>2, CallablesKept
<1>5. LateOK'
  BY LateKept DEF LateMoves
<1>6. PeersOK'
  <2>1. \A w \in UserOwned : Ready(w) => Ready(w)'
    BY PeerKinds DEF Kept, Lives
  <2> QED BY <1>2, <2>1, PeersKept
<1>7. StoreOK' /\ LaunchesOK'
  BY DEF ProviderInv, StoreOK, LaunchesOK, Launched
<1> QED BY <1>1, <1>3, <1>4, <1>5, <1>6, <1>7 DEF ProviderInv

Turns(f, o, g) == g = [f EXCEPT !.op = o]

LEMMA CallTurns ==
  ASSUME NEW f \in CallFrames, NEW o \in CallOps, NEW g, Turns(f, o, g)
  PROVE  /\ g \in CallFrames /\ g.op = o /\ g.ends = f.ends /\ g.token = f.token /\ g.by = f.by
         /\ g.udf = f.udf /\ g.msg = f.msg /\ g.todo = f.todo /\ g.at = f.at
<1>1. g \in CallFrames
  BY DEF CallFrames, Turns
<1>2. /\ g.op = o /\ g.ends = f.ends /\ g.token = f.token /\ g.by = f.by
      /\ g.udf = f.udf /\ g.msg = f.msg /\ g.todo = f.todo /\ g.at = f.at
  BY DEF CallFrames, Turns
<1> QED BY <1>1, <1>2

(* The daemons get the worker loop, and are asked whether they serve. *)
LEMMA SetUpStep ==
  ASSUME ProviderInv, SetUp
  PROVE  ProviderInv'
<1>0. PICK f, es, m : f = Inner /\ es = f.ends /\ m = WirePing
  OBVIOUS
<1>a. PICK h : h = [f EXCEPT !.op = "ping"] /\ Turns(f, "ping", h)
  BY DEF Turns
<1>b. PICK g : g = Asking(h, m, es) /\ Asks(h, m, es, g)
  BY DEF Asks
<1>1. /\ frames # <<>> /\ f.op = "setup" /\ Inner.op \in CallOps
      /\ f \in CallFrames /\ CallOK(f) /\ DOMAIN frames = {1} /\ frames[1] = f
      /\ \A q : ~BeingStopped(q)
  BY <1>0, CallFacts DEF SetUp, Doing, CallOps, StartOps
<1>2. /\ peer' = [w \in Peers |-> IF w \in Range(es) /\ peer[w] = "daemon" THEN "looping" ELSE peer[w]]
      /\ store' = store /\ provider' = provider /\ anchor' = anchor /\ udf' = udf
      /\ launchedBy' = launchedBy /\ memory' = memory /\ late' = late
  BY <1>0 DEF SetUp
<1>3. frames' = Now(g)
  BY <1>0, <1>a, <1>b DEF SetUp
<1>4. /\ h \in CallFrames /\ h.op = "ping" /\ h.ends = es /\ h.token = f.token /\ h.by = f.by
      /\ h.udf = f.udf
  BY <1>0, <1>1, <1>a, CallTurns DEF CallOps, StartOps
<1>5. m \in Messages /\ es \in Seq(Peers)
  BY <1>0, <1>1, FrameFields DEF Messages
<1>6. /\ g \in CallFrames /\ g.op = "ping" /\ g.ends = es /\ g.token = f.token /\ g.by = f.by
      /\ g.udf = f.udf /\ g.msg = WirePing /\ g.todo = es /\ g.at = "asked"
  BY <1>0, <1>4, <1>5, <1>b, CallAsks
<1>7. /\ peer' \in [Peers -> {"off", "daemon", "looping", "serving", "killed", "crashed"}]
      /\ \A w \in Peers : peer'[w] = peer[w] \/ (peer[w] = "daemon" /\ peer'[w] = "looping")
  BY <1>2 DEF ProviderInv, Typed
<1>8. Kept(0) /\ 0 \notin DOMAIN provider
  BY <1>2, <1>7, ProviderNumbers DEF Kept, Lives, Ready, Knows, ProviderInv
<1>9. CallOK(g)'
  <2>1. \A w \in Range(g.ends) : w \in Pending(g)
    BY <1>6, NothingInRange DEF Pending
  <2> HIDE DEF Pending
  <2>2. Its(g.ends, g.by)'
    BY <1>0, <1>1, <1>2, <1>6 DEF CallOK, Its
  <2> QED BY <1>1, <1>2, <1>6, <2>1, <2>2 DEF CallOK
<1>10. /\ frames' \in Seq(Frames) /\ DOMAIN frames' = {1} /\ frames'[1] = g
       /\ Shape' /\ FramesOK' /\ \A q : ~BeingStopped(q)'
  BY <1>0, <1>1, <1>3, <1>6, <1>9, CallGoes
<1>11. \A w \in Processes : Alive(w)' => Alive(w) /\ (StartingIt(w) => StartingIt(w)')
  <2>1. ASSUME NEW w \in Processes, Alive(w)' PROVE Alive(w)
    BY <1>7, <2>1, PeerKinds DEF Alive
  <2>2. ASSUME NEW w \in Processes, StartingIt(w) PROVE StartingIt(w)'
    BY <1>0, <1>1, <1>2, <1>6, <1>10, <2>2 DEF StartingIt
  <2> QED BY <2>1, <2>2
<1>12. /\ memory' \in [Peers -> Memories] /\ MemoriesOK' /\ LateMoves
  BY <1>2 DEF ProviderInv, Typed, MemoriesOK, LateMoves
<1> QED BY <1>1, <1>2, <1>7, <1>8, <1>10, <1>11, <1>12, WorkersStep

LEMMA FailedFacts ==
  ASSUME ProviderInv, Failed
  PROVE  /\ frames # <<>> /\ Inner.op \in StartOps /\ Inner.op \in CallOps
         /\ Theirs[provider[Inner.by].key] = <<>> /\ (Inner.todo = <<>> \/ Inner.at = "failed")
         /\ Reap(Inner.by)
<1>1. frames # <<>> /\ Inner.op \in StartOps /\ Inner.op \in CallOps /\ Reap(Inner.by)
  BY DEF Failed, Doing, StartOps, CallOps
<1>2. CallOK(Inner)
  BY <1>1, CallFacts
<1> QED BY <1>1, <1>2 DEF Failed, Doing, CallOK

(* The daemons of an attempt that failed end, and another is made, *)
LEMMA AttemptFailsStep ==
  ASSUME ProviderInv, AttemptFails
  PROVE  ProviderInv'
<1>0. PICK f, p, a : f = Inner /\ p = f.by /\ a = f.attempt + 1
  OBVIOUS
<1>a. PICK g : g = [f EXCEPT !.op = "launch", !.attempt = a] /\ Tries(f, "launch", a, g)
  BY DEF Tries
<1>1. /\ frames # <<>> /\ f.op \in StartOps /\ Inner.op \in CallOps
      /\ Theirs[provider[p].key] = <<>> /\ (f.todo = <<>> \/ f.at = "failed") /\ Reap(p)
  BY <1>0, FailedFacts DEF AttemptFails
<1>2. /\ f \in CallFrames /\ CallOK(f) /\ DOMAIN frames = {1} /\ frames[1] = f
      /\ p \in DOMAIN provider /\ \A q : ~BeingStopped(q)
  BY <1>0, <1>1, CallFacts
<1>3. /\ store' = store /\ provider' = provider /\ anchor' = anchor /\ udf' = udf
      /\ launchedBy' = launchedBy
  BY DEF AttemptFails
<1>4. frames' = Now(g)
  <2>1. frames' = Now([f EXCEPT !.op = "launch", !.attempt = f.attempt + 1])
    BY <1>0 DEF AttemptFails
  <2> QED BY <1>0, <1>a, <2>1
<1>5. a \in Nat
  BY <1>0, <1>2, FrameFields
<1>6. /\ g \in CallFrames /\ g.op = "launch" /\ g.token = f.token /\ g.by = p
      /\ g.udf = f.udf /\ g.msg = f.msg /\ g.todo = f.todo /\ g.at = f.at
  BY <1>0, <1>2, <1>5, <1>a, CallTries DEF CallOps, StartOps
<1>7. CallOK(g)'
  BY <1>0, <1>1, <1>2, <1>3, <1>6 DEF CallOK, StartOps
<1>8. /\ frames' \in Seq(Frames) /\ DOMAIN frames' = {1} /\ frames'[1] = g
      /\ Shape' /\ FramesOK' /\ \A q : ~BeingStopped(q)'
  BY <1>0, <1>1, <1>4, <1>6, <1>7, CallGoes
<1>9. Leaves(p)
  BY <1>1, ReapFacts
<1>10. Kept(p)
  <2>1. \A w \in Peers : (w \in Processes /\ launchedBy[w] = p) \/ Lives(w)
    BY <1>9 DEF Leaves, Lives, Ready, Knows
  <2> QED BY <1>3, <2>1 DEF Kept
<1>11. ~provider[p].started
  BY <1>0, <1>1, <1>2 DEF CallOK, StartOps
<1>12. ASSUME NEW w \in Processes, Alive(w)' PROVE Alive(w) /\ (StartingIt(w) => StartingIt(w)')
  <2>1. launchedBy[w] # p /\ w \in Peers
    BY <1>9, <1>12, PeerKinds DEF Leaves
  <2>2. Alive(w)
    BY <1>9, <1>12, <2>1 DEF Leaves, Alive
  <2>3. ~StartingIt(w)
    BY <1>0, <1>2, <2>1 DEF StartingIt
  <2> QED BY <2>2, <2>3
<1>13. /\ peer' \in [Peers -> {"off", "daemon", "looping", "serving", "killed", "crashed"}]
       /\ memory' \in [Peers -> Memories] /\ LateMoves
  BY <1>9 DEF Leaves, LateMoves
<1>14. MemoriesOK'
  BY <1>9, MemoriesKept DEF Leaves
<1> QED BY <1>2, <1>3, <1>8, <1>10, <1>11, <1>12, <1>13, <1>14, WorkersStep

(* or the registration fails and the provider is given up. *)
LEMMA StartFailsStep ==
  ASSUME ProviderInv, StartFails
  PROVE  ProviderInv'
<1>0. PICK f, p, k : f = Inner /\ p = f.by /\ k = provider[p].key
  OBVIOUS
<1>1. frames # <<>> /\ f.op \in StartOps /\ Inner.op \in CallOps
  BY <1>0, FailedFacts DEF StartFails, Doing, StartOps, CallOps
<1>2. /\ f \in CallFrames /\ CallOK(f) /\ DOMAIN frames = {1} /\ frames[1] = f
      /\ p \in DOMAIN provider /\ k \in Keys /\ f.udf \in Udfs /\ \A q : ~BeingStopped(q)
  BY <1>0, <1>1, CallFacts
<1>3. /\ store' = [store EXCEPT ![k] = 0] /\ frames' = Return
      /\ udf' = [udf EXCEPT ![f.udf] = [life |-> "refused", by |-> 0]]
      /\ provider' = provider /\ anchor' = anchor /\ launchedBy' = launchedBy
  BY <1>0 DEF StartFails
<1>4. /\ frames' \in Seq(Frames) /\ Shape' /\ FramesOK' /\ \A q : ~BeingStopped(q)'
  BY <1>0, <1>1, <1>3, CallReturns
<1>5. ~provider[p].started /\ store[k] = p
  BY <1>0, <1>1, <1>2 DEF CallOK, StartOps
<1>6. Drops(p, k)
  BY <1>0, <1>2, <1>3, <1>5 DEF Drops, ProviderInv, Typed
<1>7. Leaves(p)
  <2>1. CASE Failed
    BY <1>0, <2>1, FailedFacts, ReapFacts
  <2>2. CASE /\ Doing("ping") /\ Theirs[k] # <<>>
             /\ UNCHANGED <<peer, memory, late>>
    <3>1. ASSUME NEW w \in Processes, launchedBy[w] = p PROVE ~Alive(w)
      <4> SUFFICES ASSUME Alive(w) PROVE FALSE
        OBVIOUS
      <4>1. f.op \in {"setup", "ping"} /\ w \in Range(f.ends)
        BY <1>0, <1>1, <3>1, NoneYet
      <4>2. Its(f.ends, p)
        BY <1>0, <1>2, <4>1 DEF CallOK
      <4> QED BY <1>0, <2>2, <4>1, <4>2, PeerKinds DEF Its
    <3> QED BY <2>2, <3>1 DEF Leaves, Alive, ProviderInv, Typed
  <2> QED BY <1>0, <2>1, <2>2 DEF StartFails
<1>8. \A w \in Processes : Alive(w)' => (StartingIt(w) => StartingIt(w)')
  BY <1>0, <1>2, <1>7 DEF StartingIt, Leaves
<1>9. /\ udf' \in [Udfs -> [life : {"new", "making", "callable", "refused"}, by : Nat]]
      /\ \A u \in Udfs : udf'[u].life = "callable" => udf'[u] = udf[u]
  BY <1>2, <1>3 DEF ProviderInv, Typed
<1>10. Typed'
  BY <1>3, <1>4, <1>6, <1>7, <1>9 DEF ProviderInv, Typed, Drops, Leaves
<1>11. /\ ProvidersOK' /\ StoreOK' /\ PeersOK' /\ LaunchesOK' /\ LateOK' /\ CallablesOK'
       /\ MemoriesOK'
  BY <1>0, <1>2, <1>5, <1>6, <1>7, <1>8, <1>9, DropKeeps
<1> QED BY <1>4, <1>10, <1>11 DEF ProviderInv

(* A started provider has every worker know the new UDF. *)
Registers(f, es, g) == g = Registering(f, es)

LEMMA CallRegisters ==
  ASSUME NEW f \in CallFrames, NEW es \in Seq(Peers), NEW g, Registers(f, es, g)
  PROVE  /\ g \in CallFrames /\ g.op = "register" /\ g.token = f.token /\ g.by = f.by
         /\ g.udf = f.udf /\ g.msg = WireRegister(f.udf) /\ g.todo = es /\ g.at = "asked"
<1>1. PICK e, m : e = <<>> /\ e \in Seq(Peers) /\ m = WireRegister(f.udf) /\ m \in Messages
  <2>1. <<>> \in Seq(Peers)
    BY EmptySeq
  <2>2. WireRegister(f.udf) \in Messages
    BY FrameFields DEF Messages
  <2> QED BY <2>1, <2>2
<1>2. PICK a : a = [f EXCEPT !.op = "register", !.ends = e] /\ Becomes(f, "register", e, a)
  BY DEF Becomes
<1>3. /\ a \in CallFrames /\ a.op = "register" /\ a.token = f.token /\ a.by = f.by /\ a.udf = f.udf
  <2>1. Becomes(f, "register", e, a) /\ e \in Seq(Peers) /\ "register" \in CallOps
    BY <1>1, <1>2 DEF CallOps
  <2> QED BY <2>1, CallBecomes
<1>4. PICK b : b = [a EXCEPT !.attempt = 1]
  OBVIOUS
<1>5. /\ b \in CallFrames /\ b.op = "register" /\ b.token = f.token /\ b.by = f.by /\ b.udf = f.udf
  <2>1. b \in CallFrames
    BY <1>3, <1>4 DEF CallFrames
  <2>2. /\ b.op = "register" /\ b.token = f.token /\ b.by = f.by /\ b.udf = f.udf
    BY <1>3, <1>4 DEF CallFrames
  <2> QED BY <2>1, <2>2
<1>6. Asks(b, m, es, g)
  <2>1. b = [f EXCEPT !.op = "register", !.ends = <<>>, !.attempt = 1]
    BY <1>1, <1>2, <1>4
  <2> QED BY <1>1, <2>1 DEF Registers, Registering, Asks
<1> QED BY <1>1, <1>5, <1>6, CallAsks

StartsAt(v, es, u) == u = [v EXCEPT !.started = TRUE, !.ends = es]

LEMMA ProviderOn ==
  ASSUME NEW v \in Providers, NEW es \in Seq(Peers), NEW u, StartsAt(v, es, u)
  PROVE  u \in Providers /\ u.key = v.key /\ u.started /\ u.ends = es
<1>1. u \in Providers
  BY DEF Providers, StartsAt
<1>2. u.key = v.key /\ u.started /\ u.ends = es
  BY DEF Providers, StartsAt
<1> QED BY <1>1, <1>2

(* Every worker answered its ping: the provider is started. *)
LEMMA StartedStep ==
  ASSUME ProviderInv, Started
  PROVE  ProviderInv'
<1>0. PICK f, p, k, es : f = Inner /\ p = f.by /\ k = provider[p].key /\ es = f.ends
  OBVIOUS
<1>a. PICK g : g = Registering(f, es) /\ Registers(f, es, g)
  BY DEF Registers
<1>1. /\ frames # <<>> /\ f.op = "ping" /\ f.todo = <<>> /\ Inner.op \in CallOps /\ Inner.op \in StartOps
      /\ f \in CallFrames /\ CallOK(f) /\ DOMAIN frames = {1} /\ frames[1] = f
      /\ p \in DOMAIN provider /\ p \in Nat /\ p # 0 /\ provider[p] \in Providers /\ k \in Keys
      /\ \A q : ~BeingStopped(q)
  BY <1>0, CallFacts DEF Started, Doing, CallOps, StartOps
<1>2. /\ provider' = [provider EXCEPT ![p].started = TRUE, ![p].ends = es] /\ frames' = Now(g)
      /\ store' = store /\ anchor' = anchor /\ udf' = udf /\ peer' = peer
      /\ launchedBy' = launchedBy /\ memory' = memory /\ late' = late
  BY <1>0, <1>a DEF Started
<1>3. es \in Seq(Peers)
  BY <1>0, <1>1, FrameFields
<1>4. /\ provider' \in Seq(Providers) /\ DOMAIN provider' = DOMAIN provider
      /\ \A q \in DOMAIN provider : q # p => provider'[q] = provider[q]
      /\ provider'[p].started /\ provider'[p].key = k /\ provider'[p].ends = es
  <2>1. PICK v \in Providers : v = provider[p]
    BY <1>1
  <2>2. PICK u : u = [v EXCEPT !.started = TRUE, !.ends = es] /\ StartsAt(v, es, u)
    BY DEF StartsAt
  <2>3. u \in Providers /\ u.key = k /\ u.started /\ u.ends = es
    <3>1. StartsAt(v, es, u) /\ v.key = k
      BY <1>0, <2>1, <2>2
    <3> QED BY <1>3, <3>1, ProviderOn
  <2>4. provider' = [provider EXCEPT ![p] = u]
    BY <1>2, <2>1, <2>2
  <2>5. provider \in Seq(Providers)
    BY DEF ProviderInv, Typed
  <2> QED BY <1>1, <2>3, <2>4, <2>5, ProviderChanges
<1>5. /\ g \in CallFrames /\ g.op = "register" /\ g.token = f.token /\ g.by = p
      /\ g.udf = f.udf /\ g.msg = WireRegister(f.udf) /\ g.todo = es /\ g.at = "asked"
  <2>1. Registers(f, es, g)
    BY <1>a
  <2> QED BY <1>0, <1>1, <1>3, <2>1, CallRegisters
<1>6. Pending(f) = {} /\ Pending(g) = Range(es)
  BY <1>1, <1>5, NothingInRange DEF Pending
<1>7. \A w \in Range(es) : Ready(w)
  BY <1>0, <1>1, <1>6 DEF CallOK
<1>8. store[k] = p /\ TokenOf[k] = f.token /\ Its(es, p) /\ ~provider[p].started
      /\ udf[f.udf] = [life |-> "making", by |-> p]
  BY <1>0, <1>1 DEF CallOK
<1>9. Its(es, p)'
  BY <1>0, <1>2, <1>4, <1>8 DEF Its
<1>10. CallOK(g)'
  BY <1>1, <1>2, <1>4, <1>5, <1>6, <1>8 DEF CallOK
<1>11. /\ frames' \in Seq(Frames) /\ DOMAIN frames' = {1} /\ frames'[1] = g
       /\ Shape' /\ FramesOK' /\ \A q : ~BeingStopped(q)'
  BY <1>0, <1>1, <1>2, <1>5, <1>10, CallGoes
<1>12. Typed'
  BY <1>2, <1>4, <1>11 DEF ProviderInv, Typed
<1>13. \A w : (Ready(w)' <=> Ready(w)) /\ (Alive(w)' <=> Alive(w)) /\ \A u : (Knows(w, u)' <=> Knows(w, u))
  BY <1>2 DEF Ready, Alive, Knows
<1>14. ProvidersOK'
  <2> SUFFICES ASSUME NEW q \in DOMAIN provider, provider'[q].started
               PROVE  /\ store[provider'[q].key] = q /\ Its(provider[q].ends, q)'
                      /\ \A w \in Range(provider'[q].ends) : Ready(w)
    BY <1>2, <1>4, <1>13 DEF ProvidersOK
  <2>1. CASE q = p
    <3>1. Its(provider[q].ends, q)'
      BY <1>4, <1>9, <2>1
    <3> QED BY <1>4, <1>7, <1>8, <2>1, <3>1
  <2>2. CASE q # p
    <3>1. /\ provider'[q] = provider[q] /\ store[provider[q].key] = q /\ Its(provider[q].ends, q)
          /\ \A w \in Range(provider[q].ends) : Ready(w)
      BY <1>1, <1>4, <2>2 DEF ProviderInv, ProvidersOK
    <3>2. Its(provider[q].ends, q)'
      BY <1>2, <3>1 DEF Its
    <3> QED BY <3>1, <3>2
  <2> QED BY <2>1, <2>2
<1>15. StoreOK'
  <2>1. \A q \in DOMAIN provider : provider'[q].key = provider[q].key
    BY <1>0, <1>4
  <2> QED BY <1>2, <1>4, <2>1 DEF ProviderInv, StoreOK
<1>16. LaunchesOK' /\ MemoriesOK' /\ LateOK'
  BY <1>1, <1>2 DEF ProviderInv, LaunchesOK, Launched, MemoriesOK, LateOK
<1>17. PeersOK'
  <2>1. \A w \in UserOwned : Ready(w)'
    BY <1>13 DEF ProviderInv, PeersOK
  <2>2. ASSUME NEW w \in Processes, Alive(w)
        PROVE  /\ launchedBy[w] \in DOMAIN provider'
               /\ provider'[launchedBy[w]].started /\ w \in Range(provider'[launchedBy[w]].ends)
    <3>1. CASE launchedBy[w] = p
      <4>1. w \in Range(es)
        BY <1>0, <1>1, <2>2, <3>1, NoneYet
      <4> QED BY <1>1, <1>4, <3>1, <4>1
    <3>2. CASE launchedBy[w] # p
      <4>1. ~StartingIt(w)
        BY <1>0, <1>1, <3>2 DEF StartingIt
      <4> QED BY <1>4, <2>2, <3>2, <4>1 DEF ProviderInv, PeersOK
    <3> QED BY <3>1, <3>2
  <2> QED BY <1>2, <1>13, <2>1, <2>2 DEF PeersOK
<1>18. CallablesOK'
  <2> SUFFICES ASSUME NEW u \in Udfs, udf[u].life = "callable", NEW q, q = udf[u].by
               PROVE  /\ q \in DOMAIN provider' /\ (store[provider'[q].key] = q => provider'[q].started)
                      /\ provider'[q].started => \A w \in Range(provider'[q].ends) : Knows(w, u)
    BY <1>2, <1>13 DEF CallablesOK
  <2>1. /\ q \in DOMAIN provider /\ (store[provider[q].key] = q => provider[q].started)
        /\ provider[q].started => \A w \in Range(provider[q].ends) : Knows(w, u)
    BY <1>1 DEF ProviderInv, CallablesOK
  <2>2. q # p
    BY <1>0, <1>8, <2>1
  <2> QED BY <1>4, <2>1, <2>2
<1> QED BY <1>11, <1>12, <1>14, <1>15, <1>16, <1>17, <1>18 DEF ProviderInv

LEMMA UsersAreTheirs ==
  ASSUME NEW k \in Keys
  PROVE  Theirs[k] \in Seq(Peers) /\ \A w \in Range(Theirs[k]) : w \in UserOwned
<1>1. Theirs[k] \in Seq(UserOwned)
  BY ProviderAssumption
<1>2. PICK n \in Nat : Len(Theirs[k]) = n /\ DOMAIN Theirs[k] = 1 .. n
  BY <1>1
<1>3. \A i \in 1 .. n : Theirs[k][i] \in Peers
  BY <1>1, <1>2, PeerKinds
<1>4. Theirs[k] \in Seq(Peers)
  BY <1>1, <1>2, <1>3
<1> QED BY <1>1, <1>4 DEF Range

(* the provider that a new UDF of key k finds or makes *)
Finds(k, p) ==
  /\ p \in Nat \ {0} /\ (IF store[k] = 0 THEN p = Len(provider) + 1 ELSE p = store[k])
  /\ provider' \in Seq(Providers) /\ p \in DOMAIN provider' /\ DOMAIN provider \subseteq DOMAIN provider'
  /\ \A q \in DOMAIN provider : provider'[q] = provider[q]
  /\ \A q \in DOMAIN provider' : q \in DOMAIN provider \/ (q = p /\ ~provider'[q].started)
  /\ provider'[p].key = k /\ (p \in DOMAIN provider => store[k] = p)

LEMMA FindsIt ==
  ASSUME ProviderInv, NEW k \in Keys, NEW p, p = IF store[k] = 0 THEN Len(provider) + 1 ELSE store[k],
         provider' = IF store[k] = 0
                     THEN Append(provider, [key |-> k, started |-> FALSE, ends |-> <<>>])
                     ELSE provider
  PROVE  Finds(k, p)
<1>1. provider \in Seq(Providers) /\ store[k] \in Nat
  BY DEF ProviderInv, Typed
<1>2. CASE store[k] = 0
  <2>1. PICK v : v = [key |-> k, started |-> FALSE, ends |-> <<>>]
    OBVIOUS
  <2>2. v \in Providers /\ v.key = k /\ ~v.started
    BY <2>1, EmptySeq DEF Providers
  <2>3. PICK n \in Nat : n = Len(provider) /\ DOMAIN provider = 1 .. n
    BY <1>1
  <2>4. p = n + 1 /\ p \notin DOMAIN provider
    BY <1>2, <2>3
  <2>5. /\ provider' \in Seq(Providers) /\ DOMAIN provider' = 1 .. n + 1 /\ provider'[n + 1] = v
        /\ \A q \in 1 .. n : provider'[q] = provider[q]
    <3>1. provider' = Append(provider, v)
      BY <1>2, <2>1
    <3> QED BY <1>1, <2>2, <2>3, <3>1
  <2>6. \A q \in DOMAIN provider' : q \in DOMAIN provider \/ q = p
    BY <2>3, <2>4, <2>5
  <2> QED BY <1>2, <2>2, <2>3, <2>4, <2>5, <2>6 DEF Finds
<1>3. CASE store[k] # 0
  <2>1. p = store[k] /\ provider' = provider
    BY <1>3
  <2>2. p \in DOMAIN provider /\ provider[p].key = k
    BY <1>3, <2>1 DEF ProviderInv, StoreOK
  <2> QED BY <1>1, <1>3, <2>1, <2>2 DEF Finds
<1> QED BY <1>2, <1>3

(* the frame of a new registration *)
Begins(u, k, p, f) ==
  f = [op |-> "call", token |-> TokenOf[k], udf |-> u, by |-> p, ends |-> <<>>,
       attempt |-> 1, keys |-> {}, msg |-> WirePing, todo |-> <<>>, at |-> "asked"]

(* where it goes first: it has a provider or starts one *)
LEMMA BeginsWell ==
  ASSUME NEW u \in Udfs, NEW k \in Keys, NEW p \in Nat, NEW f, Begins(u, k, p, f), NEW g
  PROVE  /\ \A es \in Seq(Peers) : Registers(f, es, g) =>
              /\ g \in CallFrames /\ g.op = "register" /\ g.token = TokenOf[k] /\ g.by = p
              /\ g.udf = u /\ g.msg = WireRegister(u) /\ g.todo = es /\ g.at = "asked"
         /\ g = Starting(f, k) =>
              /\ g \in CallFrames /\ g.token = TokenOf[k] /\ g.by = p /\ g.udf = u
              /\ g.msg = WirePing /\ g.at = "asked" /\ g.todo = Theirs[k]
              /\ IF Theirs[k] = <<>> THEN g.op = "launch" ELSE g.op = "ping" /\ g.ends = Theirs[k]
<1>1. PICK h : h = [f EXCEPT !.op = "launch"] /\ Turns(f, "launch", h)
  BY DEF Turns
<1>2. PICK e : e = <<>> /\ e \in Seq(Peers)
  <2>1. <<>> \in Seq(Peers)
    BY EmptySeq
  <2> QED BY <2>1
<1>3. h = [op |-> "launch", token |-> TokenOf[k], udf |-> u, by |-> p, ends |-> e,
           attempt |-> 1, keys |-> {}, msg |-> WirePing, todo |-> e, at |-> "asked"]
  BY <1>1, <1>2 DEF Begins
<1>4. TokenOf[k] \in Tokens /\ WirePing \in Messages
  BY ProviderAssumption DEF Messages
<1>5. /\ h \in CallFrames /\ h.token = TokenOf[k] /\ h.by = p /\ h.udf = u /\ h.op = "launch"
      /\ h.msg = WirePing /\ h.at = "asked" /\ h.todo = <<>>
  <2>1. h \in CallFrames
    BY <1>2, <1>3, <1>4 DEF CallFrames, CallOps, StartOps, Answers
  <2>2. /\ h.token = TokenOf[k] /\ h.by = p /\ h.udf = u /\ h.op = "launch"
        /\ h.msg = WirePing /\ h.at = "asked" /\ h.todo = <<>>
    BY <1>2, <1>3
  <2> QED BY <2>1, <2>2
<1>6. ASSUME NEW es \in Seq(Peers), Registers(f, es, g)
      PROVE  /\ g \in CallFrames /\ g.op = "register" /\ g.token = TokenOf[k] /\ g.by = p
             /\ g.udf = u /\ g.msg = WireRegister(u) /\ g.todo = es /\ g.at = "asked"
  <2>1. Registers(h, es, g)
    BY <1>1, <1>6 DEF Registers, Registering, Asking, Begins
  <2> QED BY <1>5, <2>1, CallRegisters
<1>7. ASSUME g = Starting(f, k), Theirs[k] # <<>>
      PROVE  /\ g \in CallFrames /\ g.token = TokenOf[k] /\ g.by = p /\ g.udf = u
             /\ g.msg = WirePing /\ g.at = "asked" /\ g.todo = Theirs[k]
             /\ g.op = "ping" /\ g.ends = Theirs[k]
  <2>1. PICK es, m : es = Theirs[k] /\ m = WirePing
    OBVIOUS
  <2>2. es \in Seq(Peers)
    BY <2>1, UsersAreTheirs
  <2>3. PICK x : x = [h EXCEPT !.op = "ping", !.ends = es] /\ Becomes(h, "ping", es, x)
    BY DEF Becomes
  <2>4. /\ x \in CallFrames /\ x.op = "ping" /\ x.ends = es /\ x.token = TokenOf[k] /\ x.by = p
        /\ x.udf = u
    <3>1. Becomes(h, "ping", es, x) /\ "ping" \in CallOps
      BY <2>3 DEF CallOps, StartOps
    <3> QED BY <1>5, <2>2, <3>1, CallBecomes
  <2>5. Asks(x, m, es, g)
    <3>1. g = Asking([f EXCEPT !.op = "ping", !.ends = es], m, es)
      BY <1>7, <2>1 DEF Starting
    <3>2. x = [f EXCEPT !.op = "ping", !.ends = es]
      BY <1>1, <2>3 DEF Begins
    <3> QED BY <3>1, <3>2 DEF Asks
  <2>6. m \in Messages
    BY <1>4, <2>1
  <2> QED BY <2>1, <2>2, <2>4, <2>5, <2>6, CallAsks
<1>8. g = Starting(f, k) /\ Theirs[k] = <<>> => g = h
  BY <1>1 DEF Starting
<1> QED BY <1>5, <1>6, <1>7, <1>8

(* A new registration finds its provider, started or not, or makes it. *)
LEMMA PrepareStep ==
  ASSUME ProviderInv, NEW u \in Udfs, NEW k \in Keys, Prepare(u, k)
  PROVE  ProviderInv'
<1>0. PICK p, f : /\ p = IF store[k] = 0 THEN Len(provider) + 1 ELSE store[k]
                  /\ f = [op |-> "call", token |-> TokenOf[k], udf |-> u, by |-> p, ends |-> <<>>,
                          attempt |-> 1, keys |-> {}, msg |-> WirePing, todo |-> <<>>, at |-> "asked"]
                  /\ Begins(u, k, p, f)
  BY DEF Begins
<1>1. PICK g : g = IF provider'[p].started THEN Registering(f, provider'[p].ends) ELSE Starting(f, k)
  OBVIOUS
<1>2. /\ frames = <<>> /\ udf[u].life = "new"
      /\ provider' = IF store[k] = 0
                     THEN Append(provider, [key |-> k, started |-> FALSE, ends |-> <<>>])
                     ELSE provider
      /\ store' = [store EXCEPT ![k] = p] /\ frames' = <<g>>
      /\ udf' = [udf EXCEPT ![u] = [life |-> "making", by |-> p]]
      /\ anchor' = [anchor EXCEPT ![TokenOf[k]] = "attached"]
      /\ peer' = peer /\ launchedBy' = launchedBy /\ memory' = memory /\ late' = late
  BY <1>0, <1>1 DEF Prepare
<1>3. Finds(k, p)
  BY <1>0, <1>2, FindsIt
<1>4. /\ p \in Nat /\ p # 0 /\ provider' \in Seq(Providers) /\ p \in DOMAIN provider'
      /\ DOMAIN provider \subseteq DOMAIN provider'
      /\ \A q \in DOMAIN provider : provider'[q] = provider[q]
      /\ \A q \in DOMAIN provider' : q \in DOMAIN provider \/ (q = p /\ ~provider'[q].started)
      /\ provider'[p].key = k /\ (p \in DOMAIN provider => store[k] = p)
      /\ (store[k] # 0 => p = store[k])
  BY <1>3 DEF Finds
<1>5. /\ store' \in [Keys -> Nat] /\ store'[k] = p /\ \A j \in Keys : j # k => store'[j] = store[j]
  BY <1>2, <1>4 DEF ProviderInv, Typed
<1>6. /\ udf' \in [Udfs -> [life : {"new", "making", "callable", "refused"}, by : Nat]]
      /\ udf'[u] = [life |-> "making", by |-> p] /\ \A v \in Udfs : v # u => udf'[v] = udf[v]
  BY <1>2, <1>4 DEF ProviderInv, Typed
<1>7. /\ anchor' \in [Tokens -> {"none", "attached", "detached"}] /\ TokenOf[k] \in Tokens
      /\ anchor'[TokenOf[k]] = "attached" /\ \A t \in Tokens : t # TokenOf[k] => anchor'[t] = anchor[t]
  BY <1>2, ProviderAssumption DEF ProviderInv, Typed
<1>8. \A q : ~BeingStopped(q) /\ \A w : ~StartingIt(w)
  BY <1>2 DEF BeingStopped, StartingIt
<1>9. ASSUME NEW q \in DOMAIN provider, store[provider[q].key] = q
      PROVE  Steady(q)
  <2>1. q # 0 /\ provider[q].key \in Keys
    BY ProviderNumbers DEF ProviderInv, Providers
  <2>2. store'[provider[q].key] = store[provider[q].key]
    BY <1>4, <1>5, <1>9, <2>1
  <2> QED BY <1>4, <2>2 DEF Steady
<1>10. \A w : Lives(w) /\ (Alive(w)' <=> Alive(w)) /\ (Ready(w)' <=> Ready(w))
  BY <1>2 DEF Lives, Ready, Knows, Alive
<1>11. Kept(0) /\ 0 \notin DOMAIN provider'
  <2>1. 0 \notin DOMAIN provider'
    BY <1>4
  <2> QED BY <1>2, <1>10, <2>1 DEF Kept
<1>12. ASSUME NEW q \in DOMAIN provider', provider'[q].started
       PROVE  q \in DOMAIN provider /\ Steady(q)
  <2>1. q \in DOMAIN provider /\ provider[q].started
    BY <1>4, <1>12
  <2>2. store[provider[q].key] = q
    BY <2>1 DEF ProviderInv, ProvidersOK
  <2> QED BY <1>9, <2>1, <2>2
<1>13. g \in CallFrames /\ CallOK(g)'
  <2>1. CASE provider'[p].started
    <3>1. PICK es : es = provider'[p].ends
      OBVIOUS
    <3>2. es \in Seq(Peers)
      <4>1. provider'[p] \in Providers
        BY <1>4
      <4> QED BY <3>1, <4>1 DEF Providers
    <3>3. Registers(f, es, g)
      BY <1>1, <2>1, <3>1 DEF Registers
    <3>4. /\ g \in CallFrames /\ g.op = "register" /\ g.token = TokenOf[k] /\ g.by = p
          /\ g.udf = u /\ g.msg = WireRegister(u) /\ g.todo = es /\ g.at = "asked"
      BY <1>0, <1>4, <3>2, <3>3, BeginsWell
    <3>5. Pending(g) = Range(es)
      BY <3>4, NothingInRange DEF Pending
    <3> QED BY <1>4, <1>5, <1>6, <2>1, <3>1, <3>4, <3>5 DEF CallOK
  <2>2. CASE ~provider'[p].started
    <3>1. g = Starting(f, k)
      BY <1>1, <2>2
    <3>2. /\ g \in CallFrames /\ g.token = TokenOf[k] /\ g.by = p /\ g.udf = u
          /\ g.msg = WirePing /\ g.at = "asked" /\ g.todo = Theirs[k]
          /\ IF Theirs[k] = <<>> THEN g.op = "launch" ELSE g.op = "ping" /\ g.ends = Theirs[k]
      BY <1>0, <1>4, <3>1, BeginsWell
    <3>3. Theirs[k] # <<>> => Pending(g) = Range(Theirs[k])
      BY <3>2 DEF Pending
    <3>4. Theirs[k] # <<>> => Its(g.ends, g.by)'
      BY <1>4, <3>2, UsersAreTheirs DEF Its
    <3>5. /\ g.by \in DOMAIN provider' /\ store'[provider'[g.by].key] = g.by
          /\ TokenOf[provider'[g.by].key] = g.token
          /\ udf'[g.udf] = [life |-> "making", by |-> g.by] /\ ~provider'[g.by].started
          /\ provider'[g.by].key = k
      BY <1>4, <1>5, <1>6, <2>2, <3>2
    <3>6. CASE Theirs[k] = <<>>
      BY <3>2, <3>5, <3>6 DEF CallOK
    <3>7. CASE Theirs[k] # <<>>
      BY <3>2, <3>3, <3>4, <3>5, <3>7 DEF CallOK
    <3> QED BY <3>2, <3>6, <3>7
  <2> QED BY <2>1, <2>2
<1>14. /\ frames' \in Seq(Frames) /\ DOMAIN frames' = {1} /\ frames'[1] = g /\ g.op \in CallOps
  <2>1. g \in Frames /\ g.op \in CallOps
    BY <1>13, FrameFields DEF Frames
  <2> QED BY <1>2, <2>1
<1>15. Shape' /\ FramesOK'
  BY <1>13, <1>14 DEF Shape, FramesOK, FrameOK
<1>16. Typed'
  BY <1>2, <1>4, <1>5, <1>6, <1>7, <1>14 DEF ProviderInv, Typed
<1>17. ProvidersOK'
  BY <1>8, <1>11, <1>12, ServedKept
<1>18. CallablesOK'
  <2>1. \A v \in Udfs : udf'[v].life = "callable" => udf'[v] = udf[v]
    BY <1>6
  <2>2. ASSUME NEW q \in DOMAIN provider, store'[provider'[q].key] = q
        PROVE  store[provider[q].key] = q /\ provider'[q] = provider[q]
    <3>1. provider[q].key \in Keys
      BY ProviderNumbers DEF ProviderInv, Providers
    <3> QED BY <1>4, <1>5, <2>2, <3>1
  <2> QED BY <1>4, <1>8, <1>11, <1>12, <2>1, <2>2, CallablesKept
<1>19. LateOK'
  BY <1>2, <1>8, LateKept
<1>20. StoreOK'
  <2> SUFFICES ASSUME NEW j \in Keys, store'[j] # 0
               PROVE  /\ store'[j] \in DOMAIN provider' /\ provider'[store'[j]].key = j
                      /\ anchor'[TokenOf[j]] # "none"
    BY DEF StoreOK
  <2>1. CASE j = k
    BY <1>4, <1>5, <1>7, <2>1
  <2>2. CASE j # k
    <3>1. store'[j] = store[j] /\ TokenOf[j] \in Tokens
      BY <1>5, <2>2, ProviderAssumption
    <3>2. store[j] \in DOMAIN provider /\ provider[store[j]].key = j /\ anchor[TokenOf[j]] # "none"
      BY <3>1 DEF ProviderInv, StoreOK
    <3> QED BY <1>4, <1>7, <3>1, <3>2
  <2> QED BY <2>1, <2>2
<1>21. PeersOK'
  <2>1. ASSUME NEW w \in Processes, Alive(w), launchedBy[w] \in DOMAIN provider
        PROVE  Steady(launchedBy[w])
    <3>1. provider[launchedBy[w]].started
      BY <1>8, <2>1 DEF ProviderInv, PeersOK
    <3>2. store[provider[launchedBy[w]].key] = launchedBy[w]
      BY <2>1, <3>1 DEF ProviderInv, ProvidersOK
    <3> QED BY <1>9, <2>1, <3>2
  <2> QED BY <1>2, <1>8, <1>10, <2>1, PeersKept
<1>22. LaunchesOK' /\ MemoriesOK'
  BY <1>2 DEF ProviderInv, LaunchesOK, Launched, MemoriesOK
<1> QED BY <1>15, <1>16, <1>17, <1>18, <1>19, <1>20, <1>21, <1>22 DEF ProviderInv

(*-------------------------------- memories -------------------------------*)

(* r is s without its place i *)
Shorter(s, i, r) ==
  /\ r \in Seq(Udfs) /\ Len(r) = Len(s) - 1
  /\ \A j \in 1 .. Len(r) : r[j] = IF j < i THEN s[j] ELSE s[j + 1]

LEMMA RemoveAtFacts ==
  ASSUME NEW s \in Seq(Udfs), NEW i \in 1 .. Len(s), NEW r, r = RemoveAt(s, i)
  PROVE  Shorter(s, i, r)
<1>1. PICK a, b : a = SubSeq(s, 1, i - 1) /\ b = SubSeq(s, i + 1, Len(s))
  OBVIOUS
<1>2. PICK n \in Nat : n = Len(s) /\ i \in 1 .. n
  OBVIOUS
<1>3. a \in Seq(Udfs) /\ Len(a) = i - 1 /\ \A j \in 1 .. i - 1 : a[j] = s[j]
  BY <1>1, <1>2
<1>4. b \in Seq(Udfs) /\ Len(b) = n - i /\ \A j \in 1 .. n - i : b[j] = s[i + j]
  BY <1>1, <1>2
<1>5. /\ r \in Seq(Udfs) /\ Len(r) = (i - 1) + (n - i)
      /\ \A j \in 1 .. (i - 1) + (n - i) : r[j] = IF j <= i - 1 THEN a[j] ELSE b[j - (i - 1)]
  <2>1. r = a \o b
    BY <1>1 DEF RemoveAt
  <2> QED BY <1>3, <1>4, <2>1, ConcatProperties
<1>6. Len(r) = n - 1
  BY <1>2, <1>5
<1>7. ASSUME NEW j \in 1 .. n - 1 PROVE r[j] = IF j < i THEN s[j] ELSE s[j + 1]
  <2>1. CASE j < i
    BY <1>2, <1>3, <1>5, <2>1
  <2>2. CASE ~(j < i)
    <3>1. j - (i - 1) \in 1 .. n - i /\ i + (j - (i - 1)) = j + 1
      BY <1>2, <2>2
    <3>2. r[j] = b[j - (i - 1)]
      BY <1>2, <1>5, <2>2
    <3> QED BY <1>4, <2>2, <3>1, <3>2
  <2> QED BY <2>1, <2>2
<1> QED BY <1>2, <1>5, <1>6, <1>7 DEF Shorter

LEMMA ShorterFacts ==
  ASSUME NEW s \in Seq(Udfs), Distinct(s), NEW i \in 1 .. Len(s), NEW r, Shorter(s, i, r)
  PROVE  /\ Distinct(r) /\ \A x : x \in Range(r) <=> x \in Range(s) /\ x # s[i]
<1>1. PICK n \in Nat : /\ Len(s) = n + 1 /\ DOMAIN s = 1 .. n + 1 /\ Len(r) = n /\ DOMAIN r = 1 .. n
                       /\ i \in 1 .. n + 1
  <2>1. Len(s) \in Nat /\ Len(s) - 1 \in Nat /\ (Len(s) - 1) + 1 = Len(s) /\ DOMAIN s = 1 .. Len(s)
    OBVIOUS
  <2>2. r \in Seq(Udfs) /\ Len(r) = Len(s) - 1 /\ DOMAIN r = 1 .. Len(r)
    BY DEF Shorter
  <2> QED BY <2>1, <2>2
<1>2. ASSUME NEW j \in 1 .. n
      PROVE  \E k \in 1 .. n + 1 : r[j] = s[k] /\ k # i /\ k = IF j < i THEN j ELSE j + 1
  BY <1>1 DEF Shorter
<1>3. Distinct(r)
  <2> SUFFICES ASSUME NEW j \in 1 .. n, NEW k \in 1 .. n, r[j] = r[k] PROVE j = k
    BY <1>1 DEF Distinct
  <2>1. PICK a \in 1 .. n + 1 : r[j] = s[a] /\ a = IF j < i THEN j ELSE j + 1
    BY <1>2
  <2>2. PICK b \in 1 .. n + 1 : r[k] = s[b] /\ b = IF k < i THEN k ELSE k + 1
    BY <1>2
  <2>3. a = b
    BY <1>1, <2>1, <2>2 DEF Distinct
  <2> QED BY <1>1, <2>1, <2>2, <2>3
<1>4. ASSUME NEW x, x \in Range(r) PROVE x \in Range(s) /\ x # s[i]
  <2>1. PICK j \in 1 .. n : x = r[j]
    BY <1>1, <1>4 DEF Range
  <2>2. PICK k \in 1 .. n + 1 : r[j] = s[k] /\ k # i
    BY <1>2
  <2> QED BY <1>1, <2>1, <2>2 DEF Range, Distinct
<1>5. ASSUME NEW x, x \in Range(s), x # s[i] PROVE x \in Range(r)
  <2>1. PICK k \in 1 .. n + 1 : x = s[k] /\ k # i
    BY <1>1, <1>5 DEF Range
  <2>2. PICK j \in 1 .. n : k = IF j < i THEN j ELSE j + 1
    <3>1. CASE k < i
      BY <1>1, <3>1
    <3>2. CASE k > i
      <4>1. k - 1 \in 1 .. n /\ ~(k - 1 < i) /\ k = (k - 1) + 1
        BY <1>1, <3>2
      <4> QED BY <4>1
    <3> QED BY <1>1, <2>1, <3>1, <3>2
  <2>3. r[j] = s[k]
    BY <1>1, <2>2 DEF Shorter
  <2> QED BY <1>1, <2>1, <2>3 DEF Range
<1> QED BY <1>3, <1>4, <1>5

Extends(s, u, r) == r = Append(s, u)

LEMMA AppendFacts ==
  ASSUME NEW s \in Seq(Udfs), Distinct(s), NEW u \in Udfs, u \notin Range(s), NEW r, Extends(s, u, r)
  PROVE  /\ r \in Seq(Udfs) /\ Len(r) = Len(s) + 1 /\ r[Len(s) + 1] = u
         /\ \A i \in 1 .. Len(s) : r[i] = s[i]
         /\ Distinct(r) /\ \A x : x \in Range(r) <=> x \in Range(s) \/ x = u
<1>1. PICK n \in Nat : n = Len(s) /\ DOMAIN s = 1 .. n
  OBVIOUS
<1>2. /\ r \in Seq(Udfs) /\ Len(r) = n + 1 /\ r[n + 1] = u /\ DOMAIN r = 1 .. n + 1
      /\ \A i \in 1 .. n : r[i] = s[i]
  BY <1>1 DEF Extends
<1>3. \A i \in 1 .. n + 1 : i \in 1 .. n \/ i = n + 1
  OBVIOUS
<1>4. \A i \in 1 .. n : r[i] # u
  BY <1>1, <1>2 DEF Range
<1>5. Distinct(r)
  BY <1>1, <1>2, <1>3, <1>4 DEF Distinct
<1>6. \A x : x \in Range(r) <=> x \in Range(s) \/ x = u
  BY <1>1, <1>2, <1>3 DEF Range
<1> QED BY <1>1, <1>2, <1>5, <1>6

Splits(s, n, a, b) == a = SubSeq(s, 1, n) /\ b = SubSeq(s, n + 1, Len(s))

LEMMA SplitFacts ==
  ASSUME NEW s \in Seq(Udfs), Distinct(s), NEW n \in Nat, n <= Len(s), NEW a, NEW b, Splits(s, n, a, b)
  PROVE  /\ b \in Seq(Udfs) /\ Len(b) = Len(s) - n /\ \A i \in 1 .. Len(b) : b[i] = s[n + i]
         /\ \A x : x \in Range(b) <=> x \in Range(s) /\ x \notin Range(a)
<1>1. PICK l \in Nat : l = Len(s) /\ DOMAIN s = 1 .. l /\ n <= l
  OBVIOUS
<1>2. /\ a \in Seq(Udfs) /\ DOMAIN a = 1 .. n /\ \A i \in 1 .. n : a[i] = s[i]
  BY <1>1 DEF Splits
<1>3. /\ b \in Seq(Udfs) /\ Len(b) = l - n /\ DOMAIN b = 1 .. l - n
      /\ \A i \in 1 .. l - n : b[i] = s[n + i]
  BY <1>1 DEF Splits
<1>4. ASSUME NEW x, x \in Range(b) PROVE x \in Range(s) /\ x \notin Range(a)
  <2>1. PICK i \in 1 .. l - n : x = s[n + i]
    BY <1>3, <1>4 DEF Range
  <2>2. n + i \in 1 .. l /\ n + i \notin 1 .. n
    BY <1>1
  <2>3. x \notin Range(a)
    BY <1>1, <1>2, <2>1, <2>2 DEF Range, Distinct
  <2> QED BY <1>1, <2>1, <2>2, <2>3 DEF Range
<1>5. ASSUME NEW x, x \in Range(s), x \notin Range(a) PROVE x \in Range(b)
  <2>1. PICK j \in 1 .. l : x = s[j]
    BY <1>1, <1>5 DEF Range
  <2>2. j \notin 1 .. n
    BY <1>2, <1>5, <2>1 DEF Range
  <2>3. j - n \in 1 .. l - n /\ n + (j - n) = j
    BY <1>1, <2>2
  <2>4. b[j - n] = s[j]
    BY <1>3, <2>3
  <2> QED BY <1>3, <2>1, <2>3, <2>4 DEF Range
<1> QED BY <1>1, <1>3, <1>4, <1>5

LEMMA WithoutFacts ==
  ASSUME NEW s \in Seq(Udfs), Distinct(s), NEW u \in Udfs, NEW r, r = Without(s, u)
  PROVE  /\ u \notin Range(s) => r = s
         /\ \A i \in 1 .. Len(s) : s[i] = u => Shorter(s, i, r)
         /\ r \in Seq(Udfs) /\ Distinct(r) /\ \A x : x \in Range(r) <=> x \in Range(s) /\ x # u
<1>1. CASE u \notin Range(s)
  <2>1. r = s
    BY <1>1 DEF Without
  <2>2. \A i \in 1 .. Len(s) : s[i] # u
    BY <1>1 DEF Range
  <2> QED BY <1>1, <2>1, <2>2
<1>2. CASE u \in Range(s)
  <2>1. PICK i \in 1 .. Len(s) : s[i] = u
    BY <1>2 DEF Range
  <2>2. \A j \in 1 .. Len(s) : s[j] = u => j = i
    BY <2>1 DEF Distinct
  <2>3. DOMAIN s = 1 .. Len(s)
    OBVIOUS
  <2>4. (CHOOSE j \in DOMAIN s : s[j] = u) = i
    BY <2>1, <2>2, <2>3
  <2>5. r = RemoveAt(s, i)
    BY <1>2, <2>4 DEF Without
  <2>6. Shorter(s, i, r)
    BY <2>5, RemoveAtFacts
  <2>7. Distinct(r) /\ \A x : x \in Range(r) <=> x \in Range(s) /\ x # u
    BY <2>1, <2>6, ShorterFacts
  <2> QED BY <1>2, <2>1, <2>2, <2>6, <2>7 DEF Shorter
<1> QED BY <1>1, <1>2

LEMMA EndIsDistinct ==
  ASSUME NEW o \in Seq(Udfs), NEW h \in Seq(Udfs), Distinct(h), EndOf(o, h)
  PROVE  Distinct(o)
<1>1. PICK n \in Nat, l \in Nat : n = Len(o) /\ l = Len(h) /\ n <= l
  BY DEF EndOf
<1>2. \A i \in 1 .. n : o[i] = h[l - n + i] /\ l - n + i \in 1 .. l
  BY <1>1 DEF EndOf
<1> SUFFICES ASSUME NEW i \in 1 .. n, NEW j \in 1 .. n, o[i] = o[j] PROVE i = j
  BY <1>1 DEF Distinct
<1>3. PICK a, b : a = l - n + i /\ b = l - n + j
  OBVIOUS
<1>4. a \in 1 .. l /\ b \in 1 .. l /\ o[i] = h[a] /\ o[j] = h[b]
  BY <1>2, <1>3
<1>5. a = b
  BY <1>1, <1>4 DEF Distinct
<1> QED BY <1>1, <1>3, <1>5

(* What is learnt again leaves its place in both. *)
LEMMA EndsWithout ==
  ASSUME NEW o \in Seq(Udfs), NEW h \in Seq(Udfs), Distinct(o), Distinct(h), EndOf(o, h),
         NEW u \in Udfs, NEW a, a = Without(o, u), NEW b, b = Without(h, u)
  PROVE  /\ EndOf(a, b) /\ Len(a) <= Len(o)
         /\ Len(o) = Len(h) => Len(a) = Len(b)
         /\ a = o \/ Len(a) = Len(o) - 1
         /\ Len(a) = Len(o) - 1 => Len(b) = Len(h) - 1
<1>1. PICK n \in Nat, l \in Nat : n = Len(o) /\ l = Len(h) /\ n <= l
  BY DEF EndOf
<1>2. \A i \in 1 .. n : o[i] = h[l - n + i] /\ l - n + i \in 1 .. l
  BY <1>1 DEF EndOf
<1>3. CASE u \in Range(o)
  <2>1. PICK i \in 1 .. n : o[i] = u
    BY <1>1, <1>3 DEF Range
  <2>2. PICK k \in 1 .. l : k = l - n + i
    BY <1>2
  <2>3. h[k] = u
    BY <1>2, <2>1, <2>2
  <2>4. Shorter(o, i, a) /\ Shorter(h, k, b)
    BY <1>1, <2>1, <2>3, WithoutFacts
  <2>5. Len(a) = n - 1 /\ Len(b) = l - 1
    BY <1>1, <2>4 DEF Shorter
  <2>6. ASSUME NEW j \in 1 .. n - 1 PROVE a[j] = b[(l - 1) - (n - 1) + j]
    <3>1. PICK m \in 1 .. l - 1 : m = l - n + j /\ m = (l - 1) - (n - 1) + j
      <4>1. l - n + j \in 1 .. l - 1 /\ l - n + j = (l - 1) - (n - 1) + j
        BY <1>1
      <4> QED BY <4>1
    <3>2. b[m] = IF m < k THEN h[m] ELSE h[m + 1]
      BY <2>4, <2>5 DEF Shorter
    <3>3. a[j] = IF j < i THEN o[j] ELSE o[j + 1]
      BY <2>4, <2>5 DEF Shorter
    <3>4. (j < i <=> m < k) /\ j \in 1 .. n /\ j + 1 \in 1 .. n /\ l - n + (j + 1) = m + 1
      BY <1>1, <2>2, <3>1
    <3>5. o[j] = h[m] /\ o[j + 1] = h[m + 1]
      BY <1>2, <3>1, <3>4
    <3>6. a[j] = b[m]
      BY <3>2, <3>3, <3>4, <3>5
    <3> QED BY <3>1, <3>6
  <2>7. EndOf(a, b)
    <3>1. Len(a) <= Len(b)
      BY <1>1, <2>5
    <3> QED BY <2>5, <2>6, <3>1 DEF EndOf
  <2> QED BY <1>1, <2>5, <2>7
<1>4. CASE u \notin Range(o) /\ u \in Range(h)
  <2>1. a = o
    BY <1>4, WithoutFacts
  <2>2. PICK k \in 1 .. l : h[k] = u
    BY <1>1, <1>4 DEF Range
  <2>3. \A i \in 1 .. n : l - n + i # k
    <3>1. \A i \in 1 .. n : o[i] # u
      BY <1>1, <1>4 DEF Range
    <3> QED BY <1>2, <2>2, <3>1
  <2>4. k <= l - n
    <3> SUFFICES ASSUME k > l - n PROVE FALSE
      BY <1>1
    <3>1. k - (l - n) \in 1 .. n /\ l - n + (k - (l - n)) = k
      BY <1>1
    <3> QED BY <2>3, <3>1
  <2>5. Shorter(h, k, b)
    BY <1>1, <2>2, WithoutFacts
  <2>6. Len(b) = l - 1
    BY <1>1, <2>5 DEF Shorter
  <2>7. ASSUME NEW j \in 1 .. n PROVE o[j] = b[(l - 1) - n + j]
    <3>1. PICK m \in 1 .. l - 1 : m = (l - 1) - n + j
      <4>1. (l - 1) - n + j \in 1 .. l - 1
        BY <1>1, <2>4
      <4> QED BY <4>1
    <3>2. b[m] = h[m + 1]
      <4>1. b[m] = IF m < k THEN h[m] ELSE h[m + 1]
        BY <2>5, <2>6 DEF Shorter
      <4>2. ~(m < k)
        BY <1>1, <2>4, <3>1
      <4> QED BY <4>1, <4>2
    <3>3. m + 1 = l - n + j
      BY <1>1, <3>1
    <3> QED BY <1>2, <3>1, <3>2, <3>3
  <2>8. EndOf(a, b) /\ n < l
    <3>1. Len(o) <= Len(b) /\ n < l
      BY <1>1, <2>4, <2>6
    <3> QED BY <1>1, <2>1, <2>6, <2>7, <3>1 DEF EndOf
  <2> QED BY <1>1, <2>1, <2>8
<1>5. CASE u \notin Range(h)
  <2>1. u \notin Range(o)
    <3> SUFFICES ASSUME NEW i \in 1 .. n, o[i] = u PROVE FALSE
      BY <1>1 DEF Range
    <3>1. h[l - n + i] = u /\ l - n + i \in 1 .. l
      BY <1>2
    <3> QED BY <1>1, <1>5, <3>1 DEF Range
  <2>2. a = o /\ b = h
    BY <1>5, <2>1, WithoutFacts
  <2> QED BY <1>1, <2>2
<1> QED BY <1>3, <1>4, <1>5

LEMMA EndsAppend ==
  ASSUME NEW o \in Seq(Udfs), NEW h \in Seq(Udfs), EndOf(o, h), NEW u \in Udfs,
         NEW a, a = Append(o, u), NEW b, b = Append(h, u)
  PROVE  EndOf(a, b)
<1>1. PICK n \in Nat, l \in Nat : n = Len(o) /\ l = Len(h) /\ n <= l
  BY DEF EndOf
<1>2. \A i \in 1 .. n : o[i] = h[l - n + i] /\ l - n + i \in 1 .. l
  BY <1>1 DEF EndOf
<1>3. /\ Len(a) = n + 1 /\ Len(b) = l + 1 /\ \A i \in 1 .. n : a[i] = o[i]
      /\ \A i \in 1 .. l : b[i] = h[i] /\ a[n + 1] = u /\ b[l + 1] = u
  BY <1>1
<1>4. ASSUME NEW i \in 1 .. n + 1 PROVE a[i] = b[(l + 1) - (n + 1) + i]
  <2>1. PICK m : m = (l + 1) - (n + 1) + i
    OBVIOUS
  <2>2. CASE i = n + 1
    <3>1. m = l + 1 /\ a[n + 1] = u /\ b[l + 1] = u
      BY <1>1, <2>1, <2>2
    <3> QED BY <2>1, <2>2, <3>1
  <2>3. CASE i # n + 1
    <3>1. i \in 1 .. n /\ m = l - n + i
      BY <1>1, <2>1, <2>3
    <3> QED BY <1>2, <1>3, <2>1, <3>1
  <2> QED BY <2>2, <2>3
<1>5. Len(a) <= Len(b)
  BY <1>1, <1>3
<1> QED BY <1>3, <1>4, <1>5 DEF EndOf

LEMMA EndOfEnd ==
  ASSUME NEW o \in Seq(Udfs), NEW h \in Seq(Udfs), EndOf(o, h), NEW n \in Nat, n <= Len(o),
         NEW b \in Seq(Udfs), Len(b) = Len(o) - n, \A i \in 1 .. Len(b) : b[i] = o[n + i]
  PROVE  EndOf(b, h)
<1>1. PICK m \in Nat, l \in Nat : m = Len(o) /\ l = Len(h) /\ m <= l
  BY DEF EndOf
<1>2. \A i \in 1 .. m : o[i] = h[l - m + i]
  BY <1>1 DEF EndOf
<1>3. ASSUME NEW i \in 1 .. m - n PROVE b[i] = h[l - (m - n) + i]
  <2>1. n + i \in 1 .. m /\ l - m + (n + i) = l - (m - n) + i
    BY <1>1
  <2> QED BY <1>1, <1>2, <2>1
<1>4. m - n <= l
  BY <1>1
<1> QED BY <1>1, <1>3, <1>4 DEF EndOf

Learns(m, u, r) == r = Learnt(m, u)

(* what it has then: s and h with u at the end, of s the first n forgotten *)
Rearranges(m, u, s, h, n) ==
  /\ s = Append(Without(m.order, u), u) /\ h = Append(Without(m.heard, u), u)
  /\ n = IF Len(s) > RegistryMax THEN Len(s) - RegistryMax ELSE 0

LEMMA LearntFields ==
  ASSUME NEW m \in Memories, NEW u \in Udfs, NEW r, Learns(m, u, r), NEW s, NEW h, NEW n,
         Rearranges(m, u, s, h, n), NEW a, NEW o, Splits(s, n, a, o), h \in Seq(Udfs), o \in Seq(Udfs)
  PROVE  /\ r \in Memories /\ r.known = (m.known \cup {u}) \ Range(a) /\ r.order = o /\ r.heard = h
<1>1. PICK k, l : k = m.known \cup {u} /\ l = k \ Range(a)
  OBVIOUS
<1>2. PICK x : x = [m EXCEPT !.known = k, !.heard = h]
  OBVIOUS
<1>3. x \in Memories /\ x.known = k /\ x.heard = h
  <2>1. x \in Memories
    BY <1>1, <1>2 DEF Memories
  <2>2. x.known = k /\ x.heard = h
    BY <1>2 DEF Memories
  <2> QED BY <2>1, <2>2
<1>4. r = [x EXCEPT !.known = l, !.order = o]
  <2>1. r = Forgetting(x, s)
    BY <1>1, <1>2 DEF Learns, Learnt, Rearranges
  <2>2. Forgetting(x, s) = [x EXCEPT !.known = x.known \ Range(a), !.order = o]
    BY DEF Forgetting, Rearranges, Splits
  <2> QED BY <1>1, <1>3, <2>1, <2>2
<1>5. r \in Memories
  BY <1>1, <1>3, <1>4 DEF Memories
<1>6. r.known = l /\ r.order = o /\ r.heard = x.heard
  BY <1>3, <1>4 DEF Memories
<1> QED BY <1>1, <1>3, <1>5, <1>6

(* A worker that learns a UDF keeps order the end of heard, and forgets nothing
   else it heard. *)
LEMMA LearntIsOK ==
  ASSUME NEW m \in Memories, MemoryOK(m), NEW u \in Udfs, NEW r, Learns(m, u, r)
  PROVE  /\ r \in Memories /\ MemoryOK(r)
         /\ \A x : x \in Range(r.heard) <=> x \in Range(m.heard) \/ x = u
<1>1. PICK o, h : /\ o = m.order /\ h = m.heard /\ o \in Seq(Udfs) /\ h \in Seq(Udfs)
                  /\ Distinct(o) /\ Distinct(h) /\ EndOf(o, h) /\ m.known = Range(o)
                  /\ Len(o) <= RegistryMax /\ (Len(o) < RegistryMax => Len(o) = Len(h))
  BY EndIsDistinct DEF MemoryOK, Memories
<1>2. PICK a, b : a = Without(o, u) /\ b = Without(h, u)
  OBVIOUS
<1>3. /\ a \in Seq(Udfs) /\ Distinct(a) /\ \A x : x \in Range(a) <=> x \in Range(o) /\ x # u
      /\ b \in Seq(Udfs) /\ Distinct(b) /\ \A x : x \in Range(b) <=> x \in Range(h) /\ x # u
  BY <1>1, <1>2, WithoutFacts
<1>4. /\ EndOf(a, b) /\ Len(a) <= Len(o) /\ (Len(o) = Len(h) => Len(a) = Len(b))
      /\ (a = o \/ Len(a) = Len(o) - 1) /\ (Len(a) = Len(o) - 1 => Len(b) = Len(h) - 1)
  BY <1>1, <1>2, EndsWithout
<1>5. PICK c, d : c = Append(a, u) /\ d = Append(b, u)
  OBVIOUS
<1>6. /\ c \in Seq(Udfs) /\ Len(c) = Len(a) + 1 /\ Distinct(c)
      /\ \A x : x \in Range(c) <=> x \in Range(o) \/ x = u
      /\ d \in Seq(Udfs) /\ Len(d) = Len(b) + 1 /\ Distinct(d)
      /\ \A x : x \in Range(d) <=> x \in Range(h) \/ x = u
  <2>1. u \notin Range(a) /\ u \notin Range(b)
    BY <1>3
  <2>2. /\ c \in Seq(Udfs) /\ Len(c) = Len(a) + 1 /\ Distinct(c)
        /\ \A x : x \in Range(c) <=> x \in Range(a) \/ x = u
    <3>1. a \in Seq(Udfs) /\ Distinct(a) /\ Extends(a, u, c)
      BY <1>3, <1>5 DEF Extends
    <3> QED BY <2>1, <3>1, AppendFacts
  <2>3. /\ d \in Seq(Udfs) /\ Len(d) = Len(b) + 1 /\ Distinct(d)
        /\ \A x : x \in Range(d) <=> x \in Range(b) \/ x = u
    <3>1. b \in Seq(Udfs) /\ Distinct(b) /\ Extends(b, u, d)
      BY <1>3, <1>5 DEF Extends
    <3> QED BY <2>1, <3>1, AppendFacts
  <2> QED BY <1>3, <2>2, <2>3
<1>7. EndOf(c, d)
  BY <1>3, <1>4, <1>5, EndsAppend
<1>8. RegistryMax \in Nat /\ RegistryMax >= 1
  BY ProviderAssumption
<1>9. PICK x, y : x = Len(c) /\ y = Len(d) /\ x \in Nat /\ y \in Nat
  BY <1>6
<1>10. x <= RegistryMax + 1
  <2>1. Len(a) \in Nat /\ Len(o) \in Nat
    BY <1>1, <1>3
  <2> QED BY <1>1, <1>4, <1>6, <1>8, <1>9, <2>1
<1>11. PICK n : n = IF x > RegistryMax THEN x - RegistryMax ELSE 0
  OBVIOUS
<1>12. n \in Nat /\ n <= x /\ x - n <= RegistryMax
  BY <1>8, <1>9, <1>11
<1>13. PICK v, w : v = SubSeq(c, 1, n) /\ w = SubSeq(c, n + 1, Len(c))
  OBVIOUS
<1>14. /\ w \in Seq(Udfs) /\ Len(w) = x - n /\ \A i \in 1 .. Len(w) : w[i] = c[n + i]
       /\ \A z : z \in Range(w) <=> z \in Range(c) /\ z \notin Range(v)
  <2>1. Splits(c, n, v, w) /\ n <= Len(c)
    BY <1>9, <1>12, <1>13 DEF Splits
  <2>2. c \in Seq(Udfs) /\ Distinct(c) /\ n \in Nat
    BY <1>6, <1>12
  <2>3. /\ w \in Seq(Udfs) /\ Len(w) = Len(c) - n /\ \A i \in 1 .. Len(w) : w[i] = c[n + i]
        /\ \A z : z \in Range(w) <=> z \in Range(c) /\ z \notin Range(v)
    BY <2>1, <2>2, SplitFacts
  <2> QED BY <1>9, <2>3
<1>15. EndOf(w, d)
  BY <1>6, <1>7, <1>9, <1>12, <1>14, EndOfEnd
<1>16. x - n < RegistryMax => x - n = y
  <2> SUFFICES ASSUME x - n < RegistryMax PROVE x - n = y
    OBVIOUS
  <2>1. n = 0 /\ x < RegistryMax
    BY <1>8, <1>9, <1>11
  <2>2. Len(a) \in Nat /\ Len(o) \in Nat /\ Len(b) \in Nat /\ Len(h) \in Nat
    BY <1>1, <1>3
  <2>3. Len(o) < RegistryMax \/ Len(o) = RegistryMax
    BY <1>1, <1>8, <2>2
  <2>4. CASE Len(o) < RegistryMax
    BY <1>1, <1>4, <1>6, <1>9, <2>1, <2>2, <2>4
  <2>5. CASE Len(o) = RegistryMax
    <3>1. x >= RegistryMax
      BY <1>4, <1>6, <1>8, <1>9, <2>2, <2>5
    <3> QED BY <1>8, <1>9, <2>1, <3>1
  <2> QED BY <2>3, <2>4, <2>5
<1>17. /\ r \in Memories /\ r.known = (m.known \cup {u}) \ Range(v) /\ r.order = w /\ r.heard = d
  <2>1. Rearranges(m, u, c, d, n) /\ Splits(c, n, v, w)
    BY <1>1, <1>2, <1>5, <1>9, <1>11, <1>13 DEF Rearranges, Splits
  <2> QED BY <1>6, <1>14, <2>1, LearntFields
<1>18. r.known = Range(w)
  <2>1. \A z : z \in r.known <=> z \in Range(w)
    BY <1>1, <1>6, <1>14, <1>17
  <2> QED BY <2>1
<1>19. MemoryOK(r)
  BY <1>6, <1>9, <1>12, <1>14, <1>15, <1>16, <1>17, <1>18 DEF MemoryOK
<1> QED BY <1>1, <1>6, <1>17, <1>19

(*--------------------------------- workers -------------------------------*)

Apart == UNCHANGED <<store, provider, anchor, udf, launchedBy>>

(* A step of workers leaves the calls what they rely on: what a stop request
   ends is not what the registration under way uses. *)
LEMMA WorkersFrame ==
  ASSUME ProviderInv, Apart, NEW p, Kept(p), p \in DOMAIN provider => BeingStopped(p),
         NEW i \in DOMAIN frames, NEW f, f = frames[i]
  PROVE  FrameOK(f)'
<1>1. f \in Frames /\ FrameOK(f)
  BY FrameAt DEF ProviderInv, Typed, FramesOK
<1>2. \A q \in DOMAIN provider : Steady(q)
  BY DEF Apart, Steady
<1>3. CASE f \in CallFrames
  <2>1. f.op \in CallOps /\ CallOK(f) /\ f.by \in DOMAIN provider
    BY <1>1, <1>3, FrameFields DEF FrameOK, CallOK
  <2>2. p # f.by
    <3> SUFFICES ASSUME BeingStopped(f.by) PROVE FALSE
      BY <2>1
    <3>1. PICK j \in DOMAIN frames : frames[j].op = "stop" /\ frames[j].by = f.by
      BY DEF BeingStopped
    <3>2. ReleaseOK(frames[j])
      BY <3>1 DEF ProviderInv, FramesOK, FrameOK, CallOps, StartOps
    <3>3. frames[j].token = f.token
      BY <2>1, <3>1, <3>2 DEF ReleaseOK, CallOK
    <3>4. j = i
      BY <3>3 DEF ProviderInv, Shape
    <3> QED BY <2>1, <3>1, <3>4 DEF CallOps, StartOps
  <2>3. udf'[f.udf] = udf[f.udf]
    BY DEF Apart
  <2>4. CallOK(f)'
    BY <1>2, <1>3, <2>1, <2>2, <2>3, CallKept DEF ProviderInv
  <2> QED BY <2>1, <2>4 DEF FrameOK
<1>4. CASE f \in ReleaseFrames
  <2>1. f.op \notin CallOps /\ ReleaseOK(f)
    BY <1>1, <1>4, FrameTodo DEF FrameOK
  <2>2. f.op = "stop" => Steady(f.by)
    BY <1>2, <2>1 DEF ReleaseOK
  <2>3. anchor'[f.token] = anchor[f.token] /\ \A k \in Keys : TokenOf[k] = f.token => store'[k] = store[k]
    BY DEF Apart
  <2>4. ReleaseOK(f)'
    BY <1>4, <2>1, <2>2, <2>3, ReleaseKept DEF ProviderInv
  <2> QED BY <2>1, <2>4 DEF FrameOK
<1> QED BY <1>1, <1>3, <1>4 DEF Frames

(* a step of workers that R does not see *)
LEMMA UnseenStep ==
  ASSUME ProviderInv, Apart, frames' = frames, LateMoves, MemoriesOK',
         peer' \in [Peers -> {"off", "daemon", "looping", "serving", "killed", "crashed"}],
         memory' \in [Peers -> Memories],
         NEW p, Kept(p), p \in DOMAIN provider => BeingStopped(p),
         \A w \in Processes : Alive(w)' => Alive(w)
  PROVE  ProviderInv'
<1>1. frames' \in Seq(Frames) /\ Shape'
  BY DEF ProviderInv, Typed, Shape
<1>2. FramesOK'
  <2> SUFFICES ASSUME NEW j \in DOMAIN frames PROVE FrameOK(frames[j])'
    BY DEF FramesOK
  <2>1. PICK f : f = frames[j]
    OBVIOUS
  <2>2. FrameOK(f)'
    BY <2>1, WorkersFrame
  <2> QED BY <2>1, <2>2
<1>3. \A q : BeingStopped(q) => BeingStopped(q)'
  BY DEF BeingStopped
<1>4. \A w \in Processes : StartingIt(w) => StartingIt(w)'
  BY DEF StartingIt, Apart
<1> QED BY <1>1, <1>2, <1>3, <1>4, WorkersStep DEF Apart

LEMMA ListenStep ==
  ASSUME ProviderInv, NEW w \in Peers, Listen(w)
  PROVE  ProviderInv'
<1>1. /\ Apart /\ frames' = frames /\ memory' = memory /\ late' = late /\ launchedBy' = launchedBy
      /\ peer[w] = "looping"
      /\ peer' \in [Peers -> {"off", "daemon", "looping", "serving", "killed", "crashed"}]
      /\ \A v \in Peers : v # w => peer'[v] = peer[v]
  BY DEF Listen, Apart, ProviderInv, Typed
<1>2. \A v \in Peers : Lives(v)
  BY <1>1 DEF Lives, Ready, Knows
<1>3. Kept(0) /\ 0 \notin DOMAIN provider
  BY <1>1, <1>2, ProviderNumbers DEF Kept, ProviderInv
<1>4. \A v \in Processes : Alive(v)' => Alive(v)
  BY <1>1, PeerKinds DEF Alive
<1>5. LateMoves /\ MemoriesOK' /\ memory' \in [Peers -> Memories]
  BY <1>1 DEF ProviderInv, Typed, LateMoves, MemoriesOK
<1> QED BY <1>1, <1>3, <1>4, <1>5, UnseenStep

LEMMA CrashStep ==
  ASSUME ProviderInv, NEW w \in Peers, Crash(w)
  PROVE  ProviderInv'
<1>1. /\ Apart /\ frames' = frames /\ launchedBy' = launchedBy /\ Alive(w)
      /\ peer' = [v \in Peers |-> IF v \in {w} THEN "crashed" ELSE peer[v]]
      /\ memory' = [v \in Peers |-> IF v \in {w} THEN Blank ELSE memory[v]]
      /\ late' = [v \in Peers |-> IF v \in {w} THEN {} ELSE late[v]]
  BY DEF Crash, Apart, End
<1>2. /\ peer' \in [Peers -> {"off", "daemon", "looping", "serving", "killed", "crashed"}]
      /\ memory' \in [Peers -> Memories] /\ late' \in [Peers -> SUBSET Messages]
      /\ \A v \in Peers : v # w => peer'[v] = peer[v] /\ memory'[v] = memory[v]
      /\ peer'[w] = "crashed" /\ \A v \in Peers : late'[v] \subseteq late[v] /\ memory'[v] \in {memory[v], Blank}
  BY <1>1, BlankIsOK DEF ProviderInv, Typed
<1>3. \A v \in Peers : Lives(v)
  BY <1>2 DEF Lives, Ready, Knows
<1>4. Kept(0) /\ 0 \notin DOMAIN provider
  BY <1>1, <1>3, ProviderNumbers DEF Kept, ProviderInv
<1>5. \A v \in Processes : Alive(v)' => Alive(v)
  BY <1>1, <1>2, PeerKinds DEF Alive
<1>6. LateMoves
  BY <1>2 DEF LateMoves
<1>7. MemoriesOK'
  BY <1>2, MemoriesKept
<1> QED BY <1>1, <1>2, <1>4, <1>5, <1>6, <1>7, UnseenStep

(* What serving a request does to its worker, and to no other. *)
LEMMA ServesFacts ==
  ASSUME ProviderInv, NEW w \in Peers, NEW msg \in Messages, Serves(w, msg)
  PROVE  /\ peer' \in [Peers -> {"off", "daemon", "looping", "serving", "killed", "crashed"}]
         /\ memory' \in [Peers -> Memories] /\ MemoriesOK'
         /\ \A v \in Peers : v # w \/ msg # WireStop => Lives(v)
         /\ \A u \in Udfs : msg = WireRegister(u) => Knows(w, u)'
         /\ msg # WireStop => Ready(w)'
         /\ \A v \in Processes : Alive(v)' => Alive(v)
<1>1. peer[w] = "serving" /\ peer' = IF msg = WireStop THEN [peer EXCEPT ![w] = "daemon"] ELSE peer
  BY DEF Serves
<1>2. /\ peer' \in [Peers -> {"off", "daemon", "looping", "serving", "killed", "crashed"}]
      /\ \A v \in Peers : v # w \/ msg # WireStop => peer'[v] = peer[v]
      /\ \A v \in Processes : Alive(v)' => Alive(v)
  BY <1>1, PeerKinds DEF ProviderInv, Typed, Alive
<1>3. CASE msg[1] # "register"
  <2>1. memory' = memory
    BY <1>3 DEF Serves
  <2>2. \A u : msg # WireRegister(u)
    BY <1>3 DEF WireRegister
  <2>3. memory' \in [Peers -> Memories] /\ MemoriesOK'
    BY <2>1 DEF ProviderInv, Typed, MemoriesOK
  <2>4. \A v \in Peers : v # w \/ msg # WireStop => Lives(v)
    BY <1>2, <2>1 DEF Lives, Ready, Knows
  <2> QED BY <1>1, <1>2, <2>2, <2>3, <2>4 DEF Ready
<1>4. CASE msg[1] = "register"
  <2>1. PICK u \in Udfs : msg = WireRegister(u) /\ msg[2] = u /\ msg # WireStop
    <3>1. WirePing[1] # "register" /\ WireStop[1] # "register"
      BY DEF WirePing, WireStop
    <3>2. PICK u \in Udfs : msg = WireRegister(u)
      BY <1>4, <3>1 DEF Messages
    <3>3. msg[2] = u
      BY <3>2 DEF WireRegister
    <3> QED BY <1>4, <3>1, <3>2, <3>3
  <2>2. PICK m, r : m = memory[w] /\ r = Learnt(m, u) /\ Learns(m, u, r)
    BY DEF Learns
  <2>3. m \in Memories /\ MemoryOK(m)
    BY <2>2 DEF ProviderInv, Typed, MemoriesOK
  <2>4. r \in Memories /\ MemoryOK(r) /\ \A x : x \in Range(r.heard) <=> x \in Range(m.heard) \/ x = u
    BY <2>2, <2>3, LearntIsOK
  <2>5. memory' = [memory EXCEPT ![w] = r]
    BY <1>4, <2>1, <2>2 DEF Serves
  <2>6. /\ memory' \in [Peers -> Memories] /\ memory'[w] = r
        /\ \A v \in Peers : v # w => memory'[v] = memory[v]
    BY <2>4, <2>5 DEF ProviderInv, Typed
  <2>7. MemoriesOK'
    <3> SUFFICES ASSUME NEW v \in Peers, NEW x, x = memory'[v] PROVE MemoryOK(x)
      BY DEF MemoriesOK
    <3>1. CASE v = w
      BY <2>4, <2>6, <3>1
    <3>2. CASE v # w
      BY <2>6, <3>2 DEF ProviderInv, MemoriesOK
    <3> QED BY <3>1, <3>2
  <2>8. peer' = peer
    BY <1>1, <2>1
  <2>9. \A v \in Peers : Lives(v)
    BY <2>2, <2>4, <2>6, <2>8 DEF Lives, Ready, Knows
  <2>10. Knows(w, u)'
    BY <2>4, <2>6 DEF Knows
  <2>11. \A x \in Udfs : msg = WireRegister(x) => x = u
    BY <2>1 DEF WireRegister
  <2> QED BY <1>1, <1>2, <2>6, <2>7, <2>8, <2>9, <2>10, <2>11 DEF Ready
<1> QED BY <1>3, <1>4

(* A request that R gave up is served. *)
LEMMA ServeLateStep ==
  ASSUME ProviderInv, NEW w \in Peers, ServeLate(w)
  PROVE  ProviderInv'
<1>1. PICK msg \in late[w] : Serves(w, msg) /\ late' = [late EXCEPT ![w] = @ \ {msg}]
  BY DEF ServeLate
<1>2. msg \in Messages
  BY DEF ProviderInv, Typed
<1>3. Apart /\ frames' = frames /\ launchedBy' = launchedBy
  BY DEF ServeLate, Apart
<1>4. LateMoves
  BY <1>1 DEF LateMoves, ProviderInv, Typed
<1>5. PICK p : p = IF msg = WireStop THEN launchedBy[w] ELSE 0
  OBVIOUS
<1>6. p \in DOMAIN provider => BeingStopped(p)
  BY <1>5, ProviderNumbers DEF ProviderInv, LateOK
<1>7. msg = WireStop => w \in Processes /\ launchedBy[w] = p
  BY <1>5 DEF ProviderInv, LateOK
<1>8. Kept(p)
  BY <1>1, <1>2, <1>3, <1>7, ServesFacts DEF Kept
<1> QED BY <1>1, <1>2, <1>3, <1>4, <1>6, <1>8, ServesFacts, UnseenStep

(* An answer leaves a call right if who answered is ready, and knows. *)
LEMMA AnswerIsOK ==
  ASSUME NEW f \in Frames, NEW g \in Frames, SameCall(f, g), g.todo = f.todo, FrameOK(f)',
         f.todo # <<>>, f.at = "asked",
         f \in CallFrames => \A x \in Pending(f) :
           x \in Pending(g) \/ (Ready(x)' /\ (f.op = "register" => Knows(x, f.udf)'))
  PROVE  FrameOK(g)'
<1>1. CASE f \in CallFrames
  <2>1. CallOK(f)' /\ f.op \in CallOps
    BY <1>1, FrameTodo DEF FrameOK
  <2>2. /\ g.op = f.op /\ g.token = f.token /\ g.by = f.by /\ g.msg = f.msg /\ g.udf = f.udf
        /\ g.ends = f.ends
    BY <1>1 DEF SameCall
  <2>3. f.op \notin {"launch", "setup"}
    BY <2>1 DEF CallOK
  <2>4. \A x \in Pending(f) :
          x \in Pending(g) \/ (Ready(x)' /\ (f.op = "register" => Knows(x, f.udf)'))
    BY <1>1
  <2>5. f.op = "ping" => \A x \in Range(f.ends) : x \in Pending(g) \/ Ready(x)'
    BY <2>1, <2>4 DEF CallOK
  <2>6. f.op = "register" => \A x \in Range(provider'[f.by].ends) : x \in Pending(g) \/ Knows(x, f.udf)'
    BY <2>1, <2>4 DEF CallOK
  <2>7. f.op \in {"setup", "ping"} => Its(g.ends, g.by)'
    BY <2>1, <2>2 DEF CallOK
  <2>8. CallOK(g)'
    BY <2>1, <2>2, <2>3, <2>5, <2>6, <2>7 DEF CallOK
  <2> QED BY <2>1, <2>2, <2>8 DEF FrameOK
<1>2. CASE f \in ReleaseFrames
  <2>1. ReleaseOK(f)' /\ f.op \notin CallOps
    BY <1>2, FrameTodo DEF FrameOK
  <2>2. ReleaseOK(g)'
    BY <2>1 DEF SameCall, ReleaseOK
  <2> QED BY <2>1, <2>2 DEF SameCall, FrameOK
<1> QED BY <1>1, <1>2 DEF Frames

(* The head of todo serves the request of the call at i. *)
LEMMA ServeStep ==
  ASSUME ProviderInv, NEW i \in DOMAIN frames, Serve(i)
  PROVE  ProviderInv'
<1>1. PICK f, w, msg : f = frames[i] /\ w = Head(f.todo) /\ msg = f.msg
  OBVIOUS
<1>2. f \in Frames /\ FrameOK(f) /\ f.todo # <<>> /\ f.at = "asked" /\ Serves(w, msg)
  BY <1>1, FrameAt DEF Serve, ProviderInv, Typed, FramesOK
<1>3. msg \in Messages /\ f.todo \in Seq(Peers)
  BY <1>1, <1>2, FrameTodo
<1>4. /\ w \in Peers /\ w \in Range(f.todo)
      /\ \A x \in Range(f.todo) : x = w \/ x \in Range(Tail(f.todo))
  BY <1>1, <1>2, <1>3, TailFacts
<1>5. PICK a \in {"ok", "lost"} : frames' = [frames EXCEPT ![i].at = a]
  BY DEF Serve
<1>6. PICK g : g = [f EXCEPT !.at = a]
  OBVIOUS
<1>7. g \in Frames /\ SameCall(f, g) /\ g.todo = f.todo /\ g.at = a
  BY <1>2, <1>5, <1>6, AtChanges DEF Answers
<1>8. Replaces(i, g)
  <2>1. frames' = [frames EXCEPT ![i] = g]
    BY <1>1, <1>5, <1>6
  <2> QED BY <1>7, <2>1, ReplaceAtPlace DEF ProviderInv, Typed
<1>9. Apart /\ launchedBy' = launchedBy /\ late' = late
  BY DEF Serve, Apart
<1>10. f \in CallFrames => msg # WireStop /\ CallOK(f)
  <2>1. WirePing # WireStop /\ \A u : WireRegister(u) # WireStop
    BY DEF WirePing, WireStop, WireRegister
  <2> QED BY <1>1, <1>2, <2>1, FrameTodo DEF FrameOK, CallOK
<1>11. msg = WireStop => w \in Processes /\ launchedBy[w] = f.by /\ f.op = "stop"
  <2> SUFFICES ASSUME msg = WireStop PROVE w \in Processes /\ launchedBy[w] = f.by /\ f.op = "stop"
    OBVIOUS
  <2>1. f \in ReleaseFrames
    BY <1>2, <1>10 DEF Frames
  <2>2. ReleaseOK(f) /\ f.op \in ReleaseOps
    BY <1>2, <2>1, FrameTodo DEF FrameOK
  <2> QED BY <1>2, <1>4, <2>2 DEF ReleaseOK, ReleaseOps
<1>12. PICK p : p = IF msg = WireStop THEN launchedBy[w] ELSE 0
  OBVIOUS
<1>13. p \in DOMAIN provider => BeingStopped(p)
  BY <1>1, <1>11, <1>12, ProviderNumbers DEF ProviderInv, BeingStopped
<1>14. Kept(p)
  BY <1>2, <1>3, <1>4, <1>9, <1>11, <1>12, ServesFacts DEF Kept
<1>15. FrameOK(g)'
  <2>1. FrameOK(f)'
    BY <1>1, <1>9, <1>13, <1>14, WorkersFrame
  <2>2. ASSUME f \in CallFrames, NEW x \in Pending(f)
        PROVE  x \in Pending(g) \/ (Ready(x)' /\ (f.op = "register" => Knows(x, f.udf)'))
    <3>1. CASE a = "lost"
      BY <1>2, <1>7, <2>2, <3>1 DEF Pending
    <3>2. CASE a = "ok"
      <4>1. Pending(f) = Range(f.todo) /\ Pending(g) = Range(Tail(f.todo))
        BY <1>2, <1>7, <3>2, NothingInRange DEF Pending
      <4>2. x = w \/ x \in Pending(g)
        BY <1>4, <2>2, <4>1
      <4>3. msg # WireStop /\ CallOK(f) /\ f.udf \in Udfs
        BY <1>10, <2>2, FrameFields
      <4>4. Ready(w)' /\ (msg = WireRegister(f.udf) => Knows(w, f.udf)')
        BY <1>2, <1>3, <1>4, <4>3, ServesFacts
      <4>5. f.op = "register" => msg = WireRegister(f.udf)
        BY <1>1, <4>3 DEF CallOK
      <4> QED BY <4>2, <4>4, <4>5
    <3> QED BY <1>5, <3>1, <3>2
  <2> QED BY <1>2, <1>7, <2>1, <2>2, AnswerIsOK
<1>16. Confined(g.token) /\ (p \in DOMAIN provider => TokenOf[provider[p].key] = g.token)
       /\ g.token = f.token
  <2>1. g.token = f.token
    BY <1>7 DEF SameCall
  <2>2. p \in DOMAIN provider => TokenOf[provider[p].key] = f.token
    <3> SUFFICES ASSUME p \in DOMAIN provider PROVE TokenOf[provider[p].key] = f.token
      OBVIOUS
    <3>1. msg = WireStop /\ p = f.by /\ f.op = "stop"
      BY <1>11, <1>12, ProviderNumbers DEF ProviderInv
    <3>2. ReleaseOK(f)
      BY <1>2, <3>1 DEF FrameOK, CallOps, StartOps
    <3> QED BY <3>1, <3>2 DEF ReleaseOK
  <2>3. Confined(g.token)
    BY DEF Serve, Confined, Steady
  <2> QED BY <2>1, <2>2, <2>3
<1>17. FramesOK'
  BY <1>1, <1>7, <1>8, <1>14, <1>15, <1>16, FramesReplace
<1>18. Shape'
  BY <1>1, <1>7, <1>8, ShapeReplace DEF ProviderInv, SameCall
<1>19. \A q : BeingStopped(q) => BeingStopped(q)'
  BY <1>1, <1>7, <1>8, StopsReplace DEF SameCall
<1>20. f.op \in {"setup", "ping"} => f \in CallFrames
  BY <1>2, FrameTodo DEF CallOps, StartOps
<1>21. \A v \in Processes : StartingIt(v) => StartingIt(v)'
  BY <1>1, <1>7, <1>8, <1>9, <1>20, StartingReplace DEF SameCall
<1>22. LateMoves
  BY <1>9 DEF LateMoves, ProviderInv, Typed
<1>23. frames' \in Seq(Frames)
  BY <1>8 DEF Replaces
<1>24. /\ peer' \in [Peers -> {"off", "daemon", "looping", "serving", "killed", "crashed"}]
       /\ memory' \in [Peers -> Memories] /\ MemoriesOK'
       /\ \A v \in Processes : Alive(v)' => Alive(v)
  BY <1>2, <1>3, <1>4, ServesFacts
<1> QED BY <1>9, <1>13, <1>14, <1>17, <1>18, <1>19, <1>21, <1>22, <1>23, <1>24, WorkersStep DEF Apart

(*--------------------------------- theorems ------------------------------*)

LEMMA StayStep ==
  ASSUME ProviderInv, UNCHANGED providerVars
  PROVE  ProviderInv'
<1>1. /\ Apart /\ frames' = frames /\ peer' = peer /\ memory' = memory /\ late' = late
      /\ launchedBy' = launchedBy
  BY DEF providerVars, Apart
<1>2. /\ peer' \in [Peers -> {"off", "daemon", "looping", "serving", "killed", "crashed"}]
      /\ memory' \in [Peers -> Memories] /\ MemoriesOK' /\ LateMoves
  BY <1>1 DEF ProviderInv, Typed, MemoriesOK, LateMoves
<1>3. Kept(0) /\ 0 \notin DOMAIN provider
  BY <1>1, ProviderNumbers DEF Kept, Lives, Ready, Knows, ProviderInv
<1>4. \A w \in Processes : Alive(w)' => Alive(w)
  BY <1>1 DEF Alive
<1> QED BY <1>1, <1>2, <1>3, <1>4, UnseenStep

LEMMA InitStep == ProviderInit => ProviderInv
<1> SUFFICES ASSUME ProviderInit PROVE ProviderInv
  OBVIOUS
<1>1. /\ frames = <<>> /\ store = [k \in Keys |-> 0] /\ provider = <<>>
      /\ anchor = [t \in Tokens |-> "none"] /\ udf = [u \in Udfs |-> [life |-> "new", by |-> 0]]
      /\ peer = [w \in Peers |-> IF w \in UserOwned THEN "serving" ELSE "off"]
      /\ launchedBy = [w \in Processes |-> 0] /\ memory = [w \in Peers |-> Blank]
      /\ late = [w \in Peers |-> {}]
  BY DEF ProviderInit
<1>2. Typed
  BY <1>1, BlankIsOK DEF Typed
<1>3. Shape /\ FramesOK /\ ProvidersOK /\ StoreOK /\ LateOK /\ CallablesOK
  BY <1>1 DEF Shape, FramesOK, ProvidersOK, StoreOK, LateOK, CallablesOK
<1>4. PeersOK
  BY <1>1, PeerKinds DEF PeersOK, Ready, Alive
<1>5. MemoriesOK
  <2> SUFFICES ASSUME NEW w \in Peers, NEW m, m = memory[w] PROVE MemoryOK(m)
    BY DEF MemoriesOK
  <2>1. m = Blank
    BY <1>1
  <2> QED BY <2>1, BlankIsOK
<1>6. LaunchesOK
  <2>1. Launched = {}
    BY <1>1 DEF Launched
  <2>2. Cardinality({}) = 0
    BY FS_EmptySet
  <2> QED BY <2>1, <2>2 DEF LaunchesOK
<1> QED BY <1>2, <1>3, <1>4, <1>5, <1>6 DEF ProviderInv

LEMMA NextStep == ProviderInv /\ [ProviderNext]_providerVars => ProviderInv'
<1> SUFFICES ASSUME ProviderInv, [ProviderNext]_providerVars PROVE ProviderInv'
  OBVIOUS
<1>1. ASSUME NEW u \in Udfs, NEW k \in Keys, Prepare(u, k) PROVE ProviderInv'
  BY <1>1, PrepareStep
<1>2. CASE Launch \/ SetUp \/ AttemptFails \/ StartFails \/ Started
  BY <1>2, LaunchStep, SetUpStep, AttemptFailsStep, StartFailsStep, StartedStep
<1>3. CASE Registered \/ RegisterFails \/ Answered \/ TryFails
  BY <1>3, RegisteredStep, RegisterFailsStep, AnsweredStep, TryFailsStep
<1>4. ASSUME NEW t \in Tokens, Release(t) PROVE ProviderInv'
  BY <1>4, ReleaseStep
<1>5. ASSUME NEW k \in Keys, SkipKey(k) \/ ReleaseFails(k) \/ StopKey(k) PROVE ProviderInv'
  BY <1>5, SkipKeyStep, ReleaseFailsStep, StopKeyStep
<1>6. CASE StopUnanswered \/ Stopped \/ Released
  BY <1>6, StopUnansweredStep, StoppedStep, ReleasedStep
<1>7. ASSUME NEW i \in DOMAIN frames, Serve(i) \/ ServeError(i) PROVE ProviderInv'
  BY <1>7, ServeStep, ServeErrorStep
<1>8. ASSUME NEW w \in Peers, ServeLate(w) \/ Listen(w) \/ Crash(w) PROVE ProviderInv'
  BY <1>8, ServeLateStep, ListenStep, CrashStep
<1>9. CASE Rest \/ UNCHANGED providerVars
  BY <1>9, StayStep DEF Rest
<1> QED BY <1>1, <1>2, <1>3, <1>4, <1>5, <1>6, <1>7, <1>8, <1>9 DEF ProviderNext

LEMMA HeardIsKnown ==
  ASSUME ProviderInv, NEW w \in Peers, NEW u \in Udfs, u \in Range(memory[w].heard)
  PROVE  u \in memory[w].known \/ Newer(w, u) >= RegistryMax
<1>1. PICK o, h : /\ o = memory[w].order /\ h = memory[w].heard /\ o \in Seq(Udfs) /\ h \in Seq(Udfs)
                  /\ Distinct(h) /\ EndOf(o, h) /\ memory[w].known = Range(o)
                  /\ Len(o) <= RegistryMax /\ (Len(o) < RegistryMax => Len(o) = Len(h))
  <2>1. memory[w] \in Memories /\ MemoryOK(memory[w])
    BY DEF ProviderInv, Typed, MemoriesOK
  <2> QED BY <2>1 DEF MemoryOK, Memories
<1>2. PICK n \in Nat, l \in Nat : /\ n = Len(o) /\ l = Len(h) /\ n <= l /\ DOMAIN h = 1 .. l
                                  /\ DOMAIN o = 1 .. n
  BY <1>1 DEF EndOf
<1>3. PICK i \in 1 .. l : h[i] = u
  BY <1>1, <1>2 DEF Range
<1>4. (CHOOSE j \in DOMAIN h : h[j] = u) = i
  <2>1. \A j \in 1 .. l : h[j] = u => j = i
    BY <1>1, <1>2, <1>3 DEF Distinct
  <2> QED BY <1>2, <1>3, <2>1
<1>5. Newer(w, u) = l - i
  BY <1>1, <1>2, <1>4 DEF Newer
<1>6. CASE i > l - n
  <2>1. i - (l - n) \in 1 .. n /\ l - n + (i - (l - n)) = i
    BY <1>2, <1>6
  <2>2. o[i - (l - n)] = h[i]
    BY <1>1, <1>2, <2>1 DEF EndOf
  <2> QED BY <1>1, <1>2, <1>3, <2>1, <2>2 DEF Range
<1>7. CASE i <= l - n
  <2>1. n = RegistryMax
    BY <1>1, <1>2, <1>7, ProviderAssumption
  <2> QED BY <1>2, <1>5, <1>7, <2>1
<1> QED BY <1>2, <1>6, <1>7

LEMMA InvServes == ProviderInv => CallableIsServed
<1> SUFFICES ASSUME ProviderInv, NEW u \in Udfs, udf[u].life = "callable",
                    provider[udf[u].by].started, ~BeingStopped(udf[u].by),
                    NEW w \in Range(provider[udf[u].by].ends)
             PROVE  \/ peer[w] = "crashed"
                    \/ peer[w] = "serving" /\ (u \in memory[w].known \/ Newer(w, u) >= RegistryMax)
  BY DEF CallableIsServed
<1>1. PICK p : p = udf[u].by
  OBVIOUS
<1>2. /\ p \in DOMAIN provider /\ provider[p].started /\ ~BeingStopped(p)
      /\ w \in Range(provider[p].ends) /\ Knows(w, u)
  BY <1>1 DEF ProviderInv, CallablesOK
<1>3. Ready(w)
  BY <1>2 DEF ProviderInv, ProvidersOK
<1>4. w \in Peers
  <2>1. provider[p].ends \in Seq(Peers)
    BY <1>2, ProviderNumbers DEF ProviderInv, Providers
  <2> QED BY <1>2, <2>1 DEF Range
<1> QED BY <1>2, <1>3, <1>4, HeardIsKnown DEF Ready, Knows

LEMMA InvFinds == ProviderInv => NoWorkerAstray
<1> SUFFICES ASSUME ProviderInv, frames = <<>>, NEW w \in Processes, Alive(w), NEW p, p = launchedBy[w]
             PROVE  /\ provider[p].started /\ store[provider[p].key] = p
                    /\ w \in Range(provider[p].ends) /\ anchor[TokenOf[provider[p].key]] # "none"
  BY DEF NoWorkerAstray
<1>1. ~StartingIt(w)
  BY DEF StartingIt
<1>2. p \in DOMAIN provider /\ provider[p].started /\ w \in Range(provider[p].ends)
  BY <1>1 DEF ProviderInv, PeersOK
<1>3. store[provider[p].key] = p /\ p # 0 /\ provider[p].key \in Keys
  BY <1>2, ProviderNumbers DEF ProviderInv, ProvidersOK, Providers
<1>4. anchor[TokenOf[provider[p].key]] # "none"
  BY <1>3 DEF ProviderInv, StoreOK
<1> QED BY <1>2, <1>3, <1>4

(* The invariant behind both theorems: what each call under way relies on is
   there, whoever answers late, crashes or is stopped on top of it. *)
THEOREM ProvidersAreInOrder == ProviderSpec => []ProviderInv
<1>1. ProviderInit => ProviderInv
  BY InitStep
<1>2. ProviderInv /\ [ProviderNext]_providerVars => ProviderInv'
  BY NextStep
<1> QED BY <1>1, <1>2, PTL DEF ProviderSpec

(* Wherever DuckDB sends a chunk of a UDF that was registered, a worker listens
   that knows it, or has crashed, or has learnt RegistryMax further UDFs since. *)
THEOREM CallablesAreServed == ProviderSpec => []CallableIsServed
<1>1. ProviderSpec => []ProviderInv
  BY ProvidersAreInOrder
<1>2. ProviderInv => CallableIsServed
  BY InvServes
<1> QED BY <1>1, <1>2, PTL

(* When R rests, each worker process it launched belongs to a started provider
   that is in the store, for the release of its runtime to find. *)
THEOREM WorkersAreFound == ProviderSpec => []NoWorkerAstray
<1>1. ProviderSpec => []ProviderInv
  BY ProvidersAreInOrder
<1>2. ProviderInv => NoWorkerAstray
  BY InvFinds
<1> QED BY <1>1, <1>2, PTL
=============================================================================
