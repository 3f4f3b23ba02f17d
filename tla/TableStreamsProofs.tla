--------------------------- MODULE TableStreamsProofs ---------------------------
(***************************************************************************)
(* Proofs about TableStreams, for any binds, scans, streams and threads.   *)
(***************************************************************************)
EXTENDS TableStreams, PreservedReleaseProofs

(*------------------------------- the types ------------------------------*)

Operations == {"bind", "scan", "other", "free", "close"}
Places     == {"drain", "user", "body", "end", "ended", "close", "release"}
InUse      == {"open", "failed", "complete"}

Frames == [op : Operations, arg : Binds \cup Scans \cup Objects \cup {NoBind},
           nodes : Seq(Nodes), at : Places]
StreamType == [made : BOOLEAN, exact : Nat \cup {Unknown}, closed : BOOLEAN, closes : Nat,
               ended : BOOLEAN, pulled : Nat]
BindType == [result : Objects \cup {NoObject}, refs : Nat]
ScanType == [bind : Binds \cup {NoBind}, chunk : Nat, pos : Nat, done : BOOLEAN,
             state : {"new", "gone"} \cup InUse]

Typed ==
  /\ HeapType(heap)
  /\ stream \in [Objects -> StreamType]
  /\ bind \in [Binds -> BindType]
  /\ dataHeld \subseteq Binds
  /\ scan \in [Scans -> ScanType]
  /\ stack \in Seq(Frames)

(*------------------------------- the stack ------------------------------*)

(* A stack with frames is its top on the others, *)
LEMMA LastOf ==
  ASSUME NEW st \in Seq(Frames), st # <<>>
  PROVE  \E p \in Seq(Frames), t \in Frames :
           /\ st = Append(p, t) /\ Last(st) = t /\ Front(st) = p
           /\ \A u \in Frames : [st EXCEPT ![Len(st)] = u] = Append(p, u)
<1>1. PICK n \in Nat : n + 1 = Len(st)
  <2>1. Len(st) \in Nat /\ Len(st) # 0
    OBVIOUS
  <2>2. Len(st) - 1 \in Nat /\ (Len(st) - 1) + 1 = Len(st)
    BY <2>1
  <2> QED BY <2>2
<1>2. PICK p \in Seq(Frames) : p = Front(st)
  <2>1. Front(st) = SubSeq(st, 1, n)
    BY <1>1 DEF Front
  <2>2. SubSeq(st, 1, n) \in Seq(Frames)
    BY <1>1
  <2> QED BY <2>1, <2>2
<1>3. PICK t \in Frames : t = st[Len(st)]
  BY <1>1
<1>4. DOMAIN st = 1 .. n + 1 /\ Len(p) = n /\ DOMAIN p = 1 .. n /\ \A i \in 1 .. n : p[i] = st[i]
  BY <1>1, <1>2 DEF Front
<1>5. st = Append(p, t)
  <2>1. Append(p, t) \in Seq(Frames) /\ Len(Append(p, t)) = n + 1 /\ Append(p, t)[n + 1] = t
        /\ \A i \in 1 .. n : Append(p, t)[i] = p[i]
    BY <1>4
  <2>2. \A i \in 1 .. n + 1 : st[i] = Append(p, t)[i]
    BY <1>1, <1>3, <1>4, <2>1
  <2> QED BY <1>1, <2>1, <2>2
<1>6. Last(st) = t /\ Front(st) = p
  BY <1>2, <1>3 DEF Last
<1>7. ASSUME NEW u \in Frames
      PROVE  [st EXCEPT ![Len(st)] = u] = Append(p, u)
  <2>1. Append(p, u) \in Seq(Frames) /\ Len(Append(p, u)) = n + 1 /\ Append(p, u)[n + 1] = u
        /\ \A i \in 1 .. n : Append(p, u)[i] = p[i]
    BY <1>4
  <2>2. PICK e : e = [st EXCEPT ![Len(st)] = u]
    OBVIOUS
  <2>3. e \in Seq(Frames) /\ Len(e) = n + 1 /\ e[n + 1] = u /\ \A i \in 1 .. n : e[i] = st[i]
    BY <1>1, <1>4, <2>2
  <2>4. \A i \in 1 .. n + 1 : e[i] = Append(p, u)[i]
    BY <1>4, <2>1, <2>3
  <2>5. e = Append(p, u)
    BY <2>1, <2>3, <2>4
  <2> QED BY <2>2, <2>5
<1> QED BY <1>5, <1>6, <1>7

(* which the R thread changes. *)
LEMMA StackTop ==
  ASSUME stack \in Seq(Frames), stack # <<>>
  PROVE  \E p \in Seq(Frames), t \in Frames :
           /\ stack = Append(p, t) /\ Top = t /\ Popped = p
           /\ \A w \in Places : GoTo(w) = Append(p, [t EXCEPT !.at = w])
           /\ t.nodes # <<>> => [stack EXCEPT ![Len(stack)].nodes = Tail(@)]
                                = Append(p, [t EXCEPT !.nodes = Tail(@)])
<1>1. PICK p \in Seq(Frames), t \in Frames :
        /\ stack = Append(p, t) /\ Last(stack) = t /\ Front(stack) = p
        /\ \A u \in Frames : [stack EXCEPT ![Len(stack)] = u] = Append(p, u)
  BY LastOf
<1>2. Top = t /\ Popped = p
  BY <1>1 DEF Top, Popped
<1>3. stack[Len(stack)] = t
  BY <1>1 DEF Last
<1>4. ASSUME NEW w \in Places PROVE GoTo(w) = Append(p, [t EXCEPT !.at = w])
  <2>1. GoTo(w) = [stack EXCEPT ![Len(stack)] = [stack[Len(stack)] EXCEPT !.at = w]]
    BY DEF GoTo
  <2>2. [t EXCEPT !.at = w] \in Frames
    BY DEF Frames
  <2> QED BY <1>1, <1>3, <2>1, <2>2
<1>5. ASSUME t.nodes # <<>>
      PROVE  [stack EXCEPT ![Len(stack)].nodes = Tail(@)] = Append(p, [t EXCEPT !.nodes = Tail(@)])
  <2>1. [stack EXCEPT ![Len(stack)].nodes = Tail(@)]
        = [stack EXCEPT ![Len(stack)] = [stack[Len(stack)] EXCEPT !.nodes = Tail(@)]]
    OBVIOUS
  <2>2. [t EXCEPT !.nodes = Tail(@)] \in Frames
    <3>1. t.nodes \in Seq(Nodes)
      BY DEF Frames
    <3>2. PICK ns \in Seq(Nodes) : ns = Tail(t.nodes)
      BY <1>5, <3>1, CountTail
    <3>3. [t EXCEPT !.nodes = ns] \in Frames
      BY DEF Frames
    <3> QED BY <3>2, <3>3
  <2> QED BY <1>1, <1>3, <2>1, <2>2
<1> QED BY <1>1, <1>2, <1>4, <1>5

(* Where the program is in an operation of a frame, there is a frame. *)
LEMMA TopIsThere ==
  ASSUME Top.at # "user" \/ Top.op # "query"
  PROVE  stack # <<>>
  BY DEF Top, Frame

(* The frames of a longer stack are the old ones and the new one. *)
LEMMA FramesAppend ==
  ASSUME NEW p \in Seq(Frames), NEW f \in Frames
  PROVE  /\ Append(p, f) \in Seq(Frames)
         /\ Len(p) \in Nat /\ DOMAIN p = 1 .. Len(p)
         /\ DOMAIN Append(p, f) = 1 .. Len(p) + 1
         /\ Append(p, f)[Len(p) + 1] = f
         /\ \A i \in 1 .. Len(p) : Append(p, f)[i] = p[i] /\ p[i] \in Frames
  OBVIOUS

(* The detained nodes of an object are finitely many, *)
LEMMA DetainedFinite ==
  ASSUME NEW p \in Seq(Frames), NEW o
  PROVE  IsFiniteSet(Detained(p, o)) /\ Cardinality(Detained(p, o)) \in Nat
<1> DEFINE C(i) == {j \in DOMAIN p[i].nodes : p[i].nodes[j].object = o}
           P(i) == {i} \X C(i)
           A == {P(i) : i \in DOMAIN p}
<1>1. IsFiniteSet(DOMAIN p)
  <2>1. DOMAIN p = 1 .. Len(p) /\ Len(p) \in Nat
    OBVIOUS
  <2> QED BY <2>1, FS_Interval
<1>2. ASSUME NEW i \in DOMAIN p
      PROVE  IsFiniteSet(P(i))
  <2>1. p[i].nodes \in Seq(Nodes)
    <3>1. p[i] \in Frames
      OBVIOUS
    <3> QED BY <3>1 DEF Frames
  <2>2. IsFiniteSet(C(i))
    <3>1. DOMAIN p[i].nodes = 1 .. Len(p[i].nodes) /\ Len(p[i].nodes) \in Nat
      BY <2>1
    <3>2. IsFiniteSet(1 .. Len(p[i].nodes))
      BY <3>1, FS_Interval
    <3>3. C(i) \subseteq 1 .. Len(p[i].nodes)
      BY <3>1
    <3> QED BY <3>2, <3>3, FS_Subset
  <2> HIDE DEF C
  <2> QED BY <2>2, FS_Singleton, FS_Product
<1>3. IsFiniteSet(A)
  <2> HIDE DEF P
  <2>1. A = {g \in A : TRUE}
    OBVIOUS
  <2> DEFINE F == [i \in DOMAIN p |-> P(i)]
  <2>2. F \in Surjection(DOMAIN p, A)
    BY DEF Surjection
  <2> QED BY <1>1, <2>2, FS_Surjection
<1>4. \A S \in A : IsFiniteSet(S)
  BY <1>2
<1>5. Detained(p, o) = UNION A
  BY DEF Detained
<1> HIDE DEF A
<1>6. IsFiniteSet(UNION A)
  BY <1>3, <1>4, FS_UNION
<1> QED BY <1>5, <1>6, FS_CardinalityType

(* none on an empty stack, *)
LEMMA DetainedEmpty ==
  ASSUME NEW o PROVE Cardinality(Detained(<<>>, o)) = 0
<1>1. Detained(<<>>, o) = {}
  BY DEF Detained
<1> QED BY <1>1, FS_EmptySet

(* and those of a frame count with the frame. *)
LEMMA DetainedAppend ==
  ASSUME NEW p \in Seq(Frames), NEW f \in Frames, NEW o
  PROVE  Cardinality(Detained(Append(p, f), o)) = Cardinality(Detained(p, o)) + CountOf(f.nodes, o)
<1> DEFINE k == Len(p) + 1
           C == {j \in DOMAIN f.nodes : f.nodes[j].object = o}
           T == {k} \X C
           D(st, i) == {i} \X {j \in DOMAIN st[i].nodes : st[i].nodes[j].object = o}
<1>1. \A x : x \in Detained(Append(p, f), o) <=> x \in Detained(p, o) \/ x \in T
  <2>1. DOMAIN p = 1 .. Len(p) /\ DOMAIN Append(p, f) = (1 .. Len(p)) \cup {k}
        /\ Append(p, f)[k] = f /\ \A i \in 1 .. Len(p) : Append(p, f)[i] = p[i]
    BY FramesAppend
  <2>2. \A i \in DOMAIN p : D(Append(p, f), i) = D(p, i)
    BY <2>1
  <2>3. D(Append(p, f), k) = T
    BY <2>1
  <2>4. Detained(p, o) = UNION {D(p, i) : i \in DOMAIN p}
    BY DEF Detained
  <2>5. Detained(Append(p, f), o) = UNION {D(Append(p, f), i) : i \in DOMAIN Append(p, f)}
    BY DEF Detained
  <2> HIDE DEF D, T, k
  <2> QED BY <2>1, <2>2, <2>3, <2>4, <2>5
<1>2. IsFiniteSet(T) /\ Cardinality(T) = CountOf(f.nodes, o)
  <2>1. f.nodes \in Seq(Nodes)
    BY DEF Frames
  <2>2. IsFiniteSet(C)
    <3>1. DOMAIN f.nodes = 1 .. Len(f.nodes) /\ Len(f.nodes) \in Nat
      BY <2>1
    <3>2. IsFiniteSet(1 .. Len(f.nodes))
      BY <3>1, FS_Interval
    <3>3. C \subseteq 1 .. Len(f.nodes)
      BY <3>1
    <3> QED BY <3>2, <3>3, FS_Subset
  <2>3. CountOf(f.nodes, o) = Cardinality(C)
    BY DEF CountOf
  <2> HIDE DEF C
  <2>4. IsFiniteSet({k}) /\ Cardinality({k}) = 1
    BY FS_Singleton
  <2>5. IsFiniteSet({k} \X C) /\ Cardinality({k} \X C) = Cardinality({k}) * Cardinality(C)
    BY <2>2, <2>4, FS_Product
  <2>6. Cardinality(C) \in Nat
    BY <2>2, FS_CardinalityType
  <2>7. Cardinality({k} \X C) = Cardinality(C)
    BY <2>4, <2>5, <2>6
  <2> QED BY <2>3, <2>5, <2>7
<1>3. IsFiniteSet(Detained(p, o))
  BY DetainedFinite
<1>4. Detained(p, o) \cap T = {}
  <2>1. \A x \in Detained(p, o) : x[1] \in 1 .. Len(p)
    BY FramesAppend DEF Detained
  <2>2. \A x \in T : x[1] = k
    OBVIOUS
  <2>3. Len(p) \in Nat /\ k \notin 1 .. Len(p)
    BY FramesAppend
  <2> HIDE DEF T, k
  <2> QED BY <2>1, <2>2, <2>3
<1>5. Detained(Append(p, f), o) = Detained(p, o) \cup T
  BY <1>1
<1> HIDE DEF T
<1>6. Cardinality(Detained(p, o) \cup T) = Cardinality(Detained(p, o)) + Cardinality(T) - Cardinality({})
  BY <1>2, <1>3, <1>4, FS_Union
<1>7. Cardinality(Detained(p, o)) \in Nat /\ Cardinality(T) \in Nat
  BY <1>2, <1>3, FS_CardinalityType
<1> QED BY <1>2, <1>5, <1>6, <1>7, FS_EmptySet

(*--------------------------- the inductive invariant ---------------------*)

(* A node is of a stream that no bind holds any more, to be closed if need be. *)
NodeOK(n) == n.close /\ stream[n.object].made /\ \A b \in Binds : bind[b].result # n.object

(* What a frame relies on while others run on top of it *)
FrameOK(f) ==
  /\ f.at # "drain" => f.nodes = <<>>
  /\ \A j \in DOMAIN f.nodes : NodeOK(f.nodes[j])
  /\ f.op = "bind" => f.arg \in Binds /\ bind[f.arg] = FreeBind /\ f.at \in {"drain", "user"}
  /\ f.op = "scan" => /\ f.arg \in Scans /\ scan[f.arg].state = "open"
                      /\ f.at \in {"drain", "body", "user", "end", "ended"}
                      /\ f.at = "end" => stream[StreamOf(f.arg)].ended
  /\ f.op = "other" => f.at = "drain"
  /\ f.op = "free" => /\ f.arg \in Binds /\ bind[f.arg].refs = 0 /\ bind[f.arg].result \in Objects
                      /\ f.at \in {"close", "release"}
                      /\ f.at = "release" => stream[bind[f.arg].result].closed
  /\ f.op = "close" => f.at = "user"

Good == {f \in Frames : FrameOK(f)}

(* Two frames of the same bind or scan *)
SameJob(f, g) == f.op = g.op /\ f.arg = g.arg /\ f.op \in {"bind", "scan", "free"}

(* A stack of frames of G, each with a job of its own, and a close is called by one *)
ShapeOK(st, G) ==
  /\ \A i \in DOMAIN st : st[i] \in G
  /\ \A i, j \in DOMAIN st : SameJob(st[i], st[j]) => i = j
  /\ st # <<>> => st[1].op # "close"

Using(s, b) == scan[s].state \in InUse /\ scan[s].bind = b

(* A bind counts its references, and no two share a stream. *)
BindsOK ==
  /\ \A b \in Binds :
       /\ bind[b].refs = (IF b \in dataHeld THEN 1 ELSE 0) + (IF \E s \in Scans : Using(s, b) THEN 1 ELSE 0)
       /\ bind[b].refs > 0 => bind[b].result \in Objects
       /\ \A s, q \in Scans : Using(s, b) /\ Using(q, b) => s = q
  /\ \A s \in Scans : scan[s].state \in InUse => scan[s].bind \in Binds
  /\ \A b, c \in Binds : bind[b].result = bind[c].result /\ bind[b].result # NoObject => b = c

StreamsOK ==
  \A o \in Objects :
    /\ ~stream[o].made => ~stream[o].closed /\ \A b \in Binds : bind[b].result # o
    /\ stream[o].closes = IF stream[o].closed THEN 1 ELSE 0
    /\ stream[o].closed /\ ~stream[o].ended => \A b \in Binds : bind[b].result = o => bind[b].refs = 0
    /\ stream[o].made /\ heap.preserved[o] = 0 => stream[o].closed

RowsOK ==
  \A s \in Scans :
    /\ scan[s].state = "new" => scan[s].pos = 0
    /\ scan[s].state \in {"open", "complete"} /\ Exact(s) # Unknown
       => scan[s].pos <= Exact(s) /\ (scan[s].state = "complete" => scan[s].pos = Exact(s))

Owned(o) == \E b \in Binds : bind[b].result = o

(* The holds on a stream are those of its bind and of the detached nodes. *)
HoldsOK ==
  \A o \in Objects :
    HoldsOn(heap, o) = (IF Owned(o) THEN 1 ELSE 0) + Cardinality(Detained(stack, o))

QueueOK == \A j \in DOMAIN heap.queue : NodeOK(heap.queue[j])

TablesInv == Typed /\ ShapeOK(stack, Good) /\ BindsOK /\ StreamsOK /\ RowsOK /\ HoldsOK /\ QueueOK

(*---------------------------- how steps keep it --------------------------*)

(* What a step may not do to a stream another frame or node relies on *)
Progress ==
  \A o \in Objects :
    /\ stream[o].made => stream'[o].made
    /\ stream[o].closed => stream'[o].closed
    /\ stream[o].ended => stream'[o].ended
    /\ stream[o].made /\ ~Owned(o) => ~Owned(o)'

(* nor to the bind or scan of the frame *)
Kept(f) ==
  /\ f.op \in {"bind", "free"} => bind'[f.arg] = bind[f.arg]
  /\ f.op = "scan" => /\ scan'[f.arg].state = scan[f.arg].state
                      /\ scan'[f.arg].bind = scan[f.arg].bind
                      /\ bind'[scan[f.arg].bind].result = bind[scan[f.arg].bind].result

LEMMA NodeKept ==
  ASSUME Progress, NEW n \in Nodes, NodeOK(n)
  PROVE  NodeOK(n)'
<1>1. n.object \in Objects
  BY DEF Nodes
<1> QED BY <1>1 DEF Progress, NodeOK, Owned

(* The stream of a scan in use is one. *)
LEMMA ScansStream ==
  ASSUME Typed, BindsOK, NEW s \in Scans, scan[s].state \in InUse
  PROVE  scan[s].bind \in Binds /\ bind[scan[s].bind].refs > 0 /\ StreamOf(s) \in Objects
<1>1. scan[s].bind \in Binds /\ Using(s, scan[s].bind)
  BY DEF BindsOK, Using
<1>2. bind[scan[s].bind].refs > 0
  <2>1. PICK b \in Binds : b = scan[s].bind
    BY <1>1
  <2>2. bind[b].refs = (IF b \in dataHeld THEN 1 ELSE 0) + 1
    BY <1>1, <2>1 DEF BindsOK
  <2> QED BY <2>1, <2>2
<1> QED BY <1>1, <1>2 DEF BindsOK, StreamOf

LEMMA FrameKept ==
  ASSUME Typed, BindsOK, Progress, NEW f \in Good, Kept(f)
  PROVE  f \in Good'
<1>1. f \in Frames /\ FrameOK(f)
  BY DEF Good
<1>2. f.nodes \in Seq(Nodes)
  BY <1>1 DEF Frames
<1>3. \A j \in DOMAIN f.nodes : f.nodes[j] \in Nodes
  BY <1>2
<1>4. \A j \in DOMAIN f.nodes : NodeOK(f.nodes[j])'
  BY <1>1, <1>3, NodeKept DEF FrameOK
<1>5. CASE f.op = "scan"
  <2>1. StreamOf(f.arg) \in Objects /\ f.arg \in Scans
    BY <1>1, <1>5, ScansStream DEF FrameOK, InUse
  <2>2. StreamOf(f.arg)' = StreamOf(f.arg) /\ scan'[f.arg].state = "open"
    BY <1>1, <1>5 DEF Kept, StreamOf, FrameOK
  <2>3. f.at = "end" => stream'[StreamOf(f.arg)].ended
    BY <1>1, <1>5, <2>1 DEF FrameOK, Progress
  <2> QED BY <1>1, <1>4, <1>5, <2>1, <2>2, <2>3 DEF FrameOK, Good
<1>6. CASE f.op = "free"
  <2>1. bind'[f.arg] = bind[f.arg] /\ bind[f.arg].result \in Objects
    BY <1>1, <1>6 DEF Kept, FrameOK
  <2>2. f.at = "release" => stream'[bind[f.arg].result].closed
    BY <1>1, <1>6, <2>1 DEF FrameOK, Progress
  <2> QED BY <1>1, <1>4, <1>6, <2>1, <2>2 DEF FrameOK, Good
<1>7. CASE f.op \notin {"scan", "free"}
  BY <1>1, <1>4, <1>7 DEF FrameOK, Good, Kept
<1> QED BY <1>5, <1>6, <1>7

LEMMA QueueKept ==
  ASSUME Typed, QueueOK, Progress, heap'.queue = heap.queue
  PROVE  QueueOK'
<1>1. \A j \in DOMAIN heap.queue : heap.queue[j] \in Nodes
  BY DEF Typed, HeapType
<1> QED BY <1>1, NodeKept DEF QueueOK

(* A stack is in shape when the one below its top is, and the top is. *)
LEMMA ShapeAppend ==
  ASSUME NEW G \in SUBSET Frames, NEW p \in Seq(Frames), NEW f \in Frames
  PROVE  ShapeOK(Append(p, f), G) <=>
           /\ ShapeOK(p, G) /\ f \in G
           /\ \A i \in DOMAIN p : ~SameJob(p[i], f)
           /\ p = <<>> => f.op # "close"
<1> DEFINE k == Len(p) + 1
<1>1. /\ Len(p) \in Nat /\ DOMAIN p = 1 .. Len(p) /\ DOMAIN Append(p, f) = 1 .. k
      /\ Append(p, f)[k] = f /\ \A i \in 1 .. Len(p) : Append(p, f)[i] = p[i]
  BY FramesAppend
<1>2. Append(p, f) # <<>> /\ (p = <<>> => Append(p, f)[1] = f) /\ (p # <<>> => Append(p, f)[1] = p[1])
  <2>1. p = <<>> => Len(p) = 0
    OBVIOUS
  <2>2. p # <<>> => 1 \in 1 .. Len(p)
    BY <1>1
  <2> QED BY <1>1, <2>1, <2>2
<1>3. (\A i \in DOMAIN Append(p, f) : Append(p, f)[i] \in G) <=> (\A i \in DOMAIN p : p[i] \in G) /\ f \in G
  <2>1. k \in 1 .. k /\ 1 .. k = 1 .. Len(p) \cup {k}
    BY <1>1
  <2> HIDE DEF k
  <2> QED BY <1>1, <2>1
<1>4. (\A i, j \in DOMAIN Append(p, f) : SameJob(Append(p, f)[i], Append(p, f)[j]) => i = j)
      <=> /\ \A i, j \in DOMAIN p : SameJob(p[i], p[j]) => i = j
          /\ \A i \in DOMAIN p : ~SameJob(p[i], f)
  <2>1. k \in 1 .. k /\ 1 .. k = 1 .. Len(p) \cup {k} /\ k \notin 1 .. Len(p)
    BY <1>1
  <2>2. \A g, h : SameJob(g, h) => SameJob(h, g)
    BY DEF SameJob
  <2> HIDE DEF k
  <2> QED BY <1>1, <2>1, <2>2
<1> HIDE DEF k
<1> QED BY <1>2, <1>3, <1>4 DEF ShapeOK

LEMMA ShapeKept ==
  ASSUME Typed, BindsOK, Progress, NEW p \in Seq(Frames), ShapeOK(p, Good), \A i \in DOMAIN p : Kept(p[i])
  PROVE  ShapeOK(p, Good')
  BY FrameKept DEF ShapeOK

(* the user's close may run for a stream *)
Closable(o) ==
  stream[o].made /\ (stream[o].ended \/ \A b \in Binds : bind[b].result = o => bind[b].refs = 0)

StreamMove(o) ==
  /\ stream'[o].made = stream[o].made /\ stream'[o].exact = stream[o].exact
  /\ stream[o].ended => stream'[o].ended
  /\ \/ stream'[o].closed = stream[o].closed /\ stream'[o].closes = stream[o].closes
     \/ ~stream[o].closed /\ stream'[o].closed /\ stream'[o].closes = stream[o].closes + 1 /\ Closable(o)

ScanMove(s) ==
  /\ scan'[s].bind = scan[s].bind
  /\ \/ scan'[s].state = scan[s].state /\ scan'[s].pos = scan[s].pos
     \/ /\ scan[s].state = "open"
        /\ \/ scan'[s].state = "failed"
           \/ scan'[s].state = "open" /\ (Exact(s) # Unknown => scan'[s].pos <= Exact(s))
           \/ scan'[s].state = "complete" /\ Exact(s) \in {Unknown, scan'[s].pos}

(* What the R thread does inside an operation *)
Quiet ==
  /\ bind' = bind /\ dataHeld' = dataHeld
  /\ \A o \in Objects : StreamMove(o)
  /\ \A s \in Scans : ScanMove(s)

LEMMA QuietKeeps ==
  ASSUME TablesInv, Quiet
  PROVE  Progress /\ BindsOK' /\ RowsOK'
<1> USE DEF TablesInv
<1>1. Progress
  BY DEF Quiet, StreamMove, Progress, Owned
<1>2. \A s \in Scans : /\ scan'[s].bind = scan[s].bind
                       /\ scan'[s].state \in InUse <=> scan[s].state \in InUse
  BY DEF Quiet, ScanMove, InUse
<1>3. BindsOK'
  <2>1. \A s \in Scans, b \in Binds : Using(s, b)' <=> Using(s, b)
    BY <1>2 DEF Using, Quiet
  <2>2. bind' = bind /\ dataHeld' = dataHeld
    BY DEF Quiet
  <2> QED BY <1>2, <2>1, <2>2 DEF BindsOK
<1>4. RowsOK'
  <2> SUFFICES ASSUME NEW s \in Scans
               PROVE  /\ scan'[s].state = "new" => scan'[s].pos = 0
                      /\ scan'[s].state \in {"open", "complete"} /\ Exact(s)' # Unknown
                         => scan'[s].pos <= Exact(s)' /\ (scan'[s].state = "complete" => scan'[s].pos = Exact(s)')
    BY DEF RowsOK
  <2>1. ScanMove(s)
    BY DEF Quiet
  <2>2. scan'[s].state = "new" => scan'[s].pos = 0
    BY <2>1 DEF RowsOK, ScanMove
  <2>3. ASSUME scan'[s].state \in {"open", "complete"}, Exact(s)' # Unknown
        PROVE  scan'[s].pos <= Exact(s)' /\ (scan'[s].state = "complete" => scan'[s].pos = Exact(s)')
    <3>1. scan[s].state \in InUse
      BY <1>2, <2>3 DEF InUse
    <3>2. StreamOf(s) \in Objects /\ StreamOf(s)' = StreamOf(s)
      BY <3>1, <2>1, ScansStream DEF StreamOf, Quiet, ScanMove
    <3>3. Exact(s)' = Exact(s) /\ Exact(s) \in Nat \cup {Unknown}
      <4>1. stream[StreamOf(s)] \in StreamType
        BY <3>2 DEF Typed
      <4> QED BY <3>2, <4>1 DEF Exact, Quiet, StreamMove, StreamType
    <3>4. PICK e \in Nat : e = Exact(s)
      BY <2>3, <3>3
    <3>5. scan[s].pos \in Nat
      <4>1. scan[s] \in ScanType
        BY DEF Typed
      <4> QED BY <4>1 DEF ScanType
    <3>6. CASE scan'[s].state = scan[s].state /\ scan'[s].pos = scan[s].pos
      BY <2>3, <3>3, <3>6 DEF RowsOK
    <3>7. CASE scan'[s].state = "open" /\ (Exact(s) # Unknown => scan'[s].pos <= Exact(s))
      BY <2>3, <3>3, <3>7
    <3>8. CASE scan'[s].state = "complete" /\ Exact(s) \in {Unknown, scan'[s].pos}
      BY <2>3, <3>3, <3>4, <3>8
    <3> QED BY <2>1, <2>3, <3>6, <3>7, <3>8 DEF ScanMove
  <2> QED BY <2>2, <2>3
<1> QED BY <1>1, <1>3, <1>4

(* A stream is released only once it is closed. *)
LEMMA QuietStreams ==
  ASSUME TablesInv, Quiet,
         \A o \in Objects : heap'.preserved[o] = heap.preserved[o] \/ stream'[o].closed
  PROVE  StreamsOK'
<1> SUFFICES ASSUME NEW o \in Objects
             PROVE  /\ ~stream'[o].made => ~stream'[o].closed /\ \A b \in Binds : bind'[b].result # o
                    /\ stream'[o].closes = IF stream'[o].closed THEN 1 ELSE 0
                    /\ stream'[o].closed /\ ~stream'[o].ended
                       => \A b \in Binds : bind'[b].result = o => bind'[b].refs = 0
                    /\ stream'[o].made /\ heap'.preserved[o] = 0 => stream'[o].closed
  BY DEF StreamsOK
<1>1. StreamMove(o) /\ bind' = bind
  BY DEF Quiet
<1>2. stream[o] \in StreamType
  BY DEF TablesInv, Typed
<1>3. stream[o].closes \in Nat /\ stream[o].closed \in BOOLEAN
  BY <1>2 DEF StreamType
<1>4. /\ ~stream[o].made => ~stream[o].closed /\ \A b \in Binds : bind[b].result # o
      /\ stream[o].closes = IF stream[o].closed THEN 1 ELSE 0
      /\ stream[o].closed /\ ~stream[o].ended => \A b \in Binds : bind[b].result = o => bind[b].refs = 0
      /\ stream[o].made /\ heap.preserved[o] = 0 => stream[o].closed
  BY DEF TablesInv, StreamsOK
<1>5. CASE stream'[o].closed = stream[o].closed /\ stream'[o].closes = stream[o].closes
  BY <1>1, <1>3, <1>4, <1>5 DEF StreamMove
<1>6. CASE ~stream[o].closed /\ stream'[o].closed /\ stream'[o].closes = stream[o].closes + 1 /\ Closable(o)
  BY <1>1, <1>3, <1>4, <1>6 DEF StreamMove, Closable
<1> QED BY <1>1, <1>5, <1>6 DEF StreamMove

(* The frames under the top keep what they rely on unless they are of a scan
   that changes its state. *)
LEMMA QuietFrames ==
  ASSUME Quiet, NEW f \in Good, f.op = "scan" => scan'[f.arg].state = scan[f.arg].state
  PROVE  Kept(f)
<1>1. FrameOK(f)
  BY DEF Good
<1>2. f.op = "scan" => scan'[f.arg].bind = scan[f.arg].bind
  BY <1>1 DEF FrameOK, Quiet, ScanMove
<1> QED BY <1>2 DEF Kept, Quiet

LEMMA UnderTop ==
  ASSUME TablesInv, NEW p \in Seq(Frames), NEW t \in Frames, stack = Append(p, t)
  PROVE  /\ ShapeOK(p, Good) /\ t \in Good /\ FrameOK(t)
         /\ \A i \in DOMAIN p : p[i] \in Good /\ ~SameJob(p[i], t)
         /\ p = <<>> => t.op # "close"
<1>1. Good \subseteq Frames
  BY DEF Good
<1>2. ShapeOK(Append(p, t), Good)
  BY DEF TablesInv
<1>3. /\ ShapeOK(p, Good) /\ t \in Good
      /\ \A i \in DOMAIN p : ~SameJob(p[i], t)
      /\ p = <<>> => t.op # "close"
  BY <1>1, <1>2, ShapeAppend
<1> QED BY <1>3 DEF ShapeOK, Good

(* A top without nodes returns, goes on, or calls a close. *)
LEMMA TopMoves ==
  ASSUME TablesInv, Progress,
         NEW p \in Seq(Frames), NEW t \in Frames, stack = Append(p, t), t.nodes = <<>>,
         \A i \in DOMAIN p : Kept(p[i]),
         \/ stack' = p
         \/ \E u \in Frames :
              /\ u \in Good' /\ u.op = t.op /\ u.arg = t.arg /\ u.nodes = <<>>
              /\ \/ stack' = Append(p, u)
                 \/ \E o \in Objects : stack' = Append(Append(p, u), Frame("close", o, <<>>, "user"))
  PROVE  /\ stack' \in Seq(Frames) /\ ShapeOK(stack, Good)'
         /\ \A o \in Objects : Cardinality(Detained(stack', o)) = Cardinality(Detained(stack, o))
<1>1. /\ ShapeOK(p, Good) /\ t \in Good
      /\ \A i \in DOMAIN p : ~SameJob(p[i], t)
      /\ p = <<>> => t.op # "close"
  BY UnderTop
<1>2. ShapeOK(p, Good')
  BY <1>1, ShapeKept DEF TablesInv
<1>3. Good' \subseteq Frames
  BY DEF Good
<1>4. \A o \in Objects : /\ Cardinality(Detained(stack, o)) = Cardinality(Detained(p, o)) + CountOf(<<>>, o)
                         /\ Cardinality(Detained(p, o)) \in Nat
  BY DetainedAppend, DetainedFinite
<1>5. \A o \in Objects : Cardinality(Detained(stack, o)) = Cardinality(Detained(p, o))
  BY <1>4, CountEmpty
<1>6. CASE stack' = p
  BY <1>2, <1>5, <1>6
<1>7. ASSUME NEW u \in Frames, u \in Good', u.op = t.op, u.arg = t.arg, u.nodes = <<>>
      PROVE  /\ Append(p, u) \in Seq(Frames) /\ ShapeOK(Append(p, u), Good')
             /\ \A o \in Objects : Cardinality(Detained(Append(p, u), o)) = Cardinality(Detained(p, o))
  <2>1. \A i \in DOMAIN p : ~SameJob(p[i], u)
    BY <1>1, <1>7 DEF SameJob
  <2>2. p = <<>> => u.op # "close"
    BY <1>1, <1>7
  <2>3. ShapeOK(Append(p, u), Good')
    BY <1>2, <1>3, <1>7, <2>1, <2>2, ShapeAppend
  <2>4. \A o \in Objects : Cardinality(Detained(Append(p, u), o)) = Cardinality(Detained(p, o)) + CountOf(<<>>, o)
    BY <1>7, DetainedAppend
  <2>5. \A o \in Objects : Cardinality(Detained(Append(p, u), o)) = Cardinality(Detained(p, o))
    BY <1>4, <2>4, CountEmpty
  <2> QED BY <2>3, <2>5, FramesAppend
<1>8. ASSUME NEW u \in Frames, u \in Good', u.op = t.op, u.arg = t.arg, u.nodes = <<>>,
             stack' = Append(p, u)
      PROVE  /\ stack' \in Seq(Frames) /\ ShapeOK(stack, Good)'
             /\ \A o \in Objects : Cardinality(Detained(stack', o)) = Cardinality(Detained(stack, o))
  BY <1>5, <1>7, <1>8
<1>9. ASSUME NEW u \in Frames, u \in Good', u.op = t.op, u.arg = t.arg, u.nodes = <<>>, NEW c \in Objects,
             stack' = Append(Append(p, u), Frame("close", c, <<>>, "user"))
      PROVE  /\ stack' \in Seq(Frames) /\ ShapeOK(stack, Good)'
             /\ \A o \in Objects : Cardinality(Detained(stack', o)) = Cardinality(Detained(stack, o))
  <2>1. PICK f : f = Frame("close", c, <<>>, "user")
    OBVIOUS
  <2>2. f \in Frames /\ f.op = "close" /\ f.nodes = <<>> /\ f.at = "user"
    BY <2>1 DEF Frame, Frames, Operations, Places
  <2>3. f \in Good'
    BY <2>2 DEF Good, FrameOK
  <2>4. PICK st \in Seq(Frames) : st = Append(p, u)
    BY <1>7, <1>9
  <2>5. st # <<>>
    <3>1. DOMAIN Append(p, u) = 1 .. Len(p) + 1 /\ Len(p) \in Nat
      BY FramesAppend
    <3> QED BY <2>4, <3>1
  <2>6. \A i \in DOMAIN st : ~SameJob(st[i], f)
    BY <2>2 DEF SameJob
  <2>7. ShapeOK(st, Good') /\ \A o \in Objects : Cardinality(Detained(st, o)) = Cardinality(Detained(p, o))
    BY <1>7, <1>9, <2>4
  <2>8. ShapeOK(Append(st, f), Good')
    BY <1>3, <2>2, <2>3, <2>5, <2>6, <2>7, ShapeAppend
  <2>9. \A o \in Objects : Cardinality(Detained(Append(st, f), o)) = Cardinality(Detained(st, o)) + CountOf(<<>>, o)
    BY <2>2, DetainedAppend
  <2>10. \A o \in Objects : Cardinality(Detained(Append(st, f), o)) = Cardinality(Detained(stack, o))
    BY <1>4, <1>5, <2>7, <2>9, CountEmpty
  <2>11. stack' = Append(st, f) /\ Append(st, f) \in Seq(Frames)
    BY <1>9, <2>1, <2>2, <2>4, FramesAppend
  <2> QED BY <2>8, <2>10, <2>11
<1> QED BY <1>6, <1>8, <1>9

(* Nothing is held or given up. *)
LEMMA HoldsSame ==
  ASSUME TablesInv, heap' = heap, bind' = bind,
         \A o \in Objects : Cardinality(Detained(stack', o)) = Cardinality(Detained(stack, o))
  PROVE  HoldsOK'
  BY DEF TablesInv, HoldsOK, Owned

(* The user's close may run on top of the stack st. *)
LEMMA ClosingStep ==
  ASSUME Typed, NEW o \in Objects, Closable(o), NEW st, Closing(o, st)
  PROVE  /\ stream' \in [Objects -> StreamType] /\ stream'[o].closed
         /\ \A c \in Objects : StreamMove(c) /\ stream'[c].ended = stream[c].ended
         /\ stack' = st \/ stack' = Append(st, Frame("close", o, <<>>, "user"))
<1>1. CASE stream[o].closed
  <2>1. stream' = stream /\ stack' = st
    BY <1>1 DEF Closing
  <2> QED BY <1>1, <2>1 DEF Typed, StreamMove
<1>2. CASE ~stream[o].closed
  <2>1. stack' = Append(st, Frame("close", o, <<>>, "user"))
        /\ stream' = [stream EXCEPT ![o].closed = TRUE, ![o].closes = @ + 1]
    BY <1>2 DEF Closing
  <2>2. PICK g \in [Objects -> StreamType] : g = stream
    BY DEF Typed
  <2>3. g[o].closes \in Nat /\ g[o] \in StreamType
    BY DEF StreamType
  <2>4. PICK v : v = [g[o] EXCEPT !.closed = TRUE, !.closes = @ + 1]
    OBVIOUS
  <2>5. v \in StreamType /\ v.closed /\ v.closes = g[o].closes + 1 /\ v.made = g[o].made
        /\ v.exact = g[o].exact /\ v.ended = g[o].ended
    <3>1. PICK r : r = g[o]
      OBVIOUS
    <3>2. r \in StreamType
      BY <2>3, <3>1
    <3>3. r = [made |-> r.made, exact |-> r.exact, closed |-> r.closed, closes |-> r.closes,
               ended |-> r.ended, pulled |-> r.pulled]
      BY <3>2 DEF StreamType
    <3>4. v = [made |-> r.made, exact |-> r.exact, closed |-> TRUE, closes |-> r.closes + 1,
               ended |-> r.ended, pulled |-> r.pulled]
      BY <2>4, <3>1, <3>3
    <3>5. v \in StreamType
      BY <3>2, <3>4 DEF StreamType
    <3> QED BY <3>1, <3>4, <3>5
  <2>6. stream' = [g EXCEPT ![o] = v]
    BY <2>1, <2>2, <2>4
  <2>7. stream' \in [Objects -> StreamType] /\ stream'[o] = v /\ \A c \in Objects \ {o} : stream'[c] = g[c]
    BY <2>5, <2>6
  <2> QED BY <1>2, <2>1, <2>2, <2>5, <2>7 DEF StreamMove
<1> QED BY <1>1, <1>2

(* A step of the operation on top of the stack that leaves binds and the heap alone *)
LEMMA QuietTop ==
  ASSUME TablesInv, Quiet, heap' = heap,
         stream' \in [Objects -> StreamType], scan' \in [Scans -> ScanType],
         NEW p \in Seq(Frames), NEW t \in Frames, stack = Append(p, t), t.nodes = <<>>,
         \A s \in Scans : t.op # "scan" \/ t.arg # s => scan'[s].state = scan[s].state,
         \/ stack' = p
         \/ \E u \in Frames :
              /\ u \in Good' /\ u.op = t.op /\ u.arg = t.arg /\ u.nodes = <<>>
              /\ \/ stack' = Append(p, u)
                 \/ \E o \in Objects : stack' = Append(Append(p, u), Frame("close", o, <<>>, "user"))
  PROVE  TablesInv'
<1>1. Progress /\ BindsOK' /\ RowsOK' /\ StreamsOK'
  BY QuietKeeps, QuietStreams
<1>2. ASSUME NEW i \in DOMAIN p PROVE Kept(p[i])
  <2>1. p[i] \in Good /\ FrameOK(p[i]) /\ ~SameJob(p[i], t)
    BY UnderTop DEF Good
  <2>2. p[i].op = "scan" => p[i].arg \in Scans /\ (t.op # "scan" \/ t.arg # p[i].arg)
    BY <2>1 DEF FrameOK, SameJob
  <2>3. p[i].op = "scan" => scan'[p[i].arg].state = scan[p[i].arg].state
    BY <2>2
  <2> QED BY <2>1, <2>3, QuietFrames
<1>3. /\ stack' \in Seq(Frames) /\ ShapeOK(stack, Good)'
      /\ \A o \in Objects : Cardinality(Detained(stack', o)) = Cardinality(Detained(stack, o))
  BY <1>1, <1>2, TopMoves
<1>4. HoldsOK' /\ QueueOK'
  BY <1>1, <1>3, HoldsSame, QueueKept DEF TablesInv, Quiet
<1>5. Typed'
  BY <1>3 DEF TablesInv, Typed, Quiet
<1> QED BY <1>1, <1>3, <1>4, <1>5 DEF TablesInv

(* A frame that goes on to another place relies on no more than there. *)
LEMMA GoesOn ==
  ASSUME NEW t \in Frames, NEW w \in Places
  PROVE  LET u == [t EXCEPT !.at = w] IN
         /\ u \in Frames /\ u.op = t.op /\ u.arg = t.arg /\ u.nodes = t.nodes /\ u.at = w
  BY DEF Frames

LEMMA TopOf ==
  ASSUME TablesInv, stack # <<>>
  PROVE  \E p \in Seq(Frames), t \in Frames :
           /\ stack = Append(p, t) /\ Top = t /\ Popped = p /\ t \in Good /\ FrameOK(t)
           /\ \A w \in Places : GoTo(w) = Append(p, [t EXCEPT !.at = w])
           /\ t.nodes # <<>> => [stack EXCEPT ![Len(stack)].nodes = Tail(@)]
                                = Append(p, [t EXCEPT !.nodes = Tail(@)])
<1>1. PICK p \in Seq(Frames), t \in Frames :
        /\ stack = Append(p, t) /\ Top = t /\ Popped = p
        /\ \A w \in Places : GoTo(w) = Append(p, [t EXCEPT !.at = w])
        /\ t.nodes # <<>> => [stack EXCEPT ![Len(stack)].nodes = Tail(@)]
                             = Append(p, [t EXCEPT !.nodes = Tail(@)])
  BY StackTop DEF TablesInv, Typed
<1>2. t \in Good /\ FrameOK(t)
  BY <1>1, UnderTop
<1> QED BY <1>1, <1>2

LEMMA NothingMoves ==
  ASSUME UNCHANGED <<stream, bind, dataHeld, scan>>
  PROVE  Quiet
  BY DEF Quiet, StreamMove, ScanMove

(*------------------------ steps of the stack alone -----------------------*)

(* A close returns, *)
LEMMA CloseReturnsStep ==
  ASSUME TablesInv, CloseReturns
  PROVE  TablesInv'
<1>1. stack # <<>>
  BY TopIsThere DEF CloseReturns, At
<1>2. PICK p \in Seq(Frames), t \in Frames : stack = Append(p, t) /\ Top = t /\ Popped = p /\ FrameOK(t)
  BY <1>1, TopOf
<1>3. t.nodes = <<>> /\ stack' = p /\ UNCHANGED <<heap, stream, bind, dataHeld, scan>>
  BY <1>2 DEF CloseReturns, At, FrameOK
<1>4. Quiet
  BY <1>3, NothingMoves
<1> QED BY <1>2, <1>3, <1>4, QuietTop DEF TablesInv, Typed

(* the table function fails, *)
LEMMA BindFailsStep ==
  ASSUME TablesInv, BindFails
  PROVE  TablesInv'
<1>1. stack # <<>>
  BY TopIsThere DEF BindFails, At
<1>2. PICK p \in Seq(Frames), t \in Frames : stack = Append(p, t) /\ Top = t /\ Popped = p /\ FrameOK(t)
  BY <1>1, TopOf
<1>3. t.nodes = <<>> /\ stack' = p /\ UNCHANGED <<heap, stream, bind, dataHeld, scan>>
  BY <1>2 DEF BindFails, At, FrameOK
<1>4. Quiet
  BY <1>3, NothingMoves
<1> QED BY <1>2, <1>3, <1>4, QuietTop DEF TablesInv, Typed

(* or a drain is done. *)
LEMMA DrainEndsStep ==
  ASSUME TablesInv, DrainEnds
  PROVE  TablesInv'
<1>1. stack # <<>>
  BY TopIsThere DEF DrainEnds
<1>2. PICK p \in Seq(Frames), t \in Frames :
        /\ stack = Append(p, t) /\ Top = t /\ Popped = p /\ t \in Good /\ FrameOK(t)
        /\ \A w \in Places : GoTo(w) = Append(p, [t EXCEPT !.at = w])
  BY <1>1, TopOf
<1>3. t.at = "drain" /\ t.nodes = <<>> /\ UNCHANGED <<heap, stream, bind, dataHeld, scan>>
      /\ stack' = CASE t.op = "bind" -> GoTo("user") [] t.op = "scan" -> GoTo("body") [] OTHER -> p
  BY <1>2 DEF DrainEnds
<1>4. Quiet
  BY <1>3, NothingMoves
<1>5. "user" \in Places /\ "body" \in Places
  BY DEF Places
<1>6. CASE stack' = p
  BY <1>2, <1>3, <1>4, <1>6, QuietTop DEF TablesInv, Typed
<1>7. ASSUME NEW w \in Places, stack' = Append(p, [t EXCEPT !.at = w]),
             (t.op = "bind" /\ w = "user") \/ (t.op = "scan" /\ w = "body")
      PROVE  TablesInv'
  <2>1. PICK u \in Frames : /\ u = [t EXCEPT !.at = w]
                            /\ u.op = t.op /\ u.arg = t.arg /\ u.nodes = t.nodes /\ u.at = w
    BY GoesOn
  <2>2. FrameOK(u)
    BY <1>2, <1>3, <1>7, <2>1 DEF FrameOK
  <2>3. Kept(u)
    BY <1>3 DEF Kept
  <2>4. u \in Good'
    BY <1>4, <2>2, <2>3, QuietKeeps, FrameKept DEF Good, TablesInv
  <2> QED BY <1>2, <1>3, <1>4, <1>7, <2>1, <2>4, QuietTop DEF TablesInv, Typed
<1>8. CASE t.op = "bind"
  <2>1. stack' = GoTo("user")
    BY <1>3, <1>8
  <2>2. stack' = Append(p, [t EXCEPT !.at = "user"])
    BY <1>2, <1>5, <2>1
  <2> QED BY <1>5, <1>7, <1>8, <2>2
<1>9. CASE t.op = "scan"
  <2>1. stack' = GoTo("body")
    BY <1>3, <1>9
  <2>2. stack' = Append(p, [t EXCEPT !.at = "body"])
    BY <1>2, <1>5, <2>1
  <2> QED BY <1>5, <1>7, <1>9, <2>2
<1>10. CASE t.op \notin {"bind", "scan"}
  BY <1>3, <1>6, <1>10
<1> QED BY <1>8, <1>9, <1>10

(* A drain or the destructor of the bind data ignores an error of close; the
   scan that reached the end of the stream fails with it. *)
LEMMA CloseFailsStep ==
  ASSUME TablesInv, CloseFails
  PROVE  TablesInv'
<1>1. stack # <<>>
  BY TopIsThere DEF CloseFails, At
<1>2. PICK p \in Seq(Frames), t \in Frames : stack = Append(p, t) /\ Top = t /\ Popped = p /\ FrameOK(t)
  BY <1>1, TopOf
<1>3. t.op = "close" /\ t.nodes = <<>> /\ UNCHANGED <<heap, stream, bind, dataHeld>>
  BY <1>2 DEF CloseFails, At, FrameOK
<1>4. ShapeOK(p, Good) /\ p # <<>>
  BY <1>2, <1>3, UnderTop
<1>5. CASE ~(Last(p).op = "scan" /\ Last(p).at = "ended")
  <2>1. stack' = p /\ scan' = scan
    BY <1>2, <1>5 DEF CloseFails
  <2>2. Quiet
    BY <1>3, <2>1, NothingMoves
  <2> QED BY <1>2, <1>3, <2>1, <2>2, QuietTop DEF TablesInv, Typed
<1>6. CASE Last(p).op = "scan" /\ Last(p).at = "ended"
  <2>1. stack' = Front(p) /\ scan' = [scan EXCEPT ![Last(p).arg].state = "failed"]
    BY <1>2, <1>6 DEF CloseFails
  <2>2. PICK q \in Seq(Frames), f \in Frames : p = Append(q, f) /\ Last(p) = f /\ Front(p) = q
    BY <1>4, LastOf
  <2>3. Good \subseteq Frames
    BY DEF Good
  <2>4. ShapeOK(q, Good) /\ FrameOK(f) /\ \A i \in DOMAIN q : q[i] \in Good /\ ~SameJob(q[i], f)
    <3>1. ShapeOK(Append(q, f), Good)
      BY <1>4, <2>2
    <3>2. ShapeOK(q, Good) /\ f \in Good /\ \A i \in DOMAIN q : ~SameJob(q[i], f)
      BY <2>3, <3>1, ShapeAppend
    <3> QED BY <3>2 DEF ShapeOK, Good
  <2>5. f.op = "scan" /\ f.nodes = <<>> /\ f.arg \in Scans /\ scan[f.arg].state = "open"
    BY <1>6, <2>2, <2>4 DEF FrameOK
  <2>6. /\ scan' \in [Scans -> ScanType] /\ scan'[f.arg].bind = scan[f.arg].bind
        /\ scan'[f.arg].state = "failed" /\ \A s \in Scans \ {f.arg} : scan'[s] = scan[s]
    <3>1. PICK g \in [Scans -> ScanType], a \in Scans : g = scan /\ a = f.arg
      BY <2>5 DEF TablesInv, Typed
    <3>2. PICK v : v = [g[a] EXCEPT !.state = "failed"]
      OBVIOUS
    <3>3. v \in ScanType /\ v.bind = g[a].bind /\ v.state = "failed"
      BY <3>2 DEF ScanType, InUse
    <3>4. scan' = [g EXCEPT ![a] = v]
      BY <2>1, <2>2, <3>1, <3>2
    <3> QED BY <3>1, <3>3, <3>4
  <2>7. Quiet
    BY <1>3, <2>5, <2>6 DEF Quiet, StreamMove, ScanMove
  <2>8. Progress /\ BindsOK' /\ RowsOK' /\ StreamsOK'
    BY <1>3, <2>7, QuietKeeps, QuietStreams
  <2>9. ASSUME NEW i \in DOMAIN q PROVE Kept(q[i])
    <3>1. q[i] \in Good /\ FrameOK(q[i]) /\ ~SameJob(q[i], f)
      BY <2>4 DEF Good
    <3>2. q[i].op = "scan" => scan'[q[i].arg] = scan[q[i].arg]
      BY <2>5, <2>6, <3>1 DEF SameJob, FrameOK
    <3> QED BY <2>7, <3>1, <3>2, QuietFrames
  <2>10. ShapeOK(q, Good')
    BY <2>4, <2>8, <2>9, ShapeKept DEF TablesInv
  <2>11. stack' = q
    BY <2>1, <2>2
  <2>12. ASSUME NEW o \in Objects
         PROVE  Cardinality(Detained(stack', o)) = Cardinality(Detained(stack, o))
    <3>1. Cardinality(Detained(Append(p, t), o)) = Cardinality(Detained(p, o)) + 0
      BY <1>3, CountEmpty, DetainedAppend
    <3>2. Cardinality(Detained(Append(q, f), o)) = Cardinality(Detained(q, o)) + 0
      BY <2>5, CountEmpty, DetainedAppend
    <3>3. Cardinality(Detained(q, o)) \in Nat
      BY DetainedFinite
    <3> QED BY <1>2, <2>2, <2>11, <3>1, <3>2, <3>3
  <2>13. HoldsOK' /\ QueueOK'
    BY <1>3, <2>8, <2>12, HoldsSame, QueueKept DEF TablesInv
  <2>14. Typed'
    BY <1>3, <2>6, <2>11 DEF TablesInv, Typed
  <2>15. ShapeOK(stack, Good)'
    BY <2>10, <2>11
  <2> QED BY <2>8, <2>13, <2>14, <2>15 DEF TablesInv
<1> QED BY <1>5, <1>6

(*------------------------------ steps of a scan --------------------------*)

(* The scan on top of the stack is open, and its stream was made. *)
LEMMA ScanOnTop ==
  ASSUME TablesInv, stack # <<>>, Top.op = "scan", Top.at # "drain"
  PROVE  \E p \in Seq(Frames), t \in Frames, a \in Scans, o \in Objects :
           /\ stack = Append(p, t) /\ Top = t /\ Popped = p /\ t \in Good /\ FrameOK(t)
           /\ t.op = "scan" /\ t.arg = a /\ t.nodes = <<>>
           /\ scan[a] \in ScanType /\ scan[a].state = "open"
           /\ StreamOf(a) = o /\ stream[o] \in StreamType /\ stream[o].made
           /\ \A w \in Places : GoTo(w) = Append(p, [t EXCEPT !.at = w])
<1>1. PICK p \in Seq(Frames), t \in Frames :
        /\ stack = Append(p, t) /\ Top = t /\ Popped = p /\ t \in Good /\ FrameOK(t)
        /\ \A w \in Places : GoTo(w) = Append(p, [t EXCEPT !.at = w])
  BY TopOf
<1>2. t.op = "scan" /\ t.nodes = <<>> /\ t.arg \in Scans /\ scan[t.arg].state = "open"
  BY <1>1 DEF FrameOK
<1>3. scan[t.arg].bind \in Binds /\ StreamOf(t.arg) \in Objects
  BY <1>2, ScansStream DEF TablesInv, InUse
<1>4. stream[StreamOf(t.arg)].made
  BY <1>3 DEF TablesInv, StreamsOK, StreamOf
<1>5. scan[t.arg] \in ScanType /\ stream[StreamOf(t.arg)] \in StreamType
  BY <1>2, <1>3 DEF TablesInv, Typed
<1> QED BY <1>1, <1>2, <1>3, <1>4, <1>5

LEMMA ScanUpdate ==
  ASSUME Typed, NEW a \in Scans, NEW v \in ScanType, scan' = [scan EXCEPT ![a] = v]
  PROVE  scan' \in [Scans -> ScanType] /\ scan'[a] = v /\ \A s \in Scans \ {a} : scan'[s] = scan[s]
  BY DEF Typed

LEMMA StreamUpdate ==
  ASSUME Typed, NEW o \in Objects, NEW v \in StreamType, stream' = [stream EXCEPT ![o] = v]
  PROVE  stream' \in [Objects -> StreamType] /\ stream'[o] = v
         /\ \A c \in Objects \ {o} : stream'[c] = stream[c]
  BY DEF Typed

(* The frame of a scan whose bind and state stay goes on to a place other than
   the end of its stream, *)
LEMMA ScanGoesOn ==
  ASSUME TablesInv, Progress, NEW t \in Frames, t \in Good, t.op = "scan", t.nodes = <<>>, Kept(t),
         NEW w \in {"body", "user", "end", "ended"},
         w = "end" => stream'[StreamOf(t.arg)].ended
  PROVE  \E u \in Frames : /\ u = [t EXCEPT !.at = w]
                           /\ u \in Good' /\ u.op = t.op /\ u.arg = t.arg /\ u.nodes = <<>>
<1>1. w \in Places
  BY DEF Places
<1>2. PICK u \in Frames : u = [t EXCEPT !.at = w] /\ u.op = t.op /\ u.arg = t.arg /\ u.nodes = t.nodes /\ u.at = w
  BY <1>1, GoesOn
<1>3. t \in Good'
  BY FrameKept DEF TablesInv
<1>4. FrameOK(t) /\ FrameOK(t)'
  BY <1>3 DEF Good
<1>5. StreamOf(t.arg)' = StreamOf(t.arg)
  BY DEF Kept, StreamOf
<1>6. FrameOK(u)'
  BY <1>2, <1>4, <1>5 DEF FrameOK
<1> QED BY <1>2, <1>6 DEF Good

(* or the scan stops, complete only with as many rows as were announced. *)
LEMMA ScanStops ==
  ASSUME TablesInv, stack # <<>>, Top.op = "scan", Top.at # "drain",
         NEW st \in {"failed", "complete"}, Stop(st),
         st = "complete" => Exact(Top.arg) \in {Unknown, Scan.pos}
  PROVE  TablesInv'
<1>1. PICK p \in Seq(Frames), t \in Frames, a \in Scans, o \in Objects :
        /\ stack = Append(p, t) /\ Top = t /\ Popped = p
        /\ t.op = "scan" /\ t.arg = a /\ t.nodes = <<>>
        /\ scan[a] \in ScanType /\ scan[a].state = "open"
  BY ScanOnTop
<1>2. scan' = [scan EXCEPT ![a].state = st] /\ stack' = p /\ UNCHANGED <<heap, stream, bind, dataHeld>>
  BY <1>1 DEF Stop
<1>3. PICK r \in ScanType : r = scan[a]
  BY <1>1
<1>4. PICK v : v = [r EXCEPT !.state = st]
  OBVIOUS
<1>5. v \in ScanType /\ v.state = st /\ v.bind = r.bind /\ v.pos = r.pos
  BY <1>4 DEF ScanType, InUse
<1>6. scan' = [scan EXCEPT ![a] = v]
  BY <1>2, <1>3, <1>4
<1>7. scan' \in [Scans -> ScanType] /\ scan'[a] = v /\ \A s \in Scans \ {a} : scan'[s] = scan[s]
  BY <1>5, <1>6, ScanUpdate DEF TablesInv
<1>8. Quiet
  <2>1. ScanMove(a)
    BY <1>1, <1>3, <1>5, <1>7 DEF ScanMove, Scan
  <2>2. \A s \in Scans \ {a} : ScanMove(s)
    BY <1>7 DEF ScanMove
  <2> QED BY <1>2, <2>1, <2>2 DEF Quiet, StreamMove
<1> QED BY <1>1, <1>2, <1>7, <1>8, QuietTop DEF TablesInv, Typed

LEMMA BatchFailsStep ==
  ASSUME TablesInv, BatchFails
  PROVE  TablesInv'
<1>1. Top.op = "scan" /\ Top.at = "user" /\ Stop("failed")
  BY DEF BatchFails, At
<1> QED BY <1>1, TopIsThere, ScanStops

LEMMA CompleteStep ==
  ASSUME TablesInv, Complete
  PROVE  TablesInv'
<1>1. Top.op = "scan" /\ Top.at = "body"
  BY DEF Complete, At
<1>2. CASE Exact(Top.arg) \in {Unknown, Scan.pos}
  <2>1. Stop("complete")
    BY <1>2 DEF Complete
  <2> QED BY <1>1, <1>2, <2>1, TopIsThere, ScanStops
<1>3. CASE Exact(Top.arg) \notin {Unknown, Scan.pos}
  <2>1. Stop("failed")
    BY <1>3 DEF Complete
  <2> QED BY <1>1, <2>1, TopIsThere, ScanStops
<1> QED BY <1>2, <1>3

(* Rows are emitted within what was announced. *)
LEMMA EmitStep ==
  ASSUME TablesInv, Emit
  PROVE  TablesInv'
<1>1. Top.op = "scan" /\ Top.at = "body" /\ stack # <<>>
  BY TopIsThere DEF Emit, At
<1>2. PICK p \in Seq(Frames), t \in Frames, a \in Scans, o \in Objects :
        /\ stack = Append(p, t) /\ Top = t /\ Popped = p
        /\ t.op = "scan" /\ t.arg = a /\ t.nodes = <<>>
        /\ scan[a] \in ScanType /\ scan[a].state = "open"
  BY <1>1, ScanOnTop
<1>3. PICK r \in ScanType : r = scan[a] /\ r.chunk \in Nat /\ r.pos \in Nat
  BY <1>2 DEF ScanType
<1>4. PICK n : n = IF r.chunk < ChunkSize THEN r.chunk ELSE ChunkSize
  OBVIOUS
<1>5. Scan = r /\ Top.arg = a /\ Popped = p
  BY <1>2, <1>3 DEF Scan
<1>6. CASE Exact(a) # Unknown /\ r.pos + n > Exact(a)
  <2>1. Stop("failed")
    BY <1>4, <1>5, <1>6 DEF Emit
  <2> QED BY <1>1, <2>1, ScanStops
<1>7. CASE ~(Exact(a) # Unknown /\ r.pos + n > Exact(a))
  <2>1. /\ scan' = [scan EXCEPT ![a].chunk = @ - n, ![a].pos = @ + n]
        /\ stack' = p /\ UNCHANGED <<heap, stream, bind, dataHeld>>
    BY <1>4, <1>5, <1>7 DEF Emit
  <2>2. n \in Nat /\ n <= r.chunk
    BY <1>3, <1>4, TableAssumption DEF TableAssumption
  <2>3. PICK v : v = [r EXCEPT !.chunk = @ - n, !.pos = @ + n]
    OBVIOUS
  <2>4. v \in ScanType /\ v.state = r.state /\ v.bind = r.bind /\ v.pos = r.pos + n
    <3>1. r.chunk - n \in Nat /\ r.pos + n \in Nat
      BY <1>3, <2>2
    <3>2. v = [r EXCEPT !.chunk = r.chunk - n, !.pos = r.pos + n]
      BY <2>3
    <3>3. PICK c \in Nat, d \in Nat : c = r.chunk - n /\ d = r.pos + n
      BY <3>1
    <3>4. [r EXCEPT !.chunk = c, !.pos = d] \in ScanType
      BY DEF ScanType
    <3> QED BY <3>2, <3>3, <3>4 DEF ScanType
  <2>5. scan' = [scan EXCEPT ![a] = v]
    BY <1>3, <2>1, <2>3
  <2>6. scan' \in [Scans -> ScanType] /\ scan'[a] = v /\ \A s \in Scans \ {a} : scan'[s] = scan[s]
    BY <2>4, <2>5, ScanUpdate DEF TablesInv
  <2>7. Exact(a) # Unknown => r.pos + n <= Exact(a)
    <3>1. StreamOf(a) \in Objects
      BY <1>2, ScansStream DEF TablesInv, InUse
    <3>2. Exact(a) \in Nat \cup {Unknown}
      <4>1. stream[StreamOf(a)] \in StreamType
        BY <3>1 DEF TablesInv, Typed
      <4> QED BY <4>1 DEF StreamType, Exact
    <3> QED BY <1>3, <1>7, <2>2, <3>2
  <2>8. Quiet
    <3>1. ScanMove(a)
      BY <1>2, <1>3, <2>4, <2>6, <2>7 DEF ScanMove
    <3>2. \A s \in Scans \ {a} : ScanMove(s)
      BY <2>6 DEF ScanMove
    <3> QED BY <2>1, <3>1, <3>2 DEF Quiet, StreamMove
  <2>9. \A s \in Scans : scan'[s].state = scan[s].state
    BY <1>3, <2>4, <2>6
  <2> QED BY <1>2, <2>1, <2>6, <2>8, <2>9, QuietTop DEF TablesInv, Typed
<1> QED BY <1>6, <1>7

(* A frame goes on while binds and the states of the scans stay. *)
LEMMA ScanGoes ==
  ASSUME TablesInv, Quiet, heap' = heap, stack # <<>>, Top.op = "scan", Top.at # "drain",
         stream' \in [Objects -> StreamType], scan' \in [Scans -> ScanType],
         \A s \in Scans : scan'[s].state = scan[s].state,
         NEW w \in {"body", "user", "end", "ended"},
         w = "end" => stream'[StreamOf(Top.arg)].ended,
         \/ stack' = GoTo(w)
         \/ \E o \in Objects : stack' = Append(GoTo(w), Frame("close", o, <<>>, "user"))
  PROVE  TablesInv'
<1>1. PICK p \in Seq(Frames), t \in Frames, a \in Scans :
        /\ stack = Append(p, t) /\ Top = t /\ t \in Good
        /\ t.op = "scan" /\ t.arg = a /\ t.nodes = <<>>
        /\ \A z \in Places : GoTo(z) = Append(p, [t EXCEPT !.at = z])
  BY ScanOnTop
<1>2. Progress
  BY QuietKeeps
<1>3. Kept(t)
  BY <1>1, QuietFrames
<1>4. PICK u \in Frames : /\ u = [t EXCEPT !.at = w]
                          /\ u \in Good' /\ u.op = t.op /\ u.arg = t.arg /\ u.nodes = <<>>
  BY <1>1, <1>2, <1>3, ScanGoesOn
<1>5. GoTo(w) = Append(p, u)
  BY <1>1, <1>4 DEF Places
<1>6. stack' = Append(p, u) \/ \E o \in Objects : stack' = Append(Append(p, u), Frame("close", o, <<>>, "user"))
  BY <1>5
<1> QED BY <1>1, <1>4, <1>6, QuietTop

(* Only a scan's chunk and whether it is done change. *)
LEMMA ScanIsFilled ==
  ASSUME Typed, NEW a \in Scans, NEW v,
         \/ v = [scan[a] EXCEPT !.done = TRUE]
         \/ \E rows \in Nat : v = [scan[a] EXCEPT !.chunk = rows],
         scan' = [scan EXCEPT ![a] = v]
  PROVE  /\ scan' \in [Scans -> ScanType]
         /\ \A s \in Scans : /\ scan'[s].state = scan[s].state /\ scan'[s].pos = scan[s].pos
                             /\ scan'[s].bind = scan[s].bind
<1>1. PICK r \in ScanType : r = scan[a]
  BY DEF Typed
<1>2. v \in ScanType /\ v.state = r.state /\ v.pos = r.pos /\ v.bind = r.bind
  <2>1. CASE v = [scan[a] EXCEPT !.done = TRUE]
    BY <1>1, <2>1 DEF ScanType
  <2>2. CASE \E rows \in Nat : v = [scan[a] EXCEPT !.chunk = rows]
    BY <1>1, <2>2 DEF ScanType
  <2> QED BY <2>1, <2>2
<1>3. scan' \in [Scans -> ScanType] /\ scan'[a] = v /\ \A s \in Scans \ {a} : scan'[s] = scan[s]
  BY <1>2, ScanUpdate
<1> QED BY <1>1, <1>2, <1>3

LEMMA CallNextBatchStep ==
  ASSUME TablesInv, CallNextBatch
  PROVE  TablesInv'
<1>1. Top.op = "scan" /\ Top.at = "body" /\ stack # <<>> /\ UNCHANGED <<heap, stream, bind, dataHeld>>
  BY TopIsThere DEF CallNextBatch, NeedsBatch, At
<1>2. PICK p \in Seq(Frames), t \in Frames, a \in Scans, o \in Objects :
        stack = Append(p, t) /\ Top = t /\ t.op = "scan" /\ t.arg = a /\ t.nodes = <<>>
  BY <1>1, ScanOnTop
<1>3. CASE scan' = [scan EXCEPT ![Top.arg].done = TRUE] /\ UNCHANGED stack
  <2>1. scan' = [scan EXCEPT ![a] = [scan[a] EXCEPT !.done = TRUE]]
    BY <1>2, <1>3
  <2>2. /\ scan' \in [Scans -> ScanType]
        /\ \A s \in Scans : /\ scan'[s].state = scan[s].state /\ scan'[s].pos = scan[s].pos
                            /\ scan'[s].bind = scan[s].bind
    BY <2>1, ScanIsFilled DEF TablesInv
  <2>3. Quiet
    BY <1>1, <2>2 DEF Quiet, StreamMove, ScanMove
  <2>4. t \in Good
    BY <1>2, UnderTop
  <2>5. t \in Good'
    BY <2>2, <2>3, <2>4, QuietFrames, QuietKeeps, FrameKept, <1>2 DEF TablesInv, Good, FrameOK
  <2> QED BY <1>1, <1>2, <1>3, <2>2, <2>3, <2>5, QuietTop DEF TablesInv, Typed
<1>4. CASE stack' = GoTo("user") /\ UNCHANGED scan
  <2>1. Quiet
    BY <1>1, <1>4, NothingMoves
  <2> QED BY <1>1, <1>4, <2>1, ScanGoes DEF TablesInv, Typed
<1> QED BY <1>3, <1>4 DEF CallNextBatch

LEMMA BatchReturnsStep ==
  ASSUME TablesInv, NEW rows \in BatchRows, BatchReturns(rows)
  PROVE  TablesInv'
<1>1. Top.op = "scan" /\ Top.at = "user" /\ stack # <<>> /\ UNCHANGED <<heap, bind, dataHeld>>
      /\ stack' = GoTo("body") /\ rows \in Nat
  BY TopIsThere, TableAssumption DEF BatchReturns, At, TableAssumption
<1>2. PICK p \in Seq(Frames), t \in Frames, a \in Scans, o \in Objects :
        /\ stack = Append(p, t) /\ Top = t /\ t.op = "scan" /\ t.arg = a
        /\ StreamOf(a) = o /\ stream[o] \in StreamType
  BY <1>1, ScanOnTop
<1>3. scan' = [scan EXCEPT ![a] = [scan[a] EXCEPT !.chunk = rows]]
  BY <1>2 DEF BatchReturns
<1>4. /\ scan' \in [Scans -> ScanType]
      /\ \A s \in Scans : /\ scan'[s].state = scan[s].state /\ scan'[s].pos = scan[s].pos
                          /\ scan'[s].bind = scan[s].bind
  BY <1>1, <1>3, ScanIsFilled DEF TablesInv
<1>5. PICK r \in StreamType : r = stream[o]
  BY <1>2
<1>6. PICK v : v = [r EXCEPT !.pulled = @ + 1]
  OBVIOUS
<1>7. v \in StreamType /\ v.made = r.made /\ v.exact = r.exact /\ v.ended = r.ended
      /\ v.closed = r.closed /\ v.closes = r.closes
  BY <1>6 DEF StreamType
<1>8. stream' = [stream EXCEPT ![o] = v]
  BY <1>2, <1>5, <1>6 DEF BatchReturns
<1>9. stream' \in [Objects -> StreamType] /\ stream'[o] = v /\ \A c \in Objects \ {o} : stream'[c] = stream[c]
  BY <1>7, <1>8, StreamUpdate DEF TablesInv
<1>10. Quiet
  <2>1. \A c \in Objects : StreamMove(c)
    BY <1>5, <1>7, <1>9 DEF StreamMove
  <2> QED BY <1>1, <1>4, <2>1 DEF Quiet, ScanMove
<1> QED BY <1>1, <1>4, <1>9, <1>10, ScanGoes

LEMMA EndReturnsStep ==
  ASSUME TablesInv, EndReturns
  PROVE  TablesInv'
<1>1. Top.op = "scan" /\ Top.at = "user" /\ stack # <<>> /\ UNCHANGED <<heap, bind, dataHeld, scan>>
      /\ stack' = GoTo("end")
  BY TopIsThere DEF EndReturns, At
<1>2. PICK p \in Seq(Frames), t \in Frames, a \in Scans, o \in Objects :
        /\ stack = Append(p, t) /\ Top = t /\ t.op = "scan" /\ t.arg = a
        /\ StreamOf(a) = o /\ stream[o] \in StreamType
  BY <1>1, ScanOnTop
<1>3. PICK r \in StreamType : r = stream[o]
  BY <1>2
<1>4. PICK v : v = [r EXCEPT !.ended = TRUE]
  OBVIOUS
<1>5. v \in StreamType /\ v.made = r.made /\ v.exact = r.exact /\ v.ended
      /\ v.closed = r.closed /\ v.closes = r.closes
  BY <1>4 DEF StreamType
<1>6. stream' = [stream EXCEPT ![o] = v]
  BY <1>2, <1>3, <1>4 DEF EndReturns
<1>7. stream' \in [Objects -> StreamType] /\ stream'[o] = v /\ \A c \in Objects \ {o} : stream'[c] = stream[c]
  BY <1>5, <1>6, StreamUpdate DEF TablesInv
<1>8. Quiet
  <2>1. \A c \in Objects : StreamMove(c)
    BY <1>3, <1>5, <1>7 DEF StreamMove
  <2> QED BY <1>1, <2>1 DEF Quiet, ScanMove
<1>9. stream'[StreamOf(Top.arg)].ended
  BY <1>2, <1>5, <1>7
<1> QED BY <1>1, <1>7, <1>8, <1>9, ScanGoes DEF TablesInv, Typed

LEMMA EndClosesStep ==
  ASSUME TablesInv, EndCloses
  PROVE  TablesInv'
<1>1. Top.op = "scan" /\ Top.at = "end" /\ stack # <<>> /\ UNCHANGED <<heap, bind, dataHeld, scan>>
  BY TopIsThere DEF EndCloses, At
<1>2. PICK p \in Seq(Frames), t \in Frames, a \in Scans, o \in Objects :
        /\ stack = Append(p, t) /\ Top = t /\ FrameOK(t) /\ t.op = "scan" /\ t.arg = a
        /\ StreamOf(a) = o /\ stream[o].made
  BY <1>1, ScanOnTop
<1>3. Closable(o)
  BY <1>1, <1>2 DEF Closable, FrameOK
<1>4. PICK st : st = GoTo("ended")
  OBVIOUS
<1>5. Closing(o, st)
  BY <1>2, <1>4 DEF EndCloses, Closing
<1>6. /\ stream' \in [Objects -> StreamType] /\ \A c \in Objects : StreamMove(c)
      /\ stack' = st \/ stack' = Append(st, Frame("close", o, <<>>, "user"))
  BY <1>3, <1>5, ClosingStep DEF TablesInv
<1>7. Quiet
  BY <1>1, <1>6 DEF Quiet, ScanMove
<1>8. \/ stack' = GoTo("ended")
      \/ \E c \in Objects : stack' = Append(GoTo("ended"), Frame("close", c, <<>>, "user"))
  BY <1>4, <1>6
<1> QED BY <1>1, <1>6, <1>7, <1>8, ScanGoes DEF TablesInv, Typed

LEMMA EndOfStreamStep ==
  ASSUME TablesInv, EndOfStream
  PROVE  TablesInv'
<1>1. Top.op = "scan" /\ Top.at = "ended" /\ stack # <<>> /\ UNCHANGED <<heap, stream, bind, dataHeld>>
      /\ stack' = GoTo("body")
  BY TopIsThere DEF EndOfStream, At
<1>2. PICK p \in Seq(Frames), t \in Frames, a \in Scans, o \in Objects : Top = t /\ t.arg = a
  BY <1>1, ScanOnTop
<1>3. scan' = [scan EXCEPT ![a] = [scan[a] EXCEPT !.done = TRUE]]
  BY <1>2 DEF EndOfStream
<1>4. /\ scan' \in [Scans -> ScanType]
      /\ \A s \in Scans : /\ scan'[s].state = scan[s].state /\ scan'[s].pos = scan[s].pos
                          /\ scan'[s].bind = scan[s].bind
  BY <1>3, ScanIsFilled DEF TablesInv
<1>5. Quiet
  BY <1>1, <1>4 DEF Quiet, StreamMove, ScanMove
<1> QED BY <1>1, <1>4, <1>5, ScanGoes DEF TablesInv, Typed

(*----------------------------- the last reference ------------------------*)

(* On the R thread the stream is closed first. *)
LEMMA FreeClosesStep ==
  ASSUME TablesInv, FreeCloses
  PROVE  TablesInv'
<1>1. Top.op = "free" /\ Top.at = "close" /\ stack # <<>> /\ UNCHANGED <<heap, bind, dataHeld, scan>>
  BY TopIsThere DEF FreeCloses, At
<1>2. PICK p \in Seq(Frames), t \in Frames :
        /\ stack = Append(p, t) /\ Top = t /\ t \in Good /\ FrameOK(t)
        /\ \A w \in Places : GoTo(w) = Append(p, [t EXCEPT !.at = w])
  BY <1>1, TopOf
<1>3. PICK b \in Binds, o \in Objects :
        t.op = "free" /\ t.nodes = <<>> /\ t.arg = b /\ bind[b].refs = 0 /\ bind[b].result = o
  BY <1>1, <1>2 DEF FrameOK
<1>4. stream[o].made /\ \A c \in Binds : bind[c].result = o => c = b
  <2>1. o # NoObject
    BY TableAssumption DEF TableAssumption
  <2> QED BY <1>3, <2>1 DEF TablesInv, StreamsOK, BindsOK
<1>5. Closable(o)
  BY <1>3, <1>4 DEF Closable
<1>6. PICK st : st = GoTo("release")
  OBVIOUS
<1>7. Closing(o, st)
  BY <1>2, <1>3, <1>6 DEF FreeCloses, Closing
<1>8. /\ stream' \in [Objects -> StreamType] /\ \A c \in Objects : StreamMove(c) /\ stream'[o].closed
      /\ stack' = st \/ stack' = Append(st, Frame("close", o, <<>>, "user"))
  BY <1>5, <1>7, ClosingStep DEF TablesInv
<1>9. Quiet
  BY <1>1, <1>8 DEF Quiet, ScanMove
<1>10. "release" \in Places
  BY DEF Places
<1>11. PICK u \in Frames : u = [t EXCEPT !.at = "release"] /\ u.op = t.op /\ u.arg = t.arg
                           /\ u.nodes = t.nodes /\ u.at = "release"
  BY <1>10, GoesOn
<1>12. t \in Good'
  BY <1>1, <1>2, <1>9, QuietFrames, QuietKeeps, FrameKept DEF TablesInv
<1>13. u \in Good'
  <2>1. FrameOK(t)' /\ bind'[b].result = o /\ stream'[o].closed
    BY <1>1, <1>3, <1>8, <1>12 DEF Good
  <2>2. FrameOK(u)'
    BY <1>3, <1>11, <2>1 DEF FrameOK
  <2> QED BY <2>2 DEF Good
<1>14. st = Append(p, u)
  BY <1>2, <1>6, <1>10, <1>11
<1>15. stack' = Append(p, u) \/ \E c \in Objects : stack' = Append(Append(p, u), Frame("close", c, <<>>, "user"))
  BY <1>8, <1>14
<1> QED BY <1>1, <1>2, <1>3, <1>8, <1>9, <1>11, <1>13, <1>15, QuietTop DEF TablesInv, Typed

(*------------------------- steps that reach the heap ---------------------*)

(* A frame is pushed on the others. *)
LEMMA Pushes ==
  ASSUME TablesInv, Progress, \A i \in DOMAIN stack : Kept(stack[i]),
         NEW f \in Frames, f \in Good', \A i \in DOMAIN stack : ~SameJob(stack[i], f),
         stack = <<>> => f.op # "close",
         stack' = Append(stack, f)
  PROVE  /\ stack' \in Seq(Frames) /\ ShapeOK(stack, Good)'
         /\ \A o \in Objects :
              Cardinality(Detained(stack', o)) = Cardinality(Detained(stack, o)) + CountOf(f.nodes, o)
<1>1. PICK p \in Seq(Frames) : p = stack
  BY DEF TablesInv, Typed
<1>2. ShapeOK(p, Good')
  BY <1>1, ShapeKept DEF TablesInv
<1>3. Good' \subseteq Frames
  BY DEF Good
<1>4. ShapeOK(Append(p, f), Good')
  BY <1>1, <1>2, <1>3, ShapeAppend
<1>5. \A o \in Objects :
        Cardinality(Detained(Append(p, f), o)) = Cardinality(Detained(p, o)) + CountOf(f.nodes, o)
  BY DetainedAppend
<1> QED BY <1>1, <1>4, <1>5, FramesAppend

LEMMA StackFrames ==
  ASSUME TablesInv, NEW i \in DOMAIN stack
  PROVE  stack[i] \in Good /\ stack[i] \in Frames /\ FrameOK(stack[i])
  BY DEF TablesInv, ShapeOK, Good

(* An operation begins by detaching the queue. *)
LEMMA EnterStep ==
  ASSUME TablesInv, NEW op \in {"other", "bind", "scan"}, NEW arg, Enter(op, arg),
         op = "other" => arg = NoBind,
         op = "bind" => arg \in Binds /\ bind[arg] = FreeBind,
         op = "scan" => arg \in Scans /\ scan[arg].state = "open",
         op # "other" => \A i \in DOMAIN stack : stack[i].arg # arg
  PROVE  TablesInv'
<1>1. UNCHANGED <<stream, bind, dataHeld, scan>> /\ heap' = Detached(heap)
      /\ stack' = Append(stack, Frame(op, arg, heap.queue, "drain"))
  BY DEF Enter
<1>2. Quiet
  BY <1>1, NothingMoves
<1>3. /\ HeapType(heap') /\ heap'.queue = <<>>
      /\ \A o \in Objects : /\ heap'.preserved[o] = heap.preserved[o]
                            /\ HoldsOn(heap', o) = HoldsOn(heap, o) + CountOf(heap.queue, o)
  <2>1. PICK h : h = heap
    OBVIOUS
  <2>2. HeapType(h) /\ heap' = Detached(h)
    BY <1>1, <2>1 DEF TablesInv, Typed
  <2> QED BY <2>1, <2>2, DetachedHolds
<1>4. Progress /\ BindsOK' /\ RowsOK' /\ StreamsOK'
  BY <1>2, <1>3, QuietKeeps, QuietStreams
<1>5. PICK f : f = Frame(op, arg, heap.queue, "drain")
  OBVIOUS
<1>6. f \in Frames /\ f.op = op /\ f.arg = arg /\ f.nodes = heap.queue /\ f.at = "drain"
  <2>1. heap.queue \in Seq(Nodes)
    BY DEF TablesInv, Typed, HeapType
  <2>2. arg \in Binds \cup Scans \cup Objects \cup {NoBind}
    OBVIOUS
  <2> QED BY <1>5, <2>1, <2>2 DEF Frame, Frames, Operations, Places
<1>7. FrameOK(f)
  <2>1. \A j \in DOMAIN f.nodes : NodeOK(f.nodes[j])
    BY <1>6 DEF TablesInv, QueueOK
  <2> QED BY <1>6, <2>1 DEF FrameOK
<1>8. f \in Good'
  <2>1. Kept(f)
    BY <1>1 DEF Kept
  <2>2. f \in Good
    BY <1>6, <1>7 DEF Good
  <2> QED BY <1>4, <2>1, <2>2, FrameKept DEF TablesInv
<1>9. \A i \in DOMAIN stack : ~SameJob(stack[i], f)
  BY <1>6 DEF SameJob
<1>10. \A i \in DOMAIN stack : Kept(stack[i])
  BY <1>1 DEF Kept
<1>11. /\ stack' \in Seq(Frames) /\ ShapeOK(stack, Good)'
       /\ \A o \in Objects :
            Cardinality(Detained(stack', o)) = Cardinality(Detained(stack, o)) + CountOf(f.nodes, o)
  BY <1>1, <1>4, <1>5, <1>6, <1>8, <1>9, <1>10, Pushes
<1>12. HoldsOK'
  <2>1. \A o \in Objects : Owned(o)' <=> Owned(o)
    BY <1>1 DEF Owned
  <2>2. ASSUME NEW o \in Objects
        PROVE  HoldsOn(heap', o) = (IF Owned(o)' THEN 1 ELSE 0) + Cardinality(Detained(stack', o))
    <3>1. PICK n \in Nat, c \in Nat, d \in {0, 1} :
            n = Cardinality(Detained(stack, o)) /\ c = CountOf(heap.queue, o) /\ d = IF Owned(o) THEN 1 ELSE 0
      BY DetainedFinite, CountNat DEF TablesInv, Typed, HeapType
    <3>2. HoldsOn(heap, o) = d + n
      BY <3>1 DEF TablesInv, HoldsOK
    <3>3. HoldsOn(heap', o) = (d + n) + c /\ Cardinality(Detained(stack', o)) = n + c
      BY <1>3, <1>6, <1>11, <3>1, <3>2
    <3>4. d = IF Owned(o)' THEN 1 ELSE 0
      BY <2>1, <3>1
    <3>5. (d + n) + c = d + (n + c)
      OBVIOUS
    <3> QED BY <3>3, <3>4, <3>5
  <2> QED BY <2>2 DEF HoldsOK
<1>13. QueueOK'
  BY <1>3 DEF QueueOK
<1>14. Typed'
  BY <1>1, <1>3, <1>11 DEF TablesInv, Typed
<1> QED BY <1>4, <1>11, <1>12, <1>13, <1>14 DEF TablesInv

(* A drain closes the stream of its next node, or releases it. *)
LEMMA DrainNodeStep ==
  ASSUME TablesInv, DrainNode
  PROVE  TablesInv'
<1>1. Top.at = "drain" /\ Top.nodes # <<>> /\ stack # <<>> /\ UNCHANGED <<bind, dataHeld, scan>>
  BY TopIsThere DEF DrainNode
<1>2. PICK p \in Seq(Frames), t \in Frames :
        /\ stack = Append(p, t) /\ Top = t /\ t \in Good /\ FrameOK(t) /\ t.nodes # <<>>
        /\ [stack EXCEPT ![Len(stack)].nodes = Tail(@)] = Append(p, [t EXCEPT !.nodes = Tail(@)])
  BY <1>1, TopOf
<1>3. PICK q \in Seq(Nodes) : q = t.nodes /\ q # <<>>
  BY <1>2 DEF Frames
<1>4. PICK n \in Nodes : n = Head(q) /\ n = q[1] /\ 1 \in DOMAIN q
  <2>1. Len(q) \in Nat /\ Len(q) # 0 /\ DOMAIN q = 1 .. Len(q)
    BY <1>3
  <2> QED BY <1>3, <2>1
<1>5. PICK o \in Objects : o = n.object
  BY DEF Nodes
<1>6. n.close /\ stream[o].made /\ ~Owned(o)
  BY <1>2, <1>3, <1>4, <1>5 DEF FrameOK, NodeOK, Owned
<1>7. CASE ~stream[o].closed
  <2>1. Closing(o, stack) /\ heap' = heap
    BY <1>2, <1>3, <1>4, <1>5, <1>6, <1>7 DEF DrainNode
  <2>2. PICK st \in Seq(Frames) : st = stack
    BY DEF TablesInv, Typed
  <2>3. Closing(o, st)
    BY <2>1, <2>2 DEF Closing
  <2>4. Closable(o)
    BY <1>6 DEF Closable, Owned
  <2>5. stream' \in [Objects -> StreamType] /\ \A c \in Objects : StreamMove(c)
    BY <2>3, <2>4, ClosingStep DEF TablesInv
  <2>6. stack' = Append(stack, Frame("close", o, <<>>, "user"))
    BY <1>7, <2>1 DEF Closing
  <2>7. Quiet
    BY <1>1, <2>5 DEF Quiet, ScanMove
  <2>8. Progress /\ BindsOK' /\ RowsOK' /\ StreamsOK'
    BY <2>1, <2>7, QuietKeeps, QuietStreams
  <2>9. PICK f : f = Frame("close", o, <<>>, "user")
    OBVIOUS
  <2>10. f \in Frames /\ f.op = "close" /\ f.nodes = <<>> /\ f.at = "user"
    BY <2>9 DEF Frame, Frames, Operations, Places
  <2>11. f \in Good'
    BY <2>10 DEF Good, FrameOK
  <2>12. \A i \in DOMAIN stack : ~SameJob(stack[i], f)
    BY <2>10 DEF SameJob
  <2>13. \A i \in DOMAIN stack : Kept(stack[i])
    BY <1>1 DEF Kept
  <2>14. /\ stack' \in Seq(Frames) /\ ShapeOK(stack, Good)'
         /\ \A c \in Objects :
              Cardinality(Detained(stack', c)) = Cardinality(Detained(stack, c)) + CountOf(f.nodes, c)
    BY <1>1, <2>6, <2>8, <2>9, <2>10, <2>11, <2>12, <2>13, Pushes
  <2>15. ASSUME NEW c \in Objects
         PROVE  Cardinality(Detained(stack', c)) = Cardinality(Detained(stack, c))
    <3>1. Cardinality(Detained(stack, c)) \in Nat
      BY <2>2, DetainedFinite
    <3>2. Cardinality(Detained(stack', c)) = Cardinality(Detained(stack, c)) + 0
      BY <2>10, <2>14, CountEmpty
    <3> QED BY <3>1, <3>2
  <2>16. HoldsOK' /\ QueueOK'
    BY <1>1, <2>1, <2>8, <2>15, HoldsSame, QueueKept DEF TablesInv
  <2>17. Typed'
    BY <1>1, <2>1, <2>5, <2>14 DEF TablesInv, Typed
  <2> QED BY <2>8, <2>14, <2>16, <2>17 DEF TablesInv
<1>8. CASE stream[o].closed
  <2>1. /\ heap' = ReleasedNow(heap, o) /\ stream' = stream
        /\ stack' = [stack EXCEPT ![Len(stack)].nodes = Tail(@)]
    BY <1>2, <1>3, <1>4, <1>5, <1>8 DEF DrainNode
  <2>2. Quiet
    BY <1>1, <2>1, NothingMoves
  <2>3. /\ HeapType(heap') /\ heap'.queue = heap.queue
        /\ \A c \in Objects : /\ heap'.preserved[c] = heap.preserved[c] - IF c = o THEN 1 ELSE 0
                              /\ HoldsOn(heap', c) = HoldsOn(heap, c) - IF c = o THEN 1 ELSE 0
    <3>1. PICK h : h = heap
      OBVIOUS
    <3>2. HeapType(h) /\ heap' = ReleasedNow(h, o)
      BY <2>1, <3>1 DEF TablesInv, Typed
    <3> QED BY <3>1, <3>2, ReleasedHolds
  <2>4. \A c \in Objects : heap'.preserved[c] = heap.preserved[c] \/ stream'[c].closed
    <3>1. \A c \in Objects : heap.preserved[c] \in Int
      BY DEF TablesInv, Typed, HeapType
    <3> QED BY <1>8, <2>1, <2>3, <3>1
  <2>5. Progress /\ BindsOK' /\ RowsOK' /\ StreamsOK'
    BY <2>2, <2>4, QuietKeeps, QuietStreams
  <2>6. PICK r \in Seq(Nodes) : r = Tail(q)
    BY <1>3, CountTail
  <2>7. \A c : CountOf(q, c) = CountOf(r, c) + IF c = o THEN 1 ELSE 0
    <3>1. \A c : CountOf(q, c) = CountOf(Tail(q), c) + IF Head(q).object = c THEN 1 ELSE 0
      BY <1>3, CountTail
    <3> QED BY <1>4, <1>5, <2>6, <3>1
  <2>8. PICK u : u = [t EXCEPT !.nodes = r]
    OBVIOUS
  <2>9. u \in Frames /\ u.op = t.op /\ u.arg = t.arg /\ u.nodes = r /\ u.at = t.at
    BY <2>8 DEF Frames
  <2>10. stack' = Append(p, u)
    BY <1>2, <1>3, <2>1, <2>6, <2>8
  <2>11. t \in Good'
    <3>1. Kept(t)
      BY <1>1 DEF Kept
    <3> QED BY <1>2, <2>5, <3>1, FrameKept DEF TablesInv
  <2>12. u \in Good'
    <3>1. FrameOK(t)'
      BY <2>11 DEF Good
    <3>2. \A j \in DOMAIN r : \E i \in DOMAIN q : r[j] = q[i]
      <4>1. Len(q) \in Nat /\ DOMAIN q = 1 .. Len(q) /\ DOMAIN r = 1 .. Len(q) - 1
            /\ \A j \in 1 .. Len(q) - 1 : r[j] = q[j + 1]
        BY <1>3, <2>6
      <4>2. \A j \in 1 .. Len(q) - 1 : j + 1 \in 1 .. Len(q)
        BY <4>1
      <4> QED BY <4>1, <4>2
    <3>3. \A j \in DOMAIN r : NodeOK(r[j])'
      BY <1>3, <3>1, <3>2 DEF FrameOK
    <3>4. FrameOK(u)'
      BY <1>1, <1>2, <2>9, <3>1, <3>3 DEF FrameOK
    <3> QED BY <2>9, <3>4 DEF Good
  <2>13. ShapeOK(p, Good) /\ (\A i \in DOMAIN p : ~SameJob(p[i], t)) /\ (p = <<>> => t.op # "close")
    BY <1>2, UnderTop
  <2>14. ShapeOK(p, Good')
    <3>1. \A i \in DOMAIN p : Kept(p[i])
      BY <1>1 DEF Kept
    <3> QED BY <2>5, <2>13, <3>1, ShapeKept DEF TablesInv
  <2>15. ShapeOK(Append(p, u), Good')
    <3>1. Good' \subseteq Frames
      BY DEF Good
    <3>2. \A i \in DOMAIN p : ~SameJob(p[i], u)
      BY <2>9, <2>13 DEF SameJob
    <3> QED BY <2>9, <2>12, <2>13, <2>14, <3>1, <3>2, ShapeAppend
  <2>16. ASSUME NEW c \in Objects
         PROVE  HoldsOn(heap', c) = (IF Owned(c)' THEN 1 ELSE 0) + Cardinality(Detained(stack', c))
    <3>1. PICK k \in Nat, x \in Nat, d \in {0, 1}, z \in {0, 1} :
            /\ k = Cardinality(Detained(p, c)) /\ x = CountOf(r, c)
            /\ d = (IF Owned(c) THEN 1 ELSE 0) /\ z = (IF c = o THEN 1 ELSE 0)
      BY DetainedFinite, CountNat
    <3>2. Cardinality(Detained(stack, c)) = k + (x + z)
      <4>1. CountOf(q, c) = x + z
        BY <2>7, <3>1
      <4> QED BY <1>2, <1>3, <3>1, <4>1, DetainedAppend
    <3>3. Cardinality(Detained(stack', c)) = k + x
      BY <2>9, <2>10, <3>1, DetainedAppend
    <3>4. HoldsOn(heap, c) = d + (k + (x + z))
      BY <3>1, <3>2 DEF TablesInv, HoldsOK
    <3>5. HoldsOn(heap', c) = (d + (k + (x + z))) - z
      BY <2>3, <3>1, <3>4
    <3>6. d = IF Owned(c)' THEN 1 ELSE 0
      BY <1>1, <3>1 DEF Owned
    <3>7. (d + (k + (x + z))) - z = d + (k + x)
      OBVIOUS
    <3> QED BY <3>3, <3>5, <3>6, <3>7
  <2>17. HoldsOK' /\ QueueOK'
    BY <2>3, <2>5, <2>16, QueueKept DEF TablesInv, HoldsOK
  <2>18. Typed'
    <3>1. stack' \in Seq(Frames)
      BY <2>9, <2>10, FramesAppend
    <3> QED BY <1>1, <2>1, <2>3, <3>1 DEF TablesInv, Typed
  <2>19. ShapeOK(stack, Good)'
    BY <2>10, <2>15
  <2> QED BY <2>5, <2>17, <2>18, <2>19 DEF TablesInv
<1> QED BY <1>7, <1>8

(*------------------------------ binds and scans --------------------------*)

(* The table function returns a new stream. *)
LEMMA BindReturnsStep ==
  ASSUME TablesInv, NEW o \in Objects, NEW exact \in Declared \cup {Unknown}, BindReturns(o, exact)
  PROVE  TablesInv'
<1>1. Top.op = "bind" /\ Top.at = "user" /\ stack # <<>> /\ ~stream[o].made
      /\ heap' = Preserved(heap, o) /\ scan' = scan
  BY TopIsThere DEF BindReturns, At
<1>2. PICK p \in Seq(Frames), t \in Frames :
        stack = Append(p, t) /\ Top = t /\ Popped = p /\ t \in Good /\ FrameOK(t)
  BY <1>1, TopOf
<1>3. PICK a \in Binds : t.op = "bind" /\ t.nodes = <<>> /\ t.arg = a /\ bind[a] = FreeBind
  BY <1>1, <1>2 DEF FrameOK
<1>4. bind[a].result = NoObject /\ bind[a].refs = 0
  BY <1>3 DEF FreeBind
<1>5. NoObject \notin Objects
  BY TableAssumption DEF TableAssumption
<1>6. /\ bind' = [bind EXCEPT ![a] = [result |-> o, refs |-> 1]]
      /\ dataHeld' = dataHeld \cup {a} /\ stack' = p
  BY <1>2, <1>3 DEF BindReturns
<1>7. /\ bind' \in [Binds -> BindType] /\ bind'[a].result = o /\ bind'[a].refs = 1
      /\ \A b \in Binds \ {a} : bind'[b] = bind[b]
  <2>1. PICK v : v = [result |-> o, refs |-> 1]
    OBVIOUS
  <2>2. v \in BindType /\ v.result = o /\ v.refs = 1
    BY <2>1 DEF BindType
  <2>3. bind \in [Binds -> BindType] /\ bind' = [bind EXCEPT ![a] = v]
    BY <1>6, <2>1 DEF TablesInv, Typed
  <2> QED BY <2>2, <2>3
<1>8. PICK r \in StreamType : r = stream[o]
  BY DEF TablesInv, Typed
<1>9. PICK v : v = [r EXCEPT !.made = TRUE, !.exact = exact]
  OBVIOUS
<1>10. v \in StreamType /\ v.made /\ v.exact = exact /\ v.ended = r.ended
       /\ v.closed = r.closed /\ v.closes = r.closes
  <2>1. exact \in Nat \cup {Unknown}
    BY TableAssumption DEF TableAssumption
  <2>2. r = [made |-> r.made, exact |-> r.exact, closed |-> r.closed, closes |-> r.closes,
             ended |-> r.ended, pulled |-> r.pulled]
    BY DEF StreamType
  <2>3. v = [made |-> TRUE, exact |-> exact, closed |-> r.closed, closes |-> r.closes,
             ended |-> r.ended, pulled |-> r.pulled]
    BY <1>9, <2>2
  <2>4. v \in StreamType
    BY <2>1, <2>3 DEF StreamType
  <2> QED BY <2>3, <2>4
<1>11. stream' = [stream EXCEPT ![o] = v]
  BY <1>8, <1>9 DEF BindReturns
<1>12. stream' \in [Objects -> StreamType] /\ stream'[o] = v /\ \A c \in Objects \ {o} : stream'[c] = stream[c]
  BY <1>10, <1>11, StreamUpdate DEF TablesInv
<1>13. ~stream[o].closed /\ ~Owned(o)
  BY <1>1 DEF TablesInv, StreamsOK, Owned
<1>14. Progress
  <2>1. \A c \in Objects \ {o} : ~Owned(c) => ~Owned(c)'
    BY <1>7 DEF Owned
  <2> QED BY <1>1, <1>8, <1>10, <1>12, <2>1 DEF Progress
<1>15. a \notin dataHeld /\ \A s \in Scans : ~Using(s, a)
  BY <1>4 DEF TablesInv, BindsOK
<1>16. \A s \in Scans : scan[s].state \in InUse => scan[s].bind \in Binds \ {a}
  BY <1>15, ScansStream DEF TablesInv, Using
<1>17. ASSUME NEW i \in DOMAIN p PROVE Kept(p[i])
  <2>1. p[i] \in Good /\ FrameOK(p[i]) /\ ~SameJob(p[i], t)
    BY <1>2, UnderTop DEF Good
  <2>2. CASE p[i].op = "bind"
    <3>1. p[i].arg \in Binds \ {a}
      BY <1>3, <2>1, <2>2 DEF FrameOK, SameJob
    <3> QED BY <1>7, <2>2, <3>1 DEF Kept
  <2>3. CASE p[i].op = "free"
    <3>1. p[i].arg \in Binds \ {a}
      BY <1>4, <1>5, <2>1, <2>3 DEF FrameOK
    <3> QED BY <1>7, <2>3, <3>1 DEF Kept
  <2>4. CASE p[i].op = "scan"
    <3>1. scan[p[i].arg].bind \in Binds \ {a}
      BY <1>16, <2>1, <2>4 DEF FrameOK, InUse
    <3> QED BY <1>1, <1>7, <2>4, <3>1 DEF Kept
  <2> QED BY <2>2, <2>3, <2>4 DEF Kept
<1>18. /\ stack' \in Seq(Frames) /\ ShapeOK(stack, Good)'
       /\ \A c \in Objects : Cardinality(Detained(stack', c)) = Cardinality(Detained(stack, c))
  BY <1>2, <1>3, <1>6, <1>14, <1>17, TopMoves
<1>19. /\ HeapType(heap') /\ heap'.queue = heap.queue
       /\ \A c \in Objects : /\ heap'.preserved[c] = heap.preserved[c] + IF c = o THEN 1 ELSE 0
                             /\ HoldsOn(heap', c) = HoldsOn(heap, c) + IF c = o THEN 1 ELSE 0
  <2>1. PICK h : h = heap
    OBVIOUS
  <2>2. HeapType(h) /\ heap' = Preserved(h, o)
    BY <1>1, <2>1 DEF TablesInv, Typed
  <2> QED BY <2>1, <2>2, PreservedHolds
<1>20. heap.preserved[o] \in Nat
  <2>1. PICK n \in Nat : n = Cardinality(Detained(stack, o))
    BY DetainedFinite DEF TablesInv, Typed
  <2>2. HoldsOn(heap, o) = 0 + n
    BY <1>13, <2>1 DEF TablesInv, HoldsOK
  <2>3. PICK c \in Nat, l \in Nat, x \in Int : c = CountOf(heap.queue, o) /\ l = heap.lost[o] /\ x = heap.preserved[o]
    BY CountNat DEF TablesInv, Typed, HeapType
  <2>4. x - (c + l) = n
    BY <2>2, <2>3 DEF HoldsOn, Waiting
  <2> QED BY <2>3, <2>4
<1>21. BindsOK'
  <2>1. \A s \in Scans, b \in Binds : Using(s, b)' <=> Using(s, b)
    BY <1>1 DEF Using
  <2>2. ASSUME NEW b \in Binds
        PROVE  /\ bind'[b].refs = (IF b \in dataHeld' THEN 1 ELSE 0) + (IF \E s \in Scans : Using(s, b)' THEN 1 ELSE 0)
               /\ bind'[b].refs > 0 => bind'[b].result \in Objects
               /\ \A s, q \in Scans : Using(s, b)' /\ Using(q, b)' => s = q
    <3>1. CASE b = a
      <4>1. a \in dataHeld' /\ ~\E s \in Scans : Using(s, a)'
        BY <1>6, <1>15, <2>1
      <4> QED BY <1>7, <3>1, <4>1
    <3>2. CASE b # a
      <4>1. bind'[b] = bind[b] /\ (b \in dataHeld' <=> b \in dataHeld)
        BY <1>6, <1>7, <3>2
      <4> QED BY <2>1, <4>1 DEF TablesInv, BindsOK
    <3> QED BY <3>1, <3>2
  <2>3. \A s \in Scans : scan'[s].state \in InUse => scan'[s].bind \in Binds
    BY <1>1 DEF TablesInv, BindsOK
  <2>4. \A b, c \in Binds : bind'[b].result = bind'[c].result /\ bind'[b].result # NoObject => b = c
    BY <1>7, <1>13 DEF TablesInv, BindsOK, Owned
  <2> QED BY <2>2, <2>3, <2>4 DEF BindsOK
<1>22. StreamsOK'
  <2> SUFFICES ASSUME NEW c \in Objects
               PROVE  /\ ~stream'[c].made => ~stream'[c].closed /\ \A b \in Binds : bind'[b].result # c
                      /\ stream'[c].closes = IF stream'[c].closed THEN 1 ELSE 0
                      /\ stream'[c].closed /\ ~stream'[c].ended
                         => \A b \in Binds : bind'[b].result = c => bind'[b].refs = 0
                      /\ stream'[c].made /\ heap'.preserved[c] = 0 => stream'[c].closed
    BY DEF StreamsOK
  <2>1. CASE c = o
    <3>1. heap'.preserved[o] # 0
      BY <1>19, <1>20
    <3>2. stream[o].closes = IF stream[o].closed THEN 1 ELSE 0
      BY DEF TablesInv, StreamsOK
    <3> QED BY <1>8, <1>10, <1>12, <1>13, <2>1, <3>1, <3>2
  <2>2. CASE c # o
    <3>1. stream'[c] = stream[c] /\ heap'.preserved[c] = heap.preserved[c]
      <4>1. heap.preserved[c] \in Int
        BY DEF TablesInv, Typed, HeapType
      <4> QED BY <1>12, <1>19, <2>2, <4>1
    <3>2. \A b \in Binds : bind'[b].result = c => bind'[b] = bind[b]
      BY <1>7, <2>2
    <3> QED BY <3>1, <3>2 DEF TablesInv, StreamsOK
  <2> QED BY <2>1, <2>2
<1>23. RowsOK'
  <2> SUFFICES ASSUME NEW s \in Scans
               PROVE  /\ scan'[s].state = "new" => scan'[s].pos = 0
                      /\ scan'[s].state \in {"open", "complete"} /\ Exact(s)' # Unknown
                         => scan'[s].pos <= Exact(s)' /\ (scan'[s].state = "complete" => scan'[s].pos = Exact(s)')
    BY DEF RowsOK
  <2>1. ASSUME scan[s].state \in InUse
        PROVE  Exact(s)' = Exact(s)
    <3>1. StreamOf(s) \in Objects /\ scan[s].bind \in Binds \ {a}
      BY <1>16, <2>1, ScansStream DEF TablesInv
    <3>2. StreamOf(s)' = StreamOf(s)
      BY <1>1, <1>7, <3>1 DEF StreamOf
    <3>3. StreamOf(s) # o
      BY <1>13, <3>1 DEF Owned, StreamOf
    <3> QED BY <1>12, <3>1, <3>2, <3>3 DEF Exact
  <2> QED BY <1>1, <2>1 DEF TablesInv, RowsOK, InUse
<1>24. ASSUME NEW c \in Objects
       PROVE  HoldsOn(heap', c) = (IF Owned(c)' THEN 1 ELSE 0) + Cardinality(Detained(stack', c))
  <2>1. PICK k \in Nat, x \in Int : k = Cardinality(Detained(stack, c)) /\ x = HoldsOn(heap, c)
    <3>1. Cardinality(Detained(stack, c)) \in Nat
      BY DetainedFinite DEF TablesInv, Typed
    <3>2. CountOf(heap.queue, c) \in Nat /\ heap.lost[c] \in Nat /\ heap.preserved[c] \in Int
      BY CountNat DEF TablesInv, Typed, HeapType
    <3>3. HoldsOn(heap, c) \in Int
      BY <3>2 DEF HoldsOn, Waiting
    <3> QED BY <3>1, <3>3
  <2>2. x = (IF Owned(c) THEN 1 ELSE 0) + k
    BY <2>1 DEF TablesInv, HoldsOK
  <2>3. HoldsOn(heap', c) = x + IF c = o THEN 1 ELSE 0
    BY <1>19, <2>1
  <2>4. Cardinality(Detained(stack', c)) = k
    BY <1>18, <2>1
  <2>5. CASE c = o
    <3>1. Owned(o)'
      BY <1>7 DEF Owned
    <3> QED BY <1>13, <2>2, <2>3, <2>4, <2>5, <3>1
  <2>6. CASE c # o
    <3>1. Owned(c)' <=> Owned(c)
      BY <1>4, <1>5, <1>7, <2>6 DEF Owned
    <3> QED BY <2>2, <2>3, <2>4, <2>6, <3>1
  <2> QED BY <2>5, <2>6
<1>25. HoldsOK' /\ QueueOK'
  BY <1>14, <1>19, <1>24, QueueKept DEF TablesInv, HoldsOK
<1>26. Typed'
  BY <1>1, <1>6, <1>7, <1>12, <1>18, <1>19 DEF TablesInv, Typed
<1> QED BY <1>18, <1>21, <1>22, <1>23, <1>25, <1>26 DEF TablesInv

(* A bind without references is neither DuckDB's nor a scan's. *)
LEMMA Unused ==
  ASSUME TablesInv, NEW b \in Binds, bind[b].refs = 0
  PROVE  b \notin dataHeld /\ \A s \in Scans : ~Using(s, b) /\ (scan[s].state \in InUse => scan[s].bind \in Binds \ {b})
<1>1. b \notin dataHeld /\ \A s \in Scans : ~Using(s, b)
  BY DEF TablesInv, BindsOK
<1> QED BY <1>1, ScansStream DEF TablesInv, Using

LEMMA HeldNat ==
  ASSUME TablesInv, NEW o \in Objects
  PROVE  Cardinality(Detained(stack, o)) \in Nat /\ heap.preserved[o] \in Int
  BY DetainedFinite DEF TablesInv, Typed, HeapType

(* On the R thread the stream of a bind without references is released. *)
LEMMA FreeReleasesStep ==
  ASSUME TablesInv, FreeReleases
  PROVE  TablesInv'
<1>1. Top.op = "free" /\ Top.at = "release" /\ stack # <<>> /\ UNCHANGED <<stream, dataHeld, scan>>
  BY TopIsThere DEF FreeReleases, At
<1>2. PICK p \in Seq(Frames), t \in Frames :
        stack = Append(p, t) /\ Top = t /\ Popped = p /\ t \in Good /\ FrameOK(t)
  BY <1>1, TopOf
<1>3. PICK a \in Binds, o \in Objects :
        /\ t.op = "free" /\ t.nodes = <<>> /\ t.arg = a /\ bind[a].refs = 0 /\ bind[a].result = o
        /\ stream[o].closed
  BY <1>1, <1>2 DEF FrameOK
<1>4. NoObject \notin Objects
  BY TableAssumption DEF TableAssumption
<1>5. heap' = ReleasedNow(heap, o) /\ bind' = [bind EXCEPT ![a] = FreeBind] /\ stack' = p
  BY <1>2, <1>3 DEF FreeReleases
<1>6. /\ bind' \in [Binds -> BindType] /\ bind'[a].result = NoObject /\ bind'[a].refs = 0
      /\ \A b \in Binds \ {a} : bind'[b] = bind[b]
  <2>1. PICK v : v = FreeBind
    OBVIOUS
  <2>2. v \in BindType /\ v.result = NoObject /\ v.refs = 0
    BY <2>1 DEF BindType, FreeBind
  <2>3. bind \in [Binds -> BindType] /\ bind' = [bind EXCEPT ![a] = v]
    BY <1>5, <2>1 DEF TablesInv, Typed
  <2> QED BY <2>2, <2>3
<1>7. \A b \in Binds : bind[b].result = o => b = a
  BY <1>3, <1>4 DEF TablesInv, BindsOK
<1>8. ~Owned(o)' /\ \A c \in Objects \ {o} : Owned(c)' <=> Owned(c)
  BY <1>3, <1>4, <1>6, <1>7 DEF Owned
<1>9. Progress
  BY <1>1, <1>8 DEF Progress
<1>10. a \notin dataHeld /\ \A s \in Scans : ~Using(s, a) /\ (scan[s].state \in InUse => scan[s].bind \in Binds \ {a})
  BY <1>3, Unused
<1>11. ASSUME NEW i \in DOMAIN p PROVE Kept(p[i])
  <2>1. p[i] \in Good /\ FrameOK(p[i]) /\ ~SameJob(p[i], t)
    BY <1>2, UnderTop DEF Good
  <2>2. CASE p[i].op = "bind"
    <3>1. p[i].arg \in Binds \ {a}
      BY <1>3, <1>4, <2>1, <2>2 DEF FrameOK, FreeBind
    <3> QED BY <1>6, <2>2, <3>1 DEF Kept
  <2>3. CASE p[i].op = "free"
    <3>1. p[i].arg \in Binds \ {a}
      BY <1>3, <2>1, <2>3 DEF FrameOK, SameJob
    <3> QED BY <1>6, <2>3, <3>1 DEF Kept
  <2>4. CASE p[i].op = "scan"
    <3>1. scan[p[i].arg].bind \in Binds \ {a}
      BY <1>10, <2>1, <2>4 DEF FrameOK, InUse
    <3> QED BY <1>1, <1>6, <2>4, <3>1 DEF Kept
  <2> QED BY <2>2, <2>3, <2>4 DEF Kept
<1>12. /\ stack' \in Seq(Frames) /\ ShapeOK(stack, Good)'
       /\ \A c \in Objects : Cardinality(Detained(stack', c)) = Cardinality(Detained(stack, c))
  BY <1>2, <1>3, <1>5, <1>9, <1>11, TopMoves
<1>13. /\ HeapType(heap') /\ heap'.queue = heap.queue
       /\ \A c \in Objects : /\ heap'.preserved[c] = heap.preserved[c] - IF c = o THEN 1 ELSE 0
                             /\ HoldsOn(heap', c) = HoldsOn(heap, c) - IF c = o THEN 1 ELSE 0
  <2>1. PICK h : h = heap
    OBVIOUS
  <2>2. HeapType(h) /\ heap' = ReleasedNow(h, o)
    BY <1>5, <2>1 DEF TablesInv, Typed
  <2> QED BY <2>1, <2>2, ReleasedHolds
<1>14. BindsOK'
  <2>1. \A s \in Scans, b \in Binds : Using(s, b)' <=> Using(s, b)
    BY <1>1 DEF Using
  <2>2. ASSUME NEW b \in Binds
        PROVE  /\ bind'[b].refs = (IF b \in dataHeld' THEN 1 ELSE 0) + (IF \E s \in Scans : Using(s, b)' THEN 1 ELSE 0)
               /\ bind'[b].refs > 0 => bind'[b].result \in Objects
               /\ \A s, q \in Scans : Using(s, b)' /\ Using(q, b)' => s = q
    <3>1. CASE b = a
      <4>1. a \notin dataHeld' /\ ~\E s \in Scans : Using(s, a)'
        BY <1>1, <1>10, <2>1
      <4> QED BY <1>6, <3>1, <4>1
    <3>2. CASE b # a
      BY <1>1, <1>6, <2>1, <3>2 DEF TablesInv, BindsOK
    <3> QED BY <3>1, <3>2
  <2>3. \A s \in Scans : scan'[s].state \in InUse => scan'[s].bind \in Binds
    BY <1>1 DEF TablesInv, BindsOK
  <2>4. \A b, c \in Binds : bind'[b].result = bind'[c].result /\ bind'[b].result # NoObject => b = c
    BY <1>6 DEF TablesInv, BindsOK
  <2> QED BY <2>2, <2>3, <2>4 DEF BindsOK
<1>15. StreamsOK'
  <2> SUFFICES ASSUME NEW c \in Objects
               PROVE  /\ ~stream'[c].made => ~stream'[c].closed /\ \A b \in Binds : bind'[b].result # c
                      /\ stream'[c].closes = IF stream'[c].closed THEN 1 ELSE 0
                      /\ stream'[c].closed /\ ~stream'[c].ended
                         => \A b \in Binds : bind'[b].result = c => bind'[b].refs = 0
                      /\ stream'[c].made /\ heap'.preserved[c] = 0 => stream'[c].closed
    BY DEF StreamsOK
  <2>1. stream'[c] = stream[c] /\ \A b \in Binds : bind'[b].result = c => bind'[b] = bind[b]
    BY <1>1, <1>4, <1>6
  <2>2. heap'.preserved[c] = heap.preserved[c] \/ stream'[c].closed
    BY <1>1, <1>3, <1>13, HeldNat
  <2> QED BY <2>1, <2>2 DEF TablesInv, StreamsOK
<1>16. RowsOK'
  <2>1. ASSUME NEW s \in Scans, scan[s].state \in InUse
        PROVE  Exact(s)' = Exact(s)
    BY <1>1, <1>6, <1>10, <2>1 DEF Exact, StreamOf
  <2> QED BY <1>1, <2>1 DEF TablesInv, RowsOK, InUse
<1>17. ASSUME NEW c \in Objects
       PROVE  HoldsOn(heap', c) = (IF Owned(c)' THEN 1 ELSE 0) + Cardinality(Detained(stack', c))
  <2>1. PICK k \in Nat : k = Cardinality(Detained(stack, c))
    BY HeldNat
  <2>2. HoldsOn(heap, c) = (IF Owned(c) THEN 1 ELSE 0) + k
    BY <2>1 DEF TablesInv, HoldsOK
  <2>3. Cardinality(Detained(stack', c)) = k
    BY <1>12, <2>1
  <2>4. CASE c = o
    <3>1. Owned(o)
      BY <1>3 DEF Owned
    <3>2. HoldsOn(heap', c) = (1 + k) - 1
      BY <1>13, <2>2, <2>4, <3>1
    <3> QED BY <1>8, <2>3, <2>4, <3>2
  <2>5. CASE c # o
    <3>1. HoldsOn(heap', c) = ((IF Owned(c) THEN 1 ELSE 0) + k) - 0
      BY <1>13, <2>2, <2>5
    <3> QED BY <1>8, <2>3, <2>5, <3>1
  <2> QED BY <2>4, <2>5
<1>18. HoldsOK' /\ QueueOK'
  BY <1>9, <1>13, <1>17, QueueKept DEF TablesInv, HoldsOK
<1>19. Typed'
  BY <1>1, <1>6, <1>12, <1>13 DEF TablesInv, Typed
<1> QED BY <1>12, <1>14, <1>15, <1>16, <1>18, <1>19 DEF TablesInv

(* DuckDB opens a scan of a bind it holds. *)
LEMMA OpenScanStep ==
  ASSUME TablesInv, NEW q \in Scans, NEW a \in Binds, OpenScan(q, a)
  PROVE  TablesInv'
<1>1. /\ scan[q].state = "new" /\ a \in dataHeld /\ UNCHANGED <<heap, stream, dataHeld, stack>>
      /\ \A s \in Scans : scan[s].bind = a => scan[s].state = "gone"
      /\ scan' = [scan EXCEPT ![q].bind = a, ![q].state = "open"]
      /\ bind' = [bind EXCEPT ![a].refs = @ + 1]
  BY DEF OpenScan
<1>2. \A s \in Scans : ~Using(s, a)
  BY <1>1 DEF Using, InUse
<1>3. bind[a].refs = 1 /\ bind[a].result \in Objects
  <2>1. bind[a].refs = 1 + 0
    BY <1>1, <1>2 DEF TablesInv, BindsOK
  <2> QED BY <2>1 DEF TablesInv, BindsOK
<1>4. /\ bind' \in [Binds -> BindType] /\ bind'[a].result = bind[a].result /\ bind'[a].refs = 2
      /\ \A b \in Binds \ {a} : bind'[b] = bind[b]
  <2>1. PICK g \in [Binds -> BindType] : g = bind
    BY DEF TablesInv, Typed
  <2>2. PICK v : v = [g[a] EXCEPT !.refs = 2]
    OBVIOUS
  <2>3. v \in BindType /\ v.result = g[a].result /\ v.refs = 2
    BY <2>2 DEF BindType
  <2>4. bind' = [g EXCEPT ![a] = v]
    BY <1>1, <1>3, <2>1, <2>2
  <2> QED BY <2>1, <2>3, <2>4
<1>5. PICK v \in ScanType : /\ scan' = [scan EXCEPT ![q] = v]
                            /\ v.bind = a /\ v.state = "open" /\ v.pos = scan[q].pos
  <2>1. PICK r \in ScanType : r = scan[q]
    BY DEF TablesInv, Typed
  <2>2. PICK v : v = [r EXCEPT !.bind = a, !.state = "open"]
    OBVIOUS
  <2>3. v \in ScanType /\ v.bind = a /\ v.state = "open" /\ v.pos = r.pos
    BY <2>2 DEF ScanType, InUse
  <2> QED BY <1>1, <2>1, <2>2, <2>3
<1>6. scan' \in [Scans -> ScanType] /\ scan'[q] = v /\ \A s \in Scans \ {q} : scan'[s] = scan[s]
  BY <1>5, ScanUpdate DEF TablesInv
<1>7. \A c \in Objects : Owned(c)' <=> Owned(c)
  BY <1>4 DEF Owned
<1>8. Progress
  BY <1>1, <1>7 DEF Progress
<1>9. ASSUME NEW i \in DOMAIN stack PROVE Kept(stack[i])
  <2>1. FrameOK(stack[i])
    BY StackFrames
  <2>2. CASE stack[i].op \in {"bind", "free"}
    <3>1. stack[i].arg \in Binds \ {a}
      BY <1>3, <2>1, <2>2 DEF FrameOK, FreeBind
    <3> QED BY <1>4, <2>2, <3>1 DEF Kept
  <2>3. CASE stack[i].op = "scan"
    <3>1. stack[i].arg \in Scans \ {q} /\ scan[stack[i].arg].bind \in Binds
      BY <1>1, <2>1, <2>3, ScansStream DEF FrameOK, InUse, TablesInv
    <3> QED BY <1>4, <1>6, <2>3, <3>1 DEF Kept
  <2> QED BY <2>2, <2>3 DEF Kept
<1>10. ShapeOK(stack, Good)'
  <2>1. PICK p \in Seq(Frames) : p = stack
    BY DEF TablesInv, Typed
  <2>2. ShapeOK(p, Good')
    BY <1>8, <1>9, <2>1, ShapeKept DEF TablesInv
  <2> QED BY <1>1, <2>1, <2>2
<1>11. \A s \in Scans, b \in Binds : Using(s, b)' <=> Using(s, b) \/ (s = q /\ b = a)
  <2>1. \A b \in Binds : ~Using(q, b)
    BY <1>1 DEF Using, InUse
  <2> QED BY <1>5, <1>6, <2>1 DEF Using, InUse
<1>12. BindsOK'
  <2>1. ASSUME NEW b \in Binds
        PROVE  /\ bind'[b].refs = (IF b \in dataHeld' THEN 1 ELSE 0) + (IF \E s \in Scans : Using(s, b)' THEN 1 ELSE 0)
               /\ bind'[b].refs > 0 => bind'[b].result \in Objects
               /\ \A s, x \in Scans : Using(s, b)' /\ Using(x, b)' => s = x
    <3>1. CASE b = a
      <4>1. a \in dataHeld' /\ \E s \in Scans : Using(s, a)'
        BY <1>1, <1>11
      <4>2. \A s, x \in Scans : Using(s, a)' /\ Using(x, a)' => s = x
        BY <1>2, <1>11
      <4> QED BY <1>3, <1>4, <3>1, <4>1, <4>2
    <3>2. CASE b # a
      <4>1. \A s \in Scans : Using(s, b)' <=> Using(s, b)
        BY <1>11, <3>2
      <4> QED BY <1>1, <1>4, <3>2, <4>1 DEF TablesInv, BindsOK
    <3> QED BY <3>1, <3>2
  <2>2. \A s \in Scans : scan'[s].state \in InUse => scan'[s].bind \in Binds
    BY <1>5, <1>6 DEF TablesInv, BindsOK
  <2>3. \A b, c \in Binds : bind'[b].result = bind'[c].result /\ bind'[b].result # NoObject => b = c
    BY <1>4 DEF TablesInv, BindsOK
  <2> QED BY <2>1, <2>2, <2>3 DEF BindsOK
<1>13. StreamsOK'
  <2>1. \A b \in Binds : bind'[b].result = bind[b].result
    BY <1>4
  <2>2. \A b \in Binds \ {a} : bind'[b].refs = bind[b].refs
    BY <1>4
  <2>3. \A c \in Objects : stream[c].closed /\ ~stream[c].ended => bind[a].result # c
    BY <1>3 DEF TablesInv, StreamsOK
  <2> QED BY <1>1, <2>1, <2>2, <2>3 DEF TablesInv, StreamsOK
<1>14. RowsOK'
  <2> SUFFICES ASSUME NEW s \in Scans
               PROVE  /\ scan'[s].state = "new" => scan'[s].pos = 0
                      /\ scan'[s].state \in {"open", "complete"} /\ Exact(s)' # Unknown
                         => scan'[s].pos <= Exact(s)' /\ (scan'[s].state = "complete" => scan'[s].pos = Exact(s)')
    BY DEF RowsOK
  <2>1. CASE s = q
    <3>1. scan[q].pos = 0
      BY <1>1 DEF TablesInv, RowsOK
    <3>2. StreamOf(q)' \in Objects
      BY <1>3, <1>4, <1>5, <1>6 DEF StreamOf
    <3>3. stream[StreamOf(q)'] \in StreamType
      BY <3>2 DEF TablesInv, Typed
    <3>4. Exact(q)' \in Nat \cup {Unknown}
      BY <1>1, <3>3 DEF Exact, StreamType
    <3> QED BY <1>5, <1>6, <2>1, <3>1, <3>4
  <2>2. CASE s # q
    <3>1. scan'[s] = scan[s]
      BY <1>6, <2>2
    <3>2. scan[s].state \in InUse => Exact(s)' = Exact(s)
      <4>1. scan[s].state \in InUse => scan[s].bind \in Binds
        BY DEF TablesInv, BindsOK
      <4> QED BY <1>1, <1>4, <3>1, <4>1 DEF Exact, StreamOf
    <3> QED BY <3>1, <3>2 DEF TablesInv, RowsOK, InUse
  <2> QED BY <2>1, <2>2
<1>15. HoldsOK' /\ QueueOK'
  BY <1>1, <1>7, <1>8, QueueKept DEF TablesInv, HoldsOK
<1>16. Typed'
  BY <1>1, <1>4, <1>6 DEF TablesInv, Typed
<1> QED BY <1>10, <1>12, <1>13, <1>14, <1>15, <1>16 DEF TablesInv

(* A reference goes: with others left, as the last on the R thread, which then
   closes and releases the stream, or as the last elsewhere, which leaves it to
   a drain. *)
LEMMA UnreferenceMoves ==
  ASSUME TablesInv, NEW t \in Threads, NEW a \in Binds, Unreference(t, a), bind[a].refs > 0
  PROVE  \E o \in Objects :
           /\ o = bind[a].result /\ bind' \in [Binds -> BindType]
           /\ bind'[a].refs = bind[a].refs - 1
           /\ \A b \in Binds \ {a} : bind'[b] = bind[b]
           /\ \/ bind'[a].result = o /\ bind[a].refs > 1 /\ heap' = heap /\ stack' = stack
              \/ /\ bind'[a].result = o /\ bind[a].refs = 1 /\ heap' = heap
                 /\ stack' = Append(stack, Frame("free", a, <<>>, "close"))
              \/ /\ bind'[a] = FreeBind /\ bind[a].refs = 1 /\ stack' = stack
                 /\ heap' \in Enqueued(heap, o, TRUE)
<1>1. PICK g \in [Binds -> BindType] : g = bind
  BY DEF TablesInv, Typed
<1>2. PICK o \in Objects : o = bind[a].result
  BY DEF TablesInv, BindsOK
<1>3. PICK r \in BindType : r = g[a]
  OBVIOUS
<1>4. r = [result |-> o, refs |-> r.refs] /\ r.refs \in Nat /\ r.refs > 0
  BY <1>1, <1>2, <1>3 DEF BindType
<1>5. PICK v : v = IF r.refs > 1 \/ t = RThread THEN [r EXCEPT !.refs = @ - 1] ELSE FreeBind
  OBVIOUS
<1>6. bind' = [g EXCEPT ![a] = v]
  BY <1>1, <1>3, <1>5 DEF Unreference
<1>7. ASSUME v \in BindType
      PROVE  bind' \in [Binds -> BindType] /\ bind'[a] = v /\ \A b \in Binds \ {a} : bind'[b] = bind[b]
  BY <1>1, <1>6, <1>7
<1>8. bind[a].refs = r.refs
  BY <1>1, <1>3
<1>9. CASE r.refs > 1
  <2>1. v = [result |-> o, refs |-> r.refs - 1] /\ r.refs - 1 \in Nat
    BY <1>4, <1>5, <1>9
  <2>2. v \in BindType /\ v.result = o /\ v.refs = r.refs - 1
    BY <2>1 DEF BindType
  <2>3. heap' = heap /\ stack' = stack
    BY <1>8, <1>9 DEF Unreference
  <2> QED BY <1>2, <1>7, <1>8, <1>9, <2>2, <2>3
<1>10. CASE r.refs = 1 /\ t = RThread
  <2>1. v = [result |-> o, refs |-> 0]
    BY <1>4, <1>5, <1>10
  <2>2. v \in BindType /\ v.result = o /\ v.refs = 0
    BY <2>1 DEF BindType
  <2>3. heap' = heap /\ stack' = Append(stack, Frame("free", a, <<>>, "close"))
    BY <1>8, <1>10 DEF Unreference
  <2>4. bind'[a].result = o /\ bind'[a].refs = bind[a].refs - 1 /\ bind[a].refs = 1
    BY <1>7, <1>8, <1>10, <2>2
  <2> QED BY <1>2, <1>7, <2>2, <2>3, <2>4
<1>11. CASE r.refs = 1 /\ t # RThread
  <2>1. v = FreeBind
    BY <1>5, <1>11
  <2>2. v \in BindType /\ v.refs = 0
    BY <2>1 DEF BindType, FreeBind
  <2>3. heap' \in Enqueued(heap, o, TRUE) /\ stack' = stack
    <3>1. ~(bind[a].refs > 1)
      BY <1>8, <1>11
    <3> QED BY <1>2, <1>11, <3>1 DEF Unreference
  <2>4. bind'[a] = FreeBind /\ bind'[a].refs = bind[a].refs - 1 /\ bind[a].refs = 1
    BY <1>7, <1>8, <1>11, <2>1, <2>2
  <2> QED BY <1>2, <1>7, <2>2, <2>3, <2>4
<1>12. r.refs > 1 \/ r.refs = 1
  BY <1>4
<1> QED BY <1>9, <1>10, <1>11, <1>12

(* What DuckDB gives up with the reference: the bind data, or one scan. *)
LEMMA UnreferenceStep ==
  ASSUME TablesInv, NEW t \in Threads, NEW a \in Binds, Unreference(t, a), stream' = stream,
         dataHeld' \subseteq dataHeld, scan' \in [Scans -> ScanType],
         \A s \in Scans : /\ scan'[s].bind = scan[s].bind /\ scan'[s].pos = scan[s].pos
                          /\ scan'[s].state \in {scan[s].state, "gone"},
         \A i \in DOMAIN stack : stack[i].op = "scan" => scan'[stack[i].arg].state = scan[stack[i].arg].state,
         \A b \in Binds \ {a} : /\ b \in dataHeld' <=> b \in dataHeld
                                /\ \A s \in Scans : Using(s, b)' <=> Using(s, b),
         \/ a \in dataHeld /\ a \notin dataHeld' /\ \A s \in Scans : Using(s, a)' <=> Using(s, a)
         \/ /\ a \in dataHeld' <=> a \in dataHeld
            /\ \E s \in Scans : Using(s, a)
            /\ \A s \in Scans : ~Using(s, a)'
  PROVE  TablesInv'
<1>1. bind[a].refs = (IF a \in dataHeld THEN 1 ELSE 0) + (IF \E s \in Scans : Using(s, a) THEN 1 ELSE 0)
      /\ bind[a].refs \in Nat
  BY DEF TablesInv, BindsOK, Typed, BindType
<1>2. bind[a].refs > 0
      /\ bind[a].refs - 1 = (IF a \in dataHeld' THEN 1 ELSE 0) + (IF \E s \in Scans : Using(s, a)' THEN 1 ELSE 0)
  BY <1>1
<1>3. PICK o \in Objects :
           /\ o = bind[a].result /\ bind' \in [Binds -> BindType]
           /\ bind'[a].refs = bind[a].refs - 1
           /\ \A b \in Binds \ {a} : bind'[b] = bind[b]
           /\ \/ bind'[a].result = o /\ bind[a].refs > 1 /\ heap' = heap /\ stack' = stack
              \/ /\ bind'[a].result = o /\ bind[a].refs = 1 /\ heap' = heap
                 /\ stack' = Append(stack, Frame("free", a, <<>>, "close"))
              \/ /\ bind'[a] = FreeBind /\ bind[a].refs = 1 /\ stack' = stack
                 /\ heap' \in Enqueued(heap, o, TRUE)
  BY <1>2, UnreferenceMoves
<1>4. NoObject \notin Objects /\ NoObject # o
  BY TableAssumption DEF TableAssumption
<1>5. /\ bind'[a].result \in {o, NoObject}
      /\ bind'[a].result = NoObject => bind'[a].refs = 0 /\ \A s \in Scans : ~Using(s, a)'
  <2>1. CASE bind'[a].result = o
    BY <1>4, <2>1
  <2>2. CASE bind'[a] = FreeBind /\ bind[a].refs = 1
    <3>1. bind'[a].result = NoObject /\ bind'[a].refs = 0
      BY <2>2 DEF FreeBind
    <3>2. ~\E s \in Scans : Using(s, a)'
      BY <1>2, <1>3, <2>2, <3>1
    <3> QED BY <3>1, <3>2
  <2> QED BY <1>3, <2>1, <2>2
<1>6. \A b \in Binds : bind'[b].result \in {bind[b].result, NoObject}
  BY <1>3, <1>5
<1>7. \A c \in Objects : Owned(c)' => Owned(c)
  BY <1>4, <1>6 DEF Owned
<1>8. Progress
  BY <1>7 DEF Progress
<1>9. \A s \in Scans : scan'[s].state \in InUse => scan'[s].state = scan[s].state
  BY DEF InUse
<1>10. ASSUME NEW s \in Scans, scan'[s].state \in InUse
       PROVE  /\ scan[s].bind \in Binds /\ bind'[scan[s].bind].result = bind[scan[s].bind].result
              /\ StreamOf(s)' = StreamOf(s)
  <2>1. scan[s].bind \in Binds
    BY <1>9, <1>10 DEF TablesInv, BindsOK
  <2>2. bind'[scan[s].bind].result = bind[scan[s].bind].result
    <3>1. CASE scan[s].bind = a
      <4>1. Using(s, a)'
        BY <1>10, <3>1 DEF Using
      <4> QED BY <1>3, <1>5, <3>1, <4>1
    <3>2. CASE scan[s].bind # a
      BY <1>3, <2>1, <3>2
    <3> QED BY <3>1, <3>2
  <2> QED BY <2>1, <2>2 DEF StreamOf
<1>11. BindsOK'
  <2>1. ASSUME NEW b \in Binds
        PROVE  /\ bind'[b].refs = (IF b \in dataHeld' THEN 1 ELSE 0) + (IF \E s \in Scans : Using(s, b)' THEN 1 ELSE 0)
               /\ bind'[b].refs > 0 => bind'[b].result \in Objects
               /\ \A s, x \in Scans : Using(s, b)' /\ Using(x, b)' => s = x
    <3>1. CASE b = a
      <4>1. \A s, x \in Scans : Using(s, a)' /\ Using(x, a)' => Using(s, a) /\ Using(x, a)
        OBVIOUS
      <4> QED BY <1>2, <1>3, <1>5, <3>1, <4>1 DEF TablesInv, BindsOK
    <3>2. CASE b # a
      BY <1>3, <3>2 DEF TablesInv, BindsOK
    <3> QED BY <3>1, <3>2
  <2>2. \A s \in Scans : scan'[s].state \in InUse => scan'[s].bind \in Binds
    BY <1>9 DEF TablesInv, BindsOK
  <2>3. \A b, c \in Binds : bind'[b].result = bind'[c].result /\ bind'[b].result # NoObject => b = c
    BY <1>6 DEF TablesInv, BindsOK
  <2> QED BY <2>1, <2>2, <2>3 DEF BindsOK
<1>12. /\ HeapType(heap') /\ heap'.queue \in {heap.queue, Append(heap.queue, Node(o, TRUE))}
       /\ \A c \in Objects : heap'.preserved[c] = heap.preserved[c]
       /\ bind'[a].result = o =>
            heap' = heap /\ \A c \in Objects : HoldsOn(heap', c) = HoldsOn(heap, c)
       /\ bind'[a].result # o =>
            \A c \in Objects : HoldsOn(heap', c) = HoldsOn(heap, c) - IF c = o THEN 1 ELSE 0
  <2>1. PICK h : h = heap
    OBVIOUS
  <2>2. HeapType(h)
    BY <2>1 DEF TablesInv, Typed
  <2>3. CASE bind'[a].result = o /\ heap' = heap
    BY <2>1, <2>2, <2>3
  <2>4. CASE bind'[a] = FreeBind /\ heap' \in Enqueued(heap, o, TRUE)
    <3>1. bind'[a].result # o
      BY <1>4, <2>4 DEF FreeBind
    <3>2. heap' \in Enqueued(h, o, TRUE)
      BY <2>1, <2>4
    <3>3. PICK c \in BOOLEAN : c = TRUE
      OBVIOUS
    <3>4. PICK g : g = heap'
      OBVIOUS
    <3>5. g \in Enqueued(h, o, c)
      BY <3>2, <3>3, <3>4
    <3>6. /\ HeapType(g) /\ g.queue \in {h.queue, Append(h.queue, Node(o, c))}
          /\ \A x \in Objects : /\ g.preserved[x] = h.preserved[x]
                                /\ HoldsOn(g, x) = HoldsOn(h, x) - IF x = o THEN 1 ELSE 0
      BY <2>2, <3>5, EnqueuedHolds
    <3> QED BY <2>1, <3>1, <3>3, <3>4, <3>6
  <2> QED BY <1>3, <2>3, <2>4
<1>13. StreamsOK'
  <2> SUFFICES ASSUME NEW c \in Objects
               PROVE  /\ ~stream[c].made => ~stream[c].closed /\ \A b \in Binds : bind'[b].result # c
                      /\ stream[c].closes = IF stream[c].closed THEN 1 ELSE 0
                      /\ stream[c].closed /\ ~stream[c].ended
                         => \A b \in Binds : bind'[b].result = c => bind'[b].refs = 0
                      /\ stream[c].made /\ heap'.preserved[c] = 0 => stream[c].closed
    BY DEF StreamsOK
  <2>1. /\ ~stream[c].made => ~stream[c].closed /\ \A b \in Binds : bind[b].result # c
        /\ stream[c].closes = IF stream[c].closed THEN 1 ELSE 0
        /\ stream[c].closed /\ ~stream[c].ended => \A b \in Binds : bind[b].result = c => bind[b].refs = 0
        /\ stream[c].made /\ heap.preserved[c] = 0 => stream[c].closed
    BY DEF TablesInv, StreamsOK
  <2>2. \A b \in Binds : bind'[b].result = c => bind[b].result = c
    BY <1>4, <1>6
  <2>3. \A b \in Binds : bind[b].refs = 0 => bind'[b].refs = 0
    BY <1>2, <1>3
  <2> QED BY <1>12, <2>1, <2>2, <2>3
<1>14. RowsOK'
  <2> SUFFICES ASSUME NEW s \in Scans
               PROVE  /\ scan'[s].state = "new" => scan'[s].pos = 0
                      /\ scan'[s].state \in {"open", "complete"} /\ Exact(s)' # Unknown
                         => scan'[s].pos <= Exact(s)' /\ (scan'[s].state = "complete" => scan'[s].pos = Exact(s)')
    BY DEF RowsOK
  <2>1. scan'[s].state = "new" => scan'[s].pos = 0
    BY DEF TablesInv, RowsOK
  <2>2. ASSUME scan'[s].state \in {"open", "complete"}, Exact(s)' # Unknown
        PROVE  scan'[s].pos <= Exact(s)' /\ (scan'[s].state = "complete" => scan'[s].pos = Exact(s)')
    <3>1. Exact(s)' = Exact(s) /\ scan'[s].state = scan[s].state
      BY <1>9, <1>10, <2>2 DEF Exact, InUse
    <3> QED BY <2>2, <3>1 DEF TablesInv, RowsOK
  <2> QED BY <2>1, <2>2
<1>15. ASSUME NEW i \in DOMAIN stack PROVE Kept(stack[i])
  <2>1. FrameOK(stack[i])
    BY StackFrames
  <2>2. CASE stack[i].op \in {"bind", "free"}
    <3>1. stack[i].arg \in Binds \ {a}
      BY <1>2, <2>1, <2>2 DEF FrameOK, FreeBind
    <3> QED BY <1>3, <2>2, <3>1 DEF Kept
  <2>3. CASE stack[i].op = "scan"
    <3>1. stack[i].arg \in Scans /\ scan'[stack[i].arg].state \in InUse
      BY <2>1, <2>3 DEF FrameOK, InUse
    <3> QED BY <1>10, <2>3, <3>1 DEF Kept
  <2> QED BY <2>2, <2>3 DEF Kept
<1>16. /\ stack' \in Seq(Frames) /\ ShapeOK(stack, Good)'
       /\ \A c \in Objects : Cardinality(Detained(stack', c)) = Cardinality(Detained(stack, c))
  <2>1. CASE stack' = stack
    <3>1. PICK p \in Seq(Frames) : p = stack
      BY DEF TablesInv, Typed
    <3>2. ShapeOK(p, Good')
      BY <1>8, <1>15, <3>1, ShapeKept DEF TablesInv
    <3> QED BY <2>1, <3>1, <3>2
  <2>2. CASE /\ bind'[a].result = o /\ bind[a].refs = 1
             /\ stack' = Append(stack, Frame("free", a, <<>>, "close"))
    <3>1. PICK f : f = Frame("free", a, <<>>, "close")
      OBVIOUS
    <3>2. f \in Frames /\ f.op = "free" /\ f.arg = a /\ f.nodes = <<>> /\ f.at = "close"
      BY <3>1 DEF Frame, Frames, Operations, Places
    <3>3. FrameOK(f)'
      BY <1>3, <2>2, <3>2 DEF FrameOK
    <3>4. f \in Good'
      BY <3>2, <3>3 DEF Good
    <3>5. \A i \in DOMAIN stack : ~SameJob(stack[i], f)
      BY <1>2, <3>2, StackFrames DEF FrameOK, SameJob
    <3>6. /\ stack' \in Seq(Frames) /\ ShapeOK(stack, Good)'
          /\ \A c \in Objects :
               Cardinality(Detained(stack', c)) = Cardinality(Detained(stack, c)) + CountOf(f.nodes, c)
      BY <1>8, <1>15, <2>2, <3>1, <3>2, <3>4, <3>5, Pushes
    <3>7. ASSUME NEW c \in Objects
          PROVE  Cardinality(Detained(stack', c)) = Cardinality(Detained(stack, c))
      <4>1. Cardinality(Detained(stack', c)) = Cardinality(Detained(stack, c)) + 0
        BY <3>2, <3>6, CountEmpty
      <4> QED BY <4>1, HeldNat
    <3> QED BY <3>6, <3>7
  <2> QED BY <1>3, <2>1, <2>2
<1>17. \A b \in Binds : bind[b].result = o => b = a
  BY <1>3, <1>4 DEF TablesInv, BindsOK
<1>18. ASSUME NEW c \in Objects
       PROVE  HoldsOn(heap', c) = (IF Owned(c)' THEN 1 ELSE 0) + Cardinality(Detained(stack', c))
  <2>1. PICK k \in Nat : k = Cardinality(Detained(stack, c))
    BY HeldNat
  <2>2. HoldsOn(heap, c) = (IF Owned(c) THEN 1 ELSE 0) + k
    BY <2>1 DEF TablesInv, HoldsOK
  <2>3. Cardinality(Detained(stack', c)) = k
    BY <1>16, <2>1
  <2>4. CASE bind'[a].result = o
    <3>1. Owned(c)' <=> Owned(c)
      BY <1>3, <2>4 DEF Owned
    <3> QED BY <1>12, <2>2, <2>3, <2>4, <3>1
  <2>5. CASE bind'[a].result # o /\ c = o
    <3>1. Owned(c) /\ ~Owned(c)'
      BY <1>3, <1>17, <2>5 DEF Owned
    <3>2. HoldsOn(heap', c) = (1 + k) - 1
      BY <1>12, <2>2, <2>5, <3>1
    <3> QED BY <2>3, <3>1, <3>2
  <2>6. CASE bind'[a].result # o /\ c # o
    <3>1. Owned(c)' <=> Owned(c)
      BY <1>3, <1>4, <1>5, <2>6 DEF Owned
    <3>2. HoldsOn(heap', c) = ((IF Owned(c) THEN 1 ELSE 0) + k) - 0
      BY <1>12, <2>2, <2>6
    <3> QED BY <2>3, <3>1, <3>2
  <2> QED BY <2>4, <2>5, <2>6
<1>19. QueueOK'
  <2>1. CASE heap'.queue = heap.queue
    BY <1>8, <2>1, QueueKept DEF TablesInv
  <2>2. CASE heap'.queue = Append(heap.queue, Node(o, TRUE)) /\ bind'[a].result # o
    <3>1. PICK q \in Seq(Nodes) : q = heap.queue
      BY DEF TablesInv, Typed, HeapType
    <3>2. PICK n \in Nodes : n = Node(o, TRUE) /\ n.object = o /\ n.close
      <4>1. PICK c \in BOOLEAN : c = TRUE
        OBVIOUS
      <4>2. [object |-> o, close |-> c] \in Nodes
        BY DEF Nodes
      <4> QED BY <4>1, <4>2 DEF Node
    <3>3. NodeOK(n)'
      <4>1. stream[o].made
        BY <1>3 DEF TablesInv, StreamsOK
      <4>2. \A b \in Binds : bind'[b].result # o
        BY <1>3, <1>17, <2>2
      <4> QED BY <3>2, <4>1, <4>2 DEF NodeOK
    <3>4. \A j \in DOMAIN q : NodeOK(q[j])'
      <4>1. \A j \in DOMAIN q : q[j] \in Nodes /\ NodeOK(q[j])
        BY <3>1 DEF TablesInv, QueueOK
      <4> QED BY <1>8, <4>1, NodeKept
    <3>5. \A j \in DOMAIN Append(q, n) : Append(q, n)[j] = n \/ \E i \in DOMAIN q : Append(q, n)[j] = q[i]
      OBVIOUS
    <3>6. \A j \in DOMAIN Append(q, n) : NodeOK(Append(q, n)[j])'
      BY <3>3, <3>4, <3>5
    <3> QED BY <2>2, <3>1, <3>2, <3>6 DEF QueueOK
  <2> QED BY <1>12, <2>1, <2>2
<1>20. Typed'
  BY <1>3, <1>12, <1>16 DEF TablesInv, Typed
<1> QED BY <1>11, <1>13, <1>14, <1>16, <1>18, <1>19, <1>20 DEF TablesInv, HoldsOK

(* DuckDB drops its bind data, *)
LEMMA DestroyBindDataStep ==
  ASSUME TablesInv, NEW t \in Threads, NEW a \in Binds, DestroyBindData(t, a)
  PROVE  TablesInv'
<1>1. a \in dataHeld /\ dataHeld' = dataHeld \ {a} /\ Unreference(t, a) /\ UNCHANGED <<stream, scan>>
  BY DEF DestroyBindData
<1>2. \A s \in Scans, b \in Binds : Using(s, b)' <=> Using(s, b)
  BY <1>1 DEF Using
<1> QED BY <1>1, <1>2, UnreferenceStep DEF TablesInv, Typed

(* or a scan that does not run. *)
LEMMA DestroyScanStep ==
  ASSUME TablesInv, NEW t \in Threads, NEW q \in Scans, DestroyScan(t, q)
  PROVE  TablesInv'
<1>1. /\ scan[q].state \in InUse /\ \A i \in DOMAIN stack : stack[i].arg # q
      /\ scan' = [scan EXCEPT ![q].state = "gone"] /\ Unreference(t, scan[q].bind)
      /\ UNCHANGED <<stream, dataHeld>>
  BY DEF DestroyScan, InUse
<1>2. PICK a \in Binds : a = scan[q].bind
  BY <1>1, ScansStream DEF TablesInv
<1>3. PICK v \in ScanType : scan' = [scan EXCEPT ![q] = v] /\ v.bind = a /\ v.state = "gone" /\ v.pos = scan[q].pos
  <2>1. PICK r \in ScanType : r = scan[q]
    BY DEF TablesInv, Typed
  <2>2. PICK v : v = [r EXCEPT !.state = "gone"]
    OBVIOUS
  <2>3. v \in ScanType /\ v.bind = r.bind /\ v.state = "gone" /\ v.pos = r.pos
    BY <2>2 DEF ScanType
  <2> QED BY <1>1, <1>2, <2>1, <2>2, <2>3
<1>4. scan' \in [Scans -> ScanType] /\ scan'[q] = v /\ \A s \in Scans \ {q} : scan'[s] = scan[s]
  BY <1>3, ScanUpdate DEF TablesInv
<1>5. \A s \in Scans, b \in Binds : Using(s, b)' <=> Using(s, b) /\ s # q
  BY <1>3, <1>4 DEF Using, InUse
<1>6. Using(q, a) /\ \A s \in Scans : Using(s, a) => s = q
  <2>1. Using(q, a)
    BY <1>1, <1>2 DEF Using
  <2> QED BY <2>1 DEF TablesInv, BindsOK
<1>7. \A b \in Binds \ {a} : ~Using(q, b)
  BY <1>2 DEF Using
<1>8. \A i \in DOMAIN stack : stack[i].op = "scan" => scan'[stack[i].arg].state = scan[stack[i].arg].state
  <2>1. \A i \in DOMAIN stack : stack[i].op = "scan" => stack[i].arg \in Scans \ {q}
    BY <1>1, StackFrames DEF FrameOK
  <2> QED BY <1>4, <2>1
<1>9. Unreference(t, a)
  BY <1>1, <1>2 DEF Unreference
<1>10. \A s \in Scans : /\ scan'[s].bind = scan[s].bind /\ scan'[s].pos = scan[s].pos
                        /\ scan'[s].state \in {scan[s].state, "gone"}
  BY <1>2, <1>3, <1>4
<1>11. \A s \in Scans : ~Using(s, a)'
  BY <1>5, <1>6
<1>12. \A b \in Binds \ {a}, s \in Scans : Using(s, b)' <=> Using(s, b)
  BY <1>5, <1>7
<1> QED BY <1>1, <1>4, <1>6, <1>8, <1>9, <1>10, <1>11, <1>12, UnreferenceStep DEF TablesInv, Typed

(*------------------------------- the theorems ----------------------------*)

LEMMA InitStep ==
  ASSUME Init PROVE TablesInv
<1>1. /\ heap = EmptyHeap /\ stream = [o \in Objects |-> NewStream] /\ bind = [b \in Binds |-> FreeBind]
      /\ dataHeld = {} /\ scan = [s \in Scans |-> NewScan] /\ stack = <<>>
  BY DEF Init
<1>2. HeapType(heap) /\ heap.queue = <<>> /\ \A o \in Objects : heap.preserved[o] = 0 /\ heap.lost[o] = 0
  <2>1. PICK z : z = [o \in Objects |-> 0]
    OBVIOUS
  <2>2. heap = [preserved |-> z, queue |-> <<>>, lost |-> z]
    BY <1>1, <2>1 DEF EmptyHeap
  <2>3. z \in [Objects -> Int] /\ z \in [Objects -> Nat] /\ \A o \in Objects : z[o] = 0
    BY <2>1
  <2>4. heap.preserved = z /\ heap.queue = <<>> /\ heap.lost = z
    BY <2>2
  <2>5. <<>> \in Seq(Nodes)
    OBVIOUS
  <2> QED BY <2>2, <2>3, <2>4, <2>5 DEF HeapType
<1>3. Typed
  <2>1. NewStream \in StreamType /\ FreeBind \in BindType /\ NewScan \in ScanType
    BY DEF NewStream, StreamType, FreeBind, BindType, NewScan, ScanType
  <2>2. stack \in Seq(Frames)
    BY <1>1
  <2> QED BY <1>1, <1>2, <2>1, <2>2 DEF Typed
<1>4. ShapeOK(stack, Good)
  BY <1>1 DEF ShapeOK
<1>5. \A s \in Scans : scan[s].state = "new" /\ scan[s].pos = 0
  BY <1>1 DEF NewScan
<1>6. \A b \in Binds : bind[b].result = NoObject /\ bind[b].refs = 0
  BY <1>1 DEF FreeBind
<1>7. NoObject \notin Objects
  BY TableAssumption DEF TableAssumption
<1>8. BindsOK
  <2>1. \A s \in Scans, b \in Binds : ~Using(s, b)
    BY <1>5 DEF Using, InUse
  <2>2. \A s \in Scans : scan[s].state \notin InUse
    BY <1>5 DEF InUse
  <2> QED BY <1>1, <1>6, <2>1, <2>2 DEF BindsOK
<1>9. StreamsOK
  <2>1. \A o \in Objects : ~stream[o].made /\ ~stream[o].closed /\ stream[o].closes = 0
    BY <1>1 DEF NewStream
  <2> QED BY <1>6, <1>7, <2>1 DEF StreamsOK
<1>10. RowsOK
  BY <1>5 DEF RowsOK
<1>11. HoldsOK
  <2> SUFFICES ASSUME NEW o \in Objects
               PROVE  HoldsOn(heap, o) = (IF Owned(o) THEN 1 ELSE 0) + Cardinality(Detained(stack, o))
    BY DEF HoldsOK
  <2>1. ~Owned(o)
    BY <1>6, <1>7 DEF Owned
  <2>2. CountOf(heap.queue, o) = 0 /\ Cardinality(Detained(stack, o)) = 0
    BY <1>1, <1>2, CountEmpty, DetainedEmpty
  <2> QED BY <1>2, <2>1, <2>2 DEF HoldsOn, Waiting
<1>12. QueueOK
  BY <1>2 DEF QueueOK
<1> QED BY <1>3, <1>4, <1>8, <1>9, <1>10, <1>11, <1>12 DEF TablesInv

(* An operation on a bind or scan that no frame of the stack is about *)
LEMMA NotOnStack ==
  ASSUME NEW a, a \notin {stack[i].arg : i \in DOMAIN stack}
  PROVE  \A i \in DOMAIN stack : stack[i].arg # a
  OBVIOUS

LEMMA NextStep ==
  ASSUME TablesInv, [Next]_vars
  PROVE  TablesInv'
<1>1. CASE CloseReturns BY <1>1, CloseReturnsStep
<1>2. CASE CloseFails BY <1>2, CloseFailsStep
<1>3. CASE DrainNode BY <1>3, DrainNodeStep
<1>4. CASE DrainEnds BY <1>4, DrainEndsStep
<1>5. CASE Enter("other", NoBind)
  <2>1. PICK op \in {"other", "bind", "scan"} : op = "other"
    OBVIOUS
  <2>2. Enter(op, NoBind)
    BY <1>5, <2>1
  <2> QED BY <2>1, <2>2, EnterStep
<1>6. ASSUME NEW b \in Binds, EnterBind(b) PROVE TablesInv'
  <2>1. PICK op \in {"other", "bind", "scan"} : op = "bind"
    OBVIOUS
  <2>2. Enter(op, b) /\ bind[b] = FreeBind /\ \A i \in DOMAIN stack : stack[i].arg # b
    BY <1>6, <2>1, NotOnStack DEF EnterBind
  <2> QED BY <2>1, <2>2, EnterStep
<1>7. ASSUME NEW o \in Objects, NEW exact \in Declared \cup {Unknown}, BindReturns(o, exact) PROVE TablesInv'
  BY <1>7, BindReturnsStep
<1>8. CASE BindFails BY <1>8, BindFailsStep
<1>9. ASSUME NEW s \in Scans, NEW b \in Binds, OpenScan(s, b) PROVE TablesInv'
  BY <1>9, OpenScanStep
<1>10. ASSUME NEW t \in Threads, NEW b \in Binds, DestroyBindData(t, b) PROVE TablesInv'
  BY <1>10, DestroyBindDataStep
<1>11. ASSUME NEW t \in Threads, NEW s \in Scans, DestroyScan(t, s) PROVE TablesInv'
  BY <1>11, DestroyScanStep
<1>12. CASE FreeCloses BY <1>12, FreeClosesStep
<1>13. CASE FreeReleases BY <1>13, FreeReleasesStep
<1>14. ASSUME NEW s \in Scans, EnterScan(s) PROVE TablesInv'
  <2>1. PICK op \in {"other", "bind", "scan"} : op = "scan"
    OBVIOUS
  <2>2. Enter(op, s) /\ scan[s].state = "open" /\ \A i \in DOMAIN stack : stack[i].arg # s
    BY <1>14, <2>1, NotOnStack DEF EnterScan
  <2> QED BY <2>1, <2>2, EnterStep
<1>15. CASE CallNextBatch BY <1>15, CallNextBatchStep
<1>16. ASSUME NEW rows \in BatchRows, BatchReturns(rows) PROVE TablesInv'
  BY <1>16, BatchReturnsStep
<1>17. CASE EndReturns BY <1>17, EndReturnsStep
<1>18. CASE EndCloses BY <1>18, EndClosesStep
<1>19. CASE EndOfStream BY <1>19, EndOfStreamStep
<1>20. CASE BatchFails BY <1>20, BatchFailsStep
<1>21. CASE Emit BY <1>21, EmitStep
<1>22. CASE Complete BY <1>22, CompleteStep
<1>23. CASE UNCHANGED vars
  <2>1. UNCHANGED <<heap, stream, bind, dataHeld, scan, stack>>
    BY <1>23 DEF vars
  <2>2. (Typed' <=> Typed) /\ (BindsOK' <=> BindsOK) /\ (StreamsOK' <=> StreamsOK)
    BY <2>1 DEF Typed, BindsOK, StreamsOK, Using
  <2>3. (RowsOK' <=> RowsOK) /\ (HoldsOK' <=> HoldsOK) /\ (QueueOK' <=> QueueOK)
    BY <2>1 DEF RowsOK, HoldsOK, QueueOK, NodeOK, Exact, StreamOf, Owned
  <2>4. ShapeOK(stack, Good)'
    <3>1. Progress /\ \A i \in DOMAIN stack : Kept(stack[i])
      BY <2>1 DEF Progress, Owned, Kept
    <3>2. PICK p \in Seq(Frames) : p = stack
      BY DEF TablesInv, Typed
    <3>3. ShapeOK(p, Good')
      BY <3>1, <3>2, ShapeKept DEF TablesInv
    <3> QED BY <2>1, <3>2, <3>3
  <2> QED BY <2>2, <2>3, <2>4 DEF TablesInv
<1> QED BY <1>1, <1>2, <1>3, <1>4, <1>5, <1>6, <1>7, <1>8, <1>9, <1>10, <1>11, <1>12, <1>13, <1>14,
           <1>15, <1>16, <1>17, <1>18, <1>19, <1>20, <1>21, <1>22, <1>23 DEF Next

(* The frames of the R thread, the references and streams of binds, the rows of
   scans and the holds on streams fit together in every reachable state. *)
THEOREM TablesInvariant == Spec => []TablesInv
<1>1. Init => TablesInv
  BY InitStep
<1>2. TablesInv /\ [Next]_vars => TablesInv'
  BY NextStep
<1> QED BY <1>1, <1>2, PTL DEF Spec

LEMMA OwnersOf ==
  ASSUME TablesInv, NEW o \in Objects
  PROVE  Cardinality({b \in Binds : bind[b].result = o}) = IF Owned(o) THEN 1 ELSE 0
<1> DEFINE W == {b \in Binds : bind[b].result = o}
<1>1. NoObject # o
  BY TableAssumption DEF TableAssumption
<1>2. CASE Owned(o)
  <2>1. PICK b \in Binds : bind[b].result = o
    BY <1>2 DEF Owned
  <2>2. W = {b}
    BY <1>1, <2>1 DEF TablesInv, BindsOK
  <2> HIDE DEF W
  <2>3. Cardinality(W) = 1
    BY <2>2, FS_Singleton
  <2> QED BY <1>2, <2>3 DEF W
<1>3. CASE ~Owned(o)
  <2>1. W = {}
    BY <1>3 DEF Owned
  <2> HIDE DEF W
  <2>2. Cardinality(W) = 0
    BY <2>1, FS_EmptySet
  <2> QED BY <1>3, <2>2 DEF W
<1> QED BY <1>2, <1>3

(* The preserve count of a stream is what its bind, the queue and every drain on
   the stack of the R thread account for, however the user's code nests them
   (rducks_preserved_release_drain_on_main). *)
THEOREM StreamsPreservedExactly == Spec => []PreserveExact
<1>1. TablesInv => PreserveExact
  <2> SUFFICES ASSUME TablesInv, NEW o \in Objects
               PROVE  heap.preserved[o] = Cardinality({b \in Binds : bind[b].result = o})
                                          + Waiting(heap, o) + Cardinality(Detained(stack, o))
    BY DEF PreserveExact
  <2>1. PICK c : c = Cardinality({b \in Binds : bind[b].result = o})
    OBVIOUS
  <2>2. c \in Nat /\ HoldsOn(heap, o) = c + Cardinality(Detained(stack, o))
    <3>1. c = IF Owned(o) THEN 1 ELSE 0
      BY <2>1, OwnersOf
    <3>2. HoldsOn(heap, o) = (IF Owned(o) THEN 1 ELSE 0) + Cardinality(Detained(stack, o))
      BY DEF TablesInv, HoldsOK
    <3> QED BY <3>1, <3>2
  <2>3. PICK p \in Int, k \in Nat : p = heap.preserved[o] /\ k = Cardinality(Detained(stack, o))
    BY HeldNat
  <2>4. PICK w \in Nat : w = Waiting(heap, o)
    <3>1. CountOf(heap.queue, o) \in Nat /\ heap.lost[o] \in Nat
      BY CountNat DEF TablesInv, Typed, HeapType
    <3>2. CountOf(heap.queue, o) + heap.lost[o] \in Nat
      BY <3>1
    <3> QED BY <3>2 DEF Waiting
  <2>5. p - w = c + k
    BY <2>2, <2>3, <2>4 DEF HoldsOn
  <2>6. p = c + w + k
    BY <2>2, <2>5
  <2> QED BY <2>1, <2>3, <2>4, <2>6
<1> QED BY <1>1, TablesInvariant, PTL

LEMMA OwnedIsHeld ==
  ASSUME TablesInv, NEW b \in Binds, bind[b].refs > 0
  PROVE  HoldsStream(b)
<1>1. PICK o \in Objects : o = bind[b].result
  BY DEF TablesInv, BindsOK
<1>2. NoObject # o
  BY TableAssumption DEF TableAssumption
<1>3. PICK p \in Int, k \in Nat : p = heap.preserved[o] /\ k = Cardinality(Detained(stack, o))
  BY HeldNat
<1>4. PICK w \in Nat : w = Waiting(heap, o)
  <2>1. CountOf(heap.queue, o) \in Nat /\ heap.lost[o] \in Nat
    BY CountNat DEF TablesInv, Typed, HeapType
  <2>2. CountOf(heap.queue, o) + heap.lost[o] \in Nat
    BY <2>1
  <2> QED BY <2>2 DEF Waiting
<1>5. p - w = 1 + k
  <2>1. Owned(o)
    BY <1>1 DEF Owned
  <2>2. HoldsOn(heap, o) = (IF Owned(o) THEN 1 ELSE 0) + Cardinality(Detained(stack, o))
    BY DEF TablesInv, HoldsOK
  <2> QED BY <1>3, <1>4, <2>1, <2>2 DEF HoldsOn
<1>6. p > 0
  BY <1>5
<1> QED BY <1>1, <1>2, <1>3, <1>6 DEF HoldsStream

(* As long as DuckDB holds the bind data or a scan, whatever thread drops the
   other references, R keeps the stream (rducks_r_table_bind_free). *)
THEOREM StreamsInUseAreHeld == Spec => []InUseIsHeld
<1>1. TablesInv => InUseIsHeld
  <2> SUFFICES ASSUME TablesInv PROVE InUseIsHeld
    OBVIOUS
  <2>1. ASSUME NEW b \in dataHeld PROVE HoldsStream(b)
    <3>1. b \in Binds
      BY DEF TablesInv, Typed
    <3>2. bind[b].refs = 1 + (IF \E s \in Scans : Using(s, b) THEN 1 ELSE 0)
      BY <3>1 DEF TablesInv, BindsOK
    <3>3. bind[b].refs > 0
      BY <3>2
    <3> QED BY <3>1, <3>3, OwnedIsHeld
  <2>2. ASSUME NEW s \in Scans, scan[s].state \in {"open", "failed", "complete"}
        PROVE  HoldsStream(scan[s].bind)
    BY <2>2, ScansStream, OwnedIsHeld DEF InUse, TablesInv
  <2> QED BY <2>1, <2>2 DEF InUseIsHeld
<1> QED BY <1>1, TablesInvariant, PTL

(* The user's close runs once, not under a scan with rows to come, and before R
   may collect the stream (rducks_close_table_stream_on_main). *)
THEOREM StreamsClosedInTime == Spec => []ClosedInTime
<1>1. TablesInv => ClosedInTime
  <2> SUFFICES ASSUME TablesInv, NEW o \in Objects
               PROVE  /\ stream[o].closes <= 1
                      /\ stream[o].closed /\ ~stream[o].ended
                         => \A b \in Binds : bind[b].result = o => bind[b].refs = 0
                      /\ stream[o].made /\ heap.preserved[o] = 0 => stream[o].closed
    BY DEF ClosedInTime
  <2>1. stream[o].closes = IF stream[o].closed THEN 1 ELSE 0
    BY DEF TablesInv, StreamsOK
  <2>2. stream[o].closes <= 1
    BY <2>1
  <2> QED BY <2>2 DEF TablesInv, StreamsOK
<1> QED BY <1>1, TablesInvariant, PTL

(* Whatever the sizes of batches and chunks, a scan emits no more rows than its
   stream announced, and as many when it completes (rducks_r_table_function). *)
THEOREM RowsExactOrError == Spec => []ExactOrError
<1>1. TablesInv => ExactOrError
  BY DEF TablesInv, RowsOK, ExactOrError
<1> QED BY <1>1, TablesInvariant, PTL
=============================================================================
