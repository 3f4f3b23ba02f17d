------------------------- MODULE PreservedReleaseProofs -------------------------
(***************************************************************************)
(* Lemmas about the operators of PreservedRelease, for any objects and     *)
(* threads: what each of them does to the holds on an object.              *)
(***************************************************************************)
EXTENDS PreservedRelease, FiniteSetTheorems, TLAPS

(*--------------------------------- the heap ------------------------------*)

HeapType(h) ==
  /\ h = [preserved |-> h.preserved, queue |-> h.queue, lost |-> h.lost]
  /\ h.preserved \in [Objects -> Int] /\ h.queue \in Seq(Nodes) /\ h.lost \in [Objects -> Nat]

(* the holds on an object that the heap itself does not account for *)
HoldsOn(h, o) == h.preserved[o] - Waiting(h, o)

(* The nodes of an object are finitely many, *)
LEMMA CountNat ==
  ASSUME NEW q \in Seq(Nodes), NEW o
  PROVE  CountOf(q, o) \in Nat
<1>1. IsFiniteSet(1 .. Len(q))
  BY FS_Interval
<1>2. IsFiniteSet({i \in DOMAIN q : q[i].object = o})
  BY <1>1, FS_Subset
<1> QED BY <1>2, FS_CardinalityType DEF CountOf

(* none in an empty queue, *)
LEMMA CountEmpty ==
  ASSUME NEW o PROVE CountOf(<<>>, o) = 0
<1>1. {i \in DOMAIN <<>> : <<>>[i].object = o} = {}
  OBVIOUS
<1> QED BY <1>1, FS_EmptySet DEF CountOf

(* and one more once a node is appended. *)
LEMMA CountAppend ==
  ASSUME NEW q \in Seq(Nodes), NEW o, NEW n \in Nodes
  PROVE  CountOf(Append(q, n), o) = CountOf(q, o) + IF n.object = o THEN 1 ELSE 0
<1> DEFINE A == {i \in DOMAIN q : q[i].object = o}
           B == {i \in DOMAIN Append(q, n) : Append(q, n)[i].object = o}
           k == Len(q) + 1
<1>1. Len(q) \in Nat /\ DOMAIN q = 1 .. Len(q) /\ DOMAIN Append(q, n) = 1 .. k
      /\ Append(q, n)[k] = n /\ \A i \in 1 .. Len(q) : Append(q, n)[i] = q[i]
  OBVIOUS
<1>2. IsFiniteSet(A) /\ k \notin A
  <2>1. IsFiniteSet(1 .. Len(q))
    BY FS_Interval
  <2> QED BY <1>1, <2>1, FS_Subset
<1>3. CASE n.object = o
  <2>1. B = A \cup {k}
    BY <1>1, <1>3
  <2>2. Cardinality(B) = Cardinality(A) + 1
    BY <1>2, <2>1, FS_AddElement
  <2> QED BY <1>3, <2>2 DEF CountOf
<1>4. CASE n.object # o
  <2>1. B = A
    BY <1>1, <1>4
  <2>2. Cardinality(A) \in Nat
    BY <1>2, FS_CardinalityType
  <2>3. CountOf(q, o) = Cardinality(A) /\ CountOf(Append(q, n), o) = Cardinality(B)
    BY DEF CountOf
  <2> HIDE DEF A, B
  <2> QED BY <1>4, <2>1, <2>2, <2>3
<1> QED BY <1>3, <1>4

(* One less once the head is taken off. *)
LEMMA CountTail ==
  ASSUME NEW q \in Seq(Nodes), q # <<>>, NEW o
  PROVE  /\ Tail(q) \in Seq(Nodes)
         /\ CountOf(q, o) = CountOf(Tail(q), o) + IF Head(q).object = o THEN 1 ELSE 0
<1> DEFINE A == {i \in DOMAIN q : q[i].object = o} \ {1}
           B == {i \in DOMAIN Tail(q) : Tail(q)[i].object = o}
           f == [i \in B |-> i + 1]
<1>1. PICK n \in Nat : /\ Len(q) = n + 1 /\ DOMAIN q = 1 .. n + 1
                       /\ Tail(q) \in Seq(Nodes) /\ DOMAIN Tail(q) = 1 .. n
                       /\ \A i \in 1 .. n : Tail(q)[i] = q[i + 1]
                       /\ Head(q) = q[1]
  <2>1. Len(q) \in Nat /\ Len(q) # 0 /\ Tail(q) \in Seq(Nodes) /\ Len(Tail(q)) = Len(q) - 1
        /\ DOMAIN q = 1 .. Len(q) /\ DOMAIN Tail(q) = 1 .. Len(Tail(q)) /\ Head(q) = q[1]
    OBVIOUS
  <2>2. \A i \in 1 .. Len(q) - 1 : Tail(q)[i] = q[i + 1]
    BY <2>1
  <2>3. PICK n \in Nat : Len(q) = n + 1
    <3>1. Len(q) - 1 \in Nat /\ Len(q) = (Len(q) - 1) + 1
      BY <2>1
    <3> QED BY <3>1
  <2>4. Len(q) - 1 = n
    BY <2>3
  <2> QED BY <2>1, <2>2, <2>3, <2>4
<1>2. IsFiniteSet(B) /\ IsFiniteSet(A)
  <2>1. IsFiniteSet(1 .. n) /\ IsFiniteSet(1 .. n + 1)
    BY FS_Interval
  <2>2. B \subseteq 1 .. n /\ A \subseteq 1 .. n + 1
    BY <1>1
  <2> QED BY <2>1, <2>2, FS_Subset
<1>3. Cardinality(A) = Cardinality(B)
  <2>1. \A i \in B : i \in 1 .. n /\ q[i + 1].object = o
    BY <1>1
  <2>2. \A i \in A : i \in 2 .. n + 1 /\ q[i].object = o
    BY <1>1
  <2>3. f \in [B -> A]
    BY <1>1, <2>1
  <2>4. \A i, j \in B : f[i] = f[j] => i = j
    BY <2>1
  <2>5. \A k \in A : \E i \in B : f[i] = k
    <3> TAKE k \in A
    <3>1. k - 1 \in 1 .. n /\ (k - 1) + 1 = k
      BY <2>2
    <3>2. k - 1 \in B
      BY <1>1, <2>2, <3>1
    <3> QED BY <3>1, <3>2
  <2> HIDE DEF A, B, f
  <2>6. f \in Bijection(B, A)
    BY <2>3, <2>4, <2>5 DEF Bijection, Injection, Surjection, IsInjective
  <2>7. ExistsBijection(B, A)
    BY <2>6 DEF ExistsBijection
  <2> QED BY <1>2, <2>7, FS_Bijection
<1>4. CASE Head(q).object = o
  <2>1. {i \in DOMAIN q : q[i].object = o} = A \cup {1} /\ 1 \notin A
    BY <1>1, <1>4
  <2>2. Cardinality(A \cup {1}) = Cardinality(A) + 1
    BY <1>2, <2>1, FS_AddElement
  <2>3. CountOf(q, o) = Cardinality(A \cup {1}) /\ CountOf(Tail(q), o) = Cardinality(B)
    BY <2>1 DEF CountOf
  <2> HIDE DEF A, B, f
  <2> QED BY <1>1, <1>3, <1>4, <2>2, <2>3
<1>5. CASE Head(q).object # o
  <2>1. {i \in DOMAIN q : q[i].object = o} = A
    BY <1>1, <1>5
  <2>2. CountOf(q, o) = Cardinality(A) /\ CountOf(Tail(q), o) = Cardinality(B)
    BY <2>1 DEF CountOf
  <2>3. Cardinality(B) \in Nat
    BY <1>2, FS_CardinalityType
  <2> HIDE DEF A, B, f
  <2> QED BY <1>1, <1>3, <1>5, <2>2, <2>3
<1> QED BY <1>4, <1>5

(* A drain changes no hold: what it releases is what waited. *)
LEMMA DrainKeeps ==
  ASSUME NEW h, HeapType(h)
  PROVE  /\ HeapType(Drained(h))
         /\ \A o \in Objects : HoldsOn(Drained(h), o) = HoldsOn(h, o)
<1> DEFINE p == [o \in Objects |-> h.preserved[o] - CountOf(h.queue, o)]
<1>1. Drained(h) = [preserved |-> p, queue |-> <<>>, lost |-> h.lost]
  <2>1. PICK r, q, l : h = [preserved |-> r, queue |-> q, lost |-> l]
    BY DEF HeapType
  <2>2. Detached(h) = [preserved |-> r, queue |-> <<>>, lost |-> l]
    BY <2>1 DEF Detached
  <2>3. [Detached(h) EXCEPT !.preserved = p] = [preserved |-> p, queue |-> <<>>, lost |-> l]
    BY <2>2
  <2>4. h.lost = l /\ h.preserved = r /\ Detached(h).preserved = r
    BY <2>1, <2>2
  <2>5. Drained(h) = [Detached(h) EXCEPT !.preserved = p]
    BY <2>4 DEF Drained
  <2> QED BY <2>3, <2>4, <2>5
<1>2. \A o \in Objects : CountOf(h.queue, o) \in Nat /\ h.preserved[o] \in Int /\ h.lost[o] \in Nat
  BY CountNat DEF HeapType
<1>3. p \in [Objects -> Int]
  BY <1>2
<1>4. HeapType(Drained(h))
  BY <1>1, <1>3 DEF HeapType
<1>5. ASSUME NEW o \in Objects
      PROVE  HoldsOn(Drained(h), o) = HoldsOn(h, o)
  <2>1. Drained(h).preserved[o] = h.preserved[o] - CountOf(h.queue, o)
        /\ Drained(h).queue = <<>> /\ Drained(h).lost[o] = h.lost[o]
    BY <1>1
  <2> HIDE DEF p
  <2> QED BY <1>2, <2>1, CountEmpty DEF HoldsOn, Waiting
<1> QED BY <1>4, <1>5

(* Detaching the queue adds to the holds what the queue had. *)
LEMMA DetachedHolds ==
  ASSUME NEW h, HeapType(h)
  PROVE  /\ HeapType(Detached(h)) /\ Detached(h).queue = <<>>
         /\ \A o \in Objects : /\ Detached(h).preserved[o] = h.preserved[o]
                               /\ HoldsOn(Detached(h), o) = HoldsOn(h, o) + CountOf(h.queue, o)
<1>1. Detached(h) = [preserved |-> h.preserved, queue |-> <<>>, lost |-> h.lost]
  BY DEF HeapType, Detached
<1>2. HeapType(Detached(h))
  BY <1>1 DEF HeapType
<1>3. ASSUME NEW o \in Objects
      PROVE  HoldsOn(Detached(h), o) = HoldsOn(h, o) + CountOf(h.queue, o)
  <2>1. /\ Detached(h).preserved[o] = h.preserved[o] /\ Detached(h).queue = <<>>
        /\ Detached(h).lost[o] = h.lost[o]
    BY <1>1
  <2>2. CountOf(h.queue, o) \in Nat /\ h.preserved[o] \in Int /\ h.lost[o] \in Nat
    BY CountNat DEF HeapType
  <2> QED BY <2>1, <2>2, CountEmpty DEF HoldsOn, Waiting
<1> QED BY <1>1, <1>2, <1>3

(* Preserving adds a hold on the object, *)
LEMMA PreservedHolds ==
  ASSUME NEW h, HeapType(h), NEW e \in Objects
  PROVE  /\ HeapType(Preserved(h, e)) /\ Preserved(h, e).queue = h.queue
         /\ \A o \in Objects :
              /\ Preserved(h, e).preserved[o] = h.preserved[o] + IF o = e THEN 1 ELSE 0
              /\ HoldsOn(Preserved(h, e), o) = HoldsOn(h, o) + IF o = e THEN 1 ELSE 0
<1>1. Preserved(h, e) = [preserved |-> [h.preserved EXCEPT ![e] = @ + 1], queue |-> h.queue, lost |-> h.lost]
  <2>1. PICK r, q, l : h = [preserved |-> r, queue |-> q, lost |-> l]
    BY DEF HeapType
  <2> QED BY <2>1 DEF Preserved
<1>2. \A o \in Objects : CountOf(h.queue, o) \in Nat /\ h.preserved[o] \in Int /\ h.lost[o] \in Nat
  BY CountNat DEF HeapType
<1>3. [h.preserved EXCEPT ![e] = @ + 1] \in [Objects -> Int]
  BY <1>2 DEF HeapType
<1>4. HeapType(Preserved(h, e))
  BY <1>1, <1>3 DEF HeapType
<1>5. ASSUME NEW o \in Objects
      PROVE  /\ Preserved(h, e).preserved[o] = h.preserved[o] + IF o = e THEN 1 ELSE 0
             /\ HoldsOn(Preserved(h, e), o) = HoldsOn(h, o) + IF o = e THEN 1 ELSE 0
  <2>1. Preserved(h, e).preserved[o] = h.preserved[o] + IF o = e THEN 1 ELSE 0
    BY <1>1, <1>2 DEF HeapType
  <2>2. Preserved(h, e).queue = h.queue /\ Preserved(h, e).lost = h.lost
    BY <1>1
  <2> QED BY <1>2, <2>1, <2>2 DEF HoldsOn, Waiting
<1>6. Preserved(h, e).queue = h.queue
  BY <1>1
<1> QED BY <1>4, <1>5, <1>6

(* and releasing takes one. *)
LEMMA ReleasedHolds ==
  ASSUME NEW h, HeapType(h), NEW e \in Objects
  PROVE  /\ HeapType(ReleasedNow(h, e)) /\ ReleasedNow(h, e).queue = h.queue
         /\ \A o \in Objects :
              /\ ReleasedNow(h, e).preserved[o] = h.preserved[o] - IF o = e THEN 1 ELSE 0
              /\ HoldsOn(ReleasedNow(h, e), o) = HoldsOn(h, o) - IF o = e THEN 1 ELSE 0
<1> DEFINE g == ReleasedNow(h, e)
<1>1. \A o \in Objects : CountOf(h.queue, o) \in Nat /\ h.preserved[o] \in Int /\ h.lost[o] \in Nat
  BY CountNat DEF HeapType
<1>2. g = [preserved |-> [h.preserved EXCEPT ![e] = @ - 1], queue |-> h.queue, lost |-> h.lost]
  <2>1. PICK r, q, l : h = [preserved |-> r, queue |-> q, lost |-> l]
    BY DEF HeapType
  <2> QED BY <2>1 DEF ReleasedNow
<1>3. [h.preserved EXCEPT ![e] = @ - 1] \in [Objects -> Int]
  BY <1>1 DEF HeapType
<1>4. HeapType(g)
  BY <1>2, <1>3 DEF HeapType
<1>5. ASSUME NEW o \in Objects
      PROVE  /\ g.preserved[o] = h.preserved[o] - IF o = e THEN 1 ELSE 0
             /\ HoldsOn(g, o) = HoldsOn(h, o) - IF o = e THEN 1 ELSE 0
  <2>1. g.preserved[o] = h.preserved[o] - IF o = e THEN 1 ELSE 0
    BY <1>2, <1>1 DEF HeapType
  <2>2. g.queue = h.queue /\ g.lost = h.lost
    BY <1>2
  <2> HIDE DEF g
  <2> QED BY <1>1, <2>1, <2>2 DEF HoldsOn, Waiting
<1>6. g.queue = h.queue
  BY <1>2
<1> HIDE DEF g
<1>7. g = ReleasedNow(h, e)
  BY DEF g
<1> QED BY <1>4, <1>5, <1>6, <1>7

(* A release that has to wait takes it as well: it is owed, or lost. *)
LEMMA EnqueuedHolds ==
  ASSUME NEW h, HeapType(h), NEW e \in Objects, NEW c \in BOOLEAN, NEW g \in Enqueued(h, e, c)
  PROVE  /\ HeapType(g) /\ g.queue \in {h.queue, Append(h.queue, Node(e, c))}
         /\ \A o \in Objects : /\ g.preserved[o] = h.preserved[o]
                               /\ HoldsOn(g, o) = HoldsOn(h, o) - IF o = e THEN 1 ELSE 0
<1>1. \A o \in Objects : CountOf(h.queue, o) \in Nat /\ h.preserved[o] \in Int /\ h.lost[o] \in Nat
  BY CountNat DEF HeapType
<1>2. CASE g = [h EXCEPT !.queue = Append(@, Node(e, c))]
  <2>1. Node(e, c) \in Nodes /\ Node(e, c).object = e
    BY DEF Node, Nodes
  <2>2. g = [preserved |-> h.preserved, queue |-> Append(h.queue, Node(e, c)), lost |-> h.lost]
    BY <1>2 DEF HeapType
  <2>3. HeapType(g)
    <3>1. PICK n \in Nodes : n = Node(e, c)
      BY <2>1
    <3>2. Append(h.queue, n) \in Seq(Nodes)
      BY DEF HeapType
    <3> QED BY <2>2, <3>1, <3>2 DEF HeapType
  <2>4. ASSUME NEW o \in Objects
        PROVE  g.preserved[o] = h.preserved[o] /\ HoldsOn(g, o) = HoldsOn(h, o) - IF o = e THEN 1 ELSE 0
    <3>1. CountOf(Append(h.queue, Node(e, c)), o) = CountOf(h.queue, o) + IF e = o THEN 1 ELSE 0
      BY <2>1, CountAppend DEF HeapType
    <3>2. g.queue = Append(h.queue, Node(e, c)) /\ g.lost = h.lost /\ g.preserved = h.preserved
      BY <2>2
    <3>3. CountOf(g.queue, o) = CountOf(h.queue, o) + IF o = e THEN 1 ELSE 0
      BY <3>1, <3>2
    <3>4. g.preserved[o] = h.preserved[o] /\ g.lost[o] = h.lost[o]
      BY <3>2
    <3>5. PICK v, w : v = CountOf(g.queue, o) /\ w = CountOf(h.queue, o)
      OBVIOUS
    <3>6. /\ HoldsOn(g, o) = h.preserved[o] - (v + h.lost[o])
          /\ HoldsOn(h, o) = h.preserved[o] - (w + h.lost[o])
      BY <3>4, <3>5 DEF HoldsOn, Waiting
    <3>7. v = w + (IF o = e THEN 1 ELSE 0) /\ w \in Nat /\ h.preserved[o] \in Int /\ h.lost[o] \in Nat
      BY <1>1, <3>3, <3>5
    <3> QED BY <3>4, <3>6, <3>7
  <2> QED BY <2>2, <2>3, <2>4
<1>3. CASE g = [h EXCEPT !.lost[e] = @ + 1]
  <2>1. g = [preserved |-> h.preserved, queue |-> h.queue, lost |-> [h.lost EXCEPT ![e] = @ + 1]]
    BY <1>3 DEF HeapType
  <2>2. [h.lost EXCEPT ![e] = @ + 1] \in [Objects -> Nat]
    BY <1>1 DEF HeapType
  <2>3. HeapType(g)
    BY <2>1, <2>2 DEF HeapType
  <2>4. ASSUME NEW o \in Objects
        PROVE  g.preserved[o] = h.preserved[o] /\ HoldsOn(g, o) = HoldsOn(h, o) - IF o = e THEN 1 ELSE 0
    <3>1. g.lost[o] = h.lost[o] + IF o = e THEN 1 ELSE 0
      BY <2>1, <1>1 DEF HeapType
    <3>2. g.queue = h.queue /\ g.preserved = h.preserved
      BY <2>1
    <3> QED BY <1>1, <3>1, <3>2 DEF HoldsOn, Waiting
  <2> QED BY <2>1, <2>3, <2>4
<1> QED BY <1>2, <1>3 DEF Enqueued

(* So does giving up, at once, when the queue is drained, or never. *)
LEMMA GivenUpHolds ==
  ASSUME NEW h, HeapType(h), NEW t, NEW e \in Objects \ {NoObject}, NEW g \in GivenUp(h, t, e)
  PROVE  /\ HeapType(g)
         /\ \A o \in Objects : HoldsOn(g, o) = HoldsOn(h, o) - IF o = e THEN 1 ELSE 0
<1>1. CASE t = RThread
  <2>1. g = ReleasedNow(h, e)
    BY <1>1 DEF GivenUp
  <2> QED BY <2>1, ReleasedHolds
<1>2. CASE t # RThread
  <2>1. g \in Enqueued(h, e, FALSE)
    BY <1>2 DEF GivenUp
  <2>2. /\ HeapType(g)
        /\ \A o \in Objects : HoldsOn(g, o) = HoldsOn(h, o) - IF o = e THEN 1 ELSE 0
    <3>1. PICK c \in BOOLEAN : c = FALSE
      OBVIOUS
    <3>2. g \in Enqueued(h, e, c)
      BY <2>1, <3>1
    <3> HIDE <3>1
    <3> QED BY <3>2, EnqueuedHolds
  <2> QED BY <2>2
<1> QED BY <1>1, <1>2
=============================================================================
