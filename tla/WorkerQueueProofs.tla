-------------------------- MODULE WorkerQueueProofs --------------------------
(***************************************************************************)
(* Proofs about the callback queue, for any threads, owners, UDFs, chunks  *)
(* and limits: its list and its loans, what a drainer does to the requests *)
(* it has borrowed (it may run them, runs only interchangeable ones        *)
(* together, and each once), its gauges, and that WorkerQueue implements   *)
(* CallbackContract.                                                       *)
(***************************************************************************)
EXTENDS WorkerQueueContract, TLAPS, SequenceTheorems, FiniteSetTheorems

(*----------------------- the list and the borrowers ----------------------*)

(* What unlinking one list node leaves behind (rducks_queue_remove_pending_locked
   and the pops). *)
LEMMA RemoveAtFacts ==
  ASSUME NEW S, NEW s \in Seq(S), NEW i \in 1..Len(s)
  PROVE  /\ RemoveAt(s, i) \in Seq(S)
         /\ Len(RemoveAt(s, i)) = Len(s) - 1
         /\ \A j \in 1..(Len(s) - 1) :
              RemoveAt(s, i)[j] = IF j < i THEN s[j] ELSE s[j + 1]
<1> DEFINE a == SubSeq(s, 1, i - 1)
           b == SubSeq(s, i + 1, Len(s))
<1>1. /\ a \in Seq(S) /\ Len(a) = i - 1
      /\ \A j \in 1..(i - 1) : a[j] = s[j]
  OBVIOUS
<1>2. /\ b \in Seq(S) /\ Len(b) = Len(s) - i
      /\ \A j \in 1..(Len(s) - i) : b[j] = s[i + j]
  OBVIOUS
<1>3. RemoveAt(s, i) = a \o b
  BY DEF RemoveAt
<1>4. /\ a \o b \in Seq(S)
      /\ Len(a \o b) = Len(a) + Len(b)
      /\ \A j \in 1..(Len(a) + Len(b)) :
           (a \o b)[j] = IF j <= Len(a) THEN a[j] ELSE b[j - Len(a)]
  <2> HIDE DEF a, b
  <2>1. QED BY <1>1, <1>2, ConcatProperties
<1>5. ASSUME NEW j \in 1..(Len(s) - 1)
      PROVE  (a \o b)[j] = IF j < i THEN s[j] ELSE s[j + 1]
  <2> HIDE DEF a, b
  <2>1. CASE j < i
    BY <1>1, <1>2, <1>4, <2>1
  <2>2. CASE ~(j < i)
    <3>1. (a \o b)[j] = b[j - (i - 1)]
      BY <1>1, <1>2, <1>4, <2>2
    <3>2. j - (i - 1) \in 1..(Len(s) - i)
      BY <2>2
    <3>3. b[j - (i - 1)] = s[i + (j - (i - 1))]
      BY <1>2, <3>2
    <3>4. i + (j - (i - 1)) = j + 1
      OBVIOUS
    <3>5. QED BY <2>2, <3>1, <3>3, <3>4
  <2>3. QED BY <2>1, <2>2
<1>6. QED
  <2> HIDE DEF a, b
  <2>1. QED BY <1>1, <1>2, <1>3, <1>4, <1>5

(* Unlinking keeps the list free of duplicates and takes out one request. *)
LEMMA RemoveAtDistinct ==
  ASSUME NEW S, NEW s \in Seq(S), NEW i \in 1..Len(s),
         \A j, k \in 1..Len(s) : s[j] = s[k] => j = k
  PROVE  LET r == RemoveAt(s, i) IN
         /\ \A j, k \in 1..Len(r) : r[j] = r[k] => j = k
         /\ \A x : (\E k \in 1..Len(r) : r[k] = x)
                   <=> x # s[i] /\ \E k \in 1..Len(s) : s[k] = x
<1> DEFINE r == RemoveAt(s, i)
           pos(j) == IF j < i THEN j ELSE j + 1
<1>0. /\ r \in Seq(S) /\ Len(r) = Len(s) - 1
      /\ \A j \in 1..(Len(s) - 1) : r[j] = IF j < i THEN s[j] ELSE s[j + 1]
  <2> HIDE DEF pos
  <2>1. QED BY RemoveAtFacts, Zenon
<1> HIDE DEF r
<1>a. Len(s) \in Nat /\ i \in Int /\ 1 <= i /\ i <= Len(s)
  OBVIOUS
<1>1. /\ r \in Seq(S) /\ Len(r) = Len(s) - 1 /\ Len(s) \in Nat
      /\ \A j \in 1..Len(r) : pos(j) \in 1..Len(s) /\ pos(j) # i /\ r[j] = s[pos(j)]
  <2> SUFFICES ASSUME NEW j \in 1..Len(r)
               PROVE  pos(j) \in 1..Len(s) /\ pos(j) # i /\ r[j] = s[pos(j)]
    BY <1>0, <1>a
  <2>1. CASE j < i
    BY <1>0, <1>a, <2>1
  <2>2. CASE ~(j < i)
    BY <1>0, <1>a, <2>2
  <2>3. QED BY <2>1, <2>2
<1>2. \A k \in 1..Len(s) : k # i => \E j \in 1..Len(r) : pos(j) = k
  <2> SUFFICES ASSUME NEW k \in 1..Len(s), k # i
               PROVE  \E j \in 1..Len(r) : pos(j) = k
    OBVIOUS
  <2>1. CASE k < i
    <3>1. k \in 1..Len(r) /\ pos(k) = k
      BY <1>0, <1>a, <2>1
    <3>2. QED BY <3>1
  <2>2. CASE ~(k < i)
    <3>1. k - 1 \in 1..Len(r)
      BY <1>0, <1>a, <2>2
    <3>2. pos(k - 1) = k
      BY <1>a, <2>2
    <3>3. QED BY <3>1, <3>2
  <2>3. QED BY <2>1, <2>2
<1>3. ASSUME NEW j \in 1..Len(r), NEW k \in 1..Len(r), r[j] = r[k]
      PROVE  j = k
  <2>1. pos(j) = pos(k)
    <3> HIDE DEF pos
    <3>1. QED BY <1>1, <1>3
  <2>2. j \in Int /\ k \in Int
    OBVIOUS
  <2>3. QED BY <1>a, <2>1, <2>2
<1>4. ASSUME NEW x
      PROVE  (\E k \in 1..Len(r) : r[k] = x) <=> x # s[i] /\ \E k \in 1..Len(s) : s[k] = x
  <2> HIDE DEF pos
  <2>1. ASSUME NEW k \in 1..Len(r), r[k] = x
        PROVE  x # s[i] /\ \E l \in 1..Len(s) : s[l] = x
    BY <1>1, <2>1
  <2>2. ASSUME x # s[i], NEW k \in 1..Len(s), s[k] = x
        PROVE  \E l \in 1..Len(r) : r[l] = x
    BY <1>1, <1>2, <2>2
  <2>3. QED BY <2>1, <2>2
<1>5. QED BY <1>3, <1>4 DEF r

(* Appending a request that is not linked keeps the list free of duplicates. *)
LEMMA AppendDistinct ==
  ASSUME NEW S, NEW s \in Seq(S), NEW x \in S,
         \A j, k \in 1..Len(s) : s[j] = s[k] => j = k,
         ~\E k \in 1..Len(s) : s[k] = x
  PROVE  LET r == Append(s, x) IN
         /\ r \in Seq(S) /\ Len(r) = Len(s) + 1
         /\ \A j \in 1..Len(r) : r[j] = IF j = Len(s) + 1 THEN x ELSE s[j]
         /\ \A j, k \in 1..Len(r) : r[j] = r[k] => j = k
         /\ \A y : (\E k \in 1..Len(r) : r[k] = y)
                   <=> y = x \/ \E k \in 1..Len(s) : s[k] = y
<1> DEFINE r == Append(s, x)
<1>1. /\ r \in Seq(S) /\ Len(r) = Len(s) + 1 /\ Len(s) \in Nat
      /\ \A j \in 1..Len(r) : r[j] = IF j = Len(s) + 1 THEN x ELSE s[j]
  BY AppendProperties
<1> HIDE DEF r
<1>2. \A j, k \in 1..Len(r) : r[j] = r[k] => j = k
  BY <1>1
<1>3. ASSUME NEW y
      PROVE  (\E k \in 1..Len(r) : r[k] = y) <=> y = x \/ \E k \in 1..Len(s) : s[k] = y
  <2>1. r[Len(s) + 1] = x /\ Len(s) + 1 \in 1..Len(r)
    BY <1>1
  <2>2. \A k \in 1..Len(s) : k \in 1..Len(r) /\ r[k] = s[k]
    BY <1>1
  <2>3. QED BY <1>1, <2>1, <2>2
<1>4. QED BY <1>1, <1>2, <1>3 DEF r

-----------------------------------------------------------------------------
(* The updates of the counters leave counters. *)
LEMMA StatsUpdates ==
  ASSUME NEW s \in StatsType, NEW a \in Nat, NEW b \in Nat, NEW c \in Nat
  PROVE  /\ [s EXCEPT !.submitted = a, !.withdrawn = b] \in StatsType
         /\ [s EXCEPT !.submitted = a, !.pending = b] \in StatsType
         /\ [s EXCEPT !.pending = a, !.withdrawn = b] \in StatsType
         /\ [s EXCEPT !.pending = a, !.withdrawn = b, !.timeouts = c] \in StatsType
         /\ [s EXCEPT !.pending = a, !.running = b] \in StatsType
         /\ [s EXCEPT !.executed = a, !.running = b] \in StatsType
  BY Zenon DEF StatsType

LEMMA DecNat ==
  ASSUME NEW n \in Nat
  PROVE  Dec(n) \in Nat
  BY DEF Dec

LEMMA StatsAreCounts ==
  ASSUME SharedTypes
  PROVE  /\ stats \in StatsType
         /\ stats.submitted \in Nat /\ stats.submitted + 1 \in Nat
         /\ stats.withdrawn + 1 \in Nat /\ stats.executed + 1 \in Nat
         /\ stats.pending \in Nat /\ stats.pending + 1 \in Nat /\ Dec(stats.pending) \in Nat
         /\ stats.running \in Nat /\ stats.running + 1 \in Nat /\ Dec(stats.running) \in Nat
         /\ stats.timeouts \in Nat /\ stats.timeouts + 1 \in Nat
<1>1. stats \in StatsType
  BY DEF SharedTypes
<1>2. /\ stats.submitted \in Nat /\ stats.withdrawn \in Nat /\ stats.executed \in Nat
      /\ stats.pending \in Nat /\ stats.running \in Nat /\ stats.timeouts \in Nat
  BY <1>1 DEF StatsType
<1>3. \A n \in Nat : n + 1 \in Nat
  OBVIOUS
<1>4. QED BY <1>1, <1>2, <1>3, DecNat

-----------------------------------------------------------------------------
LEMMA InitInv == Init => QueueInv
<1> SUFFICES ASSUME Init PROVE QueueInv
  OBVIOUS
<1>1. TypeOK
  <2> USE ConstantsAssumption DEF Init
  <2>1. SubmitTypes BY DEF SubmitTypes, Outcomes
  <2>2. SharedTypes
    <3>1. queue \in Seq(Threads) OBVIOUS
    <3>2. stats \in StatsType BY DEF StatsType
    <3>3. cancelGen \in 0..MaxGen OBVIOUS
    <3>4. stopping \in [Owners -> BOOLEAN] /\ ownerError \in [Owners -> BOOLEAN] OBVIOUS
    <3>5. metaPending \in [Metas -> Nat] OBVIOUS
    <3>6. QED BY <3>1, <3>2, <3>3, <3>4, <3>5 DEF SharedTypes, Outcomes
  <2>3. DrainTypes BY DEF DrainTypes
  <2>4. QED BY <2>1, <2>2, <2>3 DEF TypeOK
<1>2. QueueLinksPending
  BY DEF Init, QueueLinksPending
<1>3. PcAgrees
  BY DEF Init, PcAgrees
<1>4. DrainerAgrees
  BY ConstantsAssumption DEF Init, DrainerAgrees
<1>5. RunningIsBorrowed
  BY DEF Init, RunningIsBorrowed, Open
<1>6. QED BY <1>1, <1>2, <1>3, <1>4, <1>5 DEF QueueInv

(* A step that neither moves a request to or from RUNNING nor changes what the
   drainers still have to answer. *)
LEMMA OpenFrame ==
  ASSUME QueueInv,
         \A d \in Drainers : Open(d)' = Open(d) /\ batch'[d] = batch[d],
         \A u \in Threads :
           /\ state'[u] = "RUNNING" <=> state[u] = "RUNNING"
           /\ state[u] = "RUNNING" => pc'[u] = pc[u]
  PROVE  RunningIsBorrowed'
<1> USE DEF QueueInv
<1>1. ASSUME NEW d \in Drainers, NEW k \in Open(d)
      PROVE  batch[d][k] \in Threads /\ state[batch[d][k]] = "RUNNING"
  BY <1>1 DEF TypeOK, DrainTypes, RunningIsBorrowed, Open, DrainerAgrees
<1>2. ASSUME NEW d \in Drainers, NEW k \in Open(d)'
      PROVE  /\ state'[batch'[d][k]] = "RUNNING"
             /\ \A e \in Drainers : \A l \in Open(e)' :
                  batch'[e][l] = batch'[d][k] => e = d /\ l = k
  BY <1>1, <1>2 DEF RunningIsBorrowed
<1>3. ASSUME NEW t \in Threads, state'[t] = "RUNNING"
      PROVE  pc'[t] = "waiting" /\ \E d \in Drainers : \E k \in Open(d)' : batch'[d][k] = t
  BY <1>3 DEF RunningIsBorrowed
<1>4. QED BY <1>2, <1>3 DEF RunningIsBorrowed

(* A drainer that has popped holds the first request of its batch. *)
LEMMA FirstIsOpen ==
  ASSUME QueueInv, NEW d \in Drainers, dpc[d] \in {"popped", "scanning", "ready"}
  PROVE  /\ 1 \in Open(d) /\ Open(d) = 1..Len(batch[d])
         /\ batch[d][1] \in Threads
         /\ state[batch[d][1]] = "RUNNING" /\ pc[batch[d][1]] = "waiting"
         /\ call[batch[d][1]] \in Calls
<1> USE DEF QueueInv
<1>1. 1 \in Open(d) /\ Open(d) = 1..Len(batch[d]) /\ batch[d][1] \in Threads
  BY DEF Open, DrainerAgrees, TypeOK, DrainTypes
<1>2. state[batch[d][1]] = "RUNNING"
  BY <1>1 DEF RunningIsBorrowed
<1>3. QED BY <1>1, <1>2 DEF RunningIsBorrowed, PcAgrees

(* A step that leaves every drainer alone, and RUNNING requests where they are,
   keeps what relates drainers to requests. *)
LEMMA BorrowFrame ==
  ASSUME QueueInv, UNCHANGED <<lockHolder, drainVars>>,
         \A u \in Threads :
           /\ state'[u] = "RUNNING" <=> state[u] = "RUNNING"
           /\ state[u] = "RUNNING" => pc'[u] = pc[u] /\ call'[u] = call[u]
  PROVE  DrainerAgrees' /\ RunningIsBorrowed'
<1>1. RunningIsBorrowed'
  BY OpenFrame DEF Open, drainVars
<1>2. ASSUME NEW d \in Drainers, dpc[d] \in {"popped", "scanning"}
      PROVE  call'[batch[d][1]] = call[batch[d][1]]
  BY <1>2, FirstIsOpen
<1>3. DrainerAgrees'
  BY <1>2 DEF QueueInv, DrainerAgrees, drainVars
<1>4. QED BY <1>1, <1>3

-----------------------------------------------------------------------------
(* The submitting thread. *)

LEMMA ArriveInv ==
  ASSUME QueueInv, NEW t \in Threads, NEW c \in Calls, Arrive(t, c)
  PROVE  QueueInv'
<1> USE DEF QueueInv, TypeOK
<1>1. calls[t] + 1 \in 0..MaxCalls /\ c.diag \in BOOLEAN
  BY ConstantsAssumption DEF SubmitTypes, Arrive, CallType
<1>2. SubmitTypes'
  BY <1>1 DEF SubmitTypes, SharedTypes, Arrive, Outcomes
<1>3. SharedTypes'
  BY <1>1 DEF SharedTypes, Arrive, ownerVars, mainVars
<1>4. DrainTypes'
  BY DEF DrainTypes, Arrive, drainVars
<1>5. QueueLinksPending'
  BY DEF SubmitTypes, SharedTypes, PcAgrees, QueueLinksPending, Arrive
<1>6. PcAgrees'
  BY DEF SubmitTypes, PcAgrees, Arrive
<1>7. DrainerAgrees' /\ RunningIsBorrowed'
  BY BorrowFrame DEF SubmitTypes, PcAgrees, Arrive
<1>8. QED BY <1>2, <1>3, <1>4, <1>5, <1>6, <1>7

LEMMA SnapshotFailsInv ==
  ASSUME QueueInv, NEW t \in Threads, SnapshotFails(t)
  PROVE  QueueInv'
<1> USE DEF QueueInv, TypeOK
<1>1. SubmitTypes'
  BY ConstantsAssumption DEF SubmitTypes, SnapshotFails, Outcomes
<1>2. SharedTypes'
  BY DEF SharedTypes, SnapshotFails, ownerVars, mainVars
<1>3. DrainTypes'
  BY DEF DrainTypes, SnapshotFails, drainVars
<1>4. QueueLinksPending'
  BY DEF SubmitTypes, QueueLinksPending, SnapshotFails
<1>5. PcAgrees'
  BY DEF SubmitTypes, PcAgrees, SnapshotFails
<1>6. DrainerAgrees' /\ RunningIsBorrowed'
  BY BorrowFrame DEF SubmitTypes, PcAgrees, SnapshotFails
<1>7. QED BY <1>1, <1>2, <1>3, <1>4, <1>5, <1>6

LEMMA SubmitInv ==
  ASSUME QueueInv, NEW t \in Threads, Submit(t)
  PROVE  QueueInv'
<1> USE DEF QueueInv, TypeOK
<1>1. call[t] \in Calls /\ call[t].meta \in Metas
  BY ConstantsAssumption DEF PcAgrees, Submit, CallType
<1>2. SubmitTypes'
  BY DEF SubmitTypes, SharedTypes, Submit
<1>3. SharedTypes'
  BY <1>1 DEF SharedTypes, Submit, ownerVars, mainVars
<1>4. DrainTypes'
  BY DEF DrainTypes, Submit, drainVars
<1>5. QueueLinksPending'
  BY DEF SubmitTypes, QueueLinksPending, Submit
<1>6. PcAgrees'
  BY DEF SubmitTypes, PcAgrees, Submit
<1>7. DrainerAgrees' /\ RunningIsBorrowed'
  BY BorrowFrame DEF SubmitTypes, PcAgrees, Submit
<1>8. QED BY <1>2, <1>3, <1>4, <1>5, <1>6, <1>7

LEMMA RejectInv ==
  ASSUME QueueInv, NEW t \in Threads, Reject(t)
  PROVE  QueueInv'
<1> USE DEF QueueInv, TypeOK
<1>0. \E why \in {"cancelled", "error"} : Leaving(t, why)
  BY DEF Reject
<1>1. SubmitTypes'
  BY <1>0 DEF SubmitTypes, Reject, Leaving, Outcomes
<1>2. SharedTypes'
  BY DEF SharedTypes, Reject, ownerVars, mainVars
<1>3. DrainTypes'
  BY DEF DrainTypes, Reject, drainVars
<1>4. QueueLinksPending'
  BY <1>0 DEF SubmitTypes, QueueLinksPending, Reject, Leaving
<1>5. PcAgrees'
  BY <1>0 DEF SubmitTypes, PcAgrees, Reject, Leaving
<1>6. DrainerAgrees' /\ RunningIsBorrowed'
  BY <1>0, BorrowFrame DEF SubmitTypes, PcAgrees, Reject, Leaving
<1>7. QED BY <1>1, <1>2, <1>3, <1>4, <1>5, <1>6

LEMMA PushInv ==
  ASSUME QueueInv, NEW t \in Threads, Push(t)
  PROVE  QueueInv'
<1> USE DEF QueueInv, TypeOK
<1>1. state[t] = "PENDING" /\ pc[t] = "entering" /\ call[t] \in Calls
  BY DEF PcAgrees, Push
<1>2. ~\E i \in 1..Len(queue) : queue[i] = t
  BY <1>1 DEF QueueLinksPending
<1>3. DrainTypes'
  BY DEF DrainTypes, Push, drainVars
<1>4. CASE Cancelled(t)
  <2>1. SubmitTypes'
    BY <1>4 DEF SubmitTypes, Push, Leaving, Outcomes
  <2>2. SharedTypes'
    <3>1. stats' = [stats EXCEPT !.submitted = stats.submitted + 1,
                                 !.withdrawn = stats.withdrawn + 1]
      BY <1>4 DEF Push
    <3>2. stats' \in StatsType
      BY <3>1, StatsAreCounts, StatsUpdates
    <3>3. QED BY <1>4, <3>2 DEF SharedTypes, Push, ownerVars, mainVars
  <2>3. QueueLinksPending'
    BY <1>1, <1>4 DEF SubmitTypes, QueueLinksPending, Push, Leaving
  <2>4. PcAgrees'
    BY <1>1, <1>4 DEF SubmitTypes, PcAgrees, Push, Leaving
  <2>5. DrainerAgrees' /\ RunningIsBorrowed'
    BY <1>1, <1>4, BorrowFrame DEF SubmitTypes, Push, Leaving
  <2>6. QED BY <1>3, <2>1, <2>2, <2>3, <2>4, <2>5
<1>5. CASE ~Cancelled(t)
  <2>1. queue' = Append(queue, t) /\ state' = state /\ outcome' = outcome
    BY <1>5 DEF Push
  <2>2. pc' = [pc EXCEPT ![t] = "waiting"]
    BY <1>5 DEF Push
  <2>3. /\ queue' \in Seq(Threads) /\ Len(queue') = Len(queue) + 1
        /\ \A j, k \in 1..Len(queue') : queue'[j] = queue'[k] => j = k
        /\ \A y : (\E k \in 1..Len(queue') : queue'[k] = y)
                  <=> y = t \/ \E k \in 1..Len(queue) : queue[k] = y
    BY <1>2, <2>1, AppendDistinct DEF SharedTypes, QueueLinksPending
  <2>4. SubmitTypes'
    BY <2>1, <2>2 DEF SubmitTypes, Push
  <2>5. stats' \in StatsType
    <3>1. stats' = [stats EXCEPT !.submitted = stats.submitted + 1,
                                 !.pending = stats.pending + 1]
      BY <1>5 DEF Push
    <3>2. QED BY <3>1, StatsAreCounts, StatsUpdates
  <2>6. SharedTypes'
    BY <2>3, <2>5 DEF SharedTypes, Push, ownerVars, mainVars
  <2>7. QueueLinksPending'
    BY <1>1, <2>1, <2>2, <2>3 DEF SubmitTypes, QueueLinksPending
  <2>8. PcAgrees'
    BY <1>1, <2>1, <2>2 DEF SubmitTypes, PcAgrees, Push
  <2>9. DrainerAgrees' /\ RunningIsBorrowed'
    BY <1>1, <2>1, <2>2, BorrowFrame DEF SubmitTypes, Push
  <2>10. QED BY <1>3, <2>4, <2>6, <2>7, <2>8, <2>9
<1>6. QED BY <1>4, <1>5

(* What unlinking the request of t does to the list and its links. *)
LEMMA UnlinkFacts ==
  ASSUME QueueInv, NEW t \in Threads, state[t] = "PENDING", Unlink(t)
  PROVE  /\ queue' \in Seq(Threads)
         /\ \A j, k \in 1..Len(queue') : queue'[j] = queue'[k] => j = k
         /\ \A y : (\E k \in 1..Len(queue') : queue'[k] = y)
                   <=> y # t /\ \E k \in 1..Len(queue) : queue[k] = y
         /\ state' = [state EXCEPT ![t] = "CANCELLED"]
<1>1. PICK i \in 1..Len(queue) : queue[i] = t /\ queue' = RemoveAt(queue, i)
  BY DEF Unlink
<1>2. queue \in Seq(Threads) /\ \A j, k \in 1..Len(queue) : queue[j] = queue[k] => j = k
  BY DEF QueueInv, TypeOK, SharedTypes, QueueLinksPending
<1>3. queue' \in Seq(Threads)
  BY <1>1, <1>2, RemoveAtFacts
<1> DEFINE r == RemoveAt(queue, i)
<1>4. /\ \A j, k \in 1..Len(r) : r[j] = r[k] => j = k
      /\ \A y : (\E k \in 1..Len(r) : r[k] = y)
                <=> y # queue[i] /\ \E k \in 1..Len(queue) : queue[k] = y
  <2> HIDE DEF r
  <2>1. QED BY <1>2, RemoveAtDistinct DEF r
<1> HIDE DEF r
<1>6. queue' = r /\ queue[i] = t
  BY <1>1 DEF r
<1>7. state' = [state EXCEPT ![t] = "CANCELLED"]
  BY DEF Unlink
<1>8. QED BY <1>3, <1>4, <1>6, <1>7

(* Withdraw and Timeout are the same departure with a different outcome. *)
LEMMA DepartInv ==
  ASSUME QueueInv, NEW t \in Threads, pc[t] = "waiting", state[t] = "PENDING", Unlink(t),
         stats' \in StatsType, NEW why \in Outcomes, Leaving(t, why),
         UNCHANGED <<lockHolder, call, gen, result, replyOk, evals, calls, cancelGen, ownerVars,
                     metaPending, workersSeen, mainVars, drainVars>>
  PROVE  QueueInv'
<1> USE DEF QueueInv, TypeOK
<1>1. state' = [state EXCEPT ![t] = "CANCELLED"]
  BY UnlinkFacts
<1>2. SubmitTypes'
  BY <1>1 DEF SubmitTypes, Leaving
<1>3. SharedTypes'
  BY UnlinkFacts DEF SharedTypes, ownerVars, mainVars
<1>4. DrainTypes'
  BY DEF DrainTypes, drainVars
<1>5. QueueLinksPending'
  <2>1. pc' = [pc EXCEPT ![t] = "leaving"]
    BY DEF Leaving
  <2>2. \A y : (\E k \in 1..Len(queue') : queue'[k] = y)
              <=> y # t /\ \E k \in 1..Len(queue) : queue[k] = y
    BY UnlinkFacts
  <2>3. \A j, k \in 1..Len(queue') : queue'[j] = queue'[k] => j = k
    BY UnlinkFacts
  <2>4. ASSUME NEW u \in Threads
        PROVE  (\E k \in 1..Len(queue') : queue'[k] = u)
               <=> pc'[u] = "waiting" /\ state'[u] = "PENDING"
    <3>1. (\E k \in 1..Len(queue) : queue[k] = u) <=> pc[u] = "waiting" /\ state[u] = "PENDING"
      BY DEF QueueLinksPending
    <3>2. QED BY <1>1, <2>1, <2>2, <3>1 DEF SubmitTypes
  <2>5. QED BY <2>3, <2>4 DEF QueueLinksPending
<1>6. PcAgrees'
  BY <1>1 DEF SubmitTypes, PcAgrees, Leaving
<1>7. DrainerAgrees' /\ RunningIsBorrowed'
  BY <1>1, BorrowFrame DEF SubmitTypes, Leaving
<1>8. QED BY <1>2, <1>3, <1>4, <1>5, <1>6, <1>7

LEMMA WithdrawInv ==
  ASSUME QueueInv, NEW t \in Threads, Withdraw(t)
  PROVE  QueueInv'
<1>1. stats' = [stats EXCEPT !.pending = Dec(stats.pending), !.withdrawn = stats.withdrawn + 1]
  BY DEF Withdraw
<1>2. stats' \in StatsType
  BY <1>1, StatsAreCounts, StatsUpdates DEF QueueInv, TypeOK
<1>3. QED BY <1>2, DepartInv DEF Withdraw, Outcomes

LEMMA TimeoutInv ==
  ASSUME QueueInv, NEW t \in Threads, Timeout(t)
  PROVE  QueueInv'
<1>1. PICK clockFailed \in BOOLEAN :
        /\ stats' = [stats EXCEPT !.pending = Dec(stats.pending),
                                  !.withdrawn = stats.withdrawn + 1,
                                  !.timeouts = IF clockFailed THEN stats.timeouts
                                                              ELSE stats.timeouts + 1]
        /\ Leaving(t, IF clockFailed THEN "error" ELSE "timeout")
  BY DEF Timeout
<1>2. stats' \in StatsType
  BY <1>1, StatsAreCounts, StatsUpdates DEF QueueInv, TypeOK
<1>3. \E why \in Outcomes : Leaving(t, why)
  BY <1>1 DEF Outcomes
<1>4. QED BY <1>2, <1>3, DepartInv DEF Timeout

(* The request of a thread that is not borrowed may be forgotten. *)
LEMMA ForgetInv ==
  ASSUME QueueInv, NEW t \in Threads, Forget(t),
         state[t] # "RUNNING", ~(pc[t] = "waiting" /\ state[t] = "PENDING"),
         outcome' \in [Threads -> Outcomes], metaPending' \in [Metas -> Nat],
         UNCHANGED <<queue, lockHolder, result, evals, calls, cancelGen, ownerVars, stats,
                     workersSeen, mainVars, drainVars>>
  PROVE  QueueInv'
<1> USE DEF QueueInv, TypeOK
<1>1. SubmitTypes'
  <2>1. 0 \in 0..MaxGen
    BY ConstantsAssumption
  <2>2. QED BY <2>1 DEF SubmitTypes, Forget
<1>2. SharedTypes'
  BY DEF SharedTypes, ownerVars, mainVars
<1>3. DrainTypes'
  BY DEF DrainTypes, drainVars
<1>4. QueueLinksPending'
  BY DEF SubmitTypes, QueueLinksPending, Forget
<1>5. PcAgrees'
  BY DEF SubmitTypes, PcAgrees, Forget
<1>6. DrainerAgrees' /\ RunningIsBorrowed'
  BY BorrowFrame DEF SubmitTypes, Forget
<1>7. QED BY <1>1, <1>2, <1>3, <1>4, <1>5, <1>6

LEMMA LeaveInv ==
  ASSUME QueueInv, NEW t \in Threads, Leave(t)
  PROVE  QueueInv'
<1>1. state[t] # "RUNNING"
  BY DEF QueueInv, PcAgrees, Leave
<1>2. metaPending' \in [Metas -> Nat]
  BY DecNat DEF QueueInv, TypeOK, SharedTypes, Leave
<1>3. outcome' \in [Threads -> Outcomes]
  BY DEF QueueInv, TypeOK, SubmitTypes, Leave
<1>4. QED BY <1>1, <1>2, <1>3, ForgetInv DEF Leave

LEMMA CollectInv ==
  ASSUME QueueInv, NEW t \in Threads, Collect(t)
  PROVE  QueueInv'
<1>1. state[t] = "DONE"
  BY DEF Collect, Answered
<1>2. metaPending' \in [Metas -> Nat]
  BY DEF QueueInv, TypeOK, SharedTypes, Collect
<1>3. outcome' \in [Threads -> Outcomes]
  BY DEF QueueInv, TypeOK, SubmitTypes, Collect, Outcomes
<1>4. QED BY <1>1, <1>2, <1>3, ForgetInv DEF Collect

-----------------------------------------------------------------------------
(* The draining thread. *)

(* What a step that changes neither the requests nor the list must still show. *)
LEMMA DrainerFrame ==
  ASSUME QueueInv, UNCHANGED <<queue, pc, state, call, gen, result, replyOk, outcome, calls,
                               stats, workersSeen, cancelGen>>,
         evals' \in [Threads -> Nat],
         stopping' \in [Owners -> BOOLEAN], ownerError' \in [Owners -> BOOLEAN],
         metaPending' \in [Metas -> Nat], lockHolder' \in Drainers \cup {NoDrainer},
         mode' \in {"r", "poll", "linger", "join", "pump"},
         pumped' \in Owners \cup {NoOwner}, interrupted' \in BOOLEAN,
         mainOutcome' \in Outcomes
  PROVE  SubmitTypes' /\ SharedTypes' /\ QueueLinksPending' /\ PcAgrees'
<1> USE DEF QueueInv, TypeOK
<1>1. SubmitTypes'
  BY DEF SubmitTypes
<1>2. SharedTypes'
  BY DEF SharedTypes
<1>3. QueueLinksPending'
  BY DEF QueueLinksPending
<1>4. PcAgrees'
  BY DEF PcAgrees
<1>5. QED BY <1>1, <1>2, <1>3, <1>4

LEMMA StartDrainInv ==
  ASSUME QueueInv, NEW d \in Drainers, StartDrain(d)
  PROVE  QueueInv'
<1> USE DEF QueueInv, TypeOK
<1>1. SubmitTypes' /\ SharedTypes' /\ QueueLinksPending' /\ PcAgrees'
  BY DrainerFrame DEF SubmitTypes, SharedTypes, StartDrain, submitVars, ownerVars, mainVars
<1>2. DrainTypes'
  BY DEF DrainTypes, StartDrain
<1>3. DrainerAgrees'
  BY DEF DrainTypes, DrainerAgrees, StartDrain, submitVars
<1>4. RunningIsBorrowed'
  BY OpenFrame DEF DrainTypes, StartDrain, submitVars, Open
<1>5. QED BY <1>1, <1>2, <1>3, <1>4

LEMMA BeginPeersInv ==
  ASSUME QueueInv, NEW d \in Drainers, BeginPeers(d)
  PROVE  QueueInv'
<1> USE DEF QueueInv, TypeOK
<1>1. SubmitTypes' /\ SharedTypes' /\ QueueLinksPending' /\ PcAgrees'
  BY DrainerFrame DEF SubmitTypes, SharedTypes, BeginPeers, submitVars, ownerVars, mainVars
<1>2. DrainTypes'
  BY DEF DrainTypes, BeginPeers
<1>3. DrainerAgrees'
  BY ConstantsAssumption DEF DrainTypes, DrainerAgrees, BeginPeers, submitVars, LockFree
<1>4. RunningIsBorrowed'
  BY OpenFrame DEF DrainTypes, BeginPeers, submitVars, Open
<1>5. QED BY <1>1, <1>2, <1>3, <1>4

LEMMA EndPeersInv ==
  ASSUME QueueInv, NEW d \in Drainers, EndPeers(d)
  PROVE  QueueInv'
<1> USE DEF QueueInv, TypeOK
<1>1. SubmitTypes' /\ SharedTypes' /\ QueueLinksPending' /\ PcAgrees'
  BY DrainerFrame DEF SubmitTypes, SharedTypes, EndPeers, submitVars, ownerVars, mainVars
<1>2. DrainTypes'
  BY DEF DrainTypes, EndPeers
<1>3. DrainerAgrees'
  BY ConstantsAssumption DEF DrainTypes, DrainerAgrees, EndPeers, submitVars
<1>4. RunningIsBorrowed'
  BY OpenFrame DEF DrainTypes, EndPeers, submitVars, Open
<1>5. QED BY <1>1, <1>2, <1>3, <1>4

LEMMA EvaluateInv ==
  ASSUME QueueInv, NEW d \in Drainers, Evaluate(d)
  PROVE  QueueInv'
<1> USE DEF QueueInv, TypeOK
<1>1. evals' \in [Threads -> Nat]
  BY DEF SubmitTypes, Evaluate
<1>2. stopping' \in [Owners -> BOOLEAN] /\ ownerError' \in [Owners -> BOOLEAN]
  BY DEF SharedTypes, Evaluate, FailOwner, ownerVars
<1>3. SubmitTypes' /\ SharedTypes' /\ QueueLinksPending' /\ PcAgrees'
  BY <1>1, <1>2, DrainerFrame DEF SubmitTypes, SharedTypes, Evaluate, mainVars
<1>4. 1 \in 0..BatchMaxRequests
  BY ConstantsAssumption
<1>5. batchOk' \in [Drainers -> BOOLEAN]
  BY DEF DrainTypes, Evaluate
<1>6. DrainTypes'
  BY <1>4, <1>5 DEF DrainTypes, Evaluate
<1>7. DrainerAgrees'
  <2>1. 1 \in 1..Len(batch[d])
    BY FirstIsOpen DEF Evaluate
  <2>2. QED BY <2>1 DEF DrainTypes, DrainerAgrees, Evaluate
<1>8. RunningIsBorrowed'
  BY OpenFrame DEF DrainTypes, Evaluate, Open
<1>9. QED BY <1>3, <1>6, <1>7, <1>8

LEMMA FinishMetaInv ==
  ASSUME QueueInv, NEW d \in Drainers, FinishMeta(d)
  PROVE  QueueInv'
<1> USE DEF QueueInv, TypeOK
<1>1. metaPending' \in [Metas -> Nat]
  BY DecNat DEF SharedTypes, FinishMeta
<1>2. SubmitTypes' /\ SharedTypes' /\ QueueLinksPending' /\ PcAgrees'
  BY <1>1, DrainerFrame DEF SubmitTypes, SharedTypes, FinishMeta, submitVars, ownerVars, mainVars
<1>3. DrainTypes'
  BY DEF DrainTypes, FinishMeta
<1>4. DrainerAgrees'
  BY DEF DrainTypes, DrainerAgrees, FinishMeta, submitVars
<1>5. RunningIsBorrowed'
  BY OpenFrame DEF DrainTypes, FinishMeta, submitVars, Open
<1>6. QED BY <1>2, <1>3, <1>4, <1>5

LEMMA EndDrainInv ==
  ASSUME QueueInv, NEW d \in Drainers, EndDrain(d)
  PROVE  QueueInv'
<1> USE DEF QueueInv, TypeOK
<1>1. mode' \in {"r", "poll", "linger", "join", "pump"}
  BY DEF SharedTypes, EndDrain
<1>2. SubmitTypes' /\ SharedTypes' /\ QueueLinksPending' /\ PcAgrees'
  BY <1>1, DrainerFrame DEF SubmitTypes, SharedTypes, EndDrain, submitVars, ownerVars
<1>3. DrainTypes'
  BY DEF DrainTypes, EndDrain
<1>4. DrainerAgrees'
  BY DEF DrainTypes, DrainerAgrees, EndDrain, submitVars
<1>5. RunningIsBorrowed'
  BY OpenFrame DEF DrainTypes, EndDrain, submitVars, Open
<1>6. QED BY <1>2, <1>3, <1>4, <1>5

(* A drainer takes the list's i-th request into its batch. *)
Take(d, i) ==
  /\ queue' = RemoveAt(queue, i)
  /\ state' = [state EXCEPT ![queue[i]] = "RUNNING"]
  /\ batch' = [batch EXCEPT ![d] = Append(batch[d], queue[i])]
  /\ dpc[d] \in {"draining", "scanning"}
  /\ dpc'[d] \in {"popped", "scanning", "ready"}
  /\ \A e \in Drainers \ {d} : dpc'[e] = dpc[e]
  /\ UNCHANGED <<pc, call, fin>>

LEMMA TakeInv ==
  ASSUME QueueInv, NEW d \in Drainers, NEW i \in 1..Len(queue), Take(d, i)
  PROVE  /\ queue' \in Seq(Threads)
         /\ state' \in [Threads -> {"none", "PENDING", "RUNNING", "DONE", "CANCELLED"}]
         /\ QueueLinksPending' /\ PcAgrees' /\ RunningIsBorrowed'
<1> USE DEF QueueInv, TypeOK
<1> DEFINE t == queue[i]
           r == RemoveAt(queue, i)
           b == Append(batch[d], t)
<1>1. /\ queue \in Seq(Threads) /\ t \in Threads
      /\ \A j, k \in 1..Len(queue) : queue[j] = queue[k] => j = k
  BY DEF SharedTypes, QueueLinksPending
<1>2. pc[t] = "waiting" /\ state[t] = "PENDING"
  BY <1>1 DEF QueueLinksPending
<1>3. /\ \A j, k \in 1..Len(r) : r[j] = r[k] => j = k
      /\ \A y : (\E k \in 1..Len(r) : r[k] = y)
                <=> y # queue[i] /\ \E k \in 1..Len(queue) : queue[k] = y
  <2> HIDE DEF r
  <2>1. QED BY <1>1, RemoveAtDistinct DEF r
<1>4. r \in Seq(Threads)
  BY <1>1, RemoveAtFacts
<1>5. queue' = r /\ state' = [state EXCEPT ![t] = "RUNNING"]
  BY DEF Take
<1>6. batch[d] \in Seq(Threads) /\ Len(batch[d]) \in Nat
  BY DEF DrainTypes
<1>7. /\ Len(b) = Len(batch[d]) + 1
      /\ \A k \in 1..Len(b) : b[k] = IF k = Len(batch[d]) + 1 THEN t ELSE batch[d][k]
  BY <1>1, <1>6, AppendProperties
<1>8. batch' = [batch EXCEPT ![d] = b]
  BY DEF Take
<1> HIDE DEF t, r, b
<1>9. queue' \in Seq(Threads)
  BY <1>4, <1>5
<1>10. state' \in [Threads -> {"none", "PENDING", "RUNNING", "DONE", "CANCELLED"}]
  BY <1>5 DEF SubmitTypes
<1>11. QueueLinksPending'
  <2>1. ASSUME NEW u \in Threads
        PROVE  (\E k \in 1..Len(queue') : queue'[k] = u)
               <=> pc'[u] = "waiting" /\ state'[u] = "PENDING"
    <3>1. (\E k \in 1..Len(queue) : queue[k] = u) <=> pc[u] = "waiting" /\ state[u] = "PENDING"
      BY DEF QueueLinksPending
    <3>2. state'[u] = IF u = t THEN "RUNNING" ELSE state[u]
      BY <1>5 DEF SubmitTypes
    <3>3. pc' = pc
      BY DEF Take
    <3>4. (\E k \in 1..Len(queue') : queue'[k] = u)
          <=> u # t /\ \E k \in 1..Len(queue) : queue[k] = u
      BY <1>3, <1>5 DEF t
    <3>5. QED BY <3>1, <3>2, <3>3, <3>4
  <2>2. QED BY <1>3, <1>5, <2>1 DEF QueueLinksPending
<1>12. PcAgrees'
  BY <1>1, <1>2, <1>5 DEF SubmitTypes, PcAgrees, Take
<1>13. RunningIsBorrowed'
  <2>1. /\ Open(d) = 1..Len(batch[d]) /\ Open(d)' = 1..Len(b)
        /\ \A e \in Drainers \ {d} : Open(e)' = Open(e) /\ batch'[e] = batch[e]
        /\ batch'[d] = b
    BY <1>8 DEF Open, Take, DrainTypes
  <2>2. \A e \in Drainers : \A k \in Open(e) :
          batch[e][k] \in Threads /\ batch[e][k] # t /\ state[batch[e][k]] = "RUNNING"
    BY <1>2 DEF TypeOK, DrainTypes, RunningIsBorrowed, Open, DrainerAgrees
  <2>3. \A u \in Threads : state'[u] = IF u = t THEN "RUNNING" ELSE state[u]
    BY <1>5 DEF SubmitTypes
  <2>4. Len(b) \in Open(d)' /\ b[Len(b)] = t
    BY <1>6, <1>7, <2>1
  <2>5. ASSUME NEW k \in Open(d)'
        PROVE  k = Len(b) \/ (k \in Open(d) /\ b[k] = batch[d][k])
    <3>1. k \in 1..Len(b)
      BY <2>1
    <3>2. CASE k = Len(batch[d]) + 1
      <4>1. k = Len(b)
        BY <1>7, <3>2
      <4>2. QED BY <4>1
    <3>3. CASE k # Len(batch[d]) + 1
      <4>1. k \in 1..Len(batch[d])
        BY <1>6, <1>7, <3>1, <3>3
      <4>2. QED BY <1>7, <2>1, <3>1, <3>3, <4>1
    <3>4. QED BY <3>2, <3>3
  <2>6. \A k \in Open(d) : k \in Open(d)' /\ b[k] = batch[d][k]
    BY <1>6, <1>7, <2>1
  <2>7. \A e \in Drainers : \A k \in Open(e)' :
          \/ e = d /\ k = Len(b) /\ batch'[e][k] = t
          \/ k \in Open(e) /\ batch'[e][k] = batch[e][k]
    BY <2>1, <2>4, <2>5
  <2>8. ASSUME NEW e \in Drainers, NEW k \in Open(e)'
        PROVE  /\ state'[batch'[e][k]] = "RUNNING"
               /\ \A f \in Drainers : \A l \in Open(f)' :
                    batch'[f][l] = batch'[e][k] => f = e /\ l = k
    <3>1. state'[batch'[e][k]] = "RUNNING"
      BY <1>1, <2>2, <2>3, <2>7
    <3>2. ASSUME NEW f \in Drainers, NEW l \in Open(f)', batch'[f][l] = batch'[e][k]
          PROVE  f = e /\ l = k
      BY <2>2, <2>7, <3>2 DEF RunningIsBorrowed
    <3>3. QED BY <3>1, <3>2
  <2>9. ASSUME NEW u \in Threads, state'[u] = "RUNNING"
        PROVE  pc'[u] = "waiting" /\ \E e \in Drainers : \E k \in Open(e)' : batch'[e][k] = u
    <3>1. pc' = pc
      BY DEF Take
    <3>2. CASE u = t
      BY <1>2, <2>1, <2>4, <3>1, <3>2
    <3>3. CASE u # t
      <4>1. state[u] = "RUNNING"
        BY <2>3, <2>9, <3>3
      <4>2. pc[u] = "waiting" /\ \E e \in Drainers : \E k \in Open(e) : batch[e][k] = u
        BY <4>1 DEF RunningIsBorrowed
      <4>3. QED BY <2>1, <2>6, <3>1, <4>2
    <3>4. QED BY <3>2, <3>3
  <2>10. QED BY <2>8, <2>9 DEF RunningIsBorrowed
<1>14. QED BY <1>9, <1>10, <1>11, <1>12, <1>13

LEMMA PopInv ==
  ASSUME QueueInv, NEW d \in Drainers, Pop(d)
  PROVE  QueueInv'
<1> USE DEF QueueInv, TypeOK
<1>1. PICK i \in 1..Len(queue) :
        LET t == queue[i] IN
        /\ Poppable(d, i)
        /\ queue' = RemoveAt(queue, i)
        /\ state' = [state EXCEPT ![t] = "RUNNING"]
        /\ batch' = [batch EXCEPT ![d] = <<t>>]
        /\ rows' = [rows EXCEPT ![d] = call[t].rows]
        /\ dpc' = [dpc EXCEPT ![d] = IF Batchable(d, t) THEN "popped" ELSE "ready"]
  BY DEF Pop
<1> DEFINE t == queue[i]
<1>2. t \in Threads /\ batch[d] = <<>>
  BY DEF SharedTypes, DrainerAgrees, Pop
<1>3. call[t] \in Calls /\ call[t].rows \in 0..BatchMaxRows
  BY <1>2, ConstantsAssumption DEF QueueLinksPending, PcAgrees, CallType
<1>4. Take(d, i)
  <2>1. Append(batch[d], t) = <<t>>
    BY <1>2
  <2>2. batch' = [batch EXCEPT ![d] = Append(batch[d], queue[i])]
    BY <1>1, <2>1
  <2>3. dpc[d] = "draining" /\ UNCHANGED <<pc, call, fin>>
    BY DEF Pop
  <2>4. dpc'[d] \in {"popped", "scanning", "ready"} /\ \A e \in Drainers \ {d} : dpc'[e] = dpc[e]
    BY <1>1 DEF DrainTypes
  <2>5. QED BY <1>1, <2>2, <2>3, <2>4 DEF Take
<1>5. SubmitTypes'
  BY <1>4, TakeInv DEF SubmitTypes, Pop
<1>6. stats' \in StatsType
  <2>1. stats' = [stats EXCEPT !.pending = Dec(stats.pending), !.running = stats.running + 1]
    BY DEF Pop
  <2>2. QED BY <2>1, StatsAreCounts, StatsUpdates
<1>7. SharedTypes'
  BY <1>4, <1>6, TakeInv DEF SharedTypes, Pop, ownerVars, mainVars
<1>8. DrainTypes'
  <2>1. <<t>> \in Seq(Threads) /\ Len(<<t>>) = 1 /\ 1 <= BatchMaxRequests
    BY <1>2, ConstantsAssumption
  <2>2. batch' = [batch EXCEPT ![d] = <<t>>] /\ rows' = [rows EXCEPT ![d] = call[t].rows]
    BY <1>1
  <2> HIDE DEF t
  <2>3. QED BY <1>1, <1>3, <2>1, <2>2 DEF DrainTypes, Pop
<1>9. DrainerAgrees'
  BY <1>1, <1>2 DEF DrainTypes, DrainerAgrees, Pop, Batchable
<1>10. QED BY <1>4, <1>5, <1>7, <1>8, <1>9, TakeInv

LEMMA ScanPeerInv ==
  ASSUME QueueInv, NEW d \in Drainers, ScanPeer(d)
  PROVE  QueueInv'
<1> USE DEF QueueInv, TypeOK
<1> DEFINE i == scan[d]
           u == queue[i]
<1>1. i \in 1..Len(queue) /\ u \in Threads /\ Len(batch[d]) < BatchMaxRequests
  BY ConstantsAssumption DEF SharedTypes, DrainTypes, DrainerAgrees, ScanPeer, BatchFull
<1>2. CASE Peer(batch[d][1], u, rows[d])
  <2>1. /\ queue' = RemoveAt(queue, i)
        /\ state' = [state EXCEPT ![u] = "RUNNING"]
        /\ stats' = [stats EXCEPT !.pending = Dec(stats.pending), !.running = stats.running + 1]
        /\ batch' = [batch EXCEPT ![d] = Append(batch[d], u)]
        /\ rows' = [rows EXCEPT ![d] = rows[d] + call[u].rows]
        /\ UNCHANGED scan
    BY <1>2 DEF ScanPeer
  <2> HIDE DEF i, u
  <2>2. Take(d, i)
    BY <2>1 DEF Take, ScanPeer, u
  <2>3. call[u] \in Calls /\ call[u].rows \in 0..BatchMaxRows
    <3>1. pc[u] = "waiting"
      BY <1>1 DEF QueueLinksPending, u
    <3>2. QED BY <1>1, <3>1, ConstantsAssumption DEF PcAgrees, CallType
  <2>4. rows[d] + call[u].rows \in 0..BatchMaxRows
    <3>1. rows[d] \in 0..BatchMaxRows
      BY DEF DrainTypes
    <3>2. call[u].rows <= BatchMaxRows - rows[d]
      BY <1>2 DEF Peer
    <3>3. QED BY <2>3, <3>1, <3>2, ConstantsAssumption
  <2>5. SubmitTypes'
    BY <1>1, <2>2, TakeInv DEF SubmitTypes, ScanPeer
  <2>6. stats' \in StatsType
    BY <2>1, StatsAreCounts, StatsUpdates
  <2>7. SharedTypes'
    <3>1. queue' \in Seq(Threads)
      BY <1>1, <2>2, TakeInv
    <3>2. QED BY <2>6, <3>1 DEF SharedTypes, ScanPeer, ownerVars, mainVars
  <2>8. /\ Append(batch[d], u) \in Seq(Threads)
        /\ Len(Append(batch[d], u)) = Len(batch[d]) + 1
        /\ Append(batch[d], u) # <<>>
        /\ batch[d] # <<>> => Append(batch[d], u)[1] = batch[d][1]
    <3>1. batch[d] \in Seq(Threads) /\ Len(batch[d]) \in Nat
      BY DEF DrainTypes
    <3>2. /\ Append(batch[d], u) \in Seq(Threads)
          /\ Len(Append(batch[d], u)) = Len(batch[d]) + 1
          /\ \A k \in 1..Len(batch[d]) : Append(batch[d], u)[k] = batch[d][k]
      BY <1>1, <3>1, AppendProperties
    <3>3. batch[d] # <<>> => 1 \in 1..Len(batch[d])
      BY <3>1
    <3>4. Append(batch[d], u) # <<>>
      BY <3>1, <3>2
    <3>5. batch[d] # <<>> => Append(batch[d], u)[1] = batch[d][1]
      BY <3>2, <3>3
    <3>6. QED BY <3>2, <3>4, <3>5
  <2>9. DrainTypes'
    <3>1. \A e \in Drainers : Len(batch'[e]) <= BatchMaxRequests
      BY <1>1, <2>1, <2>8, ConstantsAssumption DEF DrainTypes
    <3>2. batch' \in [Drainers -> Seq(Threads)]
      BY <2>1, <2>8 DEF DrainTypes
    <3>3. rows' \in [Drainers -> 0..BatchMaxRows]
      BY <2>1, <2>4 DEF DrainTypes
    <3>4. QED BY <2>1, <3>1, <3>2, <3>3 DEF DrainTypes, ScanPeer
  <2>10. DrainerAgrees'
    BY <2>1, <2>8 DEF DrainTypes, DrainerAgrees, ScanPeer
  <2>11. QED BY <2>2, <2>5, <2>7, <2>9, <2>10, <1>1, TakeInv
<1>3. CASE ~Peer(batch[d][1], u, rows[d])
  <2>1. /\ scan' = [scan EXCEPT ![d] = scan[d] + 1]
        /\ UNCHANGED <<queue, state, stats, batch, rows>>
    BY <1>3 DEF ScanPeer
  <2>2. SubmitTypes' /\ SharedTypes' /\ QueueLinksPending' /\ PcAgrees'
    BY <2>1, DrainerFrame DEF SubmitTypes, SharedTypes, ScanPeer, ownerVars, mainVars
  <2>3. DrainTypes'
    BY <2>1 DEF DrainTypes, ScanPeer
  <2>4. DrainerAgrees'
    BY <2>1 DEF DrainTypes, DrainerAgrees, ScanPeer
  <2>5. RunningIsBorrowed'
    BY <2>1, OpenFrame DEF ScanPeer, Open
  <2>6. QED BY <2>2, <2>3, <2>4, <2>5
<1>4. QED BY <1>2, <1>3

(* Answering one request of a batch ends one loan and no other. *)
LEMMA AnsweredBorrow ==
  ASSUME QueueInv, NEW d \in Drainers, NEW j \in Open(d),
         \A e \in Drainers \ {d} : Open(e)' = Open(e),
         Open(d)' = Open(d) \ {j},
         \A e \in Drainers : \A k \in Open(e)' : batch'[e][k] = batch[e][k],
         \A u \in Threads : state'[u] = IF u = batch[d][j] THEN "DONE" ELSE state[u],
         UNCHANGED pc
  PROVE  RunningIsBorrowed'
<1> USE DEF QueueInv
<1>1. \A e \in Drainers : \A k \in Open(e) :
        batch[e][k] \in Threads /\ state[batch[e][k]] = "RUNNING"
  BY DEF TypeOK, DrainTypes, RunningIsBorrowed, Open, DrainerAgrees
<1>2. \A e \in Drainers : \A k \in Open(e)' : k \in Open(e) /\ (e # d \/ k # j)
  OBVIOUS
<1>3. ASSUME NEW e \in Drainers, NEW k \in Open(e)'
      PROVE  /\ state'[batch'[e][k]] = "RUNNING"
             /\ \A f \in Drainers : \A l \in Open(f)' :
                  batch'[f][l] = batch'[e][k] => f = e /\ l = k
  <2>1. batch[e][k] # batch[d][j]
    BY <1>2, <1>3 DEF RunningIsBorrowed
  <2>2. state'[batch'[e][k]] = "RUNNING"
    BY <1>1, <1>2, <1>3, <2>1
  <2>3. \A f \in Drainers : \A l \in Open(f)' : batch'[f][l] = batch'[e][k] => f = e /\ l = k
    BY <1>2, <1>3 DEF RunningIsBorrowed
  <2>4. QED BY <2>2, <2>3
<1>4. ASSUME NEW u \in Threads, state'[u] = "RUNNING"
      PROVE  pc'[u] = "waiting" /\ \E e \in Drainers : \E k \in Open(e)' : batch'[e][k] = u
  <2>1. u # batch[d][j] /\ state[u] = "RUNNING"
    BY <1>4
  <2>2. pc[u] = "waiting"
    BY <2>1 DEF RunningIsBorrowed
  <2>3. PICK e \in Drainers : \E k \in Open(e) : batch[e][k] = u
    BY <2>1 DEF RunningIsBorrowed
  <2>4. PICK k \in Open(e) : batch[e][k] = u
    BY <2>3
  <2>5. k \in Open(e)'
    BY <2>1, <2>4
  <2>6. QED BY <2>2, <2>4, <2>5
<1>5. QED BY <1>3, <1>4 DEF RunningIsBorrowed

LEMMA PublishInv ==
  ASSUME QueueInv, NEW d \in Drainers, Publish(d)
  PROVE  QueueInv'
<1> USE DEF QueueInv, TypeOK
<1> DEFINE t == batch[d][fin[d]]
<1>1. /\ fin[d] \in 1..Len(batch[d]) /\ fin[d] \in Open(d) /\ batch[d] \in Seq(Threads)
      /\ Len(batch[d]) \in Nat /\ Len(batch[d]) <= BatchMaxRequests
      /\ t \in Threads /\ dpc[d] = "publishing"
  BY DEF Publish, DrainerAgrees, DrainTypes, Open
<1>2. state[t] = "RUNNING" /\ pc[t] = "waiting"
  BY <1>1 DEF RunningIsBorrowed
<1>3. /\ state' = [state EXCEPT ![t] = "DONE"]
      /\ replyOk' = [replyOk EXCEPT ![t] = batchOk[d]]
      /\ result' = [result EXCEPT ![t] = IF batchOk[d] THEN batch[d][fin[d]] ELSE NoThread]
  BY DEF Publish, ChunkOf
<1> HIDE DEF t
<1>4. SubmitTypes'
  <2>1. batchOk[d] \in BOOLEAN
    BY DEF DrainTypes
  <2>2. replyOk' \in [Threads -> BOOLEAN]
    BY <1>3, <2>1 DEF SubmitTypes
  <2>3. result' \in [Threads -> Threads \cup {NoThread}]
    BY <1>1, <1>3 DEF SubmitTypes, t
  <2>4. QED BY <1>3, <2>2, <2>3 DEF SubmitTypes, Publish
<1>5. stats' \in StatsType
  <2>1. stats' = [stats EXCEPT !.executed = stats.executed + 1, !.running = Dec(stats.running)]
    BY DEF Publish
  <2>2. QED BY <2>1, StatsAreCounts, StatsUpdates
<1>6. SharedTypes'
  BY <1>5 DEF SharedTypes, Publish, ownerVars, mainVars
<1>7. QueueLinksPending'
  BY <1>2, <1>3 DEF SubmitTypes, QueueLinksPending, Publish
<1>8. PcAgrees'
  BY <1>2, <1>3 DEF SubmitTypes, PcAgrees, Publish
<1>9. \A u \in Threads : state'[u] = IF u = t THEN "DONE" ELSE state[u]
  BY <1>3 DEF SubmitTypes
<1>10. CASE fin[d] < Len(batch[d])
  <2>1. /\ dpc' = [dpc EXCEPT ![d] = "finishing"]
        /\ fin' = [fin EXCEPT ![d] = fin[d] + 1]
        /\ UNCHANGED <<batch, rows, batchOk, drained, scan, lockHolder>>
    BY <1>10 DEF Publish
  <2>2. fin[d] + 1 \in 0..BatchMaxRequests /\ fin[d] + 1 \in 1..Len(batch[d])
    BY <1>1, <1>10, ConstantsAssumption
  <2>3. DrainTypes'
    BY <2>1, <2>2 DEF DrainTypes
  <2>4. DrainerAgrees'
    BY <2>1, <2>2 DEF DrainTypes, DrainerAgrees, Publish
  <2>5. /\ \A e \in Drainers \ {d} : Open(e)' = Open(e)
        /\ Open(d)' = (fin[d] + 1)..Len(batch[d]) /\ Open(d) = fin[d]..Len(batch[d])
    BY <1>1, <2>1 DEF Open, DrainTypes
  <2>6. Open(d)' = Open(d) \ {fin[d]}
    BY <1>1, <2>5
  <2>7. QED BY <1>1, <1>2, <1>4, <1>6, <1>7, <1>8, <1>9, <2>1, <2>3, <2>4, <2>5, <2>6,
               AnsweredBorrow DEF Publish, t
<1>11. CASE ~(fin[d] < Len(batch[d]))
  <2>1. /\ dpc' = [dpc EXCEPT ![d] = "draining"]
        /\ drained' = [drained EXCEPT ![d] = drained[d] + Len(batch[d])]
        /\ batch' = [batch EXCEPT ![d] = <<>>]
        /\ rows' = [rows EXCEPT ![d] = 0]
        /\ batchOk' = [batchOk EXCEPT ![d] = FALSE]
        /\ fin' = [fin EXCEPT ![d] = 0]
        /\ UNCHANGED <<scan, lockHolder>>
    BY <1>11 DEF Publish
  <2>2. /\ 0 \in 0..BatchMaxRequests /\ 0 \in 0..BatchMaxRows /\ drained[d] + Len(batch[d]) \in Nat
        /\ <<>> \in Seq(Threads) /\ Len(<<>>) = 0
    BY <1>1, ConstantsAssumption DEF DrainTypes
  <2>3. DrainTypes'
    <3>1. batch' \in [Drainers -> Seq(Threads)]
      BY <2>1, <2>2 DEF DrainTypes
    <3>2. \A e \in Drainers : Len(batch'[e]) <= BatchMaxRequests
      BY <2>1, <2>2, ConstantsAssumption DEF DrainTypes
    <3>3. QED BY <2>1, <2>2, <3>1, <3>2 DEF DrainTypes
  <2>4. DrainerAgrees'
    BY <2>1 DEF DrainTypes, DrainerAgrees, Publish
  <2>5. /\ \A e \in Drainers \ {d} : Open(e)' = Open(e) /\ batch'[e] = batch[e]
        /\ Open(d)' = 1..0 /\ Open(d) = fin[d]..Len(batch[d])
    BY <1>1, <2>1, <2>2 DEF Open, DrainTypes
  <2>6. Open(d)' = Open(d) \ {fin[d]}
    BY <1>1, <1>11, <2>5
  <2>7. \A e \in Drainers : \A k \in Open(e)' : batch'[e][k] = batch[e][k]
    BY <2>5
  <2>8. QED BY <1>1, <1>2, <1>4, <1>6, <1>7, <1>8, <1>9, <2>3, <2>4, <2>5, <2>6, <2>7,
               AnsweredBorrow DEF Publish, t
<1>12. QED BY <1>10, <1>11

-----------------------------------------------------------------------------
(* The R thread around its drains. *)

LEMMA SpawnHelperInv ==
  ASSUME QueueInv, NEW c \in Calls, SpawnHelper(c)
  PROVE  QueueInv'
<1> USE DEF QueueInv, TypeOK
<1>1. calls[Helper] + 1 \in 0..MaxCalls /\ Helper \in Threads
  BY ConstantsAssumption DEF SubmitTypes, SpawnHelper
<1>2. SubmitTypes'
  BY <1>1 DEF SubmitTypes, SharedTypes, SpawnHelper, Outcomes
<1>3. SharedTypes'
  BY DEF SharedTypes, SpawnHelper, ownerVars, Outcomes
<1>4. DrainTypes'
  BY DEF DrainTypes, SpawnHelper, drainVars
<1>5. QueueLinksPending'
  BY <1>1 DEF SubmitTypes, QueueLinksPending, SpawnHelper
<1>6. PcAgrees'
  BY <1>1 DEF SubmitTypes, PcAgrees, SpawnHelper
<1>7. DrainerAgrees' /\ RunningIsBorrowed'
  BY <1>1, BorrowFrame DEF SubmitTypes, PcAgrees, SpawnHelper
<1>8. QED BY <1>2, <1>3, <1>4, <1>5, <1>6, <1>7

(* The other steps of the R thread, a self-test's interrupt and a stuttering
   step touch neither requests nor drainers. *)
LEMMA ControlInv ==
  ASSUME QueueInv,
         UNCHANGED <<queue, lockHolder, submitVars, stats, metaPending, workersSeen, drainVars>>,
         cancelGen' \in 0..MaxGen,
         stopping' \in [Owners -> BOOLEAN], ownerError' \in [Owners -> BOOLEAN],
         mode' \in {"r", "poll", "linger", "join", "pump"},
         pumped' \in Owners \cup {NoOwner}, interrupted' \in BOOLEAN,
         mainOutcome' \in Outcomes
  PROVE  QueueInv'
<1> USE DEF QueueInv, TypeOK
<1>1. SubmitTypes'
  BY DEF SubmitTypes, submitVars
<1>2. SharedTypes'
  BY DEF SharedTypes
<1>3. DrainTypes'
  BY DEF DrainTypes, drainVars
<1>4. QueueLinksPending'
  BY DEF QueueLinksPending, submitVars
<1>5. PcAgrees'
  BY DEF PcAgrees, submitVars
<1>6. DrainerAgrees' /\ RunningIsBorrowed'
  BY BorrowFrame DEF submitVars
<1>7. QED BY <1>1, <1>2, <1>3, <1>4, <1>5, <1>6

LEMMA MainStepInv ==
  ASSUME QueueInv, MainStep
  PROVE  QueueInv'
<1>1. SharedTypes /\ SubmitTypes
  BY DEF QueueInv, TypeOK
<1>2. ASSUME RaiseCancel PROVE cancelGen' \in 0..MaxGen
  BY <1>1, <1>2, ConstantsAssumption DEF RaiseCancel, SharedTypes
<1>3. ASSUME NEW c \in Calls, SpawnHelper(c) PROVE QueueInv'
  BY <1>3, SpawnHelperInv
<1>4. CASE PollInterrupted
  BY <1>1, <1>2, <1>4, ControlInv DEF PollInterrupted, SharedTypes, ownerVars
<1>5. CASE EndPoll
  BY <1>1, <1>5, ControlInv DEF EndPoll, SharedTypes, ownerVars
<1>6. CASE Join
  <2>1. mainOutcome' \in Outcomes
    BY <1>1, <1>6, ConstantsAssumption DEF Join, SubmitTypes, Outcomes
  <2>2. QED BY <1>1, <1>6, <2>1, ControlInv DEF Join, SharedTypes, ownerVars
<1>7. ASSUME NEW o \in Owners, BeginPump(o) PROVE QueueInv'
  BY <1>1, <1>7, ControlInv DEF BeginPump, SharedTypes, ownerVars
<1>8. ASSUME NEW o \in Owners, StopOwner(o) PROVE QueueInv'
  BY <1>1, <1>8, ControlInv DEF StopOwner, SharedTypes, mainVars
<1>9. CASE PumpInterrupted
  BY <1>1, <1>9, ControlInv DEF PumpInterrupted, FailOwner, SharedTypes, mainVars
<1>10. CASE EndPump
  BY <1>1, <1>10, ControlInv DEF EndPump, SharedTypes, ownerVars
<1>11. QED BY <1>3, <1>4, <1>5, <1>6, <1>7, <1>8, <1>9, <1>10 DEF MainStep

LEMMA NextInv == QueueInv /\ [Next]_vars => QueueInv'
<1> SUFFICES ASSUME QueueInv, [Next]_vars PROVE QueueInv'
  OBVIOUS
<1>1. ASSUME NEW t \in Threads, NEW c \in Calls, Arrive(t, c) PROVE QueueInv'
  BY <1>1, ArriveInv
<1>2. ASSUME NEW t \in Threads, SubmitterStep(t) PROVE QueueInv'
  BY <1>2, SnapshotFailsInv, SubmitInv, RejectInv, PushInv, WithdrawInv, TimeoutInv, LeaveInv,
     CollectInv DEF SubmitterStep
<1>3. ASSUME NEW d \in Drainers, DrainStep(d) PROVE QueueInv'
  BY <1>3, StartDrainInv, PopInv, BeginPeersInv, ScanPeerInv, EndPeersInv, EvaluateInv,
     FinishMetaInv, PublishInv, EndDrainInv DEF DrainStep
<1>4. ASSUME NEW d \in Drainers, SelfTestCancel(d) PROVE QueueInv'
  <2>1. SharedTypes
    BY DEF QueueInv, TypeOK
  <2>2. cancelGen' \in 0..MaxGen
    BY <1>4, <2>1, ConstantsAssumption DEF SelfTestCancel, RaiseCancel, SharedTypes
  <2>3. QED BY <1>4, <2>1, <2>2, ControlInv DEF SelfTestCancel, SharedTypes, ownerVars, mainVars
<1>5. CASE MainStep
  BY <1>5, MainStepInv
<1>6. CASE UNCHANGED vars
  <2>1. SharedTypes
    BY DEF QueueInv, TypeOK
  <2>2. QED BY <1>6, <2>1, ControlInv DEF vars, SharedTypes, ownerVars, mainVars
<1>7. QED BY <1>1, <1>2, <1>3, <1>4, <1>5, <1>6 DEF Next

-----------------------------------------------------------------------------
(* The inductive invariant holds in every reachable state. *)
THEOREM Invariant == Spec => []QueueInv
<1>1. QED BY InitInv, NextInv, PTL DEF Spec

(* Every variable of the queue keeps its type, for any number of threads: in
   particular batch[] of rducks_queue_drain_impl is never overrun and the rows
   of one R call stay within RDUCKS_QUEUE_BATCH_MAX_ROWS. *)
THEOREM TypeCorrect == Spec => []TypeOK
<1>1. QueueInv => TypeOK
  BY DEF QueueInv
<1>2. QED BY Invariant, <1>1, PTL

(* The queue's list holds exactly the requests that wait to be drained, each
   once. *)
THEOREM ListIsExact == Spec => []QueueLinksPending
<1>1. QueueInv => QueueLinksPending
  BY DEF QueueInv
<1>2. QED BY Invariant, <1>1, PTL

(* A drainer never holds a pointer into a stack frame that is gone, and no two
   drainers hold the same request. *)
THEOREM BorrowsAreSafe == Spec => []RunningIsBorrowed
<1>1. QueueInv => RunningIsBorrowed
  BY DEF QueueInv
<1>2. QED BY Invariant, <1>1, PTL

(*------------------- evaluations, gauges, the contract -------------------*)

(* The R thread drains only while it polls, lingers or pumps a query. *)
ModeAgrees ==
  /\ mode \in {"r", "join"} => dpc[Main] = "idle"
  /\ mode = "pump" => pumped \in Owners

(* The helper submits the R thread's own chunk. *)
HelperAgrees == pc[Helper] # "idle" => call[Helper].owner = NoOwner /\ ~call[Helper].diag

(* A request is evaluated when it is borrowed, with its whole batch, and not
   before; a good answer comes from an evaluation. *)
EvalsAgree ==
  /\ \A t \in Threads : pc[t] # "idle" /\ state[t] \notin {"RUNNING", "DONE"} => evals[t] = 0
  /\ \A d \in Drainers : \A k \in Open(d) :
       /\ dpc[d] \notin {"finishing", "publishing"} => evals[batch[d][k]] = 0
       /\ dpc[d] \in {"finishing", "publishing"} /\ batchOk[d] => evals[batch[d][k]] > 0

(* What a submission is about to return. *)
AnswersAgree ==
  \A t \in Threads :
    /\ pc[t] = "leaving" => outcome[t] \in {"error", "cancelled", "timeout"}
    /\ state[t] = "DONE" /\ replyOk[t] => result[t] = t

LoanInv ==
  BatchUniform /\ RightDrainer /\ ModeAgrees /\ HelperAgrees /\ EvalsAgree /\ AnswersAgree

-----------------------------------------------------------------------------
(* The kinds of steps, by what they do to the requests. *)
Same(u) ==
  /\ pc'[u] = pc[u] /\ state'[u] = state[u] /\ call'[u] = call[u] /\ gen'[u] = gen[u]
  /\ result'[u] = result[u] /\ replyOk'[u] = replyOk[u] /\ outcome'[u] = outcome[u]
  /\ evals'[u] = evals[u]

OthersSame(t) == \A u \in Threads \ {t} : Same(u)

(* a submission begins *)
Begins(t, c) ==
  /\ pc[t] = "idle" /\ pc'[t] = "arriving" /\ state[t] = "none" /\ state'[t] = "none"
  /\ call'[t] = c /\ evals'[t] = 0 /\ outcome'[t] = "none" /\ OthersSame(t)
  /\ t = Helper => c.owner = NoOwner /\ ~c.diag
  /\ UNCHANGED <<drainVars, ownerVars, pumped>>
  /\ mode' = mode \/ (mode = "r" /\ mode' = "poll")

(* a thread goes on with its request, which no drainer holds *)
GoesOn(t) ==
  /\ pc[t] # "idle" /\ pc'[t] # "idle" /\ state[t] \notin {"RUNNING", "DONE"}
  /\ state'[t] \notin {"RUNNING", "DONE"} /\ call'[t] = call[t] /\ evals'[t] = evals[t]
  /\ pc'[t] = "leaving" => outcome'[t] \in {"error", "cancelled", "timeout"}
  /\ OthersSame(t) /\ UNCHANGED <<drainVars, ownerVars, mode, pumped>>

(* or returns from it *)
Returns(t) ==
  /\ pc[t] # "idle" /\ state[t] # "RUNNING" /\ pc'[t] = "idle" /\ state'[t] = "none"
  /\ evals'[t] = evals[t]
  /\ state[t] = "DONE" => \E written \in BOOLEAN :
                             outcome'[t] = IF replyOk[t] /\ written THEN "ok" ELSE "error"
  /\ state[t] # "DONE" => outcome'[t] \in {"error", "cancelled", "timeout"}
  /\ OthersSame(t) /\ UNCHANGED <<drainVars, ownerVars, mode, pumped>>

(* the R thread or a drainer goes on, with the batches it has *)
Answering(d) == dpc[d] \in {"finishing", "publishing"}
Quiet ==
  /\ UNCHANGED <<submitVars, batch, batchOk, fin>>
  /\ \A d \in Drainers : /\ Answering(d)' <=> Answering(d)
                         /\ DrainOwner(d)' = DrainOwner(d) \/ dpc[d] = "idle"

Kinds ==
  \/ \E t \in Threads, c \in Calls : Begins(t, c)
  \/ \E t \in Threads : GoesOn(t) \/ Returns(t)
  \/ \E d \in Drainers : Pop(d) \/ (ScanPeer(d) /\ batch' # batch) \/ Evaluate(d) \/ Publish(d)
  \/ Quiet

LEMMA BeginsKind ==
  ASSUME QueueInv, NEW t \in Threads, NEW c \in Calls,
         Arrive(t, c) \/ (SpawnHelper(c) /\ t = Helper)
  PROVE  Begins(t, c)
<1>1. SubmitTypes /\ state[t] = "none"
  BY DEF QueueInv, TypeOK, PcAgrees, Arrive, SpawnHelper
<1>2. CASE Arrive(t, c)
  BY <1>1, <1>2 DEF Arrive, Begins, OthersSame, Same, SubmitTypes, mainVars
<1>3. CASE SpawnHelper(c) /\ t = Helper
  BY <1>1, <1>3 DEF SpawnHelper, Begins, OthersSame, Same, SubmitTypes
<1> QED BY <1>2, <1>3

LEMMA SubmitterKind ==
  ASSUME QueueInv, AnswersAgree, NEW t \in Threads, SubmitterStep(t)
  PROVE  GoesOn(t) \/ Returns(t)
<1>1. SubmitTypes /\ PcAgrees /\ QueueLinksPending /\ SharedTypes
  BY DEF QueueInv, TypeOK
<1>2. CASE SnapshotFails(t)
  BY <1>1, <1>2 DEF SnapshotFails, Returns, OthersSame, Same, SubmitTypes, PcAgrees, mainVars
<1>3. CASE Submit(t)
  BY <1>1, <1>3 DEF Submit, GoesOn, OthersSame, Same, SubmitTypes, PcAgrees, mainVars
<1>4. CASE Reject(t)
  BY <1>1, <1>4 DEF Reject, Leaving, GoesOn, OthersSame, Same, SubmitTypes, PcAgrees, mainVars
<1>5. CASE Push(t)
  BY <1>1, <1>5 DEF Push, Leaving, GoesOn, OthersSame, Same, SubmitTypes, PcAgrees, mainVars
<1>6. CASE Withdraw(t)
  BY <1>1, <1>6 DEF Withdraw, Unlink, Leaving, GoesOn, OthersSame, Same, SubmitTypes, mainVars
<1>7. CASE Timeout(t)
  BY <1>1, <1>7 DEF Timeout, Unlink, Leaving, GoesOn, OthersSame, Same, SubmitTypes, mainVars
<1>8. CASE Leave(t)
  BY <1>1, <1>8 DEF Leave, Forget, Returns, OthersSame, Same, SubmitTypes, PcAgrees, mainVars,
                    AnswersAgree
<1>9. CASE Collect(t)
  BY <1>1, <1>9 DEF Collect, Answered, Forget, Returns, OthersSame, Same, SubmitTypes, mainVars
<1> QED BY <1>2, <1>3, <1>4, <1>5, <1>6, <1>7, <1>8, <1>9 DEF SubmitterStep

LEMMA DrainerKind ==
  ASSUME QueueInv, NEW d \in Drainers,
         StartDrain(d) \/ BeginPeers(d) \/ EndPeers(d) \/ FinishMeta(d) \/ EndDrain(d)
         \/ (ScanPeer(d) /\ batch' = batch)
  PROVE  Quiet
<1>1. DrainTypes /\ SharedTypes
  BY DEF QueueInv, TypeOK
<1>2. CASE StartDrain(d)
  BY <1>1, <1>2 DEF StartDrain, Quiet, Answering, DrainOwner, DrainTypes, mainVars
<1>3. CASE BeginPeers(d)
  BY <1>1, <1>3 DEF BeginPeers, Quiet, Answering, DrainOwner, DrainTypes, mainVars
<1>4. CASE EndPeers(d)
  BY <1>1, <1>4 DEF EndPeers, Quiet, Answering, DrainOwner, DrainTypes, mainVars
<1>5. CASE FinishMeta(d)
  BY <1>1, <1>5 DEF FinishMeta, Quiet, Answering, DrainOwner, DrainTypes, mainVars
<1>6. CASE EndDrain(d)
  BY <1>1, <1>6 DEF EndDrain, Quiet, Answering, DrainOwner, DrainTypes
<1>7. CASE ScanPeer(d) /\ batch' = batch
  <2>1. ~Peer(batch[d][1], queue[scan[d]], rows[d])
    <3>1. batch[d] # Append(batch[d], queue[scan[d]])
      <4>1. batch[d] \in Seq(Threads) /\ scan[d] \in 1 .. Len(queue) /\ queue[scan[d]] \in Threads
        BY <1>1, <1>7 DEF QueueInv, ScanPeer, DrainTypes, DrainerAgrees, SharedTypes
      <4>2. Len(Append(batch[d], queue[scan[d]])) = Len(batch[d]) + 1 /\ Len(batch[d]) \in Nat
        BY <4>1, AppendProperties
      <4> QED BY <4>2
    <3> QED BY <1>1, <1>7, <3>1 DEF ScanPeer, DrainTypes
  <2> QED BY <1>7, <2>1 DEF ScanPeer, Quiet, Answering, DrainOwner, mainVars, submitVars
<1> QED BY <1>2, <1>3, <1>4, <1>5, <1>6, <1>7

LEMMA MainKind ==
  ASSUME QueueInv, ModeAgrees,
         \/ PollInterrupted \/ EndPoll \/ Join \/ PumpInterrupted \/ EndPump
         \/ \E o \in Owners : BeginPump(o) \/ StopOwner(o)
         \/ \E d \in Drainers : SelfTestCancel(d)
         \/ UNCHANGED vars
  PROVE  Quiet
<1>1. UNCHANGED <<submitVars, drainVars>>
  BY DEF PollInterrupted, EndPoll, Join, PumpInterrupted, EndPump, BeginPump, StopOwner,
         SelfTestCancel, vars
<1>2. UNCHANGED <<mode, pumped>> \/ dpc[Main] = "idle"
  BY DEF PollInterrupted, EndPoll, Join, PumpInterrupted, EndPump, BeginPump, StopOwner,
         SelfTestCancel, vars, mainVars, BetweenDrains, ModeAgrees
<1> QED BY <1>1, <1>2 DEF Quiet, drainVars, Answering, DrainOwner

LEMMA StepKinds ==
  ASSUME QueueInv, LoanInv, [Next]_vars
  PROVE  Kinds
<1>1. ModeAgrees /\ AnswersAgree /\ Helper \in Threads
  BY ConstantsAssumption DEF LoanInv
<1>2. ASSUME NEW t \in Threads, NEW c \in Calls, Arrive(t, c)
      PROVE  Kinds
  BY <1>2, BeginsKind DEF Kinds
<1>3. ASSUME NEW t \in Threads, SubmitterStep(t)
      PROVE  Kinds
  BY <1>1, <1>3, SubmitterKind DEF Kinds
<1>4. ASSUME NEW d \in Drainers, DrainStep(d)
      PROVE  Kinds
  BY <1>4, DrainerKind DEF DrainStep, Kinds
<1>5. ASSUME NEW d \in Drainers, SelfTestCancel(d)
      PROVE  Kinds
  BY <1>1, <1>5, MainKind DEF Kinds
<1>6. ASSUME MainStep
      PROVE  Kinds
  BY <1>1, <1>6, MainKind, BeginsKind DEF MainStep, Kinds
<1>7. CASE UNCHANGED vars
  BY <1>1, <1>7, MainKind DEF Kinds
<1> QED BY <1>2, <1>3, <1>4, <1>5, <1>6, <1>7 DEF Next
-----------------------------------------------------------------------------
(* What a drainer still has to answer is a waiting request. *)
LEMMA LoanFacts ==
  ASSUME QueueInv, NEW d \in Drainers, NEW k \in Open(d)
  PROVE  /\ batch[d][k] \in Threads /\ k \in 1..Len(batch[d])
         /\ dpc[d] \notin {"idle", "draining"}
         /\ state[batch[d][k]] = "RUNNING" /\ pc[batch[d][k]] = "waiting"
         /\ call[batch[d][k]] \in Calls
<1>1. k \in 1..Len(batch[d]) /\ batch[d] \in Seq(Threads)
  BY DEF QueueInv, TypeOK, DrainTypes, DrainerAgrees, Open
<1>2. batch[d][k] \in Threads /\ state[batch[d][k]] = "RUNNING"
  BY <1>1 DEF QueueInv, RunningIsBorrowed
<1>3. pc[batch[d][k]] = "waiting" /\ call[batch[d][k]] \in Calls
  BY <1>2 DEF QueueInv, RunningIsBorrowed, PcAgrees
<1>4. dpc[d] \notin {"idle", "draining"}
  <2>1. batch[d] # <<>>
    BY <1>1
  <2> QED BY <2>1 DEF QueueInv, DrainerAgrees
<1> QED BY <1>1, <1>2, <1>3, <1>4

(* A step that lends nothing keeps who holds what. *)
LEMMA LoanFrame ==
  ASSUME QueueInv, BatchUniform, RightDrainer,
         \A d \in Drainers : \A k \in Open(d)' : k \in Open(d) /\ batch'[d][k] = batch[d][k],
         \A u \in Threads : state[u] = "RUNNING" => call'[u] = call[u] /\ gen'[u] = gen[u],
         \A d \in Drainers : DrainOwner(d)' = DrainOwner(d) \/ dpc[d] = "idle"
  PROVE  BatchUniform' /\ RightDrainer'
<1>1. ASSUME NEW d \in Drainers, NEW k \in Open(d)'
      PROVE  /\ k \in Open(d) /\ batch'[d][k] = batch[d][k] /\ DrainOwner(d)' = DrainOwner(d)
             /\ call'[batch[d][k]] = call[batch[d][k]] /\ gen'[batch[d][k]] = gen[batch[d][k]]
  BY <1>1, LoanFacts
<1>2. BatchUniform'
  <2> SUFFICES ASSUME NEW d \in Drainers, NEW k \in Open(d)', NEW l \in Open(d)'
               PROVE  LET t == batch'[d][k]  u == batch'[d][l] IN
                      /\ call'[t].meta = call'[u].meta /\ call'[t].owner = call'[u].owner
                      /\ gen'[t] = gen'[u]
                      /\ k # l => call'[t].batchable /\ call'[u].batchable
    BY DEF BatchUniform
  <2>1. k \in Open(d) /\ l \in Open(d)
    BY <1>1
  <2>2. LET t == batch[d][k]  u == batch[d][l] IN
        /\ call[t].meta = call[u].meta /\ call[t].owner = call[u].owner /\ gen[t] = gen[u]
        /\ k # l => call[t].batchable /\ call[u].batchable
    BY <2>1 DEF BatchUniform
  <2> QED BY <1>1, <2>2
<1>3. RightDrainer'
  <2> SUFFICES ASSUME NEW d \in Drainers, NEW k \in Open(d)'
               PROVE  /\ d # Main => call'[batch'[d][k]].diag
                      /\ call'[batch'[d][k]].owner = DrainOwner(d)'
    BY DEF RightDrainer
  <2>1. k \in Open(d)
    BY <1>1
  <2>2. (d # Main => call[batch[d][k]].diag) /\ call[batch[d][k]].owner = DrainOwner(d)
    BY <2>1 DEF RightDrainer
  <2> QED BY <1>1, <2>2
<1> QED BY <1>2, <1>3

(* What a drainer that takes a request has to answer afterwards. *)
LEMMA TakeOpen ==
  ASSUME QueueInv, NEW d \in Drainers, NEW i \in 1..Len(queue), Take(d, i)
  PROVE  /\ queue[i] \in Threads /\ pc[queue[i]] = "waiting" /\ state[queue[i]] = "PENDING"
         /\ \A e \in Drainers \ {d} : Open(e)' = Open(e) /\ batch'[e] = batch[e]
         /\ \A k \in Open(d)' : \/ batch'[d][k] = queue[i] /\ k = Len(batch[d]) + 1
                                \/ k \in Open(d) /\ batch'[d][k] = batch[d][k]
<1> DEFINE t == queue[i]
           b == Append(batch[d], t)
<1>1. batch[d] \in Seq(Threads) /\ Len(batch[d]) \in Nat /\ t \in Threads
  BY DEF QueueInv, TypeOK, DrainTypes, SharedTypes
<1>2. pc[t] = "waiting" /\ state[t] = "PENDING"
  BY <1>1 DEF QueueInv, QueueLinksPending
<1>3. /\ Len(b) = Len(batch[d]) + 1
      /\ \A k \in 1..Len(b) : b[k] = IF k = Len(batch[d]) + 1 THEN t ELSE batch[d][k]
  BY <1>1, AppendProperties
<1> HIDE DEF b
<1>4. batch' = [batch EXCEPT ![d] = b] /\ batch \in [Drainers -> Seq(Threads)]
  BY DEF Take, b, QueueInv, TypeOK, DrainTypes
<1>5. batch'[d] = b /\ \A e \in Drainers \ {d} : batch'[e] = batch[e]
  BY <1>4
<1>6. /\ Open(d) = 1..Len(batch[d]) /\ Open(d)' = 1..Len(b)
      /\ \A e \in Drainers \ {d} : Open(e)' = Open(e)
  BY <1>5 DEF Open, Take
<1>7. ASSUME NEW k \in Open(d)'
      PROVE  \/ batch'[d][k] = t /\ k = Len(batch[d]) + 1
             \/ k \in Open(d) /\ batch'[d][k] = batch[d][k]
  <2>1. k \in 1..Len(b)
    BY <1>6
  <2>2. CASE k = Len(batch[d]) + 1
    BY <1>3, <1>5, <2>1, <2>2
  <2>3. CASE k # Len(batch[d]) + 1
    <3>1. k \in 1..Len(batch[d])
      BY <1>1, <1>3, <2>1, <2>3
    <3> QED BY <1>3, <1>5, <1>6, <2>1, <2>3, <3>1
  <2> QED BY <2>2, <2>3
<1> QED BY <1>1, <1>2, <1>5, <1>6, <1>7

(* A request joins a batch of its kind, or opens a new one. *)
LEMMA TakeLoan ==
  ASSUME QueueInv, BatchUniform, RightDrainer,
         NEW d \in Drainers, NEW i \in 1..Len(queue), Take(d, i),
         UNCHANGED <<gen, mode, pumped>>,
         d # Main => call[queue[i]].diag,
         call[queue[i]].owner = DrainOwner(d),
         \A k \in Open(d) :
           LET t == batch[d][k]  u == queue[i] IN
           /\ call[t].meta = call[u].meta /\ call[t].owner = call[u].owner /\ gen[t] = gen[u]
           /\ call[t].batchable /\ call[u].batchable
  PROVE  BatchUniform' /\ RightDrainer'
<1>1. UNCHANGED call
  BY DEF Take
<1>2. \A e \in Drainers : DrainOwner(e)' = DrainOwner(e)
  BY DEF DrainOwner
<1>3. BatchUniform'
  <2> SUFFICES ASSUME NEW e \in Drainers, NEW k \in Open(e)', NEW l \in Open(e)'
               PROVE  LET t == batch'[e][k]  u == batch'[e][l] IN
                      /\ call[t].meta = call[u].meta /\ call[t].owner = call[u].owner
                      /\ gen[t] = gen[u]
                      /\ k # l => call[t].batchable /\ call[u].batchable
    BY <1>1 DEF BatchUniform
  <2>1. CASE e # d
    BY <2>1, TakeOpen DEF BatchUniform
  <2>2. CASE e = d
    <3>1. /\ \/ batch'[d][k] = queue[i] /\ k = Len(batch[d]) + 1
             \/ k \in Open(d) /\ batch'[d][k] = batch[d][k]
          /\ \/ batch'[d][l] = queue[i] /\ l = Len(batch[d]) + 1
             \/ l \in Open(d) /\ batch'[d][l] = batch[d][l]
      BY <2>2, TakeOpen
    <3> QED BY <2>2, <3>1 DEF BatchUniform
  <2> QED BY <2>1, <2>2
<1>4. RightDrainer'
  <2> SUFFICES ASSUME NEW e \in Drainers, NEW k \in Open(e)'
               PROVE  /\ e # Main => call[batch'[e][k]].diag
                      /\ call[batch'[e][k]].owner = DrainOwner(e)
    BY <1>1, <1>2 DEF RightDrainer
  <2>1. CASE e # d
    BY <2>1, TakeOpen DEF RightDrainer
  <2>2. CASE e = d
    <3>1. batch'[d][k] = queue[i] \/ (k \in Open(d) /\ batch'[d][k] = batch[d][k])
      BY <2>2, TakeOpen
    <3> QED BY <2>2, <3>1 DEF RightDrainer
  <2> QED BY <2>1, <2>2
<1> QED BY <1>3, <1>4

(* the two ways a drainer takes a request *)
LEMMA PopTake ==
  ASSUME QueueInv, NEW d \in Drainers, Pop(d)
  PROVE  \E i \in 1..Len(queue) :
           Take(d, i) /\ Poppable(d, i) /\ dpc[d] = "draining" /\ Open(d) = {}
<1>1. PICK i \in 1..Len(queue) :
        LET t == queue[i] IN
        /\ Poppable(d, i)
        /\ queue' = RemoveAt(queue, i)
        /\ state' = [state EXCEPT ![t] = "RUNNING"]
        /\ batch' = [batch EXCEPT ![d] = <<t>>]
        /\ rows' = [rows EXCEPT ![d] = call[t].rows]
        /\ dpc' = [dpc EXCEPT ![d] = IF Batchable(d, t) THEN "popped" ELSE "ready"]
  BY DEF Pop
<1>2. batch[d] = <<>> /\ dpc[d] = "draining" /\ UNCHANGED <<pc, call, fin>>
  BY DEF Pop, QueueInv, DrainerAgrees
<1>3. batch' = [batch EXCEPT ![d] = Append(batch[d], queue[i])]
  <2>1. Append(batch[d], queue[i]) = <<queue[i]>>
    BY <1>2
  <2> QED BY <1>1, <2>1
<1>4. dpc'[d] \in {"popped", "scanning", "ready"} /\ \A e \in Drainers \ {d} : dpc'[e] = dpc[e]
  BY <1>1 DEF QueueInv, TypeOK, DrainTypes
<1>5. Open(d) = {}
  BY <1>2 DEF Open
<1> QED BY <1>1, <1>2, <1>3, <1>4, <1>5 DEF Take

LEMMA ScanTake ==
  ASSUME QueueInv, NEW d \in Drainers, ScanPeer(d), batch' # batch
  PROVE  /\ scan[d] \in 1..Len(queue) /\ Take(d, scan[d]) /\ dpc[d] = "scanning"
         /\ Peer(batch[d][1], queue[scan[d]], rows[d])
<1>1. scan[d] \in 1..Len(queue)
  BY DEF ScanPeer, QueueInv, TypeOK, DrainTypes, SharedTypes, DrainerAgrees
<1>2. Peer(batch[d][1], queue[scan[d]], rows[d])
  BY DEF ScanPeer
<1> QED BY <1>1, <1>2 DEF ScanPeer, Take
-----------------------------------------------------------------------------
(* A step that is not a loan lends nothing. *)
LEMMA UnlentKinds ==
  ASSUME QueueInv, LoanInv,
         \/ \E t \in Threads, c \in Calls : Begins(t, c)
         \/ \E t \in Threads : GoesOn(t) \/ Returns(t)
         \/ Quiet
  PROVE  /\ \A d \in Drainers : Open(d)' = Open(d) /\ batch'[d] = batch[d]
         /\ \A u \in Threads : state[u] = "RUNNING" => Same(u)
         /\ \A d \in Drainers : DrainOwner(d)' = DrainOwner(d) \/ dpc[d] = "idle"
         /\ \A d \in Drainers : (Answering(d)' <=> Answering(d)) /\ batchOk'[d] = batchOk[d]
<1>1. CASE \E t \in Threads, c \in Calls : Begins(t, c)
  <2>1. PICK t \in Threads : \E c \in Calls : Begins(t, c)
    BY <1>1
  <2>2. PICK c \in Calls : Begins(t, c)
    BY <2>1
  <2>4. \A d \in Drainers : DrainOwner(d)' = DrainOwner(d)
    BY <2>2 DEF Begins, DrainOwner
  <2>5. UNCHANGED drainVars
    BY <2>2 DEF Begins
  <2>6. \A u \in Threads : state[u] = "RUNNING" => Same(u)
    BY <2>2 DEF Begins, OthersSame
  <2> QED BY <2>4, <2>5, <2>6 DEF drainVars, Open, Answering
<1>2. CASE \E t \in Threads : GoesOn(t) \/ Returns(t)
  <2>1. PICK t \in Threads : GoesOn(t) \/ Returns(t)
    BY <1>2
  <2>2. UNCHANGED <<drainVars, mode, pumped>> /\ state[t] # "RUNNING" /\ OthersSame(t)
    BY <2>1 DEF GoesOn, Returns
  <2>3. \A u \in Threads : state[u] = "RUNNING" => Same(u)
    BY <2>2 DEF OthersSame
  <2> QED BY <2>2, <2>3 DEF drainVars, Open, Answering, DrainOwner
<1>3. CASE Quiet
  BY <1>3 DEF Quiet, Same, submitVars, Open, Answering
<1> QED BY <1>1, <1>2, <1>3

LEMMA PublishOpen ==
  ASSUME QueueInv, NEW d \in Drainers, Publish(d)
  PROVE  /\ fin[d] \in Open(d) /\ batch[d][fin[d]] \in Threads /\ dpc[d] = "publishing"
         /\ state[batch[d][fin[d]]] = "RUNNING" /\ pc[batch[d][fin[d]]] = "waiting"
         /\ \A e \in Drainers : \A k \in Open(e)' : k \in Open(e) /\ batch'[e][k] = batch[e][k]
         /\ \A e \in Drainers : \A k \in Open(e)' :
              (Answering(e)' <=> Answering(e)) /\ batchOk'[e] = batchOk[e]
<1>1. dpc[d] = "publishing" /\ fin[d] \in 1..Len(batch[d]) /\ Len(batch[d]) \in Nat
  BY DEF Publish, QueueInv, DrainerAgrees, TypeOK, DrainTypes
<1>2. fin[d] \in Open(d) /\ Open(d) = fin[d]..Len(batch[d])
  BY <1>1 DEF Open
<1>3. CASE fin[d] < Len(batch[d])
  <2>1. /\ dpc' = [dpc EXCEPT ![d] = "finishing"]
        /\ fin' = [fin EXCEPT ![d] = fin[d] + 1]
        /\ UNCHANGED <<batch, batchOk>>
    BY <1>3 DEF Publish
  <2>2. /\ \A e \in Drainers \ {d} : Open(e)' = Open(e) /\ dpc'[e] = dpc[e]
        /\ Open(d)' = (fin[d] + 1)..Len(batch[d]) /\ dpc'[d] = "finishing"
    BY <2>1 DEF Open, QueueInv, TypeOK, DrainTypes
  <2>3. \A k \in (fin[d] + 1)..Len(batch[d]) : k \in fin[d]..Len(batch[d])
    BY <1>1
  <2>4. \A e \in Drainers : \A k \in Open(e)' : k \in Open(e)
    BY <1>2, <2>2, <2>3
  <2>5. \A e \in Drainers : Answering(e)' <=> Answering(e)
    BY <1>1, <2>2 DEF Answering
  <2> QED BY <1>1, <1>2, <2>1, <2>4, <2>5, LoanFacts
<1>4. CASE ~(fin[d] < Len(batch[d]))
  <2>1. /\ dpc' = [dpc EXCEPT ![d] = "draining"]
        /\ batch' = [batch EXCEPT ![d] = <<>>]
        /\ batchOk' = [batchOk EXCEPT ![d] = FALSE]
        /\ fin' = [fin EXCEPT ![d] = 0]
    BY <1>4 DEF Publish
  <2>2. /\ \A e \in Drainers \ {d} :
             Open(e)' = Open(e) /\ dpc'[e] = dpc[e] /\ batch'[e] = batch[e] /\ batchOk'[e] = batchOk[e]
        /\ Open(d)' = {}
    BY <2>1 DEF Open, QueueInv, TypeOK, DrainTypes
  <2>3. \A e \in Drainers : \A k \in Open(e)' : e # d
    BY <2>2
  <2> QED BY <1>1, <1>2, <2>2, <2>3, LoanFacts DEF Answering
<1> QED BY <1>3, <1>4

LEMMA EvaluateOpen ==
  ASSUME QueueInv, NEW d \in Drainers, Evaluate(d)
  PROVE  /\ Open(d) = 1..Len(batch[d]) /\ 1 \in Open(d)
         /\ \A e \in Drainers : Open(e)' = Open(e)
         /\ \A e \in Drainers \ {d} : dpc'[e] = dpc[e] /\ batchOk'[e] = batchOk[e]
         /\ UNCHANGED <<batch, pc, state, call, gen, result, replyOk, outcome, mode, pumped>>
         /\ batchOk'[d] => ~Refused(d)
         /\ \A u \in Threads :
              evals'[u] = IF ~Refused(d) /\ \E k \in Open(d) : batch[d][k] = u
                          THEN evals[u] + 1 ELSE evals[u]
<1>1. /\ dpc' = [dpc EXCEPT ![d] = "finishing"] /\ dpc[d] = "ready"
      /\ fin' = [fin EXCEPT ![d] = 1]
      /\ UNCHANGED <<batch, pc, state, call, gen, result, replyOk, outcome, mode, pumped>>
  BY DEF Evaluate, mainVars
<1>2. Open(d) = 1..Len(batch[d]) /\ 1 \in Open(d)
  BY <1>1, FirstIsOpen
<1>3. dpc \in [Drainers -> {"idle", "draining", "popped", "scanning", "ready", "finishing",
                            "publishing"}]
      /\ fin \in [Drainers -> 0..BatchMaxRequests] /\ batchOk \in [Drainers -> BOOLEAN]
  BY DEF QueueInv, TypeOK, DrainTypes
<1>4. \A e \in Drainers : Open(e)' = Open(e)
  BY <1>1, <1>2, <1>3 DEF Open
<1>5. PICK good \in (IF Refused(d) THEN {FALSE} ELSE BOOLEAN) :
        /\ batchOk' = [batchOk EXCEPT ![d] = good]
        /\ evals' = [t \in Threads |->
                       IF ~Refused(d) /\ \E k \in 1..Len(batch[d]) : batch[d][k] = t
                       THEN evals[t] + 1 ELSE evals[t]]
  BY DEF Evaluate
<1>6. batchOk'[d] => ~Refused(d)
  BY <1>3, <1>5
<1>7. \A e \in Drainers \ {d} : dpc'[e] = dpc[e] /\ batchOk'[e] = batchOk[e]
  BY <1>1, <1>3, <1>5
<1>8. \A u \in Threads :
        evals'[u] = IF ~Refused(d) /\ \E k \in Open(d) : batch[d][k] = u
                    THEN evals[u] + 1 ELSE evals[u]
  BY <1>2, <1>5
<1> QED BY <1>1, <1>2, <1>4, <1>6, <1>7, <1>8

LEMMA LoanStep ==
  ASSUME QueueInv, LoanInv, Kinds
  PROVE  BatchUniform' /\ RightDrainer'
<1>1. BatchUniform /\ RightDrainer
  BY DEF LoanInv
<1>2. CASE \/ \E t \in Threads, c \in Calls : Begins(t, c)
           \/ \E t \in Threads : GoesOn(t) \/ Returns(t)
           \/ Quiet
  BY <1>1, <1>2, UnlentKinds, LoanFrame DEF Same
<1>3. ASSUME NEW d \in Drainers, Pop(d)
      PROVE  BatchUniform' /\ RightDrainer'
  <2>1. PICK i \in 1..Len(queue) : Take(d, i) /\ Poppable(d, i) /\ Open(d) = {}
    BY <1>3, PopTake
  <2>2. (d # Main => call[queue[i]].diag) /\ call[queue[i]].owner = DrainOwner(d)
    BY <2>1 DEF Poppable, FirstOf
  <2>3. UNCHANGED <<gen, mode, pumped>>
    BY <1>3 DEF Pop, mainVars
  <2> QED BY <1>1, <2>1, <2>2, <2>3, TakeLoan
<1>4. ASSUME NEW d \in Drainers, ScanPeer(d), batch' # batch
      PROVE  BatchUniform' /\ RightDrainer'
  <2> DEFINE t == batch[d][1]
             u == queue[scan[d]]
  <2>1. /\ scan[d] \in 1..Len(queue) /\ Take(d, scan[d]) /\ dpc[d] = "scanning"
        /\ Peer(t, u, rows[d])
    BY <1>4, ScanTake
  <2>2. d = Main /\ call[t].batchable /\ 1 \in Open(d)
    BY <2>1, FirstIsOpen DEF QueueInv, DrainerAgrees
  <2>3. call[t].owner = DrainOwner(d)
    BY <1>1, <2>2 DEF RightDrainer
  <2>4. UNCHANGED <<gen, mode, pumped>>
    BY <1>4 DEF ScanPeer, mainVars
  <2>5. ASSUME NEW k \in Open(d)
        PROVE  /\ call[batch[d][k]].meta = call[u].meta /\ call[batch[d][k]].owner = call[u].owner
               /\ gen[batch[d][k]] = gen[u]
               /\ call[batch[d][k]].batchable /\ call[u].batchable
    <3>1. /\ call[batch[d][k]].meta = call[t].meta /\ call[batch[d][k]].owner = call[t].owner
          /\ gen[batch[d][k]] = gen[t]
          /\ k # 1 => call[batch[d][k]].batchable
      BY <1>1, <2>2, <2>5 DEF BatchUniform
    <3> QED BY <2>1, <2>2, <3>1 DEF Peer
  <2>6. call[u].owner = DrainOwner(d)
    BY <2>1, <2>3 DEF Peer
  <2> QED BY <1>1, <2>1, <2>2, <2>4, <2>5, <2>6, TakeLoan
<1>5. ASSUME NEW d \in Drainers, Evaluate(d)
      PROVE  BatchUniform' /\ RightDrainer'
  BY <1>1, <1>5, EvaluateOpen, LoanFrame DEF DrainOwner
<1>6. ASSUME NEW d \in Drainers, Publish(d)
      PROVE  BatchUniform' /\ RightDrainer'
  <2>1. UNCHANGED <<call, gen, mode, pumped>>
    BY <1>6 DEF Publish, mainVars
  <2>2. \A e \in Drainers : \A k \in Open(e)' : k \in Open(e) /\ batch'[e][k] = batch[e][k]
    BY <1>6, PublishOpen
  <2> QED BY <1>1, <2>1, <2>2, LoanFrame DEF DrainOwner
<1> QED BY <1>2, <1>3, <1>4, <1>5, <1>6 DEF Kinds
LEMMA ModeStep ==
  ASSUME QueueInv, ModeAgrees, [Next]_vars
  PROVE  ModeAgrees'
<1> USE DEF ModeAgrees
<1>1. DrainTypes /\ SharedTypes /\ Main \in Drainers
  BY ConstantsAssumption DEF QueueInv, TypeOK
<1>2. ASSUME UNCHANGED <<mode, pumped>>, dpc[Main] = "idle" => dpc'[Main] = "idle"
      PROVE  ModeAgrees'
  BY <1>2
<1>3. ASSUME NEW t \in Threads, NEW c \in Calls, Arrive(t, c)
      PROVE  ModeAgrees'
  BY <1>2, <1>3 DEF Arrive, mainVars, drainVars
<1>4. ASSUME NEW t \in Threads, SubmitterStep(t)
      PROVE  ModeAgrees'
  BY <1>2, <1>4 DEF SubmitterStep, SnapshotFails, Submit, Reject, Push, Withdraw, Timeout, Leave,
                    Collect, mainVars, drainVars
<1>5. ASSUME NEW d \in Drainers, DrainStep(d)
      PROVE  ModeAgrees'
  <2>1. CASE StartDrain(d)
    BY <1>1, <2>1 DEF StartDrain, mainVars, DrainTypes
  <2>2. CASE Pop(d) \/ BeginPeers(d) \/ ScanPeer(d) \/ EndPeers(d) \/ Evaluate(d) \/ FinishMeta(d)
             \/ Publish(d)
    <3>1. dpc[d] # "idle" /\ UNCHANGED <<mode, pumped>>
      BY <2>2 DEF Pop, BeginPeers, ScanPeer, EndPeers, Evaluate, FinishMeta, Publish, mainVars
    <3>2. \A e \in Drainers \ {d} : dpc'[e] = dpc[e]
      <4>1. CASE Publish(d)
        BY <1>1, <4>1 DEF Publish, DrainTypes
      <4>2. CASE Pop(d)
        BY <1>1, <4>2 DEF Pop, DrainTypes
      <4> QED BY <1>1, <2>2, <4>1, <4>2
              DEF BeginPeers, ScanPeer, EndPeers, Evaluate, FinishMeta, DrainTypes
    <3> QED BY <1>1, <1>2, <3>1, <3>2
  <2>3. CASE EndDrain(d)
    BY <1>1, <2>3 DEF EndDrain, DrainTypes
  <2> QED BY <1>5, <2>1, <2>2, <2>3 DEF DrainStep
<1>6. ASSUME NEW d \in Drainers, SelfTestCancel(d)
      PROVE  ModeAgrees'
  BY <1>2, <1>6 DEF SelfTestCancel, mainVars, drainVars
<1>7. CASE MainStep
  BY <1>7 DEF MainStep, SpawnHelper, PollInterrupted, EndPoll, Join, BeginPump, StopOwner,
              PumpInterrupted, EndPump, BetweenDrains, mainVars, drainVars
<1>8. CASE UNCHANGED vars
  BY <1>2, <1>8 DEF vars, mainVars, drainVars
<1> QED BY <1>3, <1>4, <1>5, <1>6, <1>7, <1>8 DEF Next

LEMMA HelperStep ==
  ASSUME QueueInv, LoanInv, Kinds
  PROVE  HelperAgrees'
<1>1. HelperAgrees /\ Helper \in Threads
  BY ConstantsAssumption DEF LoanInv
<1>2. ASSUME NEW t \in Threads, NEW c \in Calls, Begins(t, c)
      PROVE  HelperAgrees'
  BY <1>1, <1>2 DEF Begins, OthersSame, Same, HelperAgrees
<1>3. ASSUME NEW t \in Threads, GoesOn(t) \/ Returns(t)
      PROVE  HelperAgrees'
  BY <1>1, <1>3 DEF GoesOn, Returns, OthersSame, Same, HelperAgrees
<1>4. ASSUME NEW d \in Drainers, Pop(d) \/ ScanPeer(d) \/ Evaluate(d) \/ Publish(d)
      PROVE  HelperAgrees'
  BY <1>1, <1>4 DEF Pop, ScanPeer, Evaluate, Publish, HelperAgrees
<1>5. CASE Quiet
  BY <1>1, <1>5 DEF Quiet, submitVars, HelperAgrees
<1> QED BY <1>2, <1>3, <1>4, <1>5 DEF Kinds

(* a request that has just been taken was not evaluated *)
LEMMA TakeEvals ==
  ASSUME QueueInv, EvalsAgree, NEW d \in Drainers, NEW i \in 1..Len(queue), Take(d, i),
         UNCHANGED <<evals, batchOk>>
  PROVE  EvalsAgree'
<1> DEFINE t == queue[i]
<1>1. t \in Threads /\ pc[t] = "waiting" /\ state[t] = "PENDING" /\ evals[t] = 0
  BY TakeOpen DEF EvalsAgree
<1>2. \A u \in Threads : state'[u] = IF u = t THEN "RUNNING" ELSE state[u]
  BY DEF Take, QueueInv, TypeOK, SubmitTypes
<1>3. \A e \in Drainers \ {d} : Open(e)' = Open(e) /\ batch'[e] = batch[e] /\ dpc'[e] = dpc[e]
  BY TakeOpen DEF Take
<1>4. dpc[d] \in {"draining", "scanning"} /\ dpc'[d] \in {"popped", "scanning", "ready"}
  BY DEF Take
<1>5. \A k \in Open(d)' : batch'[d][k] = t \/ (k \in Open(d) /\ batch'[d][k] = batch[d][k])
  BY TakeOpen
<1>6. \A u \in Threads : pc[u] # "idle" /\ state'[u] \notin {"RUNNING", "DONE"} => evals[u] = 0
  BY <1>2 DEF EvalsAgree
<1> HIDE DEF t
<1>7. ASSUME NEW e \in Drainers, NEW k \in Open(e)'
      PROVE  /\ dpc'[e] \notin {"finishing", "publishing"} => evals[batch'[e][k]] = 0
             /\ dpc'[e] \in {"finishing", "publishing"} /\ batchOk[e] => evals[batch'[e][k]] > 0
  <2>1. CASE e # d
    BY <1>3, <1>7, <2>1 DEF EvalsAgree
  <2>2. CASE e = d
    BY <1>1, <1>4, <1>5, <1>7, <2>2 DEF EvalsAgree
  <2> QED BY <2>1, <2>2
<1>8. UNCHANGED pc
  BY DEF Take
<1> QED BY <1>6, <1>7, <1>8 DEF EvalsAgree

LEMMA EvalsStep ==
  ASSUME QueueInv, LoanInv, Kinds
  PROVE  EvalsAgree'
<1>1. EvalsAgree /\ evals \in [Threads -> Nat]
  BY DEF LoanInv, QueueInv, TypeOK, SubmitTypes
<1>2. CASE \/ \E t \in Threads, c \in Calls : Begins(t, c)
           \/ \E t \in Threads : GoesOn(t) \/ Returns(t)
           \/ Quiet
  <2>1. ASSUME NEW u \in Threads, pc'[u] # "idle", state'[u] \notin {"RUNNING", "DONE"}
        PROVE  evals'[u] = 0
    <3>1. Same(u) => evals'[u] = 0
      BY <1>1, <2>1 DEF Same, EvalsAgree
    <3>2. ASSUME NEW t \in Threads, NEW c \in Calls, Begins(t, c)
          PROVE  evals'[u] = 0
      BY <3>1, <3>2 DEF Begins, OthersSame
    <3>3. ASSUME NEW t \in Threads, GoesOn(t) \/ Returns(t)
          PROVE  evals'[u] = 0
      BY <1>1, <2>1, <3>1, <3>3 DEF GoesOn, Returns, OthersSame, EvalsAgree
    <3>4. CASE Quiet
      BY <3>1, <3>4 DEF Quiet, Same, submitVars
    <3> QED BY <1>2, <3>2, <3>3, <3>4
  <2>2. ASSUME NEW d \in Drainers, NEW k \in Open(d)'
        PROVE  /\ ~Answering(d)' => evals'[batch'[d][k]] = 0
               /\ Answering(d)' /\ batchOk'[d] => evals'[batch'[d][k]] > 0
    <3>1. /\ k \in Open(d) /\ batch'[d] = batch[d] /\ batchOk'[d] = batchOk[d]
          /\ Answering(d)' <=> Answering(d)
      BY <1>2, <2>2, UnlentKinds
    <3>2. evals'[batch[d][k]] = evals[batch[d][k]]
      BY <1>2, <3>1, LoanFacts, UnlentKinds DEF Same
    <3> QED BY <1>1, <3>1, <3>2 DEF EvalsAgree, Answering
  <2> QED BY <2>1, <2>2 DEF EvalsAgree, Answering
<1>3. ASSUME NEW d \in Drainers, Pop(d)
      PROVE  EvalsAgree'
  BY <1>1, <1>3, PopTake, TakeEvals DEF Pop
<1>4. ASSUME NEW d \in Drainers, ScanPeer(d), batch' # batch
      PROVE  EvalsAgree'
  BY <1>1, <1>4, ScanTake, TakeEvals DEF ScanPeer
<1>5. ASSUME NEW d \in Drainers, Evaluate(d)
      PROVE  EvalsAgree'
  <2>1. ASSUME NEW u \in Threads, pc'[u] # "idle", state'[u] \notin {"RUNNING", "DONE"}
        PROVE  evals'[u] = 0
    <3>1. pc[u] # "idle" /\ state[u] \notin {"RUNNING", "DONE"} /\ evals[u] = 0
      BY <1>1, <1>5, <2>1, EvaluateOpen DEF EvalsAgree
    <3>2. ~\E k \in Open(d) : batch[d][k] = u
      BY <3>1, LoanFacts
    <3> QED BY <1>5, <3>1, <3>2, EvaluateOpen
  <2>2. ASSUME NEW e \in Drainers, NEW k \in Open(e)'
        PROVE  /\ dpc'[e] \notin {"finishing", "publishing"} => evals'[batch'[e][k]] = 0
               /\ dpc'[e] \in {"finishing", "publishing"} /\ batchOk'[e]
                    => evals'[batch'[e][k]] > 0
    <3>1. k \in Open(e) /\ batch' = batch /\ batch[e][k] \in Threads
      BY <1>5, <2>2, EvaluateOpen, LoanFacts
    <3>2. CASE e # d
      <4>1. ~\E l \in Open(d) : batch[d][l] = batch[e][k]
        BY <3>1, <3>2 DEF QueueInv, RunningIsBorrowed
      <4>2. evals'[batch[e][k]] = evals[batch[e][k]] /\ dpc'[e] = dpc[e] /\ batchOk'[e] = batchOk[e]
        BY <1>5, <3>1, <3>2, <4>1, EvaluateOpen
      <4> QED BY <1>1, <3>1, <4>2 DEF EvalsAgree
    <3>3. CASE e = d
      <4>1. dpc'[d] = "finishing" /\ (batchOk'[d] => ~Refused(d))
        BY <1>5, EvaluateOpen DEF Evaluate, QueueInv, TypeOK, DrainTypes
      <4>2. batchOk'[d] => evals'[batch[d][k]] = evals[batch[d][k]] + 1
        BY <1>5, <3>1, <3>3, <4>1, EvaluateOpen
      <4>3. batchOk'[d] => evals'[batch[d][k]] > 0
        BY <1>1, <3>1, <3>3, <4>2
      <4> QED BY <3>1, <3>3, <4>1, <4>3
    <3> QED BY <3>2, <3>3
  <2> QED BY <2>1, <2>2 DEF EvalsAgree
<1>6. ASSUME NEW d \in Drainers, Publish(d)
      PROVE  EvalsAgree'
  <2>1. /\ UNCHANGED <<pc, evals>>
        /\ state' = [state EXCEPT ![batch[d][fin[d]]] = "DONE"]
    BY <1>6 DEF Publish
  <2>2. \A u \in Threads : state'[u] \in {state[u], "DONE"}
    BY <2>1 DEF QueueInv, TypeOK, SubmitTypes
  <2>3. \A u \in Threads : pc[u] # "idle" /\ state'[u] \notin {"RUNNING", "DONE"} => evals[u] = 0
    BY <1>1, <2>2 DEF EvalsAgree
  <2>4. ASSUME NEW e \in Drainers, NEW k \in Open(e)'
        PROVE  /\ ~Answering(e)' => evals[batch'[e][k]] = 0
               /\ Answering(e)' /\ batchOk'[e] => evals[batch'[e][k]] > 0
    <3>1. /\ k \in Open(e) /\ batch'[e][k] = batch[e][k]
          /\ Answering(e)' <=> Answering(e)
          /\ batchOk'[e] = batchOk[e]
      BY <1>6, <2>4, PublishOpen
    <3> QED BY <1>1, <3>1 DEF EvalsAgree, Answering
  <2> QED BY <2>1, <2>3, <2>4 DEF EvalsAgree, Answering
<1> QED BY <1>2, <1>3, <1>4, <1>5, <1>6 DEF Kinds
LEMMA AnswersStep ==
  ASSUME QueueInv, LoanInv, Kinds
  PROVE  AnswersAgree'
<1>1. AnswersAgree
  BY DEF LoanInv
<1>2. ASSUME NEW u \in Threads, Same(u)
      PROVE  /\ pc'[u] = "leaving" => outcome'[u] \in {"error", "cancelled", "timeout"}
             /\ state'[u] = "DONE" /\ replyOk'[u] => result'[u] = u
  BY <1>1, <1>2 DEF Same, AnswersAgree
<1>3. ASSUME NEW t \in Threads, NEW c \in Calls, Begins(t, c)
      PROVE  AnswersAgree'
  BY <1>2, <1>3 DEF Begins, OthersSame, AnswersAgree
<1>4. ASSUME NEW t \in Threads, GoesOn(t) \/ Returns(t)
      PROVE  AnswersAgree'
  BY <1>2, <1>4 DEF GoesOn, Returns, OthersSame, AnswersAgree
<1>5. ASSUME NEW d \in Drainers, Pop(d)
      PROVE  AnswersAgree'
  <2>1. PICK i \in 1..Len(queue) : Take(d, i)
    BY <1>5, PopTake
  <2>2. \A u \in Threads : state'[u] \in {state[u], "RUNNING"}
    BY <2>1 DEF Take, QueueInv, TypeOK, SubmitTypes
  <2> QED BY <1>1, <1>5, <2>2 DEF Pop, AnswersAgree
<1>6. ASSUME NEW d \in Drainers, ScanPeer(d), batch' # batch
      PROVE  AnswersAgree'
  <2>1. Take(d, scan[d])
    BY <1>6, ScanTake
  <2>2. \A u \in Threads : state'[u] \in {state[u], "RUNNING"}
    BY <2>1 DEF Take, QueueInv, TypeOK, SubmitTypes
  <2> QED BY <1>1, <1>6, <2>2 DEF ScanPeer, AnswersAgree
<1>7. ASSUME NEW d \in Drainers, Evaluate(d)
      PROVE  AnswersAgree'
  BY <1>1, <1>7, EvaluateOpen DEF AnswersAgree
<1>8. ASSUME NEW d \in Drainers, Publish(d)
      PROVE  AnswersAgree'
  <2> DEFINE t == batch[d][fin[d]]
  <2>1. /\ UNCHANGED <<pc, outcome>>
        /\ state' = [state EXCEPT ![t] = "DONE"]
        /\ replyOk' = [replyOk EXCEPT ![t] = batchOk[d]]
        /\ result' = [result EXCEPT ![t] = IF batchOk[d] THEN t ELSE NoThread]
    BY <1>8 DEF Publish, ChunkOf
  <2>2. t \in Threads
    BY <1>8, PublishOpen
  <2> HIDE DEF t
  <2>3. /\ \A u \in Threads \ {t} :
             state'[u] = state[u] /\ replyOk'[u] = replyOk[u] /\ result'[u] = result[u]
        /\ replyOk'[t] = batchOk[d] /\ result'[t] = IF batchOk[d] THEN t ELSE NoThread
    BY <2>1, <2>2 DEF QueueInv, TypeOK, SubmitTypes
  <2> QED BY <1>1, <2>1, <2>2, <2>3 DEF AnswersAgree
<1>9. CASE Quiet
  BY <1>2, <1>9 DEF Quiet, submitVars, Same, AnswersAgree
<1> QED BY <1>3, <1>4, <1>5, <1>6, <1>7, <1>8, <1>9 DEF Kinds

-----------------------------------------------------------------------------
(* The strengthened invariant is inductive. *)
LoanStrong == QueueInv /\ LoanInv

LEMMA LoanInit == Init => LoanStrong
<1> SUFFICES ASSUME Init PROVE LoanInv
  BY InitInv DEF LoanStrong
<1>1. \A d \in Drainers : Open(d) = {}
  BY DEF Init, Open
<1>2. BatchUniform /\ RightDrainer
  BY <1>1 DEF BatchUniform, RightDrainer
<1>3. ModeAgrees /\ HelperAgrees
  BY ConstantsAssumption DEF Init, ModeAgrees, HelperAgrees
<1>4. EvalsAgree /\ AnswersAgree
  BY <1>1 DEF Init, EvalsAgree, AnswersAgree
<1> QED BY <1>2, <1>3, <1>4 DEF LoanInv

LEMMA LoanNext == LoanStrong /\ [Next]_vars => LoanStrong'
<1> SUFFICES ASSUME QueueInv, LoanInv, [Next]_vars PROVE QueueInv' /\ LoanInv'
  BY DEF LoanStrong
<1>1. Kinds
  BY StepKinds
<1>2. ModeAgrees'
  BY ModeStep DEF LoanInv
<1> QED BY <1>1, <1>2, NextInv, LoanStep, HelperStep, EvalsStep, AnswersStep DEF LoanInv

LEMMA LoanInvariant == Spec => []LoanStrong
<1> QED BY LoanInit, LoanNext, PTL DEF Spec

(* Requests coalesced by rducks_queue_pop_batch_peers_locked are
   interchangeable, for any number of threads, UDFs and limits: one R call may
   stand for all of them. *)
THEOREM BatchesAreUniform == Spec => []BatchUniform
<1>1. LoanStrong => BatchUniform
  BY DEF LoanStrong, LoanInv
<1> QED BY <1>1, LoanInvariant, PTL

(* Whatever the R thread waits for, it runs only the callbacks of what it waits
   for, and no other thread runs a callback that holds R state. *)
THEOREM DrainersAreRight == Spec => []RightDrainer
<1>1. LoanStrong => RightDrainer
  BY DEF LoanStrong, LoanInv
<1> QED BY <1>1, LoanInvariant, PTL

(* The R thread never joins its helper while it holds the helper's request
   (rducks_queue_submit_scalar_via_worker_on_main). *)
THEOREM JoinNeverBlocks == Spec => []JoinNeverSelfBlocked
<1>1. LoanStrong => JoinNeverSelfBlocked
  <2> SUFFICES ASSUME QueueInv, LoanInv, mode = "join"
               PROVE  state[Helper] # "RUNNING" /\ batch[Main] = <<>>
    BY DEF LoanStrong, JoinNeverSelfBlocked
  <2>1. dpc[Main] = "idle" /\ batch[Main] = <<>> /\ Helper \in Threads
    BY ConstantsAssumption DEF LoanInv, ModeAgrees, QueueInv, DrainerAgrees
  <2>2. ASSUME state[Helper] = "RUNNING"
        PROVE  FALSE
    <3>1. pc[Helper] = "waiting" /\ \E d \in Drainers : \E k \in Open(d) : batch[d][k] = Helper
      BY <2>1, <2>2 DEF QueueInv, RunningIsBorrowed
    <3>2. PICK d \in Drainers : \E k \in Open(d) : batch[d][k] = Helper
      BY <3>1
    <3>3. PICK k \in Open(d) : batch[d][k] = Helper
      BY <3>2
    <3>4. d # Main
      BY <2>1, <3>3, LoanFacts
    <3>5. call[Helper].diag
      BY <3>3, <3>4 DEF LoanInv, RightDrainer
    <3> QED BY <3>1, <3>5 DEF LoanInv, HelperAgrees
  <2> QED BY <2>1, <2>2
<1> QED BY <1>1, LoanInvariant, PTL

(* what an R evaluation has to respect *)
RunsOnlyLive ==
  \A t \in Threads :
    evals'[t] > evals[t] => call[t].owner = NoOwner \/ ~stopping[call[t].owner]

LEMMA RunsStep ==
  ASSUME QueueInv, LoanInv, Kinds
  PROVE  RunsOnlyLive
<1>1. evals \in [Threads -> Nat]
  BY DEF QueueInv, TypeOK, SubmitTypes
<1>2. (\A t \in Threads : ~(evals'[t] > evals[t])) => RunsOnlyLive
  BY DEF RunsOnlyLive
<1>3. ASSUME NEW t \in Threads, NEW c \in Calls, Begins(t, c)
      PROVE  RunsOnlyLive
  <2>1. \A u \in Threads : evals'[u] = 0 \/ evals'[u] = evals[u]
    BY <1>3 DEF Begins, OthersSame, Same
  <2> QED BY <1>1, <1>2, <2>1
<1>4. ASSUME NEW t \in Threads, GoesOn(t) \/ Returns(t)
      PROVE  RunsOnlyLive
  <2>1. \A u \in Threads : u # t => evals'[u] = evals[u]
    BY <1>4 DEF GoesOn, Returns, OthersSame, Same
  <2>2. CASE GoesOn(t)
    BY <1>1, <1>2, <2>1, <2>2 DEF GoesOn
  <2>3. CASE Returns(t)
    BY <1>1, <1>2, <2>1, <2>3 DEF Returns
  <2> QED BY <1>4, <2>2, <2>3
<1>5. ASSUME UNCHANGED evals
      PROVE  RunsOnlyLive
  BY <1>1, <1>2, <1>5
<1>6. ASSUME NEW d \in Drainers, Evaluate(d)
      PROVE  RunsOnlyLive
  <2> SUFFICES ASSUME NEW t \in Threads, evals'[t] > evals[t]
               PROVE  call[t].owner = NoOwner \/ ~stopping[call[t].owner]
    BY DEF RunsOnlyLive
  <2>1. ~Refused(d) /\ \E k \in Open(d) : batch[d][k] = t
    BY <1>1, <1>6, EvaluateOpen
  <2>2. PICK k \in Open(d) : batch[d][k] = t
    BY <2>1
  <2>3. call[t].owner = call[batch[d][1]].owner
    BY <1>6, <2>2, EvaluateOpen DEF LoanInv, BatchUniform
  <2> QED BY <2>1, <2>3 DEF Refused
<1> QED BY <1>3, <1>4, <1>5, <1>6 DEF Kinds, Pop, ScanPeer, Publish, Quiet, submitVars
(* Once the query of a call is stopping, no later evaluation contains the call
   (rducks_queue_stop_owner, rducks_queue_fail_owner). *)
THEOREM StoppedQueriesStayOut == Spec => NoEvaluationAfterStop
<1>1. LoanStrong /\ [Next]_vars =>
        [\A t \in Threads :
           evals'[t] > evals[t] => \/ call[t].owner = NoOwner
                                  \/ ~stopping[call[t].owner]]_vars
  BY StepKinds, RunsStep DEF LoanStrong, RunsOnlyLive
<1> QED BY <1>1, LoanInvariant, PTL DEF Spec, NoEvaluationAfterStop

-----------------------------------------------------------------------------
(* The refinement: what a step does to the call a request stands for. *)
Bars == <<phaseBar, ownerBar, ranBar, valueBar, answerBar>>

(* the call of u is as before *)
BarSame(u) ==
  /\ phaseBar'[u] = phaseBar[u] /\ ownerBar'[u] = ownerBar[u] /\ ranBar'[u] = ranBar[u]
  /\ valueBar'[u] = valueBar[u] /\ answerBar'[u] = answerBar[u]

LEMMA SameBars ==
  ASSUME NEW u \in Threads, Same(u)
  PROVE  BarSame(u)
BY DEF Same, BarSame, phaseBar, ownerBar, ranBar, valueBar, answerBar

(* the mapping assigns something to every thread *)
LEMMA BarFunctions ==
  /\ phaseBar = [u \in Threads |-> phaseBar[u]] /\ phaseBar' = [u \in Threads |-> phaseBar'[u]]
  /\ ownerBar = [u \in Threads |-> ownerBar[u]] /\ ownerBar' = [u \in Threads |-> ownerBar'[u]]
  /\ ranBar = [u \in Threads |-> ranBar[u]] /\ ranBar' = [u \in Threads |-> ranBar'[u]]
  /\ valueBar = [u \in Threads |-> valueBar[u]] /\ valueBar' = [u \in Threads |-> valueBar'[u]]
  /\ answerBar = [u \in Threads |-> answerBar[u]] /\ answerBar' = [u \in Threads |-> answerBar'[u]]
BY Zenon DEF phaseBar, ownerBar, ranBar, valueBar, answerBar

(* two such assignments that agree everywhere, or but for one thread *)
LEMMA SameFunctions ==
  ASSUME NEW f, NEW g, f = [u \in Threads |-> f[u]], g = [u \in Threads |-> g[u]],
         \A u \in Threads : g[u] = f[u]
  PROVE  g = f
OBVIOUS

LEMMA OneDiffers ==
  ASSUME NEW f, NEW g, f = [u \in Threads |-> f[u]], g = [u \in Threads |-> g[u]],
         NEW t \in Threads, \A u \in Threads \ {t} : g[u] = f[u]
  PROVE  g = [f EXCEPT ![t] = g[t]]
OBVIOUS

LEMMA AllSame ==
  ASSUME \A u \in Threads : BarSame(u)
  PROVE  UNCHANGED Bars
<1>1. UNCHANGED phaseBar
  BY BarFunctions, SameFunctions DEF BarSame
<1>2. UNCHANGED ownerBar
  BY BarFunctions, SameFunctions DEF BarSame
<1>3. UNCHANGED ranBar
  BY BarFunctions, SameFunctions DEF BarSame
<1>4. UNCHANGED valueBar
  BY BarFunctions, SameFunctions DEF BarSame
<1>5. UNCHANGED answerBar
  BY BarFunctions, SameFunctions DEF BarSame
<1> QED BY <1>1, <1>2, <1>3, <1>4, <1>5 DEF Bars

(* only the call of t changes *)
LEMMA OneBar ==
  ASSUME NEW t \in Threads, \A u \in Threads \ {t} : BarSame(u)
  PROVE  /\ phaseBar' = [phaseBar EXCEPT ![t] = phaseBar'[t]]
         /\ ownerBar' = [ownerBar EXCEPT ![t] = ownerBar'[t]]
         /\ ranBar' = [ranBar EXCEPT ![t] = ranBar'[t]]
         /\ valueBar' = [valueBar EXCEPT ![t] = valueBar'[t]]
         /\ answerBar' = [answerBar EXCEPT ![t] = answerBar'[t]]
<1>1. phaseBar' = [phaseBar EXCEPT ![t] = phaseBar'[t]]
  BY BarFunctions, OneDiffers DEF BarSame
<1>2. ownerBar' = [ownerBar EXCEPT ![t] = ownerBar'[t]]
  BY BarFunctions, OneDiffers DEF BarSame
<1>3. ranBar' = [ranBar EXCEPT ![t] = ranBar'[t]]
  BY BarFunctions, OneDiffers DEF BarSame
<1>4. valueBar' = [valueBar EXCEPT ![t] = valueBar'[t]]
  BY BarFunctions, OneDiffers DEF BarSame
<1>5. answerBar' = [answerBar EXCEPT ![t] = answerBar'[t]]
  BY BarFunctions, OneDiffers DEF BarSame
<1> QED BY <1>1, <1>2, <1>3, <1>4, <1>5

(* and only some of its parts *)
LEMMA Kept ==
  ASSUME NEW t \in Threads
  PROVE  /\ [phaseBar EXCEPT ![t] = phaseBar[t]] = phaseBar
         /\ [ownerBar EXCEPT ![t] = ownerBar[t]] = ownerBar
         /\ [ranBar EXCEPT ![t] = ranBar[t]] = ranBar
         /\ [valueBar EXCEPT ![t] = valueBar[t]] = valueBar
         /\ [answerBar EXCEPT ![t] = answerBar[t]] = answerBar
<1>1. ASSUME NEW f, f = [u \in Threads |-> f[u]]
      PROVE  [f EXCEPT ![t] = f[t]] = f
  BY <1>1
<1> QED BY <1>1, BarFunctions

(* a submission is a call *)
LEMMA BeginsCalls ==
  ASSUME QueueInv, NEW t \in Threads, NEW c \in Calls, Begins(t, c)
  PROVE  Contract!Next
<1>1. c.owner \in Owners \cup {NoOwner}
  BY ConstantsAssumption DEF CallType
<1>2. \A u \in Threads \ {t} : BarSame(u)
  BY SameBars DEF Begins, OthersSame
<1>3. /\ phaseBar[t] = "home" /\ phaseBar'[t] = "asking"
      /\ ownerBar'[t] = c.owner
      /\ ranBar'[t] = ranBar[t]
      /\ valueBar'[t] = valueBar[t]
      /\ answerBar'[t] = "none"
  BY DEF Begins, phaseBar, ownerBar, ranBar, valueBar, answerBar
<1>4. UNCHANGED stopping
  BY DEF Begins, ownerVars
<1>5. /\ phaseBar' = [phaseBar EXCEPT ![t] = "asking"]
      /\ ownerBar' = [ownerBar EXCEPT ![t] = c.owner]
      /\ answerBar' = [answerBar EXCEPT ![t] = "none"]
      /\ UNCHANGED <<ranBar, valueBar>>
  BY <1>2, <1>3, OneBar, Kept
<1>6. Contract!Called(t, c.owner)
  BY <1>3, <1>4, <1>5 DEF Contract!Called, Contract!Ask
<1> QED BY <1>1, <1>6 DEF Contract!Next

(* a thread that goes on with its request does nothing its caller sees *)
LEMMA GoesOnHides ==
  ASSUME QueueInv, NEW t \in Threads, GoesOn(t)
  PROVE  UNCHANGED Bars /\ UNCHANGED stopping
<1>1. \A u \in Threads \ {t} : BarSame(u)
  BY SameBars DEF GoesOn, OthersSame
<1>2. BarSame(t)
  BY DEF GoesOn, BarSame, phaseBar, ownerBar, ranBar, valueBar, answerBar
<1> QED BY <1>1, <1>2, AllSame DEF GoesOn, ownerVars

(* a return is a return, with the answer to the call's own input, or a
   withdrawal *)
LEMMA ReturnsReturn ==
  ASSUME QueueInv, AnswersAgree, NEW t \in Threads, Returns(t)
  PROVE  Contract!Next
<1>1. \A u \in Threads \ {t} : BarSame(u)
  BY SameBars DEF Returns, OthersSame
<1>2. /\ phaseBar'[t] = "home" /\ ownerBar'[t] = NoOwner /\ ranBar'[t] = FALSE
      /\ valueBar'[t] = NoThread /\ answerBar'[t] = outcome'[t]
  BY DEF Returns, phaseBar, ownerBar, ranBar, valueBar, answerBar
<1>3. UNCHANGED stopping
  BY DEF Returns, ownerVars
<1>4. /\ phaseBar' = [phaseBar EXCEPT ![t] = "home"]
      /\ ownerBar' = [ownerBar EXCEPT ![t] = NoOwner]
      /\ ranBar' = [ranBar EXCEPT ![t] = FALSE]
      /\ valueBar' = [valueBar EXCEPT ![t] = NoThread]
      /\ answerBar' = [answerBar EXCEPT ![t] = outcome'[t]]
  BY <1>1, <1>2, OneBar
<1>5. CASE state[t] = "DONE"
  <2>1. phaseBar[t] = "answered"
    BY <1>5 DEF Returns, phaseBar
  <2>2. valueBar[t] = IF replyOk[t] THEN t ELSE NoThread
    BY <1>5 DEF Returns, valueBar, AnswersAgree
  <2>3. PICK written \in BOOLEAN :
          outcome'[t] = IF valueBar[t] = t /\ written THEN "ok" ELSE "error"
    BY <1>5, <2>2, ConstantsAssumption DEF Returns
  <2>4. Contract!Returned(t, written)
    BY <1>3, <1>4, <2>1, <2>3 DEF Contract!Returned, Contract!Return, Contract!GoHome
  <2> QED BY <2>4 DEF Contract!Next
<1>6. CASE state[t] # "DONE"
  <2>1. phaseBar[t] = "asking" /\ valueBar[t] = NoThread
    BY <1>6 DEF Returns, phaseBar, valueBar
  <2>2. outcome'[t] \in {"error", "cancelled", "timeout"} /\ UNCHANGED valueBar
    BY <1>4, <1>6, <2>1, Kept DEF Returns
  <2>3. Contract!GivenUp(t, outcome'[t])
    BY <1>3, <1>4, <2>1, <2>2 DEF Contract!GivenUp, Contract!GiveUp, Contract!GoHome
  <2> QED BY <2>2, <2>3 DEF Contract!Next
<1> QED BY <1>5, <1>6

(* a drainer that takes a request lends the call *)
LEMMA TakeLends ==
  ASSUME QueueInv, NEW d \in Drainers, NEW i \in 1..Len(queue), Take(d, i),
         UNCHANGED <<gen, result, replyOk, outcome, evals, stopping>>
  PROVE  Contract!Next
<1> DEFINE t == queue[i]
<1>1. t \in Threads /\ pc[t] = "waiting" /\ state[t] = "PENDING"
  BY TakeOpen
<1>2. \A u \in Threads : state'[u] = IF u = t THEN "RUNNING" ELSE state[u]
  BY DEF Take, QueueInv, TypeOK, SubmitTypes
<1>3. UNCHANGED <<pc, call>>
  BY DEF Take
<1> HIDE DEF t
<1>4. \A u \in Threads \ {t} : BarSame(u)
  BY <1>2, <1>3, SameBars DEF Same
<1>5. /\ phaseBar[t] = "asking" /\ phaseBar'[t] = "lent" /\ ownerBar'[t] = ownerBar[t]
      /\ ranBar'[t] = ranBar[t] /\ valueBar'[t] = valueBar[t] /\ answerBar'[t] = answerBar[t]
  BY <1>1, <1>2, <1>3 DEF phaseBar, ownerBar, ranBar, valueBar, answerBar
<1>6. /\ phaseBar' = [phaseBar EXCEPT ![t] = "lent"]
      /\ UNCHANGED <<ownerBar, ranBar, valueBar, answerBar>>
  BY <1>1, <1>4, <1>5, OneBar, Kept
<1>7. Contract!Lend(t)
  BY <1>5, <1>6 DEF Contract!Lend
<1> QED BY <1>1, <1>6, <1>7 DEF Contract!Next
(* an evaluation is a run of the lent calls of one query, none of which ran *)
LEMMA EvaluateRuns ==
  ASSUME QueueInv, LoanInv, NEW d \in Drainers, Evaluate(d)
  PROVE  Contract!Next \/ (UNCHANGED Bars /\ UNCHANGED stopping)
<1> DEFINE o == call[batch[d][1]].owner
           S == {batch[d][k] : k \in Open(d)}
<1>1. /\ dpc[d] = "ready" /\ 1 \in Open(d)
      /\ UNCHANGED <<pc, state, call, result, replyOk, outcome>>
      /\ \A u \in Threads : evals'[u] = IF ~Refused(d) /\ u \in S THEN evals[u] + 1 ELSE evals[u]
  <2>1. dpc[d] = "ready"
    BY DEF Evaluate
  <2>2. \A u : u \in S <=> \E k \in Open(d) : batch[d][k] = u
    OBVIOUS
  <2> HIDE DEF S
  <2> QED BY <2>1, <2>2, EvaluateOpen
<1>2. /\ UNCHANGED <<phaseBar, ownerBar, valueBar, answerBar>>
  BY <1>1, Zenon DEF phaseBar, ownerBar, valueBar, answerBar
<1>3. stopping \in [Owners -> BOOLEAN] /\ evals \in [Threads -> Nat]
  BY DEF QueueInv, TypeOK, SharedTypes, SubmitTypes
<1>4. CASE Refused(d)
  <2>1. UNCHANGED stopping
    BY <1>4 DEF Evaluate, ownerVars
  <2>2. \A u \in Threads : BarSame(u)
    <3>1. \A u \in Threads : evals'[u] = evals[u]
      BY <1>1, <1>4
    <3>2. \A u \in Threads : ranBar'[u] = ranBar[u]
      BY <1>1, <3>1 DEF ranBar
    <3> QED BY <1>2, <3>2 DEF BarSame
  <2> QED BY <2>1, <2>2, AllSame
<1>5. CASE ~Refused(d)
  <2>1. PICK good \in BOOLEAN :
          IF o # NoOwner /\ ~good THEN FailOwner(o) ELSE UNCHANGED ownerVars
    BY <1>5 DEF Evaluate
  <2>2. o \in Owners \cup {NoOwner} /\ (o # NoOwner => ~stopping[o])
    <3>1. call[batch[d][1]] \in CallType
      BY <1>1, LoanFacts, ConstantsAssumption
    <3> QED BY <1>5, <3>1 DEF CallType, Refused
  <2>3. \A u \in S : /\ u \in Threads /\ pc[u] = "waiting" /\ state[u] = "RUNNING"
                     /\ call[u].owner = o /\ evals[u] = 0
    <3> SUFFICES ASSUME NEW k \in Open(d)
                 PROVE  LET u == batch[d][k] IN
                        /\ u \in Threads /\ pc[u] = "waiting" /\ state[u] = "RUNNING"
                        /\ call[u].owner = o /\ evals[u] = 0
      OBVIOUS
    <3>1. call[batch[d][k]].owner = o
      BY <1>1 DEF LoanInv, BatchUniform
    <3>2. evals[batch[d][k]] = 0
      BY <1>1 DEF LoanInv, EvalsAgree
    <3> QED BY <3>1, <3>2, LoanFacts
  <2>4. S # {} /\ S \in SUBSET Threads
    BY <1>1, <2>3
  <2> HIDE DEF S, o
  <2>5. \A u \in S : phaseBar[u] = "lent" /\ ownerBar[u] = o /\ ~ranBar[u]
    <3>1. \A u \in S : phaseBar[u] = "lent" /\ ownerBar[u] = o
      BY <2>3 DEF phaseBar, ownerBar
    <3>2. \A u \in S : ~(evals[u] > 0) /\ u \in Threads
      BY <2>3
    <3>3. \A u \in S : ~ranBar[u]
      BY <3>2 DEF ranBar
    <3> QED BY <3>1, <3>3
  <2>6. ranBar' = [u \in Threads |-> u \in S \/ ranBar[u]]
    <3>1. \A u \in Threads : ranBar'[u] = (u \in S \/ ranBar[u])
      <4> SUFFICES ASSUME NEW u \in Threads
                   PROVE  ranBar'[u] = (u \in S \/ ranBar[u])
        OBVIOUS
      <4>1. ranBar[u] = (pc[u] # "idle" /\ evals[u] > 0)
        BY DEF ranBar
      <4>2. ranBar'[u] = (pc[u] # "idle" /\ evals'[u] > 0)
        BY <1>1 DEF ranBar
      <4>3. CASE u \in S
        BY <1>1, <1>5, <2>3, <4>1, <4>2, <4>3
      <4>4. CASE u \notin S
        BY <1>1, <4>1, <4>2, <4>4
      <4> QED BY <4>3, <4>4
    <3> QED BY <3>1, BarFunctions, Zenon
  <2>7. stopping' = [p \in Owners |-> stopping[p] \/ (p = o /\ ~good)]
    <3>1. CASE o # NoOwner /\ ~good
      BY <1>3, <2>1, <2>2, <3>1 DEF FailOwner
    <3>2. CASE ~(o # NoOwner /\ ~good)
      <4>1. \A p \in Owners : ~(p = o /\ ~good)
        BY <3>2, ConstantsAssumption
      <4>2. UNCHANGED stopping
        BY <2>1, <3>2 DEF ownerVars
      <4> QED BY <1>3, <4>1, <4>2
    <3> QED BY <3>1, <3>2
  <2>8. Contract!Run(S, o, good) /\ UNCHANGED <<valueBar, answerBar>>
    BY <1>2, <2>2, <2>4, <2>5, <2>6, <2>7 DEF Contract!Run
  <2> QED BY <2>2, <2>4, <2>8 DEF Contract!Next
<1> QED BY <1>4, <1>5

(* a publication is a reply to one call, from its own input *)
LEMMA PublishReplies ==
  ASSUME QueueInv, LoanInv, NEW d \in Drainers, Publish(d)
  PROVE  Contract!Next
<1> DEFINE t == batch[d][fin[d]]
           good == batchOk[d]
<1>1. t \in Threads /\ state[t] = "RUNNING" /\ pc[t] = "waiting" /\ dpc[d] = "publishing"
      /\ fin[d] \in Open(d)
  BY PublishOpen
<1>2. /\ UNCHANGED <<pc, call, gen, outcome, evals, stopping>>
      /\ state' = [state EXCEPT ![t] = "DONE"]
      /\ replyOk' = [replyOk EXCEPT ![t] = good]
      /\ result' = [result EXCEPT ![t] = IF good THEN t ELSE NoThread]
  BY DEF Publish, ChunkOf, ownerVars
<1>3. good \in BOOLEAN /\ (good => evals[t] > 0)
  BY <1>1 DEF QueueInv, TypeOK, DrainTypes, LoanInv, EvalsAgree
<1> HIDE DEF t, good
<1>4. /\ \A u \in Threads \ {t} : Same(u)
      /\ state'[t] = "DONE" /\ replyOk'[t] = good
      /\ result'[t] = IF good THEN t ELSE NoThread
  BY <1>1, <1>2 DEF Same, QueueInv, TypeOK, SubmitTypes
<1>5. \A u \in Threads \ {t} : BarSame(u)
  BY <1>4, SameBars
<1>6. /\ phaseBar[t] = "lent" /\ phaseBar'[t] = "answered" /\ ownerBar'[t] = ownerBar[t]
      /\ ranBar'[t] = ranBar[t] /\ answerBar'[t] = answerBar[t] /\ (good => ranBar[t])
      /\ valueBar'[t] = IF good THEN t ELSE NoThread
  BY <1>1, <1>2, <1>3, <1>4 DEF phaseBar, ownerBar, ranBar, valueBar, answerBar
<1>7. /\ phaseBar' = [phaseBar EXCEPT ![t] = "answered"]
      /\ valueBar' = [valueBar EXCEPT ![t] = IF good THEN t ELSE NoThread]
      /\ UNCHANGED <<ownerBar, ranBar, answerBar>>
  BY <1>1, <1>5, <1>6, OneBar, Kept
<1>8. Contract!Replied(t, good)
  BY <1>2, <1>6, <1>7 DEF Contract!Replied, Contract!Reply
<1> QED BY <1>1, <1>3, <1>8 DEF Contract!Next

(* a query is stopped by itself or by an evaluation that failed *)
LEMMA StopKinds ==
  ASSUME ModeAgrees, [Next]_vars
  PROVE  \/ UNCHANGED stopping
         \/ \E o \in Owners : ~stopping[o] /\ stopping' = [stopping EXCEPT ![o] = TRUE]
         \/ \E d \in Drainers : Evaluate(d)
<1>1. ASSUME NEW t \in Threads, NEW c \in Calls, Arrive(t, c)
      PROVE  UNCHANGED stopping
  BY <1>1 DEF Arrive, ownerVars
<1>2. ASSUME NEW t \in Threads, SubmitterStep(t)
      PROVE  UNCHANGED stopping
  BY <1>2 DEF SubmitterStep, SnapshotFails, Submit, Reject, Push, Withdraw, Timeout, Leave,
              Collect, ownerVars
<1>3. ASSUME NEW d \in Drainers, DrainStep(d)
      PROVE  UNCHANGED stopping \/ Evaluate(d)
  BY <1>3 DEF DrainStep, StartDrain, Pop, BeginPeers, ScanPeer, EndPeers, FinishMeta, Publish,
              EndDrain, ownerVars
<1>4. ASSUME NEW d \in Drainers, SelfTestCancel(d)
      PROVE  UNCHANGED stopping
  BY <1>4 DEF SelfTestCancel, ownerVars
<1>5. ASSUME MainStep
      PROVE  \/ UNCHANGED stopping
             \/ \E o \in Owners : ~stopping[o] /\ stopping' = [stopping EXCEPT ![o] = TRUE]
  BY <1>5 DEF MainStep, SpawnHelper, PollInterrupted, EndPoll, Join, BeginPump, StopOwner,
              PumpInterrupted, EndPump, FailOwner, ModeAgrees, ownerVars
<1>6. CASE UNCHANGED vars
  BY <1>6 DEF vars, ownerVars
<1> QED BY <1>1, <1>2, <1>3, <1>4, <1>5, <1>6 DEF Next

LEMMA RefinesInit == Init => Contract!Init
<1> SUFFICES ASSUME Init PROVE Contract!Init
  OBVIOUS
<1> QED BY DEF Init, Contract!Init, Contract!LeaseInit, phaseBar, ownerBar, ranBar, valueBar,
               answerBar

LEMMA RefinesNext == LoanStrong /\ [Next]_vars => [Contract!Next]_(Contract!vars)
<1> SUFFICES ASSUME QueueInv, LoanInv, [Next]_vars
             PROVE  Contract!Next \/ (UNCHANGED Bars /\ UNCHANGED stopping)
  BY DEF LoanStrong, Contract!vars, Contract!leaseVars, Bars
<1>1. Kinds
  BY StepKinds
<1>2. ASSUME NEW d \in Drainers, Evaluate(d)
      PROVE  Contract!Next \/ (UNCHANGED Bars /\ UNCHANGED stopping)
  BY <1>2, EvaluateRuns
<1>3. ASSUME NEW t \in Threads, NEW c \in Calls, Begins(t, c)
      PROVE  Contract!Next
  BY <1>3, BeginsCalls
<1>4. ASSUME NEW t \in Threads, GoesOn(t)
      PROVE  UNCHANGED Bars /\ UNCHANGED stopping
  BY <1>4, GoesOnHides
<1>5. ASSUME NEW t \in Threads, Returns(t)
      PROVE  Contract!Next
  BY <1>5, ReturnsReturn DEF LoanInv
<1>6. ASSUME NEW d \in Drainers, Pop(d)
      PROVE  Contract!Next
  BY <1>6, PopTake, TakeLends DEF Pop, ownerVars
<1>7. ASSUME NEW d \in Drainers, ScanPeer(d), batch' # batch
      PROVE  Contract!Next
  BY <1>7, ScanTake, TakeLends DEF ScanPeer, ownerVars
<1>8. ASSUME NEW d \in Drainers, Publish(d)
      PROVE  Contract!Next
  BY <1>8, PublishReplies
<1>9. CASE Quiet /\ ~\E d \in Drainers : Evaluate(d)
  <2>1. UNCHANGED Bars
    BY <1>9, Zenon DEF Quiet, submitVars, Bars, phaseBar, ownerBar, ranBar, valueBar, answerBar
  <2>2. CASE UNCHANGED stopping
    BY <2>1, <2>2
  <2>3. ASSUME NEW o \in Owners, ~stopping[o], stopping' = [stopping EXCEPT ![o] = TRUE]
        PROVE  Contract!Next
    <3>1. Contract!Stop(o) /\ UNCHANGED <<valueBar, answerBar>>
      BY <2>1, <2>3 DEF Contract!Stop, Bars
    <3> QED BY <3>1 DEF Contract!Next
  <2> QED BY <1>9, <2>2, <2>3, StopKinds DEF LoanInv
<1> QED BY <1>1, <1>2, <1>3, <1>4, <1>5, <1>6, <1>7, <1>8, <1>9 DEF Kinds

(* rducks_worker_queue.c keeps the contract of a callback, for any number of
   threads, queries and UDFs and for every limit: a call is given up before R
   has seen it, or lent once and then answered from its own input; R runs it at
   most once, and never for a query that is stopping. *)
THEOREM QueueKeepsContract == Spec => ContractKept
<1> QED BY RefinesInit, RefinesNext, LoanInvariant, PTL DEF Spec, ContractKept, Contract!Spec

(*------------------------------- the gauges -------------------------------*)
(* The queue's counters say what they count, for any number of threads and   *)
(* UDFs.  Every action moves at most one request in or out of what each      *)
(* gauge counts; the lemmas below say which.                                 *)

(* what the gauges count *)
Waits(t) == pc[t] = "waiting" /\ state[t] = "PENDING"
Runs(t) == state[t] = "RUNNING"
Published(t) == \E d \in Drainers : dpc[d] = "publishing" /\ batch[d][fin[d]] = t
Counted(t) == pc[t] \in {"entering", "waiting", "leaving"} /\ state[t] # "DONE" /\ ~Published(t)

WaitingSet == {t \in Threads : Waits(t)}
RunningSet == {t \in Threads : Runs(t)}
CountedSet(m) == {t \in Threads : Counted(t) /\ call[t].meta = m}

LEMMA GaugesMean ==
  GaugesExact <=>
    /\ stats.pending = Cardinality(WaitingSet)
    /\ stats.running = Cardinality(RunningSet)
    /\ stats.submitted = stats.pending + stats.running + stats.executed + stats.withdrawn
    /\ stats.timeouts <= stats.withdrawn
    /\ \A m \in Metas : metaPending[m] = Cardinality(CountedSet(m))
<1>1. WaitingSet = {t \in Threads : pc[t] = "waiting" /\ state[t] = "PENDING"}
  BY DEF WaitingSet, Waits
<1>2. RunningSet = {t \in Threads : state[t] = "RUNNING"}
  BY DEF RunningSet, Runs
<1>3. \A m \in Metas : CountedSet(m) = {t \in Threads : CountsPending(t, m)}
  BY DEF CountedSet, Counted, Published, CountsPending
<1> QED BY <1>1, <1>2, <1>3 DEF GaugesExact

(* the members other than t stay what they are *)
LEMMA CardMove ==
  ASSUME NEW S, NEW T, NEW t, IsFiniteSet(S), \A u : u # t => (u \in S <=> u \in T)
  PROVE  /\ (t \in S <=> t \in T) => T = S
         /\ t \notin S /\ t \in T => Cardinality(T) = Cardinality(S) + 1
         /\ t \in S /\ t \notin T => Cardinality(S) > 0 /\ Cardinality(T) = Cardinality(S) - 1
<1>1. (t \in S <=> t \in T) => T = S
  OBVIOUS
<1>2. CASE t \notin S /\ t \in T
  <2>1. T = S \cup {t}
    BY <1>2
  <2> QED BY <1>2, <2>1, FS_AddElement
<1>3. CASE t \in S /\ t \notin T
  <2>1. T = S \ {t}
    BY <1>3
  <2>2. Cardinality(T) = Cardinality(S) - 1
    BY <1>3, <2>1, FS_RemoveElement
  <2>3. Cardinality(S) \in Nat /\ Cardinality(S) # 0
    BY <1>3, FS_CardinalityType, FS_EmptySet
  <2> QED BY <1>3, <2>2, <2>3
<1> QED BY <1>1, <1>2, <1>3

(* u counts for the gauges as before *)
Steady(u) ==
  /\ Waits(u)' <=> Waits(u)
  /\ Runs(u)' <=> Runs(u)
  /\ Counted(u)' <=> Counted(u)
  /\ Counted(u) => call'[u].meta = call[u].meta

LEMMA SetsFinite ==
  /\ IsFiniteSet(WaitingSet) /\ IsFiniteSet(RunningSet)
  /\ \A m \in Metas : IsFiniteSet(CountedSet(m))
<1>1. \A S : S \subseteq Threads => IsFiniteSet(S)
  BY ConstantsAssumption, FS_Subset
<1> QED BY <1>1 DEF WaitingSet, RunningSet, CountedSet

(* What a step that concerns only t does to the counts. *)
LEMMA Moves ==
  ASSUME NEW t \in Threads, \A u \in Threads \ {t} : Steady(u)
  PROVE  /\ (Waits(t)' <=> Waits(t)) => WaitingSet' = WaitingSet
         /\ ~Waits(t) /\ Waits(t)' => Cardinality(WaitingSet') = Cardinality(WaitingSet) + 1
         /\ Waits(t) /\ ~Waits(t)' =>
              /\ Cardinality(WaitingSet) > 0
              /\ Cardinality(WaitingSet') = Cardinality(WaitingSet) - 1
         /\ (Runs(t)' <=> Runs(t)) => RunningSet' = RunningSet
         /\ ~Runs(t) /\ Runs(t)' => Cardinality(RunningSet') = Cardinality(RunningSet) + 1
         /\ Runs(t) /\ ~Runs(t)' =>
              /\ Cardinality(RunningSet) > 0
              /\ Cardinality(RunningSet') = Cardinality(RunningSet) - 1
<1>1. \A u : u # t => (u \in WaitingSet <=> u \in WaitingSet')
  BY DEF WaitingSet, Steady
<1>2. \A u : u # t => (u \in RunningSet <=> u \in RunningSet')
  BY DEF RunningSet, Steady
<1>3. /\ t \in WaitingSet <=> Waits(t)
      /\ t \in WaitingSet' <=> Waits(t)'
      /\ t \in RunningSet <=> Runs(t)
      /\ t \in RunningSet' <=> Runs(t)'
  BY DEF WaitingSet, RunningSet
<1> HIDE DEF WaitingSet, RunningSet, Waits, Runs
<1>4. IsFiniteSet(WaitingSet) /\ IsFiniteSet(RunningSet)
  BY SetsFinite
<1>5. /\ (t \in WaitingSet <=> t \in WaitingSet') => WaitingSet' = WaitingSet
      /\ t \notin WaitingSet /\ t \in WaitingSet' =>
           Cardinality(WaitingSet') = Cardinality(WaitingSet) + 1
      /\ t \in WaitingSet /\ t \notin WaitingSet' =>
           Cardinality(WaitingSet) > 0 /\ Cardinality(WaitingSet') = Cardinality(WaitingSet) - 1
  BY <1>1, <1>4, CardMove
<1>6. /\ (t \in RunningSet <=> t \in RunningSet') => RunningSet' = RunningSet
      /\ t \notin RunningSet /\ t \in RunningSet' =>
           Cardinality(RunningSet') = Cardinality(RunningSet) + 1
      /\ t \in RunningSet /\ t \notin RunningSet' =>
           Cardinality(RunningSet) > 0 /\ Cardinality(RunningSet') = Cardinality(RunningSet) - 1
  BY <1>2, <1>4, CardMove
<1> QED BY <1>3, <1>5, <1>6

LEMMA MetaMoves ==
  ASSUME NEW t \in Threads, \A u \in Threads \ {t} : Steady(u), NEW m \in Metas,
         Counted(t) /\ Counted(t)' => call'[t].meta = call[t].meta
  PROVE  /\ (Counted(t)' <=> Counted(t)) => CountedSet(m)' = CountedSet(m)
         /\ ~Counted(t) /\ Counted(t)' =>
              /\ call'[t].meta # m => CountedSet(m)' = CountedSet(m)
              /\ call'[t].meta = m => Cardinality(CountedSet(m)') = Cardinality(CountedSet(m)) + 1
         /\ Counted(t) /\ ~Counted(t)' =>
              /\ call[t].meta # m => CountedSet(m)' = CountedSet(m)
              /\ call[t].meta = m =>
                   /\ Cardinality(CountedSet(m)) > 0
                   /\ Cardinality(CountedSet(m)') = Cardinality(CountedSet(m)) - 1
<1>1. \A u : u # t => (u \in CountedSet(m) <=> u \in CountedSet(m)')
  BY DEF CountedSet, Steady
<1>2. /\ t \in CountedSet(m) <=> Counted(t) /\ call[t].meta = m
      /\ t \in CountedSet(m)' <=> Counted(t)' /\ call'[t].meta = m
  BY DEF CountedSet
<1>3. IsFiniteSet(CountedSet(m))
  BY SetsFinite
<1>4. /\ (t \in CountedSet(m) <=> t \in CountedSet(m)') => CountedSet(m)' = CountedSet(m)
      /\ t \notin CountedSet(m) /\ t \in CountedSet(m)' =>
           Cardinality(CountedSet(m)') = Cardinality(CountedSet(m)) + 1
      /\ t \in CountedSet(m) /\ t \notin CountedSet(m)' =>
           /\ Cardinality(CountedSet(m)) > 0
           /\ Cardinality(CountedSet(m)') = Cardinality(CountedSet(m)) - 1
  BY <1>1, <1>3, CardMove
<1> HIDE DEF Counted, CountedSet
<1> QED BY <1>2, <1>4
-----------------------------------------------------------------------------
(* What a step does to each gauge, when t is the only request it moves. *)
WaitMove(t) ==
  \/ (Waits(t)' <=> Waits(t)) /\ stats'.pending = stats.pending
  \/ ~Waits(t) /\ Waits(t)' /\ stats'.pending = stats.pending + 1
  \/ Waits(t) /\ ~Waits(t)' /\ stats'.pending = Dec(stats.pending)
RunMove(t) ==
  \/ (Runs(t)' <=> Runs(t)) /\ stats'.running = stats.running
  \/ ~Runs(t) /\ Runs(t)' /\ stats'.running = stats.running + 1
  \/ Runs(t) /\ ~Runs(t)' /\ stats'.running = Dec(stats.running)
MetaMove(t) ==
  \/ /\ Counted(t)' <=> Counted(t)
     /\ Counted(t) => call'[t].meta = call[t].meta
     /\ metaPending' = metaPending
  \/ /\ ~Counted(t) /\ Counted(t)' /\ call'[t].meta = call[t].meta
     /\ metaPending' = [metaPending EXCEPT ![call[t].meta] = @ + 1]
  \/ /\ Counted(t) /\ ~Counted(t)'
     /\ metaPending' = [metaPending EXCEPT ![call[t].meta] = Dec(@)]
Balanced ==
  /\ stats.submitted = stats.pending + stats.running + stats.executed + stats.withdrawn
  /\ stats.timeouts <= stats.withdrawn

(* A gauge of something that is there is not zero: the guards of the
   decrements do not matter. *)
LEMMA Positive ==
  ASSUME QueueInv, GaugesExact, NEW t \in Threads
  PROVE  /\ Waits(t) => stats.pending > 0
         /\ Runs(t) => stats.running > 0
<1>1. stats.pending = Cardinality(WaitingSet) /\ stats.running = Cardinality(RunningSet)
  BY GaugesMean
<1>2. IsFiniteSet(WaitingSet) /\ IsFiniteSet(RunningSet)
  BY SetsFinite
<1>3. Waits(t) => t \in WaitingSet
  BY DEF WaitingSet
<1>4. Runs(t) => t \in RunningSet
  BY DEF RunningSet
<1> HIDE DEF WaitingSet, RunningSet, Waits, Runs
<1>5. \A S : IsFiniteSet(S) /\ (\E x : x \in S) => Cardinality(S) > 0
  <2> SUFFICES ASSUME NEW S, IsFiniteSet(S), NEW x \in S PROVE Cardinality(S) > 0
    OBVIOUS
  <2>1. Cardinality(S) \in Nat /\ Cardinality(S) # 0
    BY FS_CardinalityType, FS_EmptySet
  <2> QED BY <2>1
<1> QED BY <1>1, <1>2, <1>3, <1>4, <1>5

LEMMA GaugesMove ==
  ASSUME QueueInv, GaugesExact, NEW t \in Threads, \A u \in Threads \ {t} : Steady(u),
         WaitMove(t), RunMove(t), MetaMove(t), Balanced'
  PROVE  GaugesExact'
<1>1. /\ stats.pending = Cardinality(WaitingSet) /\ stats.running = Cardinality(RunningSet)
      /\ \A m \in Metas : metaPending[m] = Cardinality(CountedSet(m))
  BY GaugesMean
<1>2. /\ stats.pending \in Nat /\ stats.running \in Nat
      /\ metaPending \in [Metas -> Nat]
  BY StatsAreCounts DEF QueueInv, TypeOK, SharedTypes
<1>3. stats'.pending = Cardinality(WaitingSet')
  <2>1. CASE (Waits(t)' <=> Waits(t)) /\ stats'.pending = stats.pending
    <3>1. WaitingSet' = WaitingSet
      BY <2>1, Moves
    <3> QED BY <1>1, <2>1, <3>1
  <2>2. CASE ~Waits(t) /\ Waits(t)' /\ stats'.pending = stats.pending + 1
    <3>1. Cardinality(WaitingSet') = Cardinality(WaitingSet) + 1
      BY <2>2, Moves
    <3> QED BY <1>1, <2>2, <3>1
  <2>3. CASE Waits(t) /\ ~Waits(t)' /\ stats'.pending = Dec(stats.pending)
    <3>1. Cardinality(WaitingSet) > 0 /\ Cardinality(WaitingSet') = Cardinality(WaitingSet) - 1
      BY <2>3, Moves
    <3> QED BY <1>1, <2>3, <3>1 DEF Dec
  <2> QED BY <2>1, <2>2, <2>3 DEF WaitMove
<1>4. stats'.running = Cardinality(RunningSet')
  <2>1. CASE (Runs(t)' <=> Runs(t)) /\ stats'.running = stats.running
    <3>1. RunningSet' = RunningSet
      BY <2>1, Moves
    <3> QED BY <1>1, <2>1, <3>1
  <2>2. CASE ~Runs(t) /\ Runs(t)' /\ stats'.running = stats.running + 1
    <3>1. Cardinality(RunningSet') = Cardinality(RunningSet) + 1
      BY <2>2, Moves
    <3> QED BY <1>1, <2>2, <3>1
  <2>3. CASE Runs(t) /\ ~Runs(t)' /\ stats'.running = Dec(stats.running)
    <3>1. Cardinality(RunningSet) > 0 /\ Cardinality(RunningSet') = Cardinality(RunningSet) - 1
      BY <2>3, Moves
    <3> QED BY <1>1, <2>3, <3>1 DEF Dec
  <2> QED BY <2>1, <2>2, <2>3 DEF RunMove
<1>5. ASSUME NEW m \in Metas
      PROVE  metaPending'[m] = Cardinality(CountedSet(m)')
  <2>0. metaPending[m] = Cardinality(CountedSet(m))
    BY <1>1
  <2>1. CASE /\ Counted(t)' <=> Counted(t)
             /\ Counted(t) => call'[t].meta = call[t].meta
             /\ metaPending' = metaPending
    <3>1. CountedSet(m)' = CountedSet(m)
      BY <2>1, MetaMoves
    <3> QED BY <2>0, <2>1, <3>1
  <2>2. CASE /\ ~Counted(t) /\ Counted(t)' /\ call'[t].meta = call[t].meta
             /\ metaPending' = [metaPending EXCEPT ![call[t].meta] = @ + 1]
    <3>1. /\ call[t].meta # m => CountedSet(m)' = CountedSet(m)
          /\ call[t].meta = m => Cardinality(CountedSet(m)') = Cardinality(CountedSet(m)) + 1
      BY <2>2, MetaMoves
    <3>2. metaPending'[m] = IF call[t].meta = m THEN metaPending[m] + 1 ELSE metaPending[m]
      BY <1>2, <2>2
    <3> QED BY <2>0, <3>1, <3>2
  <2>3. CASE /\ Counted(t) /\ ~Counted(t)'
             /\ metaPending' = [metaPending EXCEPT ![call[t].meta] = Dec(@)]
    <3>1. /\ call[t].meta # m => CountedSet(m)' = CountedSet(m)
          /\ call[t].meta = m => /\ Cardinality(CountedSet(m)) > 0
                                 /\ Cardinality(CountedSet(m)') = Cardinality(CountedSet(m)) - 1
      BY <2>3, MetaMoves
    <3>2. metaPending'[m] = IF call[t].meta = m THEN Dec(metaPending[m]) ELSE metaPending[m]
      BY <1>2, <2>3
    <3> QED BY <2>0, <3>1, <3>2 DEF Dec
  <2> QED BY <2>1, <2>2, <2>3 DEF MetaMove
<1>6. /\ WaitingSet' = {u \in Threads : pc'[u] = "waiting" /\ state'[u] = "PENDING"}
      /\ RunningSet' = {u \in Threads : state'[u] = "RUNNING"}
      /\ \A m \in Metas : CountedSet(m)' = {u \in Threads : CountsPending(u, m)'}
  BY DEF WaitingSet, Waits, RunningSet, Runs, CountedSet, Counted, Published, CountsPending
<1> HIDE DEF WaitingSet, RunningSet, CountedSet
<1>7. \A m \in Metas : metaPending'[m] = Cardinality({u \in Threads : CountsPending(u, m)'})
  BY <1>5, <1>6
<1>8. /\ stats'.pending = Cardinality({u \in Threads : pc'[u] = "waiting" /\ state'[u] = "PENDING"})
      /\ stats'.running = Cardinality({u \in Threads : state'[u] = "RUNNING"})
  BY <1>3, <1>4, <1>6
<1> QED BY <1>7, <1>8 DEF GaugesExact, Balanced
-----------------------------------------------------------------------------
LEMMA StatsAreNat ==
  ASSUME QueueInv
  PROVE  /\ stats.submitted \in Nat /\ stats.executed \in Nat /\ stats.timeouts \in Nat
         /\ stats.pending \in Nat /\ stats.running \in Nat /\ stats.withdrawn \in Nat
  BY DEF QueueInv, TypeOK, SharedTypes, StatsType

(* A request about to be answered is running; so no other step moves it. *)
LEMMA PublishedRuns ==
  ASSUME QueueInv, NEW d \in Drainers, dpc[d] = "publishing"
  PROVE  /\ fin[d] \in Open(d) /\ batch[d][fin[d]] \in Threads
         /\ state[batch[d][fin[d]]] = "RUNNING" /\ pc[batch[d][fin[d]]] = "waiting"
         /\ call[batch[d][fin[d]]] \in Calls
<1>1. fin[d] \in 1..Len(batch[d]) /\ Len(batch[d]) \in Nat
  BY DEF QueueInv, DrainerAgrees, TypeOK, DrainTypes
<1>2. fin[d] \in Open(d)
  BY <1>1 DEF Open
<1> QED BY <1>2, LoanFacts

LEMMA NotPublished ==
  ASSUME QueueInv, NEW t \in Threads, state[t] # "RUNNING"
  PROVE  ~Published(t)
  BY PublishedRuns DEF Published

LEMMA PublishedFrame ==
  ASSUME \A e \in Drainers : /\ dpc'[e] = "publishing" <=> dpc[e] = "publishing"
                             /\ dpc[e] = "publishing" => batch'[e][fin'[e]] = batch[e][fin[e]]
  PROVE  \A u \in Threads : Published(u)' <=> Published(u)
  BY DEF Published

LEMMA OthersSteady ==
  ASSUME NEW t \in Threads, OthersSame(t), \A u \in Threads : Published(u)' <=> Published(u)
  PROVE  \A u \in Threads \ {t} : Steady(u)
<1> SUFFICES ASSUME NEW u \in Threads \ {t} PROVE Steady(u)
  OBVIOUS
<1>1. pc'[u] = pc[u] /\ state'[u] = state[u] /\ call'[u] = call[u]
  BY DEF OthersSame, Same
<1> QED BY <1>1 DEF Steady, Waits, Runs, Counted

LEMMA NothingMoves ==
  ASSUME QueueInv, GaugesExact, \A u \in Threads : Steady(u), stats' = stats,
         metaPending' = metaPending
  PROVE  GaugesExact'
<1>1. Helper \in Threads
  BY ConstantsAssumption
<1>2. WaitMove(Helper) /\ RunMove(Helper) /\ MetaMove(Helper)
  BY <1>1 DEF WaitMove, RunMove, MetaMove, Steady
<1>3. Balanced'
  BY DEF Balanced, GaugesExact
<1> QED BY <1>1, <1>2, <1>3, GaugesMove

LEMMA QuietGauges ==
  ASSUME QueueInv, GaugesExact, UNCHANGED <<pc, state, call, stats, metaPending>>,
         \A u \in Threads : Published(u)' <=> Published(u)
  PROVE  GaugesExact'
<1>1. \A u \in Threads : Steady(u)
  BY DEF Steady, Waits, Runs, Counted
<1> QED BY <1>1, NothingMoves
-----------------------------------------------------------------------------
(* The submitting thread. *)
LEMMA SubmitterMove ==
  ASSUME QueueInv, GaugesExact, NEW t \in Threads, OthersSame(t), UNCHANGED drainVars,
         WaitMove(t), RunMove(t), MetaMove(t), Balanced'
  PROVE  GaugesExact'
<1>1. \A u \in Threads : Published(u)' <=> Published(u)
  BY PublishedFrame DEF drainVars
<1>2. \A u \in Threads \ {t} : Steady(u)
  BY <1>1, OthersSteady
<1> QED BY <1>2, GaugesMove

LEMMA ArriveGauges ==
  ASSUME QueueInv, GaugesExact, NEW t \in Threads, NEW c \in Calls,
         Arrive(t, c) \/ (SpawnHelper(c) /\ t = Helper)
  PROVE  GaugesExact'
<1>1. Begins(t, c) /\ UNCHANGED <<stats, metaPending, drainVars>>
  BY BeginsKind DEF Arrive, SpawnHelper
<1>2. ~Waits(t) /\ ~Waits(t)' /\ ~Runs(t) /\ ~Runs(t)' /\ ~Counted(t) /\ ~Counted(t)'
  BY <1>1 DEF Begins, Waits, Runs, Counted
<1>3. WaitMove(t) /\ RunMove(t) /\ MetaMove(t)
  BY <1>1, <1>2 DEF WaitMove, RunMove, MetaMove
<1>4. Balanced' /\ OthersSame(t)
  BY <1>1 DEF Balanced, GaugesExact, Begins
<1> QED BY <1>1, <1>3, <1>4, SubmitterMove

(* The steps of a submission, by what they move. *)
LEMMA EnterGauges ==
  ASSUME QueueInv, GaugesExact, NEW t \in Threads, OthersSame(t), Submit(t)
  PROVE  GaugesExact'
<1>1. SubmitTypes /\ state[t] = "none" /\ pc[t] = "arriving"
  BY DEF QueueInv, TypeOK, PcAgrees, Submit
<1>2. /\ pc'[t] = "entering" /\ state'[t] = "PENDING" /\ call' = call
      /\ metaPending' = [metaPending EXCEPT ![call[t].meta] = @ + 1]
      /\ UNCHANGED <<stats, drainVars>>
  BY <1>1 DEF Submit, SubmitTypes
<1>3. ~Published(t)'
  <2>1. ~Published(t)
    BY <1>1, NotPublished
  <2>2. Published(t)' <=> Published(t)
    BY <1>2, PublishedFrame DEF drainVars
  <2> QED BY <2>1, <2>2
<1>4. WaitMove(t) /\ RunMove(t)
  BY <1>1, <1>2 DEF WaitMove, RunMove, Waits, Runs
<1>5. MetaMove(t)
  BY <1>1, <1>2, <1>3 DEF MetaMove, Counted
<1>6. Balanced'
  BY <1>2 DEF Balanced, GaugesExact
<1> QED BY <1>2, <1>4, <1>5, <1>6, SubmitterMove

LEMMA PushGauges ==
  ASSUME QueueInv, GaugesExact, NEW t \in Threads, OthersSame(t), Push(t)
  PROVE  GaugesExact'
<1>1. SubmitTypes /\ SharedTypes /\ state[t] = "PENDING" /\ pc[t] = "entering"
  BY DEF QueueInv, TypeOK, PcAgrees, Push
<1>2. call' = call /\ UNCHANGED <<metaPending, drainVars>>
  BY DEF Push
<1>3. Published(t)' <=> Published(t)
  BY <1>2, PublishedFrame DEF drainVars
<1>4. stats \in StatsType /\ Balanced
  BY <1>1, StatsAreCounts DEF Balanced, GaugesExact
<1>5. CASE Cancelled(t)
  <2>1. pc'[t] = "leaving" /\ state'[t] = "CANCELLED"
    BY <1>1, <1>5 DEF Push, Leaving, SubmitTypes
  <2>2. stats' = [stats EXCEPT !.submitted = stats.submitted + 1,
                               !.withdrawn = stats.withdrawn + 1]
    BY <1>5 DEF Push
  <2>3. /\ stats'.submitted = stats.submitted + 1 /\ stats'.executed = stats.executed
        /\ stats'.timeouts = stats.timeouts /\ stats'.pending = stats.pending
        /\ stats'.running = stats.running /\ stats'.withdrawn = stats.withdrawn + 1
    BY <1>4, <2>2, Zenon DEF StatsType
  <2>4. Balanced'
    BY <1>4, <2>3, StatsAreNat DEF Balanced
  <2>5. WaitMove(t) /\ RunMove(t) /\ MetaMove(t)
    BY <1>1, <1>2, <1>3, <2>1, <2>3 DEF WaitMove, RunMove, MetaMove, Waits, Runs, Counted
  <2> QED BY <1>2, <2>4, <2>5, SubmitterMove
<1>6. CASE ~Cancelled(t)
  <2>1. pc'[t] = "waiting" /\ state' = state
    BY <1>1, <1>6 DEF Push, SubmitTypes
  <2>2. stats' = [stats EXCEPT !.submitted = stats.submitted + 1, !.pending = stats.pending + 1]
    BY <1>6 DEF Push
  <2>3. /\ stats'.submitted = stats.submitted + 1 /\ stats'.executed = stats.executed
        /\ stats'.timeouts = stats.timeouts /\ stats'.pending = stats.pending + 1
        /\ stats'.running = stats.running /\ stats'.withdrawn = stats.withdrawn
    BY <1>4, <2>2, Zenon DEF StatsType
  <2>4. Balanced'
    BY <1>4, <2>3, StatsAreNat DEF Balanced
  <2>5. WaitMove(t) /\ RunMove(t) /\ MetaMove(t)
    BY <1>1, <1>2, <1>3, <2>1, <2>3 DEF WaitMove, RunMove, MetaMove, Waits, Runs, Counted
  <2> QED BY <1>2, <2>4, <2>5, SubmitterMove
<1> QED BY <1>5, <1>6

(* A withdrawn request was counted as pending. *)
LEMMA DepartGauges ==
  ASSUME QueueInv, GaugesExact, NEW t \in Threads, OthersSame(t), UNCHANGED drainVars,
         pc[t] = "waiting", state[t] = "PENDING", pc'[t] = "leaving", state'[t] = "CANCELLED",
         call' = call, metaPending' = metaPending,
         stats'.submitted = stats.submitted, stats'.executed = stats.executed,
         stats'.pending = Dec(stats.pending), stats'.running = stats.running,
         stats'.withdrawn = stats.withdrawn + 1,
         stats'.timeouts \in {stats.timeouts, stats.timeouts + 1}
  PROVE  GaugesExact'
<1>1. Published(t)' <=> Published(t)
  BY PublishedFrame DEF drainVars
<1>2. WaitMove(t) /\ RunMove(t) /\ MetaMove(t) /\ Waits(t)
  BY <1>1 DEF WaitMove, RunMove, MetaMove, Waits, Runs, Counted
<1>3. /\ stats.submitted \in Nat /\ stats.pending \in Nat /\ stats.running \in Nat
      /\ stats.executed \in Nat /\ stats.withdrawn \in Nat /\ stats.timeouts \in Nat
  BY DEF QueueInv, TypeOK, SharedTypes, StatsType
<1>4. stats.pending > 0 /\ Balanced
  BY <1>2, Positive DEF GaugesExact, Balanced
<1>5. Balanced'
  BY <1>3, <1>4 DEF Balanced, Dec
<1> QED BY <1>2, <1>5, SubmitterMove

LEMMA WithdrawGauges ==
  ASSUME QueueInv, GaugesExact, NEW t \in Threads, OthersSame(t), Withdraw(t)
  PROVE  GaugesExact'
<1>1. SubmitTypes /\ SharedTypes /\ stats \in StatsType
  BY StatsAreCounts DEF QueueInv, TypeOK
<1>2. stats' = [stats EXCEPT !.pending = Dec(stats.pending), !.withdrawn = stats.withdrawn + 1]
  BY DEF Withdraw
<1>3. /\ stats'.submitted = stats.submitted /\ stats'.executed = stats.executed
      /\ stats'.timeouts = stats.timeouts /\ stats'.pending = Dec(stats.pending)
      /\ stats'.running = stats.running /\ stats'.withdrawn = stats.withdrawn + 1
  BY <1>1, <1>2, Zenon DEF StatsType
<1>4. /\ pc[t] = "waiting" /\ state[t] = "PENDING" /\ pc'[t] = "leaving"
      /\ state'[t] = "CANCELLED" /\ call' = call /\ UNCHANGED <<metaPending, drainVars>>
  BY <1>1 DEF Withdraw, Unlink, Leaving, SubmitTypes
<1> QED BY <1>3, <1>4, DepartGauges

LEMMA TimeoutGauges ==
  ASSUME QueueInv, GaugesExact, NEW t \in Threads, OthersSame(t), Timeout(t)
  PROVE  GaugesExact'
<1>1. SubmitTypes /\ SharedTypes /\ stats \in StatsType
  BY StatsAreCounts DEF QueueInv, TypeOK
<1>2. PICK clockFailed \in BOOLEAN :
        /\ stats' = [stats EXCEPT !.pending = Dec(stats.pending),
                                  !.withdrawn = stats.withdrawn + 1,
                                  !.timeouts = IF clockFailed THEN stats.timeouts
                                                              ELSE stats.timeouts + 1]
        /\ Leaving(t, IF clockFailed THEN "error" ELSE "timeout")
  BY DEF Timeout
<1>3. /\ stats'.submitted = stats.submitted /\ stats'.executed = stats.executed
      /\ stats'.timeouts = (IF clockFailed THEN stats.timeouts ELSE stats.timeouts + 1)
      /\ stats'.pending = Dec(stats.pending)
      /\ stats'.running = stats.running /\ stats'.withdrawn = stats.withdrawn + 1
  BY <1>1, <1>2, Zenon DEF StatsType
<1>4. /\ pc[t] = "waiting" /\ state[t] = "PENDING" /\ pc'[t] = "leaving"
      /\ state'[t] = "CANCELLED" /\ call' = call /\ UNCHANGED <<metaPending, drainVars>>
  BY <1>1, <1>2 DEF Timeout, Unlink, Leaving, SubmitTypes
<1> QED BY <1>3, <1>4, DepartGauges

LEMMA LeaveGauges ==
  ASSUME QueueInv, GaugesExact, NEW t \in Threads, OthersSame(t), Leave(t)
  PROVE  GaugesExact'
<1>1. SubmitTypes /\ state[t] \in {"PENDING", "CANCELLED"} /\ pc[t] = "leaving"
  BY DEF QueueInv, TypeOK, PcAgrees, Leave
<1>2. /\ pc'[t] = "idle" /\ state'[t] = "none" /\ UNCHANGED <<stats, drainVars>>
      /\ metaPending' = [metaPending EXCEPT ![call[t].meta] = Dec(@)]
  BY <1>1 DEF Leave, Forget, SubmitTypes
<1>3. ~Published(t)
  BY <1>1, NotPublished
<1>4. WaitMove(t) /\ RunMove(t) /\ MetaMove(t)
  BY <1>1, <1>2, <1>3 DEF WaitMove, RunMove, MetaMove, Waits, Runs, Counted
<1>5. Balanced'
  BY <1>2 DEF Balanced, GaugesExact
<1> QED BY <1>2, <1>4, <1>5, SubmitterMove

(* The other steps of a submission move nothing. *)
LEMMA OtherGauges ==
  ASSUME QueueInv, GaugesExact, NEW t \in Threads, OthersSame(t),
         SnapshotFails(t) \/ Reject(t) \/ Collect(t)
  PROVE  GaugesExact'
<1>1. SubmitTypes /\ PcAgrees
  BY DEF QueueInv, TypeOK
<1>2. UNCHANGED <<stats, metaPending, drainVars>>
  BY DEF SnapshotFails, Reject, Collect
<1>3. Published(t)' <=> Published(t)
  BY <1>2, PublishedFrame DEF drainVars
<1>4. CASE SnapshotFails(t)
  <2>1. pc[t] = "arriving" /\ pc'[t] = "idle" /\ state[t] = "none" /\ state' = state
    BY <1>1, <1>4 DEF SnapshotFails, SubmitTypes, PcAgrees
  <2> QED BY <1>2, <1>3, <2>1, SubmitterMove
          DEF WaitMove, RunMove, MetaMove, Waits, Runs, Counted, Balanced, GaugesExact
<1>5. CASE Reject(t)
  <2>1. pc[t] = "entering" /\ pc'[t] = "leaving" /\ state' = state /\ call' = call
    BY <1>1, <1>5 DEF Reject, Leaving, SubmitTypes
  <2> QED BY <1>2, <1>3, <2>1, SubmitterMove
          DEF WaitMove, RunMove, MetaMove, Waits, Runs, Counted, Balanced, GaugesExact
<1>6. CASE Collect(t)
  <2>1. pc'[t] = "idle" /\ state[t] = "DONE" /\ state'[t] = "none"
    BY <1>1, <1>6 DEF Collect, Answered, Forget, SubmitTypes
  <2> QED BY <1>2, <1>3, <2>1, SubmitterMove
          DEF WaitMove, RunMove, MetaMove, Waits, Runs, Counted, Balanced, GaugesExact
<1> QED BY <1>4, <1>5, <1>6

LEMMA SubmitterGauges ==
  ASSUME QueueInv, AnswersAgree, GaugesExact, NEW t \in Threads, SubmitterStep(t)
  PROVE  GaugesExact'
<1>1. OthersSame(t)
  BY SubmitterKind DEF GoesOn, Returns
<1> QED BY <1>1, EnterGauges, PushGauges, WithdrawGauges, TimeoutGauges, LeaveGauges,
           OtherGauges DEF SubmitterStep
-----------------------------------------------------------------------------
(* The drainers.  Preparing and evaluating a batch moves nothing. *)
LEMMA PreparingGauges ==
  ASSUME QueueInv, GaugesExact, NEW d \in Drainers,
         \/ StartDrain(d) \/ BeginPeers(d) \/ EndPeers(d) \/ Evaluate(d) \/ EndDrain(d)
         \/ (ScanPeer(d) /\ batch' = batch)
  PROVE  GaugesExact'
<1>1. DrainTypes
  BY DEF QueueInv, TypeOK
<1>2. /\ UNCHANGED <<batch, pc, state, call, stats, metaPending>>
      /\ \A e \in Drainers \ {d} : dpc'[e] = dpc[e] /\ fin'[e] = fin[e]
      /\ dpc[d] # "publishing" /\ dpc'[d] # "publishing"
  <2>1. CASE StartDrain(d)
    BY <1>1, <2>1 DEF StartDrain, DrainTypes, submitVars
  <2>2. CASE BeginPeers(d)
    BY <1>1, <2>2 DEF BeginPeers, DrainTypes, submitVars
  <2>3. CASE EndPeers(d)
    BY <1>1, <2>3 DEF EndPeers, DrainTypes, submitVars
  <2>4. CASE Evaluate(d)
    BY <1>1, <2>4 DEF Evaluate, DrainTypes
  <2>5. CASE EndDrain(d)
    BY <1>1, <2>5 DEF EndDrain, DrainTypes, submitVars
  <2>6. CASE ScanPeer(d) /\ batch' = batch
    <3>1. UNCHANGED submitVars
      BY <2>6, DrainerKind DEF Quiet
    <3>2. ~Peer(batch[d][1], queue[scan[d]], rows[d])
      <4>1. batch[d] # Append(batch[d], queue[scan[d]])
        <5>1. batch[d] \in Seq(Threads) /\ scan[d] \in 1 .. Len(queue) /\ queue[scan[d]] \in Threads
          BY <1>1, <2>6 DEF QueueInv, TypeOK, ScanPeer, DrainTypes, DrainerAgrees, SharedTypes
        <5>2. Len(Append(batch[d], queue[scan[d]])) = Len(batch[d]) + 1 /\ Len(batch[d]) \in Nat
          BY <5>1, AppendProperties
        <5> QED BY <5>2
      <4> QED BY <1>1, <2>6, <4>1 DEF ScanPeer, DrainTypes
    <3> QED BY <1>1, <2>6, <3>1, <3>2 DEF ScanPeer, DrainTypes, submitVars
  <2> QED BY <2>1, <2>2, <2>3, <2>4, <2>5, <2>6
<1>3. \A e \in Drainers : /\ dpc'[e] = "publishing" <=> dpc[e] = "publishing"
                          /\ dpc[e] = "publishing" => batch'[e][fin'[e]] = batch[e][fin[e]]
  BY <1>2
<1> QED BY <1>2, <1>3, PublishedFrame, QuietGauges

LEMMA TakenBalance ==
  ASSUME QueueInv, Balanced, stats.pending > 0,
         stats'.submitted = stats.submitted, stats'.executed = stats.executed,
         stats'.timeouts = stats.timeouts, stats'.pending = Dec(stats.pending),
         stats'.running = stats.running + 1, stats'.withdrawn = stats.withdrawn
  PROVE  Balanced'
  BY StatsAreNat DEF Balanced, Dec

(* A request that a drainer takes no longer waits, and runs. *)
LEMMA TakeGauges ==
  ASSUME QueueInv, GaugesExact, NEW d \in Drainers, NEW i \in 1..Len(queue), Take(d, i),
         stats' = [stats EXCEPT !.pending = Dec(stats.pending), !.running = stats.running + 1],
         metaPending' = metaPending
  PROVE  GaugesExact'
<1>1. PICK t \in Threads : /\ t = queue[i] /\ pc[t] = "waiting" /\ state[t] = "PENDING"
                          /\ \A e \in Drainers \ {d} : batch'[e] = batch[e]
  BY TakeOpen
<1>2. \A e \in Drainers : /\ dpc'[e] = "publishing" <=> dpc[e] = "publishing"
                          /\ dpc[e] = "publishing" => batch'[e][fin'[e]] = batch[e][fin[e]]
  BY <1>1 DEF Take
<1>3. \A u \in Threads : Published(u)' <=> Published(u)
  BY <1>2, PublishedFrame
<1>4. /\ state' = [state EXCEPT ![t] = "RUNNING"] /\ UNCHANGED <<pc, call>>
      /\ state \in [Threads -> {"none", "PENDING", "RUNNING", "DONE", "CANCELLED"}]
  BY <1>1 DEF Take, QueueInv, TypeOK, SubmitTypes
<1>5. stats \in StatsType
  BY DEF QueueInv, TypeOK, SharedTypes
<1>6. /\ stats'.submitted = stats.submitted /\ stats'.executed = stats.executed
      /\ stats'.timeouts = stats.timeouts /\ stats'.pending = Dec(stats.pending)
      /\ stats'.running = stats.running + 1 /\ stats'.withdrawn = stats.withdrawn
  BY <1>5, Zenon DEF StatsType
<1>7. \A u \in Threads \ {t} : Steady(u)
  BY <1>3, <1>4 DEF Steady, Waits, Runs, Counted
<1>8. WaitMove(t) /\ RunMove(t) /\ MetaMove(t) /\ Waits(t)
  BY <1>1, <1>3, <1>4, <1>6 DEF WaitMove, RunMove, MetaMove, Waits, Runs, Counted
<1>9. stats.pending > 0 /\ Balanced
  BY <1>1, <1>8, Positive DEF GaugesExact, Balanced
<1>10. Balanced'
  BY <1>6, <1>9, TakenBalance
<1> QED BY <1>1, <1>7, <1>8, <1>10, GaugesMove

(* The UDF's count is lowered when the answer is about to be published. *)
LEMMA FinishMetaGauges ==
  ASSUME QueueInv, GaugesExact, NEW d \in Drainers, FinishMeta(d)
  PROVE  GaugesExact'
<1>1. /\ dpc[d] = "finishing" /\ dpc' = [dpc EXCEPT ![d] = "publishing"]
      /\ UNCHANGED <<pc, state, call, batch, fin, stats>>
      /\ metaPending' = [metaPending EXCEPT ![call[batch[d][fin[d]]].meta] = Dec(@)]
  BY DEF FinishMeta, submitVars
<1>2. fin[d] \in Open(d)
  BY <1>1 DEF Open, QueueInv, DrainerAgrees, TypeOK, DrainTypes
<1>3. PICK t \in Threads :
        t = batch[d][fin[d]] /\ state[t] = "RUNNING" /\ pc[t] = "waiting"
  BY <1>2, LoanFacts
<1>4. ~Published(t)
  <2> SUFFICES ASSUME NEW e \in Drainers, dpc[e] = "publishing", batch[e][fin[e]] = t
               PROVE  FALSE
    BY DEF Published
  <2>1. fin[e] \in Open(e)
    BY PublishedRuns
  <2>2. e = d
    BY <1>2, <1>3, <2>1 DEF QueueInv, RunningIsBorrowed
  <2> QED BY <1>1, <2>2
<1>5. dpc'[d] = "publishing" /\ \A e \in Drainers \ {d} : dpc'[e] = dpc[e]
  BY <1>1 DEF QueueInv, TypeOK, DrainTypes
<1>6. \A u \in Threads : Published(u)' <=> Published(u) \/ u = t
  BY <1>1, <1>3, <1>5 DEF Published
<1>7. \A u \in Threads \ {t} : Steady(u)
  BY <1>1, <1>6 DEF Steady, Waits, Runs, Counted
<1>8. WaitMove(t) /\ RunMove(t) /\ MetaMove(t)
  BY <1>1, <1>3, <1>4, <1>6 DEF WaitMove, RunMove, MetaMove, Waits, Runs, Counted
<1>9. Balanced'
  BY <1>1 DEF Balanced, GaugesExact
<1> QED BY <1>3, <1>7, <1>8, <1>9, GaugesMove

(* A published answer ends a run; nobody else publishes it. *)
LEMMA PublishGauges ==
  ASSUME QueueInv, GaugesExact, NEW d \in Drainers, Publish(d)
  PROVE  GaugesExact'
<1>1. PICK t \in Threads : /\ t = batch[d][fin[d]] /\ fin[d] \in Open(d) /\ dpc[d] = "publishing"
                          /\ state[t] = "RUNNING" /\ pc[t] = "waiting"
  BY PublishOpen
<1>2. /\ state' = [state EXCEPT ![t] = "DONE"] /\ UNCHANGED <<pc, call, metaPending>>
      /\ stats' = [stats EXCEPT !.executed = stats.executed + 1, !.running = Dec(stats.running)]
  BY <1>1 DEF Publish
<1>3. /\ dpc'[d] # "publishing"
      /\ \A e \in Drainers \ {d} : dpc'[e] = dpc[e] /\ batch'[e] = batch[e] /\ fin'[e] = fin[e]
  BY DEF Publish, QueueInv, TypeOK, DrainTypes
<1>4. \A e \in Drainers \ {d} : dpc[e] = "publishing" => batch[e][fin[e]] # t
  <2> SUFFICES ASSUME NEW e \in Drainers \ {d}, dpc[e] = "publishing", batch[e][fin[e]] = t
               PROVE  FALSE
    OBVIOUS
  <2>1. fin[e] \in Open(e)
    BY PublishedRuns
  <2> QED BY <1>1, <2>1 DEF QueueInv, RunningIsBorrowed
<1>5. Published(t)
  BY <1>1 DEF Published
<1>6. \A u \in Threads \ {t} : Published(u)' <=> Published(u)
  BY <1>1, <1>3 DEF Published
<1>7. stats \in StatsType
  BY DEF QueueInv, TypeOK, SharedTypes
<1>8. /\ stats'.submitted = stats.submitted /\ stats'.executed = stats.executed + 1
      /\ stats'.timeouts = stats.timeouts /\ stats'.pending = stats.pending
      /\ stats'.running = Dec(stats.running) /\ stats'.withdrawn = stats.withdrawn
  BY <1>2, <1>7, Zenon DEF StatsType
<1>9. state'[t] = "DONE" /\ \A u \in Threads \ {t} : state'[u] = state[u]
  BY <1>1, <1>2 DEF QueueInv, TypeOK, SubmitTypes
<1>10. \A u \in Threads \ {t} : Steady(u)
  BY <1>2, <1>6, <1>9 DEF Steady, Waits, Runs, Counted
<1>11. WaitMove(t) /\ RunMove(t) /\ MetaMove(t) /\ Runs(t)
  BY <1>1, <1>2, <1>5, <1>8, <1>9 DEF WaitMove, RunMove, MetaMove, Waits, Runs, Counted
<1>12. stats.running > 0 /\ Balanced
  BY <1>1, <1>11, Positive DEF GaugesExact, Balanced
<1>13. Balanced'
  BY <1>8, <1>12, StatsAreNat DEF Balanced, Dec
<1> QED BY <1>1, <1>10, <1>11, <1>13, GaugesMove

LEMMA DrainerGauges ==
  ASSUME QueueInv, GaugesExact, NEW d \in Drainers, DrainStep(d)
  PROVE  GaugesExact'
<1>1. CASE Pop(d)
  <2>1. PICK i \in 1..Len(queue) : Take(d, i)
    BY <1>1, PopTake
  <2>2. /\ stats' = [stats EXCEPT !.pending = Dec(stats.pending), !.running = stats.running + 1]
        /\ metaPending' = metaPending
    BY <1>1 DEF Pop
  <2> QED BY <2>1, <2>2, TakeGauges
<1>2. CASE ScanPeer(d) /\ batch' # batch
  <2>1. scan[d] \in 1..Len(queue) /\ Take(d, scan[d]) /\ Peer(batch[d][1], queue[scan[d]], rows[d])
    BY <1>2, ScanTake
  <2>2. /\ stats' = [stats EXCEPT !.pending = Dec(stats.pending), !.running = stats.running + 1]
        /\ metaPending' = metaPending
    BY <1>2, <2>1 DEF ScanPeer
  <2> QED BY <2>1, <2>2, TakeGauges
<1>3. CASE (ScanPeer(d) /\ batch' = batch) \/ StartDrain(d) \/ BeginPeers(d) \/ EndPeers(d)
           \/ Evaluate(d) \/ EndDrain(d)
  BY <1>3, PreparingGauges
<1> QED BY <1>1, <1>2, <1>3, FinishMetaGauges, PublishGauges DEF DrainStep

(* Nor does what the R thread does around its drains move anything. *)
LEMMA MainGauges ==
  ASSUME QueueInv, GaugesExact,
         \/ PollInterrupted \/ EndPoll \/ Join \/ PumpInterrupted \/ EndPump
         \/ \E o \in Owners : BeginPump(o) \/ StopOwner(o)
         \/ \E d \in Drainers : SelfTestCancel(d)
         \/ UNCHANGED vars
  PROVE  GaugesExact'
<1>1. UNCHANGED <<submitVars, drainVars, stats, metaPending>>
  BY DEF PollInterrupted, EndPoll, Join, PumpInterrupted, EndPump, BeginPump, StopOwner,
         SelfTestCancel, vars
<1>2. \A u \in Threads : Published(u)' <=> Published(u)
  BY <1>1, PublishedFrame DEF drainVars
<1> QED BY <1>1, <1>2, QuietGauges DEF submitVars

-----------------------------------------------------------------------------
LEMMA GaugesInit == Init => GaugesExact
<1> SUFFICES ASSUME Init PROVE GaugesExact
  OBVIOUS
<1>1. /\ {t \in Threads : pc[t] = "waiting" /\ state[t] = "PENDING"} = {}
      /\ {t \in Threads : state[t] = "RUNNING"} = {}
      /\ \A m \in Metas : {t \in Threads : CountsPending(t, m)} = {}
  BY DEF Init, CountsPending
<1>2. Cardinality({}) = 0
  BY FS_EmptySet
<1>3. /\ stats.pending = 0 /\ stats.running = 0 /\ stats.submitted = 0 /\ stats.executed = 0
      /\ stats.withdrawn = 0 /\ stats.timeouts = 0 /\ \A m \in Metas : metaPending[m] = 0
  BY DEF Init
<1>4. \A m \in Metas : metaPending[m] = Cardinality({t \in Threads : CountsPending(t, m)})
  BY <1>1, <1>2, <1>3
<1>5. /\ stats.pending = Cardinality({t \in Threads : pc[t] = "waiting" /\ state[t] = "PENDING"})
      /\ stats.running = Cardinality({t \in Threads : state[t] = "RUNNING"})
  BY <1>1, <1>2, <1>3
<1> QED BY <1>3, <1>4, <1>5 DEF GaugesExact

LEMMA GaugesNext == LoanStrong /\ GaugesExact /\ [Next]_vars => GaugesExact'
<1> SUFFICES ASSUME QueueInv, AnswersAgree, GaugesExact, [Next]_vars PROVE GaugesExact'
  BY DEF LoanStrong, LoanInv
<1>1. Helper \in Threads
  BY ConstantsAssumption
<1>2. ASSUME MainStep
      PROVE  GaugesExact'
  BY <1>1, <1>2, ArriveGauges, MainGauges DEF MainStep
<1> QED BY <1>2, ArriveGauges, SubmitterGauges, DrainerGauges, MainGauges DEF Next

(* On every path by which a call ends - answered, refused, cancelled, timed out,
   failed - the counters the queue reports and the per-UDF counts that gate a
   drop agree with the requests there are, for any number of threads and UDFs:
   the guards of the decrements hide no double count. *)
THEOREM GaugesAreExact == Spec => []GaugesExact
<1> QED BY LoanInvariant, GaugesInit, GaugesNext, PTL DEF Spec
=============================================================================
