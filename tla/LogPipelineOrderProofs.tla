----------------------- MODULE LogPipelineOrderProofs -----------------------
(***************************************************************************)
(* LogPipeline delivers each resource partition in order: no record still  *)
(* in the pipeline is older than a delivered one of its own partition.     *)
(***************************************************************************)
EXTENDS LogPipelineProofs

USE DEF queueVars, prodVars, batchVars, countVars, emitVars, stopVars, vars

-----------------------------------------------------------------------------
(* Order within a partition                                                *)

SameKey(a, b) == ResKey(a) = ResKey(b)

\* Inductive form of PartitionOrder: the batch in hand is ordered within each
\* partition, and nothing in it is older than a delivered record of its own.
OrderInv ==
    /\ \A i, j \in 1..Len(pending) : i < j /\ SameKey(pending[i], pending[j]) =>
          pending[i] < pending[j]
    /\ \A r \in shipped : \A i \in 1..Len(pending) : SameKey(pending[i], r) => pending[i] > r

LEMMA OrderGivesPartitionOrder == QueueInv /\ BookInv /\ OrderInv => PartitionOrder
  <1> SUFFICES ASSUME QueueInv, BookInv, OrderInv,
                      NEW r \in shipped, NEW o \in InHand, SameKey(o, r)
               PROVE  o > r
    BY DEF PartitionOrder, SameKey
  <1>1. Base \in Nat /\ Elems(buf) = (Base + 1)..admitted /\ r \in 1..Base /\ admitted \in Nat
    BY QueuedRecords DEF BookInv
  <1>2. CASE o \in Elems(buf)
    BY <1>1, <1>2
  <1>3. CASE o \in Elems(pending)
    BY <1>3 DEF OrderInv, Elems
  <1> QED
    BY <1>2, <1>3 DEF InHand

LEMMA EmptyBatchOrder == ASSUME pending' = <<>> PROVE OrderInv'
  <1>1. Len(pending') = 0
    OBVIOUS
  <1> QED
    BY <1>1 DEF OrderInv

LEMMA DrainOrder ==
    ASSUME QueueInv, ShapeInv, BookInv, EmitterDrain PROVE OrderInv'
  <1>0. buf \in Seq(Nat) /\ Len(buf) \in Nat /\ admitted \in Nat /\ Base \in Nat
    BY QueuedRecords DEF QueueInv, QueueTypeOK
  <1>1. PICK k \in 1..Len(buf) : pending' = SubSeq(buf, 1, k)
    BY DEF EmitterDrain, drainUpTo
  <1>2. Len(pending') = k /\ \A i \in 1..k : pending'[i] = Base + i
    <2>1. k \in 0..Len(buf) /\ \A i \in 1..Len(buf) : buf[i] = Base + i
      BY <1>0 DEF QueueInv, Base
    <2> QED
      BY Zenon, <1>0, <1>1, <2>1, FirstFacts, PrefixPosition
  <1>3. \A r \in shipped' : r \in 1..Base
    BY DEF EmitterDrain, BookInv
  <1>4. k \in Nat
    BY <1>0
  <1>5. /\ \A i, j \in 1..k : i < j => Base + i < Base + j
        /\ \A r \in 1..Base, i \in 1..k : Base + i > r
    BY Zenon, <1>0, <1>4, ShiftOrder
  <1> QED
    BY Zenon, <1>2, <1>3, <1>5 DEF OrderInv

\* A chunk that landed leaves a tail younger, within each partition, than
\* every record just delivered.
LEMMA LandedOrder ==
    ASSUME ShapeInv, BookInv, OrderInv, n \in 1..Len(pending),
           NEW v \in [1..n -> {"acked", "rejected", "retry"}],
           shipped' = shipped \cup Answered(v, "acked"), ChunkLanded
    PROVE  OrderInv'
  <1>0. pending \in Seq(Nat) /\ n \in Nat /\ Len(pending) \in Nat /\ n \in 0..Len(pending)
    BY DEF ShapeInv
  <1>1. CASE n = Len(pending)
    BY <1>1, EmptyBatchOrder DEF ChunkLanded, EndBatch
  <1>2. CASE n # Len(pending)
    <2>1. pending' = DropOldest(pending, n)
      BY <1>2 DEF ChunkLanded
    <2>2. /\ Len(DropOldest(pending, n)) = Len(pending) - n
          /\ \A i \in 1..(Len(pending) - n) : DropOldest(pending, n)[i] = pending[n + i]
      BY <1>0, DropOldestFacts
    <2>3. \A i \in 1..Len(pending') : n + i \in 1..Len(pending) /\ pending'[i] = pending[n + i]
      <3>1. n <= Len(pending)
        BY <1>0
      <3> QED
        BY Zenon, <1>0, <2>1, <2>2, <3>1, AfterPrefix
    <2>4. Len(pending') \in Nat
      BY <1>0, <2>1, <2>2
    <2>5. ASSUME NEW i \in 1..Len(pending'), NEW j \in 1..Len(pending'), i < j,
                 SameKey(pending'[i], pending'[j])
          PROVE  pending'[i] < pending'[j]
      <3>1. n + i \in 1..Len(pending) /\ n + j \in 1..Len(pending) /\ n + i < n + j
        BY <1>0, <2>3, <2>4, <2>5
      <3>2. pending[n + i] < pending[n + j]
        BY <2>3, <2>5, <3>1 DEF OrderInv
      <3> QED
        BY <2>3, <3>2
    <2>6. ASSUME NEW r \in shipped', NEW i \in 1..Len(pending'), SameKey(pending'[i], r)
          PROVE  pending'[i] > r
      <3>1. CASE r \in shipped
        BY Zenon, <2>3, <2>6, <3>1 DEF OrderInv
      <3>2. CASE r \in Answered(v, "acked")
        <4>1. PICK a \in 1..n : r = pending[a]
          BY <3>2 DEF Answered
        <4>2. a \in 1..Len(pending) /\ a < n + i /\ n + i \in 1..Len(pending)
          BY <1>0, <2>3, <2>4
        <4>3. pending[a] < pending[n + i]
          BY <2>3, <2>6, <4>1, <4>2 DEF OrderInv, SameKey
        <4>4. pending[a] \in Nat /\ pending[n + i] \in Nat
          BY Zenon, <1>0, <4>2, EntryIsNat
        <4> QED
          BY <2>3, <4>1, <4>3, <4>4
      <3> QED
        BY <3>1, <3>2
    <2> QED
      BY <2>5, <2>6 DEF OrderInv
  <1> QED
    BY <1>1, <1>2

\* A chunk that failed: retried records go ahead of the tail, ordered within
\* each partition, and a partition with an accepted record is not retried.
LEMMA FailedOrder ==
    ASSUME ShapeInv, BookInv, OrderInv, n \in 1..Len(pending),
           NEW v \in [1..n -> {"acked", "rejected", "retry"}], SinkVerdict(v),
           shipped' = shipped \cup Answered(v, "acked"),
           NEW m \in 0..n, NEW q \in [1..m -> 1..n], RetryOrder(v, q),
           pending' = joinPending(q)
    PROVE  OrderInv'
  <1> DEFINE O(i) == Origin(q, m, i)
  <1>0. pending \in Seq(Nat) /\ n \in Nat /\ m \in Nat /\ Len(pending) \in Nat
    BY DEF ShapeInv
  <1>1. IsRest(pending', v, q, m)
    BY Zenon, <1>0, RestFacts
  <1>2. /\ Len(pending') = m + (Len(pending) - n) /\ Len(pending') \in Nat
        /\ \A i \in 1..Len(pending') :
              O(i) \in 1..Len(pending) /\ pending'[i] = pending[O(i)] /\ (O(i) <= n => v[O(i)] = "retry")
    BY <1>0, <1>1 DEF IsRest
  <1>3. ASSUME NEW i \in 1..Len(pending'), NEW j \in 1..Len(pending'), i < j,
               SameKey(pending'[i], pending'[j])
        PROVE  O(i) < O(j)
    <2>0. i \in Nat /\ j \in Nat
      BY <1>2
    <2>1. CASE j <= m
      <3>1. i \in 1..m /\ j \in 1..m /\ O(i) = q[i] /\ O(j) = q[j] /\ DOMAIN q = 1..m
        BY <1>0, <1>3, <2>0, <2>1 DEF Origin
      <3>2. ResKey(pending[q[i]]) = ResKey(pending[q[j]])
        BY Zenon, <1>2, <1>3, <3>1 DEF SameKey
      <3>3. q[i] < q[j]
        BY <1>3, <3>1, <3>2 DEF RetryOrder
      <3> QED
        BY <3>1, <3>3
    <2>2. CASE j > m
      <3>1. O(j) = n + (j - m)
        BY <1>0, <2>0, <2>2 DEF Origin
      <3>2. CASE i <= m
        <4>1. i \in 1..m /\ O(i) = q[i] /\ q[i] \in 1..n
          BY <1>0, <1>3, <2>0, <3>2 DEF Origin
        <4> QED
          BY <1>0, <2>0, <2>2, <3>1, <4>1
      <3>3. CASE i > m
        <4>1. O(i) = n + (i - m)
          BY <1>0, <2>0, <3>3 DEF Origin
        <4> QED
          BY <1>0, <1>3, <2>0, <3>1, <4>1
      <3> QED
        BY <1>0, <2>0, <3>2, <3>3
    <2> QED
      BY <1>0, <2>0, <2>1, <2>2
  <1> HIDE DEF O
  <1>4. ASSUME NEW i \in 1..Len(pending'), NEW j \in 1..Len(pending'), i < j,
               SameKey(pending'[i], pending'[j])
        PROVE  pending'[i] < pending'[j]
    <2>1. O(i) < O(j) /\ O(i) \in 1..Len(pending) /\ O(j) \in 1..Len(pending)
      BY Zenon, <1>2, <1>3, <1>4
    <2>2. pending[O(i)] < pending[O(j)]
      BY Zenon, <1>2, <1>4, <2>1 DEF OrderInv
    <2> QED
      BY <1>2, <2>2
  <1>5. ASSUME NEW r \in shipped', NEW i \in 1..Len(pending'), SameKey(pending'[i], r)
        PROVE  pending'[i] > r
    <2>1. CASE r \in shipped
      BY Zenon, <1>2, <1>5, <2>1 DEF OrderInv
    <2>2. CASE r \in Answered(v, "acked")
      <3>1. PICK a \in 1..n : r = pending[a] /\ v[a] = "acked"
        BY Zenon, <2>2 DEF Answered
      <3>2. O(i) > n
        <4>1. SUFFICES ASSUME O(i) <= n PROVE FALSE
          BY <1>0, <1>2
        <4>2. O(i) \in 1..n /\ v[O(i)] = "retry"
          BY <1>0, <1>2, <4>1
        <4>3. ResKey(pending[O(i)]) = ResKey(pending[a])
          BY <1>2, <1>5, <3>1 DEF SameKey
        <4>4. v[a] = "retry"
          BY Zenon, <3>1, <4>2, <4>3 DEF SinkVerdict
        <4> QED
          BY <3>1, <4>4
      <3>3. a \in 1..Len(pending) /\ O(i) \in 1..Len(pending) /\ a < O(i)
        BY <1>0, <1>2, <3>2
      <3>4. pending[a] < pending[O(i)]
        BY Zenon, <1>2, <1>5, <3>1, <3>3 DEF OrderInv, SameKey
      <3>5. pending[a] \in Nat /\ pending[O(i)] \in Nat
        BY Zenon, <1>0, <3>3, EntryIsNat
      <3> QED
        BY <1>2, <3>1, <3>4, <3>5
    <2> QED
      BY <2>1, <2>2
  <1> QED
    BY <1>4, <1>5 DEF OrderInv

LEMMA EmitReturnOrder ==
    ASSUME ShapeInv, BookInv, OrderInv, EmitReturn PROVE OrderInv'
  <1>0. n \in 1..Len(pending)
    BY DEF ShapeInv, EmitReturn
  <1>1. PICK v \in [1..n -> {"acked", "rejected", "retry"}] :
          /\ SinkVerdict(v)
          /\ shipped' = shipped \cup Answered(v, "acked")
          /\ \/ ChunkLanded
             \/ \E m \in 0..n : \E q \in [1..m -> 1..n] : \E rl \in BOOLEAN :
                   RetryOrder(v, q) /\ ChunkFailed(joinPending(q), rl)
    BY Zenon DEF EmitReturn, Answered
  <1>2. CASE ChunkLanded
    BY <1>0, <1>1, <1>2, LandedOrder
  <1>3. ASSUME NEW m \in 0..n, NEW q \in [1..m -> 1..n], NEW rl \in BOOLEAN,
               RetryOrder(v, q), ChunkFailed(joinPending(q), rl)
        PROVE  OrderInv'
    <2>1. pending' = <<>> \/ pending' = joinPending(q)
      BY Zenon, <1>3 DEF ChunkFailed, abandonDelivery, EndBatch
    <2> QED
      BY Zenon, <1>0, <1>1, <1>3, <2>1, EmptyBatchOrder, FailedOrder
  <1> QED
    BY <1>1, <1>2, <1>3

LEMMA OrderInvStep ==
    QueueInv /\ ShapeInv /\ BookInv /\ OrderInv /\ [Next]_vars => OrderInv'
  <1> SUFFICES ASSUME QueueInv, ShapeInv, BookInv, OrderInv, [Next]_vars PROVE OrderInv'
    OBVIOUS
  <1>0. ASSUME UNCHANGED <<pending, shipped>> PROVE OrderInv'
    BY Zenon, <1>0 DEF OrderInv
  <1>1. ASSUME NEW p \in Producers, Produce(p) \/ enqueue(p) PROVE OrderInv'
    BY Zenon, <1>0, <1>1 DEF Produce, enqueue
  <1>2. ASSUME NEW p \in Sources, SourceReturn(p) PROVE OrderInv'
    BY Zenon, <1>0, <1>2 DEF SourceReturn
  <1>3. CASE StateFlush
    BY <1>0, <1>3 DEF StateFlush
  <1>4. CASE EmitterStep
    <2>1. CASE EmitterWait \/ EmitterExit \/ EmitStart
      BY Zenon, <1>0, <2>1 DEF EmitterWait, EmitterExit, EmitStart
    <2>2. CASE EmitterDrain
      BY <2>2, DrainOrder
    <2>3. CASE LoopTop \/ waitOrAbandon
      BY Zenon, <1>0, <2>3, EmptyBatchOrder DEF LoopTop, waitOrAbandon, abandonDelivery, EndBatch
    <2> QED
      BY <1>4, <2>1, <2>2, <2>3 DEF EmitterStep
  <1>5. CASE EmitReturn
    BY <1>5, EmitReturnOrder
  <1>6. CASE Expire \/ BindToStop \/ AbortDelivery
    BY Zenon, <1>0, <1>6 DEF Expire, BindToStop, AbortDelivery
  <1>7. CASE StopBegin \/ StopCtxExpires \/ StopStep
    BY Zenon, <1>0, <1>7 DEF StopBegin, StopCtxExpires, StopStep, StopCancel, StopSourcesDone,
                      StopSourcesTimeout, StopClose, StopDrained, StopDrainTimeout
  <1>8. CASE UNCHANGED vars
    BY Zenon, <1>0, <1>8
  <1> QED
    BY Zenon, <1>1, <1>2, <1>3, <1>4, <1>5, <1>6, <1>7, <1>8 DEF Next

\* Within a resource partition records are delivered in admission order,
\* however the sink's answers split, retry and abandon them.
THEOREM PipelinePartitionOrder == Spec => []PartitionOrder
  <1>1. Init => QueueInv /\ ShapeInv /\ BookInv /\ OrderInv
    BY QueueInvInit, ShapeInvInit, BookInvInit DEF Init, OrderInv
  <1> QED
    BY <1>1, QueueInvInPipeline, ShapeInvStep, BookInvStep, OrderInvStep,
       OrderGivesPartitionOrder, PTL DEF Spec
=============================================================================
