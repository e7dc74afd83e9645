------------------------- MODULE LogPipelineProofs --------------------------
(***************************************************************************)
(* Proofs about LogPipeline, for every set of producers, every capacity,   *)
(* batch size, attempt cap and chunk floor, and every assignment of        *)
(* records to resource partitions.                                         *)
(***************************************************************************)
EXTENDS LogPipeline, DropOldestQueueProofs

-----------------------------------------------------------------------------
(* The queue inside the pipeline                                           *)

USE DEF queueVars, prodVars, batchVars, countVars, emitVars, stopVars, vars

\* Every step of the pipeline is a queue operation or leaves the queue alone.
LEMMA PipelineRunsQueue == [Next]_vars => [QueueNext]_queueVars
  <1> SUFFICES ASSUME [Next]_vars PROVE [QueueNext]_queueVars
    OBVIOUS
  <1>1. ASSUME NEW p \in Producers, Produce(p) PROVE [QueueNext]_queueVars
    BY <1>1 DEF Produce
  <1>2. ASSUME NEW p \in Producers, enqueue(p) PROVE [QueueNext]_queueVars
    BY <1>2 DEF enqueue, QueueNext
  <1>3. ASSUME NEW p \in Sources, SourceReturn(p) PROVE [QueueNext]_queueVars
    BY <1>3 DEF SourceReturn
  <1>4. CASE StateFlush
    BY <1>4 DEF StateFlush
  <1>5. CASE EmitterStep
    <2>1. CASE EmitterWait
      BY <2>1 DEF EmitterWait, QueueNext
    <2>2. CASE EmitterDrain
      BY <2>2 DEF EmitterDrain, QueueNext
    <2>3. CASE EmitterExit
      BY <2>3 DEF EmitterExit, drainEnd
    <2>4. CASE LoopTop
      BY <2>4 DEF LoopTop
    <2>5. CASE waitOrAbandon
      BY <2>5 DEF waitOrAbandon
    <2>6. CASE EmitStart
      BY <2>6 DEF EmitStart
    <2> QED
      BY <1>5, <2>1, <2>2, <2>3, <2>4, <2>5, <2>6 DEF EmitterStep
  <1>6. CASE EmitReturn
    BY <1>6 DEF EmitReturn
  <1>7. CASE Expire \/ BindToStop \/ AbortDelivery
    BY <1>7 DEF Expire, BindToStop, AbortDelivery
  <1>8. CASE StopBegin \/ StopCtxExpires
    BY <1>8 DEF StopBegin, StopCtxExpires
  <1>9. CASE StopStep
    BY <1>9 DEF StopStep, StopCancel, StopSourcesDone, StopSourcesTimeout, StopClose,
                StopDrained, StopDrainTimeout, QueueNext
  <1>10. CASE UNCHANGED vars
    BY <1>10
  <1> QED
    BY <1>1, <1>2, <1>3, <1>4, <1>5, <1>6, <1>7, <1>8, <1>9, <1>10 DEF Next

LEMMA QueueInvInPipeline == QueueInv /\ [Next]_vars => QueueInv'
  BY PipelineRunsQueue, QueueInvStep

\* In the pipeline too the queue is the newest run of the admitted records.
THEOREM PipelineKeepsNewest == Spec => []NewestKept
  <1>1. Init => QueueInv
    BY QueueInvInit DEF Init
  <1> QED
    BY <1>1, QueueInvInPipeline, QueueInvImplies, PTL DEF Spec

-----------------------------------------------------------------------------
(* Producers and stop                                                      *)

\* What stop has made sure of at each of its steps: who has finished before
\* the queue is closed, and that the emitter outlives only a closed queue.
StopInv ==
    /\ ProducerTypes
    /\ StopTypes
    /\ spc \notin {"idle", "unbind"} => \A p \in SelfLogs : prod[p] = "done"
    /\ spc \in {"flow", "drain", "ok"} => \A p \in Sources : prod[p] = "done"
    /\ spc \in {"drain", "ok"} => closed
    /\ closed => \A p \in Producers : prod[p] = "done"
    /\ NoPushSwallowed
    /\ epc = "exit" => closed /\ buf = <<>>
    /\ spc = "ok" => epc = "exit"
    /\ epc \in {"drain", "exit"} => pending = <<>>

LEMMA StopInvInit == Init => StopInv
  <1> SUFFICES ASSUME Init PROVE StopInv
    OBVIOUS
  <1>1. ProducerTypes
    <2>1. saved \in BOOLEAN
      BY DEF Init
    <2> QED
      BY <2>1, PipelineConstants DEF Init, ProducerTypes
  <1>2. StopTypes
    BY Zenon DEF Init, StopTypes
  <1> QED
    BY <1>1, <1>2 DEF Init, QueueInit, StopInv, NoPushSwallowed

LEMMA StopInvStep == StopInv /\ [Next]_vars => StopInv'
  <1> SUFFICES ASSUME StopInv, [Next]_vars PROVE StopInv'
    OBVIOUS
  <1> USE PipelineConstants DEF StopInv, ProducerTypes, StopTypes, NoPushSwallowed
  <1>1. ASSUME NEW p \in Producers, Produce(p) PROVE StopInv'
    <2>1. saved' \in BOOLEAN
      BY Zenon, <1>1 DEF Produce
    <2>2. offers' \in 0..MaxOffers
      BY <1>1 DEF Produce
    <2>3. prod' = [prod EXCEPT ![p] = "holding"] /\ prod[p] = "idle" /\ tooLarge' = tooLarge
      BY <1>1 DEF Produce
    <2>4. ProducerTypes'
      BY <2>1, <2>2, <2>3
    <2> QED
      BY Zenon, <1>1, <2>3, <2>4 DEF Produce, Producers, Sources
  <1>2. ASSUME NEW p \in Producers, enqueue(p) PROVE StopInv'
    BY <1>2 DEF enqueue, push, pushOpen, pushClosed, Producers, Sources
  <1>3. ASSUME NEW p \in Sources, SourceReturn(p) PROVE StopInv'
    BY <1>3 DEF SourceReturn, Producers, Sources
  <1>4. CASE StateFlush
    BY Zenon, <1>4 DEF StateFlush, persistState
  <1>5. CASE EmitterStep
    <2>1. CASE EmitterWait
      BY <2>1 DEF EmitterWait, drainWait
    <2>2. CASE EmitterDrain
      BY <2>2 DEF EmitterDrain, drainUpTo
    <2>3. CASE EmitterExit
      BY <2>3 DEF EmitterExit, drainEnd
    <2>4. CASE LoopTop
      BY <2>4 DEF LoopTop, abandonDelivery, EndBatch
    <2>5. CASE waitOrAbandon
      BY <2>5 DEF waitOrAbandon, abandonDelivery, EndBatch
    <2>6. CASE EmitStart
      BY <2>6 DEF EmitStart
    <2> QED
      BY Zenon, <1>5, <2>1, <2>2, <2>3, <2>4, <2>5, <2>6 DEF EmitterStep
  <1>6. CASE EmitReturn
    <2>1. epc' \in {"drain", "top", "backoff"} /\ (epc' = "drain" => pending' = <<>>)
      BY <1>6 DEF EmitReturn, ChunkLanded, ChunkFailed, abandonDelivery, EndBatch
    <2> QED
      BY <1>6, <2>1 DEF EmitReturn
  <1>7. CASE Expire \/ BindToStop \/ AbortDelivery
    BY <1>7 DEF Expire, BindToStop, AbortDelivery
  <1>8. CASE StopBegin \/ StopCtxExpires
    BY <1>8 DEF StopBegin, StopCtxExpires
  <1>9. CASE StopStep
    <2>1. CASE StopCancel
      BY <2>1 DEF StopCancel, Producers, Sources
    <2>2. CASE StopSourcesDone \/ StopSourcesTimeout
      BY <2>2 DEF StopSourcesDone, StopSourcesTimeout
    <2>3. CASE StopClose
      BY <2>3 DEF StopClose, close, Producers, Sources
    <2>4. CASE StopDrained \/ StopDrainTimeout
      BY Zenon, <2>4 DEF StopDrained, StopDrainTimeout, persistState
    <2> QED
      BY Zenon, <1>9, <2>1, <2>2, <2>3, <2>4 DEF StopStep
  <1>10. CASE UNCHANGED vars
    BY <1>10
  <1> QED
    BY Zenon, <1>1, <1>2, <1>3, <1>4, <1>5, <1>6, <1>7, <1>8, <1>9, <1>10 DEF Next

\* The order in which stop waits (self-logger, sources, flow lane) leaves no
\* producer that could push into the closed queue.
THEOREM PipelineNoPushSwallowed == Spec => []NoPushSwallowed
  <1>1. StopInv => NoPushSwallowed
    BY DEF StopInv
  <1> QED
    BY <1>1, StopInvInit, StopInvStep, PTL DEF Spec

\* stop returns nil only when the emitter has exited, the queue is closed and
\* empty, and every producer has finished.
THEOREM PipelineCleanStop == Spec => []CleanStop
  <1>1. StopInv => CleanStop
    BY DEF StopInv, CleanStop, InHand, Elems
  <1> QED
    BY <1>1, StopInvInit, StopInvStep, PTL DEF Spec

-----------------------------------------------------------------------------
(* The shape of a batch                                                    *)

InBatch == epc \in {"top", "pace", "send", "emit", "backoff"}

\* Sizes and phases of shipBatch: a running batch is never empty, the chunk in
\* flight is a non-empty prefix of it, and no chunk exceeds a batch.
ShapeInv ==
    /\ epc \in {"drain", "top", "pace", "send", "emit", "backoff", "exit"}
    /\ pending \in Seq(Nat)
    /\ n \in 0..Len(pending)
    /\ n <= chunk
    /\ chunk \in 0..BatchMax
    /\ shipChunk \in 0..BatchMax
    /\ pace \in 0..PaceStart
    /\ attempt \in Nat
    /\ limited \in BOOLEAN
    /\ bind \in {"run", "stop", "off"}
    /\ epc = "emit" => n > 0
    /\ ~InBatch => pending = <<>>
    /\ ChunkPositive

\* splitChunk returns at least one record and never more than was refused.
LEMMA SplitChunkBounds ==
    ASSUME NEW k \in Nat \ {0}
    PROVE  splitChunk(k) \in 1..k /\ (k > 1 => splitChunk(k) < k)
  BY PipelineConstants DEF splitChunk

\* relaxShipChunk stays within a batch.
LEMMA RelaxedBounds ==
    ASSUME shipChunk \in 0..BatchMax
    PROVE  relaxed \in 0..BatchMax
  BY QueueConstants DEF relaxed

\* A function on 1..k is a sequence of length k.
LEMMA FunctionIsSeq ==
    ASSUME NEW S, NEW k \in Nat, NEW f \in [1..k -> S]
    PROVE  f \in Seq(S) /\ Len(f) = k
  OBVIOUS

\* joinPending: first the retried records, then the unattempted tail.
LEMMA JoinPendingFacts ==
    ASSUME pending \in Seq(Nat), n \in 0..Len(pending),
           NEW m \in 0..n, NEW q \in [1..m -> 1..n]
    PROVE  /\ joinPending(q) \in Seq(Nat)
           /\ Len(joinPending(q)) = m + (Len(pending) - n)
           /\ \A i \in 1..m : joinPending(q)[i] = pending[q[i]]
           /\ \A i \in 1..(Len(pending) - n) : joinPending(q)[m + i] = pending[n + i]
  <1> DEFINE r == [i \in 1..Len(q) |-> pending[q[i]]]
             t == DropOldest(pending, n)
  <1>0. m \in Nat /\ n \in Nat /\ Len(pending) \in Nat
    OBVIOUS
  <1>1. q \in Seq(1..n) /\ Len(q) = m
    BY <1>0, FunctionIsSeq
  <1>2. \A i \in 1..m : q[i] \in 1..Len(pending) /\ pending[q[i]] \in Nat
    BY <1>0
  <1>3. r \in [1..m -> Nat]
    BY <1>1, <1>2
  <1>4. r \in Seq(Nat) /\ Len(r) = m
    BY <1>0, <1>3, FunctionIsSeq
  <1>5. /\ t \in Seq(Nat) /\ Len(t) = Len(pending) - n
        /\ \A i \in 1..(Len(pending) - n) : t[i] = pending[n + i]
    BY Zenon, DropOldestFacts
  <1>6. \A i \in 1..m : r[i] = pending[q[i]]
    BY <1>1
  <1>7. joinPending(q) = r \o t
    BY DEF joinPending
  <1> HIDE DEF r, t
  <1>8. /\ r \o t \in Seq(Nat)
        /\ Len(r \o t) = m + (Len(pending) - n)
        /\ \A i \in 1..m : (r \o t)[i] = r[i]
        /\ \A i \in 1..(Len(pending) - n) : (r \o t)[m + i] = t[i]
    <2>1. /\ r \o t \in Seq(Nat)
          /\ Len(r \o t) = Len(r) + Len(t)
          /\ \A i \in 1..Len(r) : (r \o t)[i] = r[i]
          /\ \A i \in 1..Len(t) : (r \o t)[Len(r) + i] = t[i]
      <3>1. r \in Seq(Nat) /\ t \in Seq(Nat)
        BY <1>4, <1>5
      <3> QED
        BY <3>1
    <2> QED
      BY <1>4, <1>5, <2>1, Zenon
  <1> QED
    BY Zenon, <1>5, <1>6, <1>7, <1>8

LEMMA ShapeInvInit == Init => ShapeInv
  <1> SUFFICES ASSUME Init PROVE ShapeInv
    OBVIOUS
  <1>1. limited \in BOOLEAN
    BY Zenon DEF Init
  <1>2. pending \in Seq(Nat) /\ Len(pending) = 0
    BY DEF Init
  <1> QED
    BY <1>1, <1>2, QueueConstants, PipelineConstants DEF Init, ShapeInv, InBatch, ChunkPositive

\* Leaving shipBatch restores the idle shape.
LEMMA EndBatchShape ==
    ASSUME ShapeInv, EndBatch, shipChunk' \in 0..BatchMax
    PROVE  ShapeInv'
  <1>1. limited' \in BOOLEAN
    BY Zenon DEF EndBatch
  <1>2. pending' \in Seq(Nat) /\ Len(pending') = 0
    BY DEF EndBatch
  <1> QED
    BY <1>1, <1>2, QueueConstants, PipelineConstants
    DEF EndBatch, ShapeInv, InBatch, ChunkPositive

LEMMA EmitReturnShape ==
    ASSUME ShapeInv, EmitReturn PROVE ShapeInv'
  <1>0. /\ pending \in Seq(Nat) /\ n \in 1..Len(pending) /\ n <= chunk
        /\ chunk \in 0..BatchMax /\ shipChunk \in 0..BatchMax /\ attempt \in Nat
        /\ pace \in 0..PaceStart /\ epc = "emit"
    BY DEF ShapeInv, EmitReturn
  <1>1. CASE ChunkLanded
    <2>1. CASE n = Len(pending)
      <3>1. shipChunk' \in 0..BatchMax
        BY <1>0, <1>1, <2>1, RelaxedBounds DEF ChunkLanded
      <3> QED
        BY <1>1, <2>1, <3>1, EndBatchShape DEF ChunkLanded
    <2>2. CASE n # Len(pending)
      <3>0. pending' = DropOldest(pending, n) /\ pace' = pace \div 2 /\ n \in 0..Len(pending)
        BY <1>0, <1>1, <2>2 DEF ChunkLanded
      <3>1. pending' \in Seq(Nat) /\ Len(pending') = Len(pending) - n
        BY Zenon, <1>0, <3>0, DropOldestFacts
      <3>2. pace' \in 0..PaceStart
        BY <1>0, <3>0, PipelineConstants
      <3>3. pending' # <<>>
        BY <1>0, <2>2, <3>1
      <3>4. /\ epc' = "top" /\ n' = 0
            /\ UNCHANGED <<chunk, attempt, limited, bind, shipChunk>>
        BY <1>1, <2>2 DEF ChunkLanded
      <3>5. limited' \in BOOLEAN
        BY <3>4 DEF ShapeInv
      <3> QED
        BY <1>0, <3>1, <3>2, <3>3, <3>4, <3>5 DEF ShapeInv, InBatch, ChunkPositive
    <2> QED
      BY <2>1, <2>2
  <1>2. ASSUME NEW m \in 0..n, NEW q \in [1..m -> 1..n], NEW rl \in BOOLEAN,
               ChunkFailed(joinPending(q), rl)
        PROVE  ShapeInv'
    <2> DEFINE rest == joinPending(q)
    <2>0. n \in 0..Len(pending)
      BY <1>0
    <2>1. rest \in Seq(Nat)
      BY Zenon, <1>0, <2>0, JoinPendingFacts
    <2>a. ChunkFailed(rest, rl)
      BY Zenon, <1>2
    <2> HIDE DEF rest
    <2>2. CASE EndBatch /\ UNCHANGED shipChunk
      BY <1>0, <2>2, EndBatchShape
    <2>3. CASE ~EndBatch
      <3>1. /\ rest # <<>>
            /\ attempt' = IF MaxAttempts > 0 THEN attempt + 1 ELSE attempt
            /\ pending' = rest
            /\ n' = 0
            /\ \/ /\ limited' = TRUE
                  /\ chunk' = splitChunk(n) /\ shipChunk' = splitChunk(n)
                  /\ pace' = PaceStart /\ epc' = "top"
               \/ epc' = "backoff" /\ UNCHANGED <<limited, chunk, shipChunk, pace>>
            /\ bind' = bind
        BY Zenon, <2>a, <2>3 DEF ChunkFailed, abandonDelivery
      <3>2. splitChunk(n) \in 1..n
        BY <1>0, SplitChunkBounds
      <3>3. /\ chunk' \in 1..BatchMax /\ shipChunk' \in 0..BatchMax
            /\ pace' \in 0..PaceStart /\ attempt' \in Nat
        <4>1. splitChunk(n) \in 1..BatchMax /\ PaceStart \in 0..PaceStart
          BY <1>0, <3>2, PipelineConstants, QueueConstants
        <4>2. chunk \in 1..BatchMax /\ 1..BatchMax \subseteq 0..BatchMax
          BY <1>0, QueueConstants
        <4>3. attempt' \in Nat
          BY <1>0, <3>1
        <4> QED
          BY Zenon, <1>0, <3>1, <4>1, <4>2, <4>3
      <3>4. limited' \in BOOLEAN
        BY Zenon, <3>1 DEF ShapeInv
      <3>5. n' \in 0..Len(pending') /\ n' <= chunk' /\ chunk' \in 0..BatchMax /\ chunk' > 0
        BY <2>1, <3>1, <3>3, QueueConstants
      <3>6. pending' \in Seq(Nat) /\ pending' # <<>> /\ epc' \in {"top", "backoff"}
        BY Zenon, <2>1, <3>1
      <3>7. bind' \in {"run", "stop", "off"}
        BY Zenon, <3>1 DEF ShapeInv
      <3> QED
        BY Zenon, <3>3, <3>4, <3>5, <3>6, <3>7 DEF ShapeInv, InBatch, ChunkPositive
    <2>4. EndBatch => UNCHANGED shipChunk
      <3>1. SUFFICES ASSUME EndBatch PROVE UNCHANGED shipChunk
        OBVIOUS
      <3>2. epc' = "drain"
        BY <3>1 DEF EndBatch
      <3> QED
        BY <2>a, <3>2 DEF ChunkFailed
    <2> QED
      BY <2>2, <2>3, <2>4
  <1> QED
    BY Zenon, <1>1, <1>2 DEF EmitReturn

LEMMA ShapeInvStep == QueueInv /\ ShapeInv /\ [Next]_vars => ShapeInv'
  <1> SUFFICES ASSUME QueueInv, ShapeInv, [Next]_vars PROVE ShapeInv'
    OBVIOUS
  <1> USE DEF ShapeInv, InBatch, ChunkPositive
  <1>1. ASSUME NEW p \in Producers, Produce(p) PROVE ShapeInv'
    BY <1>1 DEF Produce
  <1>2. ASSUME NEW p \in Producers, enqueue(p) PROVE ShapeInv'
    BY <1>2 DEF enqueue
  <1>3. ASSUME NEW p \in Sources, SourceReturn(p) PROVE ShapeInv'
    BY <1>3 DEF SourceReturn
  <1>4. CASE StateFlush
    BY <1>4 DEF StateFlush
  <1>5. CASE EmitterStep
    <2>1. CASE EmitterWait
      BY <2>1 DEF EmitterWait
    <2>2. CASE EmitterDrain
      <3>1. PICK k \in 1..BatchMax :
               /\ k \in 1..Len(buf)
               /\ pending' = SubSeq(buf, 1, k)
               /\ chunk' = IF shipChunk = 0 \/ shipChunk > k THEN k ELSE shipChunk
        BY <2>2 DEF EmitterDrain, drainUpTo
      <3>a. buf \in Seq(Nat)
        BY Zenon DEF QueueInv, QueueTypeOK
      <3>b. k \in 0..Len(buf) /\ k > 0
        BY <3>1, <3>a
      <3>2. pending' \in Seq(Nat) /\ Len(pending') = k
        BY Zenon, <3>1, <3>a, <3>b, FirstFacts
      <3>3. chunk' \in 1..BatchMax
        BY <3>1, QueueConstants
      <3>4. pending' # <<>>
        BY <3>2, <3>b
      <3> QED
        BY <2>2, <3>2, <3>3, <3>4 DEF EmitterDrain
    <2>3. CASE EmitterExit
      BY <2>3 DEF EmitterExit
    <2>4. CASE LoopTop
      <3>1. CASE EndBatch
        BY Zenon, <2>4, <3>1, EndBatchShape DEF LoopTop
      <3>2. CASE UNCHANGED batchVars
        BY Zenon, <2>4, <3>2 DEF LoopTop, abandonDelivery, EndBatch
      <3> QED
        BY Zenon, <2>4, <3>1, <3>2 DEF LoopTop, abandonDelivery
    <2>5. CASE waitOrAbandon
      <3>1. CASE EndBatch
        BY Zenon, <2>5, <3>1, EndBatchShape DEF waitOrAbandon
      <3>2. CASE UNCHANGED batchVars
        BY Zenon, <2>5, <3>2 DEF waitOrAbandon, abandonDelivery, EndBatch
      <3> QED
        BY Zenon, <2>5, <3>1, <3>2 DEF waitOrAbandon, abandonDelivery
    <2>6. CASE EmitStart
      BY <2>6 DEF EmitStart
    <2> QED
      BY Zenon, <1>5, <2>1, <2>2, <2>3, <2>4, <2>5, <2>6 DEF EmitterStep
  <1>6. CASE EmitReturn
    BY <1>6, EmitReturnShape
  <1>7. CASE Expire \/ BindToStop \/ AbortDelivery
    BY Zenon, <1>7 DEF Expire, BindToStop, AbortDelivery
  <1>8. CASE StopBegin \/ StopCtxExpires
    BY Zenon, <1>8 DEF StopBegin, StopCtxExpires
  <1>9. CASE StopStep
    BY Zenon, <1>9 DEF StopStep, StopCancel, StopSourcesDone, StopSourcesTimeout, StopClose,
                       StopDrained, StopDrainTimeout
  <1>10. CASE UNCHANGED vars
    BY Zenon, <1>10
  <1> QED
    BY Zenon, <1>1, <1>2, <1>3, <1>4, <1>5, <1>6, <1>7, <1>8, <1>9, <1>10 DEF Next

\* A chunk is never empty while a batch is being shipped, however often the
\* destination rate-limits: splitChunk stops at one record.
THEOREM PipelineChunkPositive == Spec => []ChunkPositive
  <1>1. Init => QueueInv /\ ShapeInv
    BY QueueInvInit, ShapeInvInit DEF Init
  <1>2. ShapeInv => ChunkPositive
    BY DEF ShapeInv
  <1> QED
    BY <1>1, <1>2, QueueInvInPipeline, ShapeInvStep, PTL DEF Spec

-----------------------------------------------------------------------------
(* The ledger                                                              *)

\* Records admitted and no longer queued.
Base == admitted - Len(buf)

Distinct(s) == \A i, j \in 1..Len(s) : s[i] = s[j] => i = j

\* Inductive form of Ledger: the batch in hand and the counters partition the
\* records that left the queue, which are exactly the first Base ones.
BookInv ==
    /\ Elems(pending) \cup shipped \cup Lost = 1..Base
    /\ Elems(pending) \cap (shipped \cup Lost) = {}
    /\ shipped \cap Lost = {}
    /\ overflow \cap (rejected \cup failed \cup permanent) = {}
    /\ rejected \cap (failed \cup permanent) = {}
    /\ failed \cap permanent = {}
    /\ Distinct(pending)

LEMMA SameBatch ==
    ASSUME pending' = pending, Distinct(pending)
    PROVE  Elems(pending)' = Elems(pending) /\ Distinct(pending)'
  <1>1. Elems(pending)' = Elems(pending)
    BY Zenon DEF Elems
  <1>2. Distinct(pending)'
    BY Zenon DEF Distinct
  <1> QED
    BY <1>1, <1>2

\* What the queue holds, as a set.
LEMMA QueuedRecords ==
    ASSUME QueueInv
    PROVE  /\ Base \in Nat /\ admitted \in Nat /\ Base <= admitted
           /\ Elems(buf) = (Base + 1)..admitted
  <1>1. buf \in Seq(Nat) /\ Len(buf) \in Nat /\ admitted \in Nat /\ Len(buf) <= admitted
    BY DEF QueueInv, QueueTypeOK
  <1>2. Base \in Nat /\ Base <= admitted
    BY <1>1 DEF Base
  <1>3. ASSUME NEW r \in Elems(buf) PROVE r \in (Base + 1)..admitted
    BY <1>1 DEF Elems, Base, QueueInv
  <1>4. ASSUME NEW r \in (Base + 1)..admitted PROVE r \in Elems(buf)
    <2>0. admitted = Base + Len(buf) /\ \A i \in 1..Len(buf) : buf[i] = Base + i
      BY <1>1 DEF Base, QueueInv
    <2>1. r - Base \in 1..Len(buf) /\ Base + (r - Base) = r
      BY Zenon, <1>1, <1>2, <2>0, ShiftDown
    <2>2. buf[r - Base] = r
      BY Zenon, <2>0, <2>1
    <2> QED
      BY Zenon, <2>1, <2>2 DEF Elems
  <1> QED
    BY Zenon, <1>1, <1>2, <1>3, <1>4

LEMMA BooksGiveLedger == QueueInv /\ BookInv => Ledger
  <1> SUFFICES ASSUME QueueInv, BookInv PROVE Ledger
    OBVIOUS
  <1>1. /\ Base \in Nat /\ admitted \in Nat /\ Base <= admitted
        /\ Elems(buf) = (Base + 1)..admitted
    BY QueuedRecords
  <1>2. Elems(buf) \cup (1..Base) = 1..admitted /\ Elems(buf) \cap (1..Base) = {}
    BY <1>1
  <1>3. InHand \cup shipped \cup Lost = 1..admitted
    BY <1>2 DEF BookInv, InHand
  <1>4. Elems(buf) \cap Elems(pending) = {} /\ InHand \cap (shipped \cup Lost) = {}
    BY <1>2 DEF BookInv, InHand
  <1> QED
    BY <1>3, <1>4 DEF BookInv, Ledger, Distinct

\* Settling part of the batch in hand, each record under one heading.
LEMMA SettleKeepsBooks ==
    ASSUME BookInv, UNCHANGED queueVars,
           NEW A, NEW R, NEW F, NEW M,
           shipped' = shipped \cup A, rejected' = rejected \cup R,
           failed' = failed \cup F, permanent' = permanent \cup M,
           Elems(pending)' \cup A \cup R \cup F \cup M = Elems(pending),
           Elems(pending)' \cap (A \cup R \cup F \cup M) = {},
           A \cap (R \cup F \cup M) = {}, R \cap (F \cup M) = {}, F \cap M = {},
           Distinct(pending)'
    PROVE  BookInv'
  <1>1. Base' = Base
    BY DEF Base
  <1>2. Lost' = Lost \cup R \cup F \cup M
    BY DEF Lost
  <1>3. Elems(pending)' \cup shipped' \cup Lost' = 1..Base
    BY Zenon, <1>2 DEF BookInv
  <1>4. Elems(pending)' \cap (shipped' \cup Lost') = {}
    BY Zenon, <1>2 DEF BookInv
  <1>5. shipped' \cap Lost' = {}
    BY Zenon, <1>2 DEF BookInv
  <1>6. /\ overflow' \cap (rejected' \cup failed' \cup permanent') = {}
        /\ rejected' \cap (failed' \cup permanent') = {}
        /\ failed' \cap permanent' = {}
    BY Zenon DEF BookInv, Lost
  <1> QED
    BY Zenon, <1>1, <1>3, <1>4, <1>5, <1>6 DEF BookInv

\* Abandoning the whole batch in hand, and the end of a batch.
LEMMA AbandonKeepsBooks ==
    ASSUME BookInv, UNCHANGED queueVars, UNCHANGED <<shipped, rejected>>,
           abandonDelivery(Elems(pending))
    PROVE  BookInv'
  <1>1. Elems(pending)' = {} /\ Distinct(pending)'
    BY DEF abandonDelivery, EndBatch, Elems, Distinct
  <1> DEFINE F == IF cancelled THEN Elems(pending) ELSE {}
             M == IF cancelled THEN {} ELSE Elems(pending)
  <1>2. failed' = failed \cup F /\ permanent' = permanent \cup M
    BY DEF abandonDelivery
  <1>3. F \cup M = Elems(pending) /\ F \cap M = {}
    OBVIOUS
  <1> HIDE DEF F, M
  <1> QED
    <2>1. /\ shipped' = shipped \cup {} /\ rejected' = rejected \cup {}
          /\ Elems(pending)' \cup {} \cup {} \cup F \cup M = Elems(pending)
          /\ Elems(pending)' \cap ({} \cup {} \cup F \cup M) = {}
          /\ {} \cap ({} \cup F \cup M) = {} /\ {} \cap (F \cup M) = {}
      BY <1>1, <1>3
    <2> QED
      BY Zenon, <1>1, <1>2, <1>3, <2>1, SettleKeepsBooks

\* A push moves exactly the evicted records from the queue to overflow.
LEMMA PushKeepsBooks ==
    ASSUME QueueInv, BookInv, pushOpen, UNCHANGED emitVars PROVE BookInv'
  <1> DEFINE s == Append(buf, admitted + 1)
  <1>0. /\ buf \in Seq(Nat) /\ Len(buf) \in Nat /\ admitted \in Nat
        /\ Len(buf) <= admitted /\ Base \in Nat
    BY QueuedRecords DEF QueueInv, QueueTypeOK
  <1>1. PICK k \in 0..Len(s) : buf' = DropOldest(s, k) /\ overflow' = overflow \cup Oldest(s, k)
    BY DEF pushOpen
  <1>2. s \in Seq(Nat) /\ Len(s) = Len(buf) + 1
    BY <1>0
  <1>3. \A i \in 1..Len(s) : s[i] = Base + i
    BY <1>0, <1>2 DEF QueueInv, Base
  <1> HIDE DEF s
  <1>4. Len(buf') = Len(s) - k
    BY Zenon, <1>1, <1>2, DropOldestFacts
  <1>5. Base' = Base + k
    <2>1. admitted' = admitted + 1 /\ k \in Nat
      BY <1>1 DEF pushOpen
    <2> QED
      BY <1>0, <1>2, <1>4, <2>1 DEF Base
  <1>6. Oldest(s, k) = (Base + 1)..(Base + k)
    <2>0. k \in Nat /\ Len(s) \in Nat /\ Base \in Nat
      BY <1>0, <1>1, <1>2
    <2>1. ASSUME NEW r \in Oldest(s, k) PROVE r \in (Base + 1)..(Base + k)
      <3>1. PICK i \in 1..k : r = s[i]
        BY Zenon DEF Oldest
      <3>2. i \in 1..Len(s)
        BY Zenon, <1>1, <2>0, PrefixPosition
      <3> QED
        BY Zenon, <1>3, <2>0, <3>1, <3>2, ShiftUp
    <2>2. ASSUME NEW r \in (Base + 1)..(Base + k) PROVE r \in Oldest(s, k)
      <3>1. r - Base \in 1..k /\ Base + (r - Base) = r
        BY Zenon, <2>0, ShiftDown
      <3>2. s[r - Base] = r
        BY Zenon, <1>1, <1>3, <2>0, <3>1, PrefixPosition
      <3> QED
        BY <3>1, <3>2 DEF Oldest
    <2> QED
      BY Zenon, <2>1, <2>2
  <1>7. /\ (1..Base) \cup Oldest(s, k) = 1..Base'
        /\ (1..Base) \cap Oldest(s, k) = {}
    <2>1. k \in Nat
      BY <1>2
    <2> QED
      BY Zenon, <1>0, <1>5, <1>6, <2>1, AdjacentRanges
  <1>8. /\ Elems(pending)' = Elems(pending) /\ Distinct(pending)'
        /\ UNCHANGED <<shipped, rejected, failed, permanent>>
        /\ Lost' = Lost \cup Oldest(s, k)
    <2>1. UNCHANGED <<pending, shipped, rejected, failed, permanent>>
      BY Zenon
    <2>2. Elems(pending)' = Elems(pending) /\ Distinct(pending)'
      BY Zenon, <2>1, SameBatch DEF BookInv
    <2>3. Lost' = Lost \cup Oldest(s, k)
      BY <1>1, <2>1 DEF Lost
    <2> QED
      BY Zenon, <2>1, <2>2, <2>3
  <1>9. overflow' \cap (rejected \cup failed \cup permanent) = {}
    <2>1. rejected \cup failed \cup permanent \subseteq 1..Base
      BY Zenon DEF BookInv, Lost
    <2>2. overflow \cap (rejected \cup failed \cup permanent) = {}
      BY Zenon DEF BookInv
    <2> QED
      BY Zenon, <1>1, <1>7, <2>1, <2>2
  <1>10. /\ Elems(pending) \cup shipped \cup Lost' = 1..Base'
         /\ Elems(pending) \cap (shipped \cup Lost') = {}
         /\ shipped \cap Lost' = {}
    BY Zenon, <1>7, <1>8 DEF BookInv
  <1> QED
    BY Zenon, <1>8, <1>9, <1>10 DEF BookInv

\* Draining moves exactly the first k queued records into the batch.
LEMMA DrainKeepsBooks ==
    ASSUME QueueInv, ShapeInv, BookInv, EmitterDrain PROVE BookInv'
  <1>0. /\ buf \in Seq(Nat) /\ Len(buf) \in Nat /\ admitted \in Nat
        /\ Len(buf) <= admitted /\ Base \in Nat
    BY QueuedRecords DEF QueueInv, QueueTypeOK
  <1>1. PICK k \in 1..BatchMax : drainUpTo(k) /\ pending' = SubSeq(buf, 1, k)
    BY DEF EmitterDrain
  <1>2. k \in 0..Len(buf) /\ Len(buf') = Len(buf) - k /\ admitted' = admitted /\ overflow' = overflow
    <2>1. k \in 0..Len(buf) /\ buf' = DropOldest(buf, k) /\ admitted' = admitted /\ overflow' = overflow
      BY <1>0, <1>1 DEF drainUpTo
    <2> QED
      BY Zenon, <1>0, <2>1, DropOldestFacts
  <1>3. Base' = Base + k
    BY <1>0, <1>2 DEF Base
  <1>4. Len(pending') = k /\ \A i \in 1..k : pending'[i] = Base + i
    BY <1>0, <1>1, <1>2 DEF QueueInv, Base
  <1>5. Elems(pending)' = (Base + 1)..(Base + k)
    <2>0. k \in Nat
      OBVIOUS
    <2>1. ASSUME NEW r \in Elems(pending)' PROVE r \in (Base + 1)..(Base + k)
      <3>1. PICK i \in 1..k : r = pending'[i]
        BY Zenon, <1>4 DEF Elems
      <3>2. r = Base + i
        BY Zenon, <1>4, <3>1
      <3> QED
        BY Zenon, <1>0, <2>0, <3>2, ShiftUp
    <2>2. ASSUME NEW r \in (Base + 1)..(Base + k) PROVE r \in Elems(pending)'
      <3>0. r - Base \in 1..k /\ Base + (r - Base) = r
        BY Zenon, <1>0, <2>0, ShiftDown
      <3>1. r - Base \in 1..k /\ pending'[r - Base] = r
        BY Zenon, <1>4, <3>0
      <3> QED
        BY <1>4, <3>1 DEF Elems
    <2> QED
      BY Zenon, <2>1, <2>2
  <1>6. Distinct(pending)'
    BY <1>0, <1>2, <1>4 DEF Distinct
  <1>7. Elems(pending) = {}
    BY DEF EmitterDrain, ShapeInv, InBatch, Elems
  <1>8. UNCHANGED <<shipped, rejected, failed, permanent>> /\ Lost' = Lost
    BY <1>2 DEF EmitterDrain, Lost
  <1>9. (1..Base) \cup Elems(pending)' = 1..Base' /\ (1..Base) \cap Elems(pending)' = {}
    <2>1. k \in Nat
      OBVIOUS
    <2> QED
      BY Zenon, <1>0, <1>3, <1>5, <2>1, AdjacentRanges
  <1>10. /\ Elems(pending)' \cup shipped \cup Lost = 1..Base'
         /\ Elems(pending)' \cap (shipped \cup Lost) = {}
    BY <1>7, <1>9 DEF BookInv
  <1> QED
    BY Zenon, <1>2, <1>6, <1>8, <1>10 DEF BookInv

\* Where in pending the i-th record of joinPending(q) comes from, when m
\* records are retried.
Origin(q, m, i) == IF i <= m THEN q[i] ELSE n + (i - m)

\* rest rearranges, without repeating any, exactly the records that are to be
\* retried or were not attempted.
IsRest(rest, v, q, m) ==
    /\ Len(rest) = m + (Len(pending) - n)
    /\ \A i \in 1..Len(rest) :
          /\ Origin(q, m, i) \in 1..Len(pending)
          /\ rest[i] = pending[Origin(q, m, i)]
          /\ Origin(q, m, i) <= n => v[Origin(q, m, i)] = "retry"
    /\ \A j \in 1..Len(pending) : (j > n \/ v[j] = "retry") =>
          \E i \in 1..Len(rest) : Origin(q, m, i) = j
    /\ \A i, j \in 1..Len(rest) : Origin(q, m, i) = Origin(q, m, j) => i = j

\* Positions of joinPending(q), for m retried records, a chunk of c and a batch
\* of len: the first m are the retried ones, the others follow the chunk.
LEMMA HeadPosition ==
    ASSUME NEW m \in Nat, NEW k \in Nat, NEW i \in 1..k, i <= m
    PROVE  i \in 1..m
  OBVIOUS

LEMMA TailPosition ==
    ASSUME NEW m \in Nat, NEW c \in Nat, NEW len \in Nat, c <= len,
           NEW i \in 1..(m + (len - c)), ~(i <= m)
    PROVE  /\ i - m \in 1..(len - c) /\ m + (i - m) = i
           /\ c + (i - m) \in 1..len /\ ~(c + (i - m) <= c)
  OBVIOUS

LEMMA HeadIndex ==
    ASSUME NEW m \in Nat, NEW c \in Nat, NEW len \in Nat, c <= len, NEW i \in 1..m
    PROVE  i \in 1..(m + (len - c)) /\ i <= m
  OBVIOUS

LEMMA TailIndex ==
    ASSUME NEW m \in Nat, NEW c \in Nat, NEW len \in Nat, c <= len, NEW j \in 1..len, ~(j <= c)
    PROVE  /\ m + (j - c) \in 1..(m + (len - c)) /\ ~(m + (j - c) <= m)
           /\ c + ((m + (j - c)) - m) = j
  OBVIOUS

LEMMA TailInjective ==
    ASSUME NEW m \in Nat, NEW c \in Nat, NEW k \in Nat, NEW i \in 1..k, NEW j \in 1..k,
           c + (i - m) = c + (j - m)
    PROVE  i = j
  OBVIOUS

LEMMA RestFacts ==
    ASSUME pending \in Seq(Nat), n \in 1..Len(pending),
           NEW v \in [1..n -> {"acked", "rejected", "retry"}],
           NEW m \in 0..n, NEW q \in [1..m -> 1..n], RetryOrder(v, q)
    PROVE  IsRest(joinPending(q), v, q, m)
  <1> DEFINE rest == joinPending(q)
             O(i) == Origin(q, m, i)
  <1>0. /\ m \in Nat /\ n \in Nat /\ Len(pending) \in Nat /\ n <= Len(pending)
        /\ n \in 0..Len(pending) /\ DOMAIN q = 1..m
    OBVIOUS
  <1>1. /\ rest \in Seq(Nat)
        /\ Len(rest) = m + (Len(pending) - n)
        /\ \A i \in 1..m : rest[i] = pending[q[i]]
        /\ \A i \in 1..(Len(pending) - n) : rest[m + i] = pending[n + i]
    BY Zenon, <1>0, JoinPendingFacts
  <1> HIDE DEF rest
  <1>2. \A i \in 1..m : q[i] \in 1..n /\ v[q[i]] = "retry"
    BY Zenon, <1>0 DEF RetryOrder
  <1>3. ASSUME NEW j \in 1..n, v[j] = "retry" PROVE \E i \in 1..m : q[i] = j
    <2>1. j \in {q[i] : i \in DOMAIN q}
      BY Zenon, <1>3 DEF RetryOrder
    <2> QED
      BY Zenon, <1>0, <2>1
  <1>4. \A i, j \in 1..m : q[i] = q[j] => i = j
    <2> SUFFICES ASSUME NEW i \in 1..m, NEW j \in 1..m, i < j PROVE q[i] # q[j]
      BY <1>0
    <2>1. CASE ResKey(pending[q[i]]) = ResKey(pending[q[j]])
      <3>1. q[i] < q[j]
        BY Zenon, <1>0, <2>1 DEF RetryOrder
      <3> QED
        BY <1>0, <1>2, <3>1
    <2>2. CASE ResKey(pending[q[i]]) # ResKey(pending[q[j]])
      BY <2>2
    <2> QED
      BY <2>1, <2>2
  <1>5. ASSUME NEW i \in 1..Len(rest)
        PROVE  /\ O(i) \in 1..Len(pending) /\ rest[i] = pending[O(i)]
               /\ i <= m => /\ i \in 1..m /\ O(i) = q[i] /\ O(i) <= n
                            /\ v[O(i)] = "retry"
               /\ ~(i <= m) => O(i) = n + (i - m) /\ ~(O(i) <= n)
    <2>0. i \in 1..(m + (Len(pending) - n)) /\ m + (Len(pending) - n) \in Nat
      BY <1>0, <1>1
    <2>1. CASE i <= m
      <3>1. i \in 1..m /\ O(i) = q[i]
        BY Zenon, <1>0, <2>0, <2>1, HeadPosition DEF Origin
      <3>2. O(i) \in 1..n /\ O(i) \in 1..Len(pending)
        BY Zenon, <1>0, <1>2, <3>1, PrefixPosition
      <3>3. O(i) <= n
        BY <1>0, <3>2
      <3> QED
        BY Zenon, <1>1, <1>2, <2>1, <3>1, <3>2, <3>3
    <2>2. CASE ~(i <= m)
      <3>1. O(i) = n + (i - m)
        BY Zenon, <2>2 DEF Origin
      <3>2. /\ i - m \in 1..(Len(pending) - n) /\ m + (i - m) = i
            /\ n + (i - m) \in 1..Len(pending) /\ ~(n + (i - m) <= n)
        BY Zenon, <1>0, <2>0, <2>2, TailPosition
      <3>3. rest[m + (i - m)] = pending[n + (i - m)]
        BY Zenon, <1>1, <3>2
      <3> HIDE DEF O
      <3> QED
        BY Zenon, <2>2, <3>1, <3>2, <3>3
    <2> QED
      BY Zenon, <2>1, <2>2
  <1>6. ASSUME NEW j \in 1..Len(pending), j > n \/ v[j] = "retry"
        PROVE  \E i \in 1..Len(rest) : O(i) = j
    <2>1. CASE ~(j <= n)
      <3> DEFINE i == m + (j - n)
      <3>1. i \in 1..(m + (Len(pending) - n)) /\ ~(i <= m) /\ n + (i - m) = j
        BY Zenon, <1>0, <2>1, TailIndex
      <3> HIDE DEF i
      <3>2. O(i) = j
        BY Zenon, <3>1 DEF Origin
      <3> QED
        BY Zenon, <1>1, <3>1, <3>2
    <2>2. CASE j <= n
      <3>1. j \in 1..n /\ ~(j > n)
        BY <1>0, <2>2
      <3>2. PICK i \in 1..m : q[i] = j
        BY Zenon, <1>3, <1>6, <3>1
      <3> QED
        BY Zenon, <1>0, <1>1, <3>2, HeadIndex DEF Origin
    <2> QED
      BY Zenon, <2>1, <2>2
  <1>7. ASSUME NEW i \in 1..Len(rest), NEW j \in 1..Len(rest), O(i) = O(j)
        PROVE  i = j
    <2>1. CASE i <= m
      <3>1. O(i) = q[i] /\ i \in 1..m /\ O(j) <= n
        BY Zenon, <1>5, <1>7, <2>1
      <3>2. O(j) = q[j] /\ j \in 1..m
        BY Zenon, <1>5, <3>1
      <3> QED
        BY Zenon, <1>4, <1>7, <3>1, <3>2
    <2>2. CASE ~(i <= m)
      <3>1. n + (i - m) = n + (j - m)
        BY Zenon, <1>5, <1>7, <2>2
      <3>2. Len(rest) \in Nat
        BY <1>0, <1>1
      <3> QED
        BY Zenon, <1>0, <3>1, <3>2, TailInjective
    <2> QED
      BY Zenon, <2>1, <2>2
  <1>8. ASSUME NEW i \in 1..Len(rest), O(i) <= n PROVE v[O(i)] = "retry"
    BY Zenon, <1>5, <1>8
  <1> QED
    BY Zenon, <1>1, <1>5, <1>6, <1>7, <1>8 DEF rest, IsRest

\* The records of the chunk that the sink answered with w.
Answered(v, w) == {pending[i] : i \in {j \in 1..n : v[j] = w}}

\* The sink's answer splits the batch in hand into accepted, rejected and
\* remaining records.
LEMMA AnswerSplitsBatch ==
    ASSUME pending \in Seq(Nat), n \in 1..Len(pending), Distinct(pending),
           NEW v \in [1..n -> {"acked", "rejected", "retry"}],
           NEW m \in 0..n, NEW q \in [1..m -> 1..n], RetryOrder(v, q)
    PROVE  /\ Elems(joinPending(q)) \cup Answered(v, "acked") \cup Answered(v, "rejected")
                 = Elems(pending)
           /\ Elems(joinPending(q)) \cap (Answered(v, "acked") \cup Answered(v, "rejected")) = {}
           /\ Answered(v, "acked") \cap Answered(v, "rejected") = {}
           /\ Distinct(joinPending(q))
  <1> DEFINE rest == joinPending(q)
  <1>0. n \in Nat /\ Len(pending) \in Nat /\ n <= Len(pending)
    OBVIOUS
  <1>a. IsRest(rest, v, q, m)
    BY Zenon, RestFacts
  <1>1. /\ \A i \in 1..Len(rest) :
              /\ Origin(q, m, i) \in 1..Len(pending)
              /\ rest[i] = pending[Origin(q, m, i)]
              /\ Origin(q, m, i) <= n => v[Origin(q, m, i)] = "retry"
        /\ \A j \in 1..Len(pending) : (j > n \/ v[j] = "retry") =>
              \E i \in 1..Len(rest) : Origin(q, m, i) = j
        /\ \A i, j \in 1..Len(rest) : Origin(q, m, i) = Origin(q, m, j) => i = j
    BY Zenon, <1>a DEF IsRest
  <1> HIDE DEF rest
  <1>2. Distinct(rest)
    <2> SUFFICES ASSUME NEW i \in 1..Len(rest), NEW j \in 1..Len(rest), rest[i] = rest[j]
                 PROVE  i = j
      BY DEF Distinct
    <2>1. Origin(q, m, i) = Origin(q, m, j)
      <3>1. pending[Origin(q, m, i)] = pending[Origin(q, m, j)]
        BY Zenon, <1>1
      <3>2. Origin(q, m, i) \in 1..Len(pending) /\ Origin(q, m, j) \in 1..Len(pending)
        BY Zenon, <1>1
      <3> QED
        BY Zenon, <3>1, <3>2 DEF Distinct
    <2> QED
      BY Zenon, <1>1, <2>1
  <1>3. ASSUME NEW r \in Elems(pending)
        PROVE  r \in Elems(rest) \cup Answered(v, "acked") \cup Answered(v, "rejected")
    <2>1. PICK j \in 1..Len(pending) : r = pending[j]
      BY DEF Elems
    <2>2. CASE j > n \/ v[j] = "retry"
      <3>1. PICK i \in 1..Len(rest) : Origin(q, m, i) = j
        BY Zenon, <1>1, <2>2
      <3>2. rest[i] = r
        BY Zenon, <1>1, <2>1, <3>1
      <3> QED
        BY Zenon, <3>2 DEF Elems
    <2>3. CASE j <= n /\ v[j] # "retry"
      <3>1. j \in 1..n /\ v[j] \in {"acked", "rejected"}
        BY <1>0, <2>3
      <3> QED
        BY Zenon, <2>1, <3>1 DEF Answered
    <2> QED
      BY <1>0, <2>2, <2>3
  <1>4. Elems(rest) \cup Answered(v, "acked") \cup Answered(v, "rejected") \subseteq Elems(pending)
    <2>1. ASSUME NEW r \in Elems(rest) PROVE r \in Elems(pending)
      <3>1. PICK i \in 1..Len(rest) : r = rest[i]
        BY DEF Elems
      <3>2. Origin(q, m, i) \in 1..Len(pending) /\ r = pending[Origin(q, m, i)]
        BY Zenon, <1>1, <3>1
      <3> QED
        BY Zenon, <3>2 DEF Elems
    <2>2. ASSUME NEW w, NEW r \in Answered(v, w) PROVE r \in Elems(pending)
      <3>1. PICK i \in 1..n : r = pending[i]
        BY Zenon, <2>2 DEF Answered
      <3>2. i \in 1..Len(pending)
        BY <1>0
      <3> QED
        BY Zenon, <3>1, <3>2 DEF Elems
    <2> QED
      BY <2>1, <2>2
  <1>5. ASSUME NEW i \in 1..Len(rest), NEW j \in 1..n, v[j] # "retry" PROVE rest[i] # pending[j]
    <2>0. j <= n
      BY <1>0
    <2>1. Origin(q, m, i) # j
      BY Zenon, <1>1, <1>5, <2>0
    <2>2. /\ Origin(q, m, i) \in 1..Len(pending) /\ j \in 1..Len(pending)
          /\ rest[i] = pending[Origin(q, m, i)]
      BY <1>0, <1>1
    <2> QED
      BY Zenon, <2>1, <2>2 DEF Distinct
  <1>6. Elems(rest) \cap (Answered(v, "acked") \cup Answered(v, "rejected")) = {}
    BY Zenon, <1>5 DEF Elems, Answered
  <1>7. Answered(v, "acked") \cap Answered(v, "rejected") = {}
    <2>1. ASSUME NEW i \in 1..n, NEW j \in 1..n, v[i] = "acked", v[j] = "rejected"
          PROVE  pending[i] # pending[j]
      <3>1. i # j
        BY <2>1
      <3>2. i \in 1..Len(pending) /\ j \in 1..Len(pending)
        BY <1>0
      <3> QED
        BY Zenon, <3>1, <3>2 DEF Distinct
    <2> QED
      BY Zenon, <2>1 DEF Answered
  <1> QED
    BY Zenon, <1>2, <1>3, <1>4, <1>6, <1>7 DEF rest

\* A chunk that landed: its records are all accepted, the tail remains.
LEMMA LandedSplitsBatch ==
    ASSUME pending \in Seq(Nat), n \in 1..Len(pending), Distinct(pending),
           NEW v \in [1..n -> {"acked", "rejected", "retry"}],
           \A i \in 1..n : v[i] = "acked", ChunkLanded
    PROVE  /\ Elems(pending)' \cup Answered(v, "acked") = Elems(pending)
           /\ Elems(pending)' \cap Answered(v, "acked") = {}
           /\ Answered(v, "rejected") = {}
           /\ Distinct(pending)'
  <1>0. n \in Nat /\ Len(pending) \in Nat /\ n <= Len(pending) /\ n \in 0..Len(pending)
    OBVIOUS
  <1>1. Answered(v, "acked") = {pending[i] : i \in 1..n} /\ Answered(v, "rejected") = {}
    BY Zenon DEF Answered
  <1>2. /\ Len(pending') = Len(pending) - n
        /\ \A i \in 1..(Len(pending) - n) : pending'[i] = pending[n + i]
    <2>1. CASE n = Len(pending)
      BY <1>0, <2>1 DEF ChunkLanded, EndBatch
    <2>2. CASE n # Len(pending)
      <3>1. pending' = DropOldest(pending, n)
        BY <2>2 DEF ChunkLanded
      <3>2. /\ Len(DropOldest(pending, n)) = Len(pending) - n
            /\ \A i \in 1..(Len(pending) - n) : DropOldest(pending, n)[i] = pending[n + i]
        BY <1>0, DropOldestFacts
      <3> QED
        BY <3>1, <3>2, Zenon
    <2> QED
      BY Zenon, <2>1, <2>2
  <1>3. Distinct(pending)'
    <2> SUFFICES ASSUME NEW i \in 1..Len(pending'), NEW j \in 1..Len(pending'),
                        pending'[i] = pending'[j]
                 PROVE  i = j
      BY DEF Distinct
    <2>1. n + i \in 1..Len(pending) /\ n + j \in 1..Len(pending)
      BY Zenon, <1>0, <1>2, AfterPrefix
    <2>2. pending[n + i] = pending[n + j]
      BY Zenon, <1>2
    <2>3. n + i = n + j
      BY <2>1, <2>2 DEF Distinct
    <2> QED
      BY <1>0, <1>2, <2>3
  <1>4. Elems(pending)' \cap {pending[i] : i \in 1..n} = {}
    <2>1. ASSUME NEW i \in 1..Len(pending'), NEW j \in 1..n PROVE pending'[i] # pending[j]
      <3>1. n + i \in 1..Len(pending) /\ n + i # j /\ pending'[i] = pending[n + i]
        BY Zenon, <1>0, <1>2, AfterPrefix
      <3>2. j \in 1..Len(pending)
        BY Zenon, <1>0, PrefixPosition
      <3> QED
        BY Zenon, <3>1, <3>2 DEF Distinct
    <2> QED
      BY Zenon, <2>1 DEF Elems
  <1>5. ASSUME NEW r \in Elems(pending) PROVE r \in Elems(pending)' \cup {pending[i] : i \in 1..n}
    <2>1. PICK j \in 1..Len(pending) : r = pending[j]
      BY DEF Elems
    <2>2. CASE j > n
      <3>1. j - n \in 1..(Len(pending) - n) /\ n + (j - n) = j
        BY <1>0, <2>2
      <3> QED
        BY Zenon, <1>2, <2>1, <3>1 DEF Elems
    <2> QED
      BY <1>0, <2>1, <2>2
  <1>6. Elems(pending)' \cup {pending[i] : i \in 1..n} \subseteq Elems(pending)
    <2>1. ASSUME NEW i \in 1..Len(pending') PROVE pending'[i] \in Elems(pending)
      <3>1. n + i \in 1..Len(pending) /\ pending'[i] = pending[n + i]
        BY Zenon, <1>0, <1>2, AfterPrefix
      <3> QED
        BY Zenon, <3>1 DEF Elems
    <2>2. ASSUME NEW i \in 1..n PROVE pending[i] \in Elems(pending)
      BY <1>0 DEF Elems
    <2> QED
      BY Zenon, <2>1, <2>2 DEF Elems
  <1> QED
    BY Zenon, <1>1, <1>3, <1>4, <1>5, <1>6

LEMMA EmitReturnKeepsBooks ==
    ASSUME ShapeInv, BookInv, EmitReturn PROVE BookInv'
  <1>0. pending \in Seq(Nat) /\ n \in 1..Len(pending) /\ Distinct(pending)
    <2>0. epc = "emit"
      BY Zenon DEF EmitReturn
    <2>1. pending \in Seq(Nat) /\ n \in 0..Len(pending) /\ n > 0
      BY Zenon, <2>0 DEF ShapeInv
    <2>2. Distinct(pending)
      BY Zenon DEF BookInv
    <2> QED
      BY <2>1, <2>2
  <1>1. PICK v \in [1..n -> {"acked", "rejected", "retry"}] :
          /\ shipped' = shipped \cup Answered(v, "acked")
          /\ rejected' = rejected \cup Answered(v, "rejected")
          /\ \/ /\ \A i \in 1..n : v[i] = "acked"
                /\ ChunkLanded
                /\ UNCHANGED <<failed, permanent>>
             \/ \E m \in 0..n : \E q \in [1..m -> 1..n] : \E rl \in BOOLEAN :
                   RetryOrder(v, q) /\ ChunkFailed(joinPending(q), rl)
    BY Zenon DEF EmitReturn, Answered
  <1>2. UNCHANGED queueVars
    BY Zenon DEF EmitReturn
  <1> DEFINE A == Answered(v, "acked")
             R == Answered(v, "rejected")
  <1>3. CASE (\A i \in 1..n : v[i] = "acked") /\ ChunkLanded /\ UNCHANGED <<failed, permanent>>
    <2>1. /\ Elems(pending)' \cup A = Elems(pending) /\ Elems(pending)' \cap A = {}
          /\ R = {} /\ Distinct(pending)'
      BY Zenon, <1>0, <1>3, LandedSplitsBatch
    <2> HIDE DEF A, R
    <2>2. /\ shipped' = shipped \cup A /\ rejected' = rejected \cup R
          /\ failed' = failed \cup {} /\ permanent' = permanent \cup {}
      BY <1>1, <1>3 DEF A, R
    <2>3. /\ Elems(pending)' \cup A \cup R \cup {} \cup {} = Elems(pending)
          /\ Elems(pending)' \cap (A \cup R \cup {} \cup {}) = {}
          /\ A \cap (R \cup {} \cup {}) = {} /\ R \cap ({} \cup {}) = {} /\ {} \cap {} = {}
      BY <2>1
    <2> QED
      BY Zenon, <1>2, <2>1, <2>2, <2>3, SettleKeepsBooks
  <1>4. ASSUME NEW m \in 0..n, NEW q \in [1..m -> 1..n], NEW rl \in BOOLEAN,
               RetryOrder(v, q), ChunkFailed(joinPending(q), rl)
        PROVE  BookInv'
    <2> DEFINE rest == joinPending(q)
    <2>1. /\ Elems(rest) \cup A \cup R = Elems(pending)
          /\ Elems(rest) \cap (A \cup R) = {} /\ A \cap R = {} /\ Distinct(rest)
      BY Zenon, <1>0, <1>4, AnswerSplitsBatch
    <2>2. shipped' = shipped \cup A /\ rejected' = rejected \cup R
      BY <1>1
    <2>3. \/ pending' = <<>> /\ rest = <<>> /\ UNCHANGED <<failed, permanent>>
          \/ pending' = <<>> /\ failed' = failed \cup Elems(rest) /\ UNCHANGED permanent
          \/ pending' = <<>> /\ permanent' = permanent \cup Elems(rest) /\ UNCHANGED failed
          \/ pending' = rest /\ UNCHANGED <<failed, permanent>>
      BY Zenon, <1>4 DEF ChunkFailed, abandonDelivery, EndBatch
    <2> HIDE DEF A, R, rest
    <2>4. pending' = <<>> => Elems(pending)' = {} /\ Distinct(pending)'
      BY DEF Elems, Distinct
    <2>5. CASE pending' = <<>> /\ rest = <<>> /\ UNCHANGED <<failed, permanent>>
      <3>1. Elems(rest) = {}
        BY <2>5 DEF Elems
      <3>2. failed' = failed \cup {} /\ permanent' = permanent \cup {}
        BY <2>5
      <3>3. /\ Elems(pending)' \cup A \cup R \cup {} \cup {} = Elems(pending)
            /\ Elems(pending)' \cap (A \cup R \cup {} \cup {}) = {}
            /\ A \cap (R \cup {} \cup {}) = {} /\ R \cap ({} \cup {}) = {} /\ {} \cap {} = {}
        BY Zenon, <2>1, <2>4, <2>5, <3>1
      <3> QED
        BY Zenon, <1>2, <2>2, <2>4, <2>5, <3>2, <3>3, SettleKeepsBooks
    <2>6. CASE pending' = <<>> /\ failed' = failed \cup Elems(rest) /\ UNCHANGED permanent
      <3>1. permanent' = permanent \cup {}
        BY <2>6
      <3>2. /\ Elems(pending)' \cup A \cup R \cup Elems(rest) \cup {} = Elems(pending)
            /\ Elems(pending)' \cap (A \cup R \cup Elems(rest) \cup {}) = {}
            /\ A \cap (R \cup Elems(rest) \cup {}) = {} /\ R \cap (Elems(rest) \cup {}) = {} /\ Elems(rest) \cap {} = {}
        BY Zenon, <2>1, <2>4, <2>6
      <3> QED
        BY Zenon, <1>2, <2>2, <2>4, <2>6, <3>1, <3>2, SettleKeepsBooks
    <2>7. CASE pending' = <<>> /\ permanent' = permanent \cup Elems(rest) /\ UNCHANGED failed
      <3>1. failed' = failed \cup {}
        BY <2>7
      <3>2. /\ Elems(pending)' \cup A \cup R \cup {} \cup Elems(rest) = Elems(pending)
            /\ Elems(pending)' \cap (A \cup R \cup {} \cup Elems(rest)) = {}
            /\ A \cap (R \cup {} \cup Elems(rest)) = {} /\ R \cap ({} \cup Elems(rest)) = {} /\ {} \cap Elems(rest) = {}
        BY Zenon, <2>1, <2>4, <2>7
      <3> QED
        BY Zenon, <1>2, <2>2, <2>4, <2>7, <3>1, <3>2, SettleKeepsBooks
    <2>8. CASE pending' = rest /\ UNCHANGED <<failed, permanent>>
      <3>1. Elems(pending)' = Elems(rest) /\ Distinct(pending)'
        BY <2>1, <2>8 DEF Elems, Distinct
      <3>2. failed' = failed \cup {} /\ permanent' = permanent \cup {}
        BY <2>8
      <3>3. /\ Elems(pending)' \cup A \cup R \cup {} \cup {} = Elems(pending)
            /\ Elems(pending)' \cap (A \cup R \cup {} \cup {}) = {}
            /\ A \cap (R \cup {} \cup {}) = {} /\ R \cap ({} \cup {}) = {} /\ {} \cap {} = {}
        BY Zenon, <2>1, <3>1
      <3> QED
        BY Zenon, <1>2, <2>2, <3>1, <3>2, <3>3, SettleKeepsBooks
    <2> QED
      BY Zenon, <2>3, <2>5, <2>6, <2>7, <2>8
  <1> QED
    BY <1>1, <1>3, <1>4

LEMMA BookInvInit == Init => BookInv
  <1> SUFFICES ASSUME Init PROVE BookInv
    OBVIOUS
  <1>1. Len(buf) = 0 /\ admitted = 0 /\ Len(pending) = 0
    BY DEF Init, QueueInit
  <1>2. 1..Base = {} /\ Elems(pending) = {} /\ Distinct(pending)
    BY <1>1 DEF Base, Elems, Distinct
  <1>3. Lost = {} /\ shipped = {}
    BY DEF Init, QueueInit, Lost
  <1> QED
    BY Zenon, <1>2, <1>3 DEF Init, QueueInit, BookInv

LEMMA BookInvStep == QueueInv /\ ShapeInv /\ BookInv /\ [Next]_vars => BookInv'
  <1> SUFFICES ASSUME QueueInv, ShapeInv, BookInv, [Next]_vars PROVE BookInv'
    BY Zenon
  <1>0. ASSUME UNCHANGED <<buf, admitted, overflow, pending, countVars>> PROVE BookInv'
    <2>1. Base' = Base /\ Lost' = Lost /\ Elems(pending)' = Elems(pending)
      BY Zenon, <1>0 DEF Base, Lost, Elems
    <2>2. Distinct(pending)'
      BY Zenon, <1>0 DEF BookInv, Distinct
    <2> QED
      BY Zenon, <1>0, <2>1, <2>2 DEF BookInv
  <1>1. ASSUME NEW p \in Producers, Produce(p) PROVE BookInv'
    BY Zenon, <1>0, <1>1 DEF Produce
  <1>2. ASSUME NEW p \in Producers, enqueue(p) PROVE BookInv'
    <2>1. CASE UNCHANGED queueVars
      BY Zenon, <1>0, <1>2, <2>1 DEF enqueue
    <2>2. CASE pushOpen
      BY Zenon, <1>2, <2>2, PushKeepsBooks DEF enqueue
    <2>3. CASE pushClosed
      BY Zenon, <1>0, <1>2, <2>3 DEF enqueue, pushClosed
    <2> QED
      BY Zenon, <1>2, <2>1, <2>2, <2>3 DEF enqueue, push
  <1>3. ASSUME NEW p \in Sources, SourceReturn(p) PROVE BookInv'
    BY Zenon, <1>0, <1>3 DEF SourceReturn
  <1>4. CASE StateFlush
    BY Zenon, <1>0, <1>4 DEF StateFlush
  <1>5. CASE EmitterStep
    <2>1. CASE EmitterWait
      BY Zenon, <1>0, <2>1 DEF EmitterWait, drainWait
    <2>2. CASE EmitterDrain
      BY Zenon, <2>2, DrainKeepsBooks
    <2>3. CASE EmitterExit
      BY Zenon, <1>0, <2>3 DEF EmitterExit, drainEnd
    <2>4. CASE LoopTop
      <3>1. CASE abandonDelivery(Elems(pending))
        BY Zenon, <2>4, <3>1, AbandonKeepsBooks DEF LoopTop
      <3>2. CASE UNCHANGED <<batchVars, failed, permanent>>
        BY Zenon, <1>0, <2>4, <3>2 DEF LoopTop
      <3> QED
        BY Zenon, <2>4, <3>1, <3>2 DEF LoopTop
    <2>5. CASE waitOrAbandon
      <3>1. CASE abandonDelivery(Elems(pending))
        BY Zenon, <2>5, <3>1, AbandonKeepsBooks DEF waitOrAbandon
      <3>2. CASE UNCHANGED <<batchVars, failed, permanent>>
        BY Zenon, <1>0, <2>5, <3>2 DEF waitOrAbandon
      <3> QED
        BY Zenon, <2>5, <3>1, <3>2 DEF waitOrAbandon
    <2>6. CASE EmitStart
      BY Zenon, <1>0, <2>6 DEF EmitStart
    <2> QED
      BY Zenon, <1>5, <2>1, <2>2, <2>3, <2>4, <2>5, <2>6 DEF EmitterStep
  <1>6. CASE EmitReturn
    BY <1>6, EmitReturnKeepsBooks
  <1>7. CASE Expire \/ BindToStop \/ AbortDelivery
    BY Zenon, <1>0, <1>7 DEF Expire, BindToStop, AbortDelivery
  <1>8. CASE StopBegin \/ StopCtxExpires
    BY Zenon, <1>0, <1>8 DEF StopBegin, StopCtxExpires
  <1>9. CASE StopStep
    BY Zenon, <1>0, <1>9 DEF StopStep, StopCancel, StopSourcesDone, StopSourcesTimeout, StopClose,
                      close, StopDrained, StopDrainTimeout
  <1>10. CASE UNCHANGED vars
    BY Zenon, <1>0, <1>10
  <1> QED
    BY Zenon, <1>1, <1>2, <1>3, <1>4, <1>5, <1>6, <1>7, <1>8, <1>9, <1>10 DEF Next

\* Every admitted record is in exactly one place: queued, in the batch being
\* shipped, or counted once, as shipped or under one drop reason.
THEOREM PipelineLedger == Spec => []Ledger
  <1>1. Init => QueueInv /\ ShapeInv /\ BookInv
    BY QueueInvInit, ShapeInvInit, BookInvInit DEF Init
  <1> QED
    BY <1>1, QueueInvInPipeline, ShapeInvStep, BookInvStep, BooksGiveLedger, PTL
    DEF Spec
=============================================================================
