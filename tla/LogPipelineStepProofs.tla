------------------------ MODULE LogPipelineStepProofs -----------------------
(***************************************************************************)
(* Proofs about shutdown and about single steps of LogPipeline, its type   *)
(* correctness, and that it keeps the promise of DeliveryLedger.           *)
(***************************************************************************)
EXTENDS LogPipelineProofs

USE DEF queueVars, prodVars, batchVars, countVars, emitVars, stopVars, vars

-----------------------------------------------------------------------------
(* Attempts after stop                                                     *)

\* What was put on the wire after stop cancelled the producers is settled,
\* unless it is the chunk in flight; only a stop aborts a delivery, and only a
\* running batch is bound to a context.
LateInv ==
    /\ expired \in BOOLEAN /\ aborted \in BOOLEAN
    /\ late \subseteq 1..Base
    /\ late # {} => cancelled
    /\ epc # "emit" => late \cap Elems(pending) = {}
    /\ epc = "emit" => late \cap Elems(pending) \subseteq {pending[i] : i \in 1..n}
    /\ epc \in {"drain", "exit"} => bind = "off"
    /\ bind = "stop" => cancelled
    /\ aborted => cancelled

LEMMA LateInvInit == Init => LateInv
  <1> SUFFICES ASSUME Init PROVE LateInv
    OBVIOUS
  <1>1. expired \in BOOLEAN /\ aborted \in BOOLEAN
    BY Zenon DEF Init
  <1> QED
    BY <1>1 DEF Init, LateInv

LEMMA EndBatchLate ==
    ASSUME LateInv, QueueInv, EndBatch, UNCHANGED <<queueVars, late, cancelled>>
    PROVE  LateInv'
  <1>1. Elems(pending)' = {} /\ Base' = Base
    BY DEF EndBatch, Elems, Base
  <1>2. expired' \in BOOLEAN /\ aborted' \in BOOLEAN
    BY Zenon DEF EndBatch
  <1> QED
    BY <1>1, <1>2 DEF EndBatch, LateInv

LEMMA EmitReturnLate ==
    ASSUME QueueInv, ShapeInv, BookInv, LateInv, EmitReturn PROVE LateInv'
  <1>0. /\ pending \in Seq(Nat) /\ n \in 1..Len(pending) /\ Distinct(pending)
        /\ UNCHANGED <<queueVars, late, cancelled>> /\ Base' = Base
        /\ late \cap Elems(pending) \subseteq {pending[i] : i \in 1..n}
    BY DEF ShapeInv, BookInv, EmitReturn, LateInv, Base
  <1>a. n \in Nat /\ Len(pending) \in Nat /\ n <= Len(pending) /\ n \in 0..Len(pending)
    BY <1>0
  <1>1. CASE EndBatch
    BY <1>0, <1>1, EndBatchLate
  <1>2. CASE ChunkLanded /\ ~EndBatch
    <2>1. /\ pending' = DropOldest(pending, n) /\ epc' = "top"
          /\ UNCHANGED <<expired, bind, aborted>>
      BY <1>2 DEF ChunkLanded
    <2>2. /\ Len(DropOldest(pending, n)) = Len(pending) - n
          /\ \A i \in 1..(Len(pending) - n) : DropOldest(pending, n)[i] = pending[n + i]
      BY Zenon, <1>0, <1>a, DropOldestFacts
    <2>3. ASSUME NEW i \in 1..Len(pending')
          PROVE  /\ n + i \in 1..Len(pending) /\ pending'[i] = pending[n + i]
                 /\ \A j \in 1..n : n + i # j
      BY Zenon, <1>a, <2>1, <2>2, AfterPrefix
    <2>4. ASSUME NEW r \in Elems(pending)' PROVE r \notin late
      <3>1. PICK i \in 1..Len(pending') : r = pending'[i]
        BY DEF Elems
      <3>2. n + i \in 1..Len(pending) /\ r = pending[n + i]
        BY Zenon, <2>3, <3>1
      <3>3. \A j \in 1..n : j \in 1..Len(pending) /\ n + i # j
        BY Zenon, <1>a, <2>3, PrefixPosition
      <3>4. \A j \in 1..n : pending[j] # r
        BY Zenon, <1>0, <3>2, <3>3 DEF Distinct
      <3> QED
        BY Zenon, <1>0, <3>2, <3>4 DEF Elems
    <2> QED
      BY <1>0, <2>1, <2>4 DEF LateInv
  <1>3. ASSUME NEW rest, NEW rl \in BOOLEAN, ChunkFailed(rest, rl), ~EndBatch PROVE LateInv'
    <2>1. ~GiveUp /\ epc' \in {"top", "backoff"} /\ UNCHANGED <<expired, bind, aborted>>
      BY <1>3 DEF ChunkFailed, abandonDelivery
    <2>2. late = {}
      BY <2>1 DEF GiveUp, LateInv
    <2> QED
      BY <1>0, <2>1, <2>2 DEF LateInv
  <1> QED
    BY <1>1, <1>2, <1>3 DEF EmitReturn

LEMMA LateInvStep ==
    QueueInv /\ ShapeInv /\ BookInv /\ LateInv /\ [Next]_vars => LateInv'
  <1> SUFFICES ASSUME QueueInv, ShapeInv, BookInv, LateInv, [Next]_vars PROVE LateInv'
    OBVIOUS
  <1>q. QueueInv'
    BY QueueInvInPipeline
  <1>b. Base \in Nat /\ Base' \in Nat
    <2>1. Base \in Nat
      BY QueuedRecords
    <2>2. Base' \in Nat
      BY <1>q DEF QueueInv, QueueTypeOK, Base
    <2> QED
      BY <2>1, <2>2
  <1>0. ASSUME UNCHANGED <<epc, batchVars, late>>, cancelled => cancelled', Base <= Base'
        PROVE  LateInv'
    BY <1>b, <1>0 DEF LateInv, Elems
  <1>1. ASSUME NEW p \in Producers, Produce(p) PROVE LateInv'
    BY <1>0, <1>1, <1>b DEF Produce, Base
  <1>2. ASSUME NEW p \in Producers, enqueue(p) PROVE LateInv'
    <2>1. UNCHANGED <<epc, batchVars, late, cancelled>>
      BY <1>2 DEF enqueue
    <2>2. Base <= Base'
      <3>1. CASE UNCHANGED <<buf, admitted>>
        BY <1>b, <3>1 DEF Base
      <3>2. CASE pushOpen
        <4> DEFINE s == Append(buf, admitted + 1)
        <4>1. buf \in Seq(Nat) /\ admitted \in Nat
          BY DEF QueueInv, QueueTypeOK
        <4>2. s \in Seq(Nat) /\ Len(s) = Len(buf) + 1
          BY <4>1
        <4>3. PICK k \in 0..Len(s) : buf' = DropOldest(s, k)
          BY Zenon, <3>2 DEF pushOpen
        <4> HIDE DEF s
        <4>4. Len(buf') = Len(s) - k
          BY Zenon, <4>2, <4>3, DropOldestFacts
        <4>5. admitted' = admitted + 1
          BY Zenon, <3>2 DEF pushOpen
        <4> QED
          BY <4>1, <4>2, <4>3, <4>4, <4>5 DEF Base
      <3> QED
        BY <1>2, <3>1, <3>2 DEF enqueue, push, pushClosed
    <2> QED
      BY <1>0, <2>1, <2>2
  <1>3. ASSUME NEW p \in Sources, SourceReturn(p) PROVE LateInv'
    BY <1>0, <1>3, <1>b DEF SourceReturn, Base
  <1>4. CASE StateFlush
    BY <1>0, <1>4, <1>b DEF StateFlush, Base
  <1>5. CASE EmitterStep
    <2>1. CASE EmitterWait
      BY <1>0, <2>1, <1>b DEF EmitterWait, drainWait, Base
    <2>2. CASE EmitterDrain
      <3>1. PICK k \in 1..Len(buf) : buf' = DropOldest(buf, k) /\ pending' = SubSeq(buf, 1, k)
        BY <2>2 DEF EmitterDrain, drainUpTo
      <3>2. buf \in Seq(Nat) /\ Len(buf) \in Nat /\ admitted \in Nat /\ admitted' = admitted
        BY <2>2 DEF QueueInv, QueueTypeOK, EmitterDrain, drainUpTo
      <3>3. Len(pending') = k /\ \A i \in 1..k : pending'[i] = Base + i
        BY <3>1, <3>2 DEF QueueInv, Base
      <3>4. Len(DropOldest(buf, k)) = Len(buf) - k
        <4>1. k \in 0..Len(buf)
          BY <3>2
        <4> QED
          BY Zenon, <3>2, <4>1, DropOldestFacts
      <3>5. Base <= Base'
        BY <3>1, <3>2, <3>4 DEF Base
      <3>6. \A r \in Elems(pending)' : r \in Nat /\ r > Base
        <4> SUFFICES ASSUME NEW r \in Elems(pending)' PROVE r \in Nat /\ r > Base
          OBVIOUS
        <4>1. PICK i \in 1..k : r = Base + i
          BY Zenon, <3>3 DEF Elems
        <4>2. i \in Nat /\ i > 0
          BY <3>2
        <4> QED
          BY <1>b, <4>1, <4>2
      <3>7. late' = late /\ late \subseteq 1..Base' /\ late \cap Elems(pending)' = {}
        BY <1>b, <2>2, <3>5, <3>6 DEF LateInv, EmitterDrain
      <3> QED
        BY Zenon, <2>2, <3>7 DEF EmitterDrain, LateInv
    <2>3. CASE EmitterExit
      BY Zenon, <2>3 DEF EmitterExit, drainEnd, Base, LateInv, Elems
    <2>4. CASE LoopTop
      <3>1. CASE EndBatch
        BY <2>4, <3>1, EndBatchLate DEF LoopTop
      <3>2. CASE UNCHANGED batchVars
        BY <2>4, <3>2 DEF LoopTop, abandonDelivery, EndBatch, LateInv, Base, Elems
      <3> QED
        BY Zenon, <2>4, <3>1, <3>2 DEF LoopTop, abandonDelivery
    <2>5. CASE waitOrAbandon
      <3>1. CASE EndBatch
        BY <2>5, <3>1, EndBatchLate DEF waitOrAbandon
      <3>2. CASE UNCHANGED batchVars
        BY Zenon, <2>5, <3>2 DEF waitOrAbandon, abandonDelivery, EndBatch, LateInv, Base, Elems
      <3> QED
        BY Zenon, <2>5, <3>1, <3>2 DEF waitOrAbandon, abandonDelivery
    <2>6. CASE EmitStart
      <3>1. /\ late' = IF cancelled THEN late \cup {pending[i] : i \in 1..n'} ELSE late
            /\ n' \in 0..Len(pending) /\ epc = "send" /\ epc' = "emit" /\ Base' = Base
            /\ UNCHANGED <<pending, expired, bind, aborted, cancelled>>
        BY <2>6 DEF EmitStart, ShapeInv, Base
      <3>2. {pending[i] : i \in 1..n'} \subseteq Elems(pending) /\ Elems(pending) \subseteq 1..Base
        <4>1. pending \in Seq(Nat) /\ Len(pending) \in Nat
          BY DEF ShapeInv
        <4>2. \A i \in 1..n' : i \in 1..Len(pending)
          BY Zenon, <3>1, <4>1, PrefixPosition
        <4> QED
          BY Zenon, <4>2 DEF Elems, BookInv
      <3>3. Elems(pending)' = Elems(pending)
        BY Zenon, <3>1 DEF Elems
      <3> QED
        BY Zenon, <3>1, <3>2, <3>3 DEF LateInv
    <2> QED
      BY <1>5, <2>1, <2>2, <2>3, <2>4, <2>5, <2>6 DEF EmitterStep
  <1>6. CASE EmitReturn
    BY <1>6, EmitReturnLate
  <1>7. CASE Expire \/ BindToStop \/ AbortDelivery
    <2>1. expired' \in BOOLEAN /\ aborted' \in BOOLEAN
      BY Zenon, <1>7 DEF Expire, BindToStop, AbortDelivery, LateInv
    <2> QED
      BY Zenon, <1>7, <2>1 DEF Expire, BindToStop, AbortDelivery, LateInv, Base, Elems
  <1>8. CASE StopBegin \/ StopCtxExpires
    BY <1>0, <1>8, <1>b DEF StopBegin, StopCtxExpires, Base
  <1>9. CASE StopStep
    <2>1. /\ UNCHANGED <<epc, batchVars, late, buf, admitted>>
          /\ cancelled' = cancelled \/ cancelled' = TRUE
      BY Zenon, <1>9 DEF StopStep, StopCancel, StopSourcesDone, StopSourcesTimeout,
                         StopClose, close, StopDrained, StopDrainTimeout
    <2>2. Base <= Base'
      BY <1>b, <2>1 DEF Base
    <2>3. cancelled => cancelled'
      BY <2>1
    <2> QED
      BY Zenon, <1>0, <2>1, <2>2, <2>3
  <1>10. CASE UNCHANGED vars
    BY <1>0, <1>10, <1>b DEF Base
  <1> QED
    BY <1>1, <1>2, <1>3, <1>4, <1>5, <1>6, <1>7, <1>8, <1>9, <1>10 DEF Next

\* The inductive invariant of the pipeline.
PipelineInv == QueueInv /\ StopInv /\ ShapeInv /\ BookInv /\ LateInv

LEMMA PipelineInvInit == Init => PipelineInv
  BY Zenon, QueueInvInit, StopInvInit, ShapeInvInit, BookInvInit, LateInvInit DEF Init, PipelineInv

LEMMA PipelineInvStep == PipelineInv /\ [Next]_vars => PipelineInv'
  <1> SUFFICES ASSUME PipelineInv, [Next]_vars PROVE PipelineInv'
    OBVIOUS
  <1>1. QueueInv /\ StopInv /\ ShapeInv /\ BookInv /\ LateInv
    BY DEF PipelineInv
  <1>2. QueueInv' /\ StopInv'
    BY Zenon, <1>1, QueueInvInPipeline, StopInvStep
  <1>3. ShapeInv' /\ BookInv'
    BY Zenon, <1>1, ShapeInvStep, BookInvStep
  <1>4. LateInv'
    BY <1>1, LateInvStep
  <1> QED
    BY <1>2, <1>3, <1>4 DEF PipelineInv

\* All variables keep their types, the batch holds admitted records only, and
\* the chunk in flight is a non-empty part of the batch.
THEOREM PipelineTypeOK == Spec => []TypeOK
  <1>1. ASSUME PipelineInv PROVE TypeOK
    <2>1. /\ QueueInv /\ StopInv /\ ShapeInv /\ BookInv /\ LateInv
      BY <1>1 DEF PipelineInv
    <2>2. QueueTypeOK /\ ProducerTypes /\ StopTypes
      BY <2>1 DEF QueueInv, StopInv
    <2>3. Base \in Nat /\ admitted \in Nat /\ Base <= admitted
      BY <2>1, QueuedRecords
    <2>4. 1..Base \subseteq 1..admitted
      BY <2>3
    <2>5. pending \in Seq(Nat) /\ Elems(pending) \subseteq 1..admitted /\ late \subseteq 1..admitted
      BY Zenon, <2>1, <2>4 DEF ShapeInv, BookInv, LateInv
    <2>6. pending \in Seq(1..admitted)
      <3>1. \A i \in 1..Len(pending) : pending[i] \in 1..admitted
        BY <2>5 DEF Elems
      <3>2. pending = [i \in 1..Len(pending) |-> pending[i]] /\ Len(pending) \in Nat
        BY <2>5, SeqIsFunction
      <3>3. pending \in [1..Len(pending) -> 1..admitted]
        BY <3>1, <3>2
      <3> QED
        BY Zenon, <3>2, <3>3, FunctionIsSeq
    <2>7. limited \in BOOLEAN /\ expired \in BOOLEAN /\ aborted \in BOOLEAN
      BY <2>1 DEF ShapeInv, LateInv
    <2>8. EmitterTypes
      BY <2>1, <2>5, <2>6, <2>7 DEF ShapeInv, EmitterTypes
    <2> QED
      BY <2>2, <2>8 DEF TypeOK
  <1> QED
    BY <1>1, PipelineInvInit, PipelineInvStep, PTL DEF Spec

\* After stop cancelled the producers no record is put on the wire twice:
\* whatever fails then is abandoned, not retried.
THEOREM PipelineOneLateAttempt == Spec => OneLateAttempt
  <1>1. ASSUME PipelineInv, EmitStart, cancelled
        PROVE  {pending[i] : i \in 1..n'} \cap late = {}
    <2>1. late \cap Elems(pending) = {}
      BY Zenon, <1>1 DEF PipelineInv, LateInv, EmitStart
    <2>2. n' \in 0..Len(pending) /\ Len(pending) \in Nat
      BY <1>1 DEF PipelineInv, ShapeInv, EmitStart
    <2>3. {pending[i] : i \in 1..n'} \subseteq Elems(pending)
      BY <2>2 DEF Elems
    <2> QED
      BY <2>1, <2>3
  <1>2. PipelineInv /\ [Next]_vars =>
           [EmitStart /\ cancelled => {pending[i] : i \in 1..n'} \cap late = {}]_vars
    BY Zenon, <1>1
  <1> QED
    BY <1>2, PipelineInvInit, PipelineInvStep, PTL DEF Spec, OneLateAttempt

-----------------------------------------------------------------------------
(* What a step may do to the drop counters and to the chunk                *)

\* The drop counters move only where shipBatch gives records up.
LEMMA CounterMoves ==
    ASSUME PipelineInv, [Next]_vars
    PROVE  \/ UNCHANGED <<failed, permanent>>
           \/ cancelled /\ UNCHANGED permanent
           \/ ~cancelled /\ expired /\ UNCHANGED failed
           \/ /\ ~cancelled /\ UNCHANGED failed
              /\ MaxAttempts > 0 /\ attempt + 1 >= MaxAttempts
  <1>0. aborted => cancelled
    BY Zenon DEF PipelineInv, LateInv
  <1>1. CASE LoopTop \/ waitOrAbandon
    BY Zenon, <1>0, <1>1 DEF LoopTop, waitOrAbandon, abandonDelivery, ctxDone
  <1>2. CASE EmitReturn
    BY <1>0, <1>2 DEF EmitReturn, ChunkFailed, abandonDelivery, GiveUp, ctxDone
  <1>3. CASE UNCHANGED <<failed, permanent>>
    BY <1>3
  <1>4. LoopTop \/ waitOrAbandon \/ EmitReturn \/ UNCHANGED <<failed, permanent>>
    BY Zenon DEF Next, Produce, enqueue, SourceReturn, StateFlush, EmitterStep, EmitterWait,
           EmitterDrain, EmitterExit, EmitStart, Expire, BindToStop, AbortDelivery,
           StopBegin, StopStep, StopCancel, StopSourcesDone, StopSourcesTimeout, StopClose,
           StopDrained, StopDrainTimeout, StopCtxExpires
  <1> QED
    BY Zenon, <1>1, <1>2, <1>3, <1>4

\* A record is counted ship_failed only while stopping, and
\* ship_failed_permanent only when a budget ran out and nothing is stopping.
THEOREM PipelineDropReasons == Spec => DropReasons
  <1>1. ASSUME PipelineInv, [Next]_vars
        PROVE  /\ failed' # failed => cancelled
               /\ permanent' # permanent =>
                     ~cancelled /\ (expired \/ (MaxAttempts > 0 /\ attempt + 1 >= MaxAttempts))
    <2>1. cancelled \in BOOLEAN
      BY Zenon, <1>1 DEF PipelineInv, StopInv, StopTypes
    <2> QED
      BY <1>1, <2>1, CounterMoves, Zenon
  <1>2. PipelineInv /\ [Next]_vars =>
           [/\ failed' # failed => cancelled
            /\ permanent' # permanent =>
                  ~cancelled /\ (expired \/ (MaxAttempts > 0 /\ attempt + 1 >= MaxAttempts))]_vars
    BY Zenon, <1>1
  <1> QED
    BY <1>2, PipelineInvInit, PipelineInvStep, PTL DEF Spec, DropReasons

\* Within a batch the chunk never grows, and a refused chunk is followed by a
\* strictly smaller one, down to a single record.
THEOREM PipelineChunkShrinks == Spec => ChunkShrinks
  <1> DEFINE Shrinks ==
        bind # "off" /\ bind' # "off" =>
          /\ chunk' <= chunk
          /\ epc = "emit" /\ epc' = "top" /\ Len(pending') > Len(pending) - n
             => chunk' < n \/ n = 1
  <1>1. ASSUME PipelineInv, [Next]_vars PROVE Shrinks
    <2>0. /\ chunk \in Nat /\ pending \in Seq(Nat) /\ n \in 0..Len(pending) /\ n <= chunk
          /\ epc = "emit" => n \in Nat \ {0}
          /\ epc = "drain" => bind = "off"
      BY <1>1, QueueConstants DEF PipelineInv, ShapeInv, LateInv
    <2>1. CASE chunk' = chunk /\ ~EmitReturn
      <3>1. ~(epc = "emit" /\ epc' = "top")
        BY Zenon, <1>1, <2>1
        DEF Next, Produce, enqueue, SourceReturn, StateFlush, EmitterStep, EmitterWait,
            EmitterDrain, EmitterExit, LoopTop, waitOrAbandon, EmitStart, Expire, BindToStop,
            AbortDelivery, StopBegin, StopStep, StopCancel, StopSourcesDone,
            StopSourcesTimeout, StopClose, StopDrained, StopDrainTimeout, StopCtxExpires
      <3> QED
        BY <2>0, <2>1, <3>1
    <2>2. CASE bind = "off" \/ bind' = "off"
      BY <2>2
    <2>3. CASE EmitReturn /\ bind' # "off"
      <3>1. epc = "emit" /\ ~EndBatch /\ n \in Nat \ {0} /\ n <= chunk
        BY Zenon, <2>0, <2>3 DEF EmitReturn, EndBatch
      <3>2. CASE ChunkLanded
        <4>1. chunk' = chunk /\ pending' = DropOldest(pending, n)
          BY <3>1, <3>2 DEF ChunkLanded
        <4>2. Len(DropOldest(pending, n)) = Len(pending) - n
          BY <2>0, DropOldestFacts
        <4>3. Len(pending') = Len(pending) - n
          BY <4>1, <4>2
        <4> QED
          BY <2>0, <4>1, <4>3
      <3>3. ASSUME NEW rest, NEW rl \in BOOLEAN, ChunkFailed(rest, rl) PROVE Shrinks
        <4>1. IF rl THEN chunk' = splitChunk(n) ELSE chunk' = chunk /\ epc' = "backoff"
          BY Zenon, <3>1, <3>3 DEF ChunkFailed, abandonDelivery
        <4>2. splitChunk(n) \in 1..n /\ (n > 1 => splitChunk(n) < n)
          BY <3>1, SplitChunkBounds
        <4> QED
          BY <2>0, <3>1, <4>1, <4>2
      <3> QED
        BY Zenon, <2>3, <3>2, <3>3 DEF EmitReturn
    <2>4. EmitReturn \/ chunk' = chunk \/ bind = "off" \/ bind' = "off"
      BY Zenon, <1>1, <2>0
      DEF Next, Produce, enqueue, SourceReturn, StateFlush, EmitterStep, EmitterWait,
          EmitterDrain, EmitterExit, LoopTop, waitOrAbandon, abandonDelivery, EndBatch,
          EmitStart, Expire, BindToStop, AbortDelivery, StopBegin, StopStep, StopCancel,
          StopSourcesDone, StopSourcesTimeout, StopClose, StopDrained, StopDrainTimeout,
          StopCtxExpires
    <2> QED
      BY <2>1, <2>2, <2>3, <2>4
  <1>2. PipelineInv /\ [Next]_vars => [Shrinks]_vars
    BY Zenon, <1>1
  <1> QED
    BY <1>2, PipelineInvInit, PipelineInvStep, PTL DEF Spec, ChunkShrinks

-----------------------------------------------------------------------------
(* The pipeline implements the delivery ledger                             *)

\* Counters only grow, one record is admitted at a time and only while the
\* queue is open, and a clean stop touches nothing.
LEMMA LedgerMoves ==
    ASSUME PipelineInv, [Next]_vars
    PROVE  /\ shipped \subseteq shipped' /\ Lost \subseteq Lost'
           /\ \/ admitted' = admitted
              \/ admitted' = admitted + 1 /\ ~closed /\ UNCHANGED <<shipped, spc>>
           /\ spc = "ok" => spc' = "ok"
           /\ spc # "ok" /\ spc' = "ok" => UNCHANGED <<buf, pending, admitted, shipped, Lost>>
  <1>1. ASSUME NEW p \in Producers, enqueue(p)
        PROVE  /\ UNCHANGED <<pending, shipped, rejected, failed, permanent, spc>>
               /\ overflow \subseteq overflow'
               /\ admitted' = admitted \/ (admitted' = admitted + 1 /\ ~closed)
    BY Zenon, <1>1 DEF enqueue, push, pushOpen, pushClosed
  <1>2. CASE EmitReturn
    <2>1. shipped \subseteq shipped' /\ rejected \subseteq rejected'
      BY Zenon, <1>2 DEF EmitReturn
    <2>2. failed \subseteq failed' /\ permanent \subseteq permanent'
      BY <1>2 DEF EmitReturn, ChunkFailed, abandonDelivery
    <2>3. UNCHANGED <<overflow, admitted, spc>>
      BY Zenon, <1>2 DEF EmitReturn
    <2> QED
      BY Zenon, <2>1, <2>2, <2>3 DEF Lost
  <1>3. CASE EmitterStep
    <2>1. failed \subseteq failed' /\ permanent \subseteq permanent'
      BY Zenon, <1>3 DEF EmitterStep, EmitterWait, EmitterDrain, EmitterExit, LoopTop,
                  waitOrAbandon, abandonDelivery, EmitStart
    <2>2. UNCHANGED <<shipped, rejected, overflow, admitted, spc>>
      BY Zenon, <1>3 DEF EmitterStep, EmitterWait, drainWait, EmitterDrain, drainUpTo, EmitterExit,
                  drainEnd, LoopTop, waitOrAbandon, abandonDelivery, EmitStart
    <2> QED
      BY Zenon, <2>1, <2>2 DEF Lost
  <1>4. CASE /\ UNCHANGED <<buf, pending, shipped, Lost, admitted>>
             /\ spc = "ok" => spc' = "ok"
    BY Zenon, <1>4
  <1>5. \/ \E p \in Producers : enqueue(p)
        \/ EmitReturn \/ EmitterStep
        \/ /\ UNCHANGED <<buf, pending, shipped, Lost, admitted>>
           /\ spc = "ok" => spc' = "ok"
    BY Zenon DEF Next, Produce, SourceReturn, StateFlush, Expire, BindToStop, AbortDelivery,
           StopBegin, StopStep, StopCancel, StopSourcesDone, StopSourcesTimeout, StopClose,
           close, StopDrained, StopDrainTimeout, StopCtxExpires, Lost
  <1>6. ASSUME NEW p \in Producers, enqueue(p)
        PROVE  /\ shipped \subseteq shipped' /\ Lost \subseteq Lost'
               /\ \/ admitted' = admitted
                  \/ admitted' = admitted + 1 /\ ~closed /\ UNCHANGED <<shipped, spc>>
               /\ spc' = spc
    BY Zenon, <1>1, <1>6 DEF Lost
  <1> QED
    BY Zenon, <1>2, <1>3, <1>4, <1>5, <1>6

\* Read as admissions, settlements and a clean stop, every step of the
\* pipeline is a step of DeliveryLedger.
LEMMA PipelineStepsLedger ==
    ASSUME PipelineInv, PipelineInv', Ledger, Ledger', [Next]_vars
    PROVE  [Ledgered!LedgerNext]_(Ledgered!ledgerVars)
  <1> USE DEF Ledgered!ledgerVars, Ledgered!LedgerNext
  <1>1. Ledger /\ Ledger'
    OBVIOUS
  <1>2. admitted \in Nat
    BY Zenon DEF PipelineInv, QueueInv, QueueTypeOK
  <1>3. /\ spc = "ok" => closed /\ InHand = {}
        /\ spc' = "ok" => InHand' = {}
    <2>1. PipelineInv => (spc = "ok" => closed /\ InHand = {})
      BY DEF PipelineInv, StopInv, InHand, Elems
    <2>2. PipelineInv' => (spc' = "ok" => InHand' = {})
      BY DEF PipelineInv, StopInv, InHand, Elems
    <2> QED
      BY <2>1, <2>2
  <1>4. /\ shipped \subseteq shipped' /\ Lost \subseteq Lost'
        /\ \/ admitted' = admitted
           \/ admitted' = admitted + 1 /\ ~closed /\ UNCHANGED <<shipped, spc>>
        /\ spc = "ok" => spc' = "ok"
        /\ spc # "ok" /\ spc' = "ok" => UNCHANGED <<buf, pending, admitted, shipped, Lost>>
    BY Zenon, LedgerMoves
  <1>5. InHand = (1..admitted) \ (shipped \cup Lost) /\ InHand' = (1..admitted') \ (shipped' \cup Lost')
    BY Zenon, <1>1 DEF Ledger
  <1>6. CASE spc = "ok"
    <2>1. admitted' = admitted /\ spc' = "ok" /\ InHand = {} /\ InHand' = {}
      BY Zenon, <1>3, <1>4, <1>6
    <2>2. shipped \cup Lost = 1..admitted /\ shipped' \cup Lost' = 1..admitted
          /\ shipped' \cap Lost' = {}
      BY Zenon, <1>1, <2>1 DEF Ledger
    <2>3. shipped' = shipped /\ Lost' = Lost
      BY Zenon, <1>4, <2>2
    <2> QED
      BY Zenon, <1>6, <2>1, <2>3
  <1>7. CASE spc # "ok" /\ spc' = "ok"
    <2>1. InHand' = InHand /\ InHand' = {}
      BY Zenon, <1>3, <1>4, <1>7 DEF InHand, Elems
    <2> QED
      BY Zenon, <1>4, <1>7, <2>1 DEF Ledgered!StopClean
  <1>8. CASE spc # "ok" /\ spc' # "ok" /\ admitted' = admitted
    <2> DEFINE ok == shipped' \ shipped
               out == Lost' \ Lost
    <2>1. shipped' \cap Lost' = {} /\ shipped' \cup Lost' \subseteq 1..admitted
      BY Zenon, <1>1, <1>8 DEF Ledger
    <2>2. ok \subseteq InHand /\ out \subseteq InHand /\ ok \cap out = {}
      BY Zenon, <1>4, <1>5, <2>1
    <2>3. /\ InHand' = InHand \ (ok \cup out)
          /\ shipped' = shipped \cup ok /\ Lost' = Lost \cup out
      BY Zenon, <1>4, <1>5, <1>8
    <2> HIDE DEF ok, out
    <2> QED
      BY Zenon, <1>8, <2>2, <2>3 DEF Ledgered!Settle
  <1>9. CASE spc # "ok" /\ spc' # "ok" /\ admitted' = admitted + 1
    <2> DEFINE out == Lost' \ Lost
    <2>1. shipped' = shipped
      BY <1>2, <1>4, <1>9
    <2>2. Lost' \subseteq 1..(admitted + 1) /\ Lost' \cap shipped = {}
      BY Zenon, <1>1, <1>9, <2>1 DEF Ledger
    <2>3. 1..(admitted + 1) = (1..admitted) \cup {admitted + 1}
      BY <1>2
    <2>4. shipped \cup Lost \subseteq 1..admitted /\ admitted + 1 \notin 1..admitted
      <3>1. shipped \cup Lost \subseteq 1..admitted
        BY Zenon, <1>1 DEF Ledger
      <3>2. admitted + 1 \notin 1..admitted
        BY <1>2
      <3> QED
        BY Zenon, <3>1, <3>2
    <2>5. out \subseteq InHand \cup {admitted + 1}
      BY Zenon, <1>5, <2>2, <2>3
    <2>6. InHand' = (InHand \cup {admitted + 1}) \ out /\ Lost' = Lost \cup out
      BY <1>4, <1>5, <1>9, <2>1, <2>3, <2>4
    <2> HIDE DEF out
    <2> QED
      BY Zenon, <1>9, <2>1, <2>5, <2>6 DEF Ledgered!Admit
  <1> QED
    BY Zenon, <1>4, <1>6, <1>7, <1>8, <1>9

\* The pipeline implements DeliveryLedger: it holds every admitted record until
\* it settles it once, and after a clean stop holds and settles nothing.
THEOREM PipelineKeepsLedger == Spec => KeepsLedger
  <1>1. Init => Ledgered!LedgerInit
    BY DEF Init, QueueInit, Ledgered!LedgerInit, InHand, Lost, Elems
  <1>2. PipelineInv => Ledger
    BY BooksGiveLedger DEF PipelineInv
  <1>3. PipelineInv /\ PipelineInv' /\ Ledger /\ Ledger' /\ [Next]_vars
           => [Ledgered!LedgerNext]_(Ledgered!ledgerVars)
    BY Zenon, PipelineStepsLedger
  <1> QED
    BY <1>1, <1>2, <1>3, PipelineInvInit, PipelineInvStep, PTL
    DEF Spec, KeepsLedger, Ledgered!LedgerSpec
=============================================================================
