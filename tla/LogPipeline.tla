----------------------------- MODULE LogPipeline ----------------------------
(***************************************************************************)
(* The log-shipping pipeline of internal/logship/pipeline.go: producers    *)
(* feed one bounded queue, a single emitter goroutine drains it in batches *)
(* and ships each batch with bounded retry (shipBatch), and stop shuts the *)
(* whole thing down in order under a deadline.                             *)
(*                                                                         *)
(* Time is abstract.  The elapsed deadline of a batch, the expiry of the   *)
(* stop caller's context and the end of a pace or backoff wait are steps   *)
(* that may come at any moment.  The sink is its contract (SinkResult):    *)
(* every record of the chunk comes back acknowledged, rejected or to be    *)
(* retried; OTLPSink models how the OTLP sink arrives at that answer.      *)
(***************************************************************************)
EXTENDS DropOldestQueue, FiniteSets

CONSTANTS Pollers,      \* poll sources (runPoller)
          Receivers,    \* push sources (runPushSource)
          SelfLogs,     \* the exporter's own logger, if it ships its records
          FlowLogs,     \* the flow-log lane, if enabled (afterSourcesStopped)
          ResKey(_),    \* the resource partition a record ships under
          MaxAttempts,  \* --logs.ship-max-attempts, 0 = no cap
          MinChunk,     \* shipRateLimitMinChunk
          PaceStart,    \* the pace set by a rate limit, in units that halve to 0
          MaxOffers     \* bound: records offered by all producers together

Sources == Pollers \cup Receivers
Producers == Sources \cup SelfLogs \cup FlowLogs

ASSUME PipelineConstants ==
    /\ SelfLogs \cap (Sources \cup FlowLogs) = {} /\ FlowLogs \cap Sources = {}
    /\ MaxAttempts \in Nat
    /\ MinChunk \in Nat \ {0}
    /\ PaceStart \in Nat \ {0}
    /\ MaxOffers \in Nat
    /\ \A r \in 1..MaxOffers : ResKey(r) \in Nat

VARIABLES
    prod,       \* per producer: "idle", "holding" a record, or "done"
    offers,     \* history: records produced so far
    tooLarge,   \* records enqueue rejected as record_too_large
    saved,      \* the state file holds the sources' current cursors
    epc,        \* where the emitter is in runEmitter / shipBatch
    pending,    \* shipBatch's pending, in order
    n,          \* size of the chunk in flight
    chunk, pace, attempt, limited,  \* shipBatch's locals
    expired,    \* the batch's elapsed deadline has passed
    bind,       \* bindDeliveryToShutdown: bound to "run", to "stop", or "off"
    aborted,    \* the stop binding cancelled deliveryCtx
    shipChunk,  \* p.shipChunk, the chunk size learnt from rate limits
    shipped,    \* records counted shipped
    rejected, failed, permanent,  \* records counted dropped, by reason
    spc,        \* where stop is
    stopCtx,    \* the stop caller's context: "none", "live" or "done"
    cancelled,  \* p.ctx is cancelled
    late        \* history: records put on the wire after p.ctx was cancelled

prodVars == <<prod, offers, tooLarge>>
batchVars == <<pending, n, chunk, pace, attempt, limited, expired, bind, aborted>>
countVars == <<shipped, rejected, failed, permanent>>
emitVars == <<epc, batchVars, countVars, shipChunk, late>>
stopVars == <<spc, stopCtx, cancelled>>
vars == <<queueVars, prodVars, saved, emitVars, stopVars>>

Elems(s) == {s[i] : i \in 1..Len(s)}

Init ==
    /\ QueueInit
    /\ prod = [p \in Producers |-> "idle"]
    /\ offers = 0 /\ tooLarge = 0 /\ saved = TRUE
    /\ epc = "drain"
    /\ pending = <<>> /\ n = 0 /\ chunk = 0 /\ pace = 0 /\ attempt = 0
    /\ limited = FALSE /\ expired = FALSE /\ bind = "off" /\ aborted = FALSE
    /\ shipChunk = 0
    /\ shipped = {} /\ rejected = {} /\ failed = {} /\ permanent = {}
    /\ spc = "idle" /\ stopCtx = "none" /\ cancelled = FALSE
    /\ late = {}

-----------------------------------------------------------------------------
(* Producers                                                               *)

\* A poll returns a record, a receiver decodes one, the logger or the flow
\* lane has one to hand over.  SelfLogHandler refuses once Unbind began; the
\* flow lane runs until afterSourcesStopped has quiesced it.
Produce(p) ==
    /\ prod[p] = "idle"
    /\ offers < MaxOffers
    /\ p \in SelfLogs => spc = "idle"
    /\ prod' = [prod EXCEPT ![p] = "holding"]
    /\ offers' = offers + 1
    /\ saved' = IF p \in Pollers THEN FALSE ELSE saved
    /\ UNCHANGED <<queueVars, tooLarge, emitVars, stopVars>>

\* pipeline.enqueue: the size gate, then the queue.
enqueue(p) ==
    /\ prod[p] = "holding"
    /\ prod' = [prod EXCEPT ![p] = "idle"]
    /\ \/ tooLarge' = tooLarge + 1 /\ UNCHANGED queueVars
       \/ push /\ UNCHANGED tooLarge
    /\ UNCHANGED <<offers, saved, emitVars, stopVars>>

\* A poller returns once p.ctx is cancelled; a receiver's Run may also fail.
SourceReturn(p) ==
    /\ prod[p] = "idle"
    /\ p \in Pollers => cancelled
    /\ prod' = [prod EXCEPT ![p] = "done"]
    /\ UNCHANGED <<queueVars, offers, tooLarge, saved, emitVars, stopVars>>

\* persistState: a failed write is only logged.
persistState == saved' \in {saved, TRUE}

\* runStateFlusher's tick; the flusher is one of the goroutines stop waits for.
StateFlush ==
    /\ spc \in {"idle", "unbind", "sources"}
    /\ ~saved
    /\ persistState
    /\ UNCHANGED <<queueVars, prodVars, emitVars, stopVars>>

-----------------------------------------------------------------------------
(* The emitter                                                             *)

ctxDone == expired \/ aborted

\* shipBatch gives a failed chunk up at once when the pipeline is stopping.
GiveUp_IgnoresStop == ctxDone
GiveUp == cancelled \/ ctxDone

\* splitChunk
splitChunk(k) ==
    IF k \div 2 < MinChunk
    THEN IF k <= MinChunk THEN 1 ELSE MinChunk
    ELSE k \div 2

\* relaxShipChunk
relaxed ==
    IF shipChunk = 0 \/ shipChunk * 2 >= BatchMax THEN 0 ELSE shipChunk * 2

\* Leaving shipBatch: its locals die and the deferred release unbinds.
EndBatch ==
    /\ epc' = "drain"
    /\ pending' = <<>> /\ n' = 0 /\ chunk' = 0 /\ pace' = 0 /\ attempt' = 0
    /\ limited' = FALSE /\ expired' = FALSE /\ bind' = "off" /\ aborted' = FALSE

\* abandonDelivery: the reason tells a shutdown from an exhausted budget.
abandonDelivery_OneReason(rs) ==
    /\ permanent' = permanent \cup rs
    /\ failed' = failed
    /\ EndBatch
abandonDelivery(rs) ==
    /\ failed' = IF cancelled THEN failed \cup rs ELSE failed
    /\ permanent' = IF cancelled THEN permanent ELSE permanent \cup rs
    /\ EndBatch

EmitterWait ==
    /\ epc = "drain"
    /\ drainWait
    /\ UNCHANGED <<prodVars, saved, emitVars, stopVars>>

\* runEmitter drains a batch and enters shipBatch.
EmitterDrain ==
    /\ epc = "drain"
    /\ \E k \in 1..BatchMax :
          /\ drainUpTo(k)
          /\ pending' = SubSeq(buf, 1, k)
          /\ chunk' = IF shipChunk = 0 \/ shipChunk > k THEN k ELSE shipChunk
    /\ epc' = "top"
    /\ bind' = "run"
    /\ UNCHANGED <<n, pace, attempt, limited, expired, aborted>>
    /\ UNCHANGED <<prodVars, saved, countVars, shipChunk, late, stopVars>>

EmitterExit ==
    /\ epc = "drain"
    /\ drainEnd
    /\ epc' = "exit"
    /\ UNCHANGED <<prodVars, saved, batchVars, countVars, shipChunk, late, stopVars>>

\* The head of the shipBatch loop: the deadline check, then the pace wait.
LoopTop ==
    /\ epc = "top"
    /\ \/ /\ expired
          /\ abandonDelivery(Elems(pending))
       \/ /\ ~expired
          /\ epc' = IF pace > 0 THEN "pace" ELSE "send"
          /\ UNCHANGED <<batchVars, failed, permanent>>
    /\ UNCHANGED <<queueVars, prodVars, saved, shipped, rejected, shipChunk, late, stopVars>>

\* waitOrAbandon ends, by its timer, by shutdown or by deliveryCtx; whichever
\* it was, a finished deliveryCtx abandons.
waitOrAbandon ==
    /\ epc \in {"pace", "backoff"}
    /\ \/ /\ ctxDone
          /\ abandonDelivery(Elems(pending))
       \/ /\ ~ctxDone
          /\ epc' = IF epc = "pace" THEN "send" ELSE "top"
          /\ UNCHANGED <<batchVars, failed, permanent>>
    /\ UNCHANGED <<queueVars, prodVars, saved, shipped, rejected, shipChunk, late, stopVars>>

\* sink.Emit(deliveryCtx, head) starts.
EmitStart_Unclamped ==
    /\ epc = "send"
    /\ epc' = "emit"
    /\ n' = chunk
    /\ late' = IF cancelled THEN late \cup Elems(pending) ELSE late
    /\ UNCHANGED <<pending, chunk, pace, attempt, limited, expired, bind, aborted>>
    /\ UNCHANGED <<queueVars, prodVars, saved, countVars, shipChunk, stopVars>>
EmitStart ==
    /\ epc = "send"
    /\ epc' = "emit"
    /\ n' = IF chunk > Len(pending) THEN Len(pending) ELSE chunk
    /\ late' = IF cancelled THEN late \cup {pending[i] : i \in 1..n'} ELSE late
    /\ UNCHANGED <<pending, chunk, pace, attempt, limited, expired, bind, aborted>>
    /\ UNCHANGED <<queueVars, prodVars, saved, countVars, shipChunk, stopVars>>

\* The answers Emit may give for the chunk: each resource partition is either
\* to be retried whole, or settled with the accepted records before the
\* rejected ones (classifyPartition).
SinkVerdict(v) ==
    \A i, j \in 1..n : ResKey(pending[i]) = ResKey(pending[j]) =>
        /\ v[i] = "retry" => v[j] = "retry"
        /\ i < j /\ v[j] = "acked" => v[i] = "acked"

\* Emit merges the partitions' Retry lists in sorted key order: q enumerates
\* the positions to retry by key, and by position within a key.
RetryOrder(v, q) ==
    /\ {q[i] : i \in DOMAIN q} = {i \in 1..n : v[i] = "retry"}
    /\ \A i, j \in DOMAIN q : i < j =>
          IF ResKey(pending[q[i]]) = ResKey(pending[q[j]])
          THEN q[i] < q[j]
          ELSE ResKey(pending[q[i]]) < ResKey(pending[q[j]])

\* joinPending: what is to be retried goes ahead of what was not attempted.
joinPending_TailLost(q) == [i \in 1..Len(q) |-> pending[q[i]]]
joinPending_TailFirst(q) == DropOldest(pending, n) \o [i \in 1..Len(q) |-> pending[q[i]]]
joinPending(q) == [i \in 1..Len(q) |-> pending[q[i]]] \o DropOldest(pending, n)

\* A chunk landed cleanly: relax the pace and go on with the rest.
ChunkLanded ==
    IF n = Len(pending)
    THEN /\ EndBatch
         /\ shipChunk' = IF limited THEN shipChunk ELSE relaxed
    ELSE /\ epc' = "top"
         /\ pending' = DropOldest(pending, n)
         /\ pace' = pace \div 2
         /\ n' = 0
         /\ UNCHANGED <<chunk, attempt, limited, expired, bind, aborted, shipChunk>>

\* A chunk did not land cleanly; rest is what remains of the batch and rl
\* tells whether a partition was rate-limited.  The look at the contexts and the
\* attempt cap that follows it are one step: a stop that falls between them is
\* one that comes just after, since neither branch looks again.
ChunkFailed(rest, rl) ==
    \/ /\ rest = <<>>
       /\ EndBatch
       /\ UNCHANGED <<failed, permanent, shipChunk>>
    \/ /\ rest # <<>>
       /\ GiveUp
       /\ abandonDelivery(Elems(rest))
       /\ UNCHANGED shipChunk
    \/ /\ rest # <<>> /\ ~GiveUp
       /\ MaxAttempts > 0 /\ attempt + 1 >= MaxAttempts
       /\ permanent' = permanent \cup Elems(rest)
       /\ EndBatch
       /\ UNCHANGED <<failed, shipChunk>>
    \/ /\ rest # <<>> /\ ~GiveUp
       /\ MaxAttempts > 0 => attempt + 1 < MaxAttempts
       /\ attempt' = IF MaxAttempts > 0 THEN attempt + 1 ELSE attempt
       /\ pending' = rest
       /\ n' = 0
       /\ IF rl
          THEN /\ limited' = TRUE
               /\ chunk' = splitChunk(n)
               /\ shipChunk' = splitChunk(n)
               /\ pace' = PaceStart
               /\ epc' = "top"
          ELSE /\ epc' = "backoff"
               /\ UNCHANGED <<limited, chunk, shipChunk, pace>>
       /\ UNCHANGED <<failed, permanent, expired, bind, aborted>>

\* Emit returns and shipBatch settles the chunk.
EmitReturn ==
    /\ epc = "emit"
    /\ \E v \in [1..n -> {"acked", "rejected", "retry"}] :
          /\ SinkVerdict(v)
          /\ shipped' = shipped \cup {pending[i] : i \in {j \in 1..n : v[j] = "acked"}}
          /\ rejected' = rejected \cup {pending[i] : i \in {j \in 1..n : v[j] = "rejected"}}
          /\ \/ /\ \A i \in 1..n : v[i] = "acked"
                /\ ChunkLanded
                /\ UNCHANGED <<failed, permanent>>
             \/ /\ \E i \in 1..n : v[i] # "acked"
                /\ \E m \in 0..n : \E q \in [1..m -> 1..n] : \E rl \in BOOLEAN :
                      /\ RetryOrder(v, q)
                      /\ rl => m > 0
                      /\ ChunkFailed(joinPending(q), rl)
    /\ UNCHANGED <<queueVars, prodVars, saved, late, stopVars>>

\* The elapsed deadline of the batch passes.
Expire_Never == FALSE /\ UNCHANGED vars
Expire ==
    /\ bind # "off" /\ ~expired
    /\ expired' = TRUE
    /\ UNCHANGED <<pending, n, chunk, pace, attempt, limited, bind, aborted>>
    /\ UNCHANGED <<queueVars, prodVars, saved, epc, countVars, shipChunk, late, stopVars>>

\* context.AfterFunc(p.ctx) fires: the batch is bound to the stop context.
BindToStop ==
    /\ bind = "run" /\ cancelled
    /\ bind' = "stop"
    /\ UNCHANGED <<pending, n, chunk, pace, attempt, limited, expired, aborted>>
    /\ UNCHANGED <<queueVars, prodVars, saved, epc, countVars, shipChunk, late, stopVars>>

\* context.AfterFunc(stopCtx) fires: deliveryCtx is cancelled.
AbortDelivery ==
    /\ bind = "stop" /\ stopCtx = "done" /\ ~aborted
    /\ aborted' = TRUE
    /\ UNCHANGED <<pending, n, chunk, pace, attempt, limited, expired, bind>>
    /\ UNCHANGED <<queueVars, prodVars, saved, epc, countVars, shipChunk, late, stopVars>>

-----------------------------------------------------------------------------
(* stop                                                                    *)

\* stop publishes its context and begins to unbind the self-logger.
StopBegin ==
    /\ spc = "idle"
    /\ spc' = "unbind"
    /\ stopCtx' = "live"
    /\ UNCHANGED <<queueVars, prodVars, saved, emitVars, cancelled>>

\* selfLog.Unbind waits for the records in its hands; then p.cancel().
StopCancel ==
    /\ spc = "unbind"
    /\ \A p \in SelfLogs : prod[p] = "idle"
    /\ prod' = [p \in Producers |-> IF p \in SelfLogs THEN "done" ELSE prod[p]]
    /\ cancelled' = TRUE
    /\ spc' = "sources"
    /\ UNCHANGED <<queueVars, offers, tooLarge, saved, emitVars, stopCtx>>

\* Every source returned: stop goes on to afterSourcesStopped.
StopSourcesDone ==
    /\ spc = "sources"
    /\ \A p \in Sources : prod[p] = "done"
    /\ spc' = "flow"
    /\ UNCHANGED <<queueVars, prodVars, saved, emitVars, stopCtx, cancelled>>

\* A source did not return in time: stop gives up and leaves everything open.
StopSourcesTimeout_Waits == FALSE /\ UNCHANGED vars
StopSourcesTimeout_GoesOn ==
    /\ spc = "sources" /\ stopCtx = "done"
    /\ spc' = "flow"
    /\ UNCHANGED <<queueVars, prodVars, saved, emitVars, stopCtx, cancelled>>
StopSourcesTimeout ==
    /\ spc = "sources" /\ stopCtx = "done"
    /\ spc' = "err"
    /\ UNCHANGED <<queueVars, prodVars, saved, emitVars, stopCtx, cancelled>>

\* afterSourcesStopped returns once the flow lane has flushed and unbound;
\* then queue.close().
StopClose_NoQuiesce ==
    /\ spc = "flow"
    /\ close
    /\ spc' = "drain"
    /\ UNCHANGED <<prodVars, saved, emitVars, stopCtx, cancelled>>
StopClose ==
    /\ spc = "flow"
    /\ \A p \in FlowLogs : prod[p] = "idle"
    /\ prod' = [p \in Producers |-> IF p \in FlowLogs THEN "done" ELSE prod[p]]
    /\ close
    /\ spc' = "drain"
    /\ UNCHANGED <<offers, tooLarge, saved, emitVars, stopCtx, cancelled>>

\* The emitter exited: persistState, then sink.Shutdown, which may fail.
StopDrained ==
    /\ spc = "drain"
    /\ epc = "exit"
    /\ persistState
    /\ spc' \in {"ok", "err"}
    /\ UNCHANGED <<queueVars, prodVars, emitVars, stopCtx, cancelled>>

\* The drain ran out of time: the same, but stop reports an error.
StopDrainTimeout_ReportsClean ==
    /\ spc = "drain" /\ stopCtx = "done"
    /\ persistState
    /\ spc' = "ok"
    /\ UNCHANGED <<queueVars, prodVars, emitVars, stopCtx, cancelled>>
StopDrainTimeout ==
    /\ spc = "drain" /\ stopCtx = "done"
    /\ persistState
    /\ spc' = "err"
    /\ UNCHANGED <<queueVars, prodVars, emitVars, stopCtx, cancelled>>

StopCtxExpires ==
    /\ stopCtx = "live"
    /\ stopCtx' = "done"
    /\ UNCHANGED <<queueVars, prodVars, saved, emitVars, spc, cancelled>>

-----------------------------------------------------------------------------
EmitterStep == EmitterWait \/ EmitterDrain \/ EmitterExit \/ LoopTop \/ waitOrAbandon \/ EmitStart
StopStep == StopCancel \/ StopSourcesDone \/ StopSourcesTimeout \/ StopClose
            \/ StopDrained \/ StopDrainTimeout

Next ==
    \/ \E p \in Producers : Produce(p) \/ enqueue(p)
    \/ \E p \in Sources : SourceReturn(p)
    \/ StateFlush
    \/ EmitterStep \/ EmitReturn
    \/ Expire \/ BindToStop \/ AbortDelivery
    \/ StopBegin \/ StopStep \/ StopCtxExpires

\* Timers fire and runnable goroutines run.  An export is only assumed to
\* return once its context is done; a source is not assumed to return at all.
Fairness ==
    /\ WF_vars(EmitterStep)
    /\ WF_vars(ctxDone /\ EmitReturn)
    /\ WF_vars(Expire) /\ WF_vars(BindToStop) /\ WF_vars(AbortDelivery)
    /\ WF_vars(StopStep) /\ WF_vars(StopCtxExpires)
    /\ \A p \in SelfLogs \cup FlowLogs : WF_vars(enqueue(p))

Spec == Init /\ [][Next]_vars /\ Fairness

-----------------------------------------------------------------------------
ProducerTypes ==
    /\ prod \in [Producers -> {"idle", "holding", "done"}]
    /\ offers \in 0..MaxOffers
    /\ tooLarge \in Nat
    /\ saved \in BOOLEAN

EmitterTypes ==
    /\ epc \in {"drain", "top", "pace", "send", "emit", "backoff", "exit"}
    /\ pending \in Seq(1..admitted)
    /\ n \in 0..Len(pending)
    /\ epc = "emit" => n > 0
    /\ chunk \in 0..BatchMax
    /\ pace \in 0..PaceStart
    /\ attempt \in Nat
    /\ limited \in BOOLEAN /\ expired \in BOOLEAN /\ aborted \in BOOLEAN
    /\ bind \in {"run", "stop", "off"}
    /\ shipChunk \in 0..BatchMax
    /\ late \subseteq 1..admitted

StopTypes ==
    /\ spc \in {"idle", "unbind", "sources", "flow", "drain", "ok", "err"}
    /\ stopCtx \in {"none", "live", "done"}
    /\ cancelled \in BOOLEAN

TypeOK == QueueTypeOK /\ ProducerTypes /\ EmitterTypes /\ StopTypes

InHand == Elems(buf) \cup Elems(pending)
Lost == overflow \cup rejected \cup failed \cup permanent

\* Every record the queue ever admitted is in exactly one place: queued, in
\* the batch being shipped, counted shipped, or counted dropped under exactly
\* one reason (noteOverflow, noteAcked, noteRejected, abandonDelivery and the
\* attempt cap).  The shipped and dropped counters reconcile with admissions.
Ledger ==
    /\ InHand \cup shipped \cup Lost = 1..admitted
    /\ Elems(buf) \cap Elems(pending) = {}
    /\ InHand \cap (shipped \cup Lost) = {}
    /\ shipped \cap Lost = {}
    /\ overflow \cap (rejected \cup failed \cup permanent) = {}
    /\ rejected \cap (failed \cup permanent) = {}
    /\ failed \cap permanent = {}
    /\ \A i, j \in 1..Len(pending) : pending[i] = pending[j] => i = j

\* stop closes the queue only after every producer has finished (sources,
\* self-logger, then flow lane), so no push is ever swallowed silently by a
\* closed queue.
NoPushSwallowed == ignored = 0

\* Within one resource partition records reach the destination in the order
\* they were admitted, across partial failures, retries, splits and batches:
\* once a record is acknowledged no older one of its partition is still to go.
PartitionOrder ==
    \A r \in shipped, o \in InHand : ResKey(o) = ResKey(r) => o > r

\* The chunk size learnt from a rate limit never leaves a batch with nothing
\* to send (at least one record per chunk once it has started).
ChunkPositive ==
    epc \in {"top", "pace", "send", "emit", "backoff"} => chunk > 0 /\ pending # <<>>

\* Within a batch the chunk never grows, and a rate limit makes the next chunk
\* strictly smaller than the refused one until it is a single record.
ChunkShrinks ==
    [][bind # "off" /\ bind' # "off" =>
          /\ chunk' <= chunk
          /\ epc = "emit" /\ epc' = "top" /\ Len(pending') > Len(pending) - n
             => chunk' < n \/ n = 1]_vars

\* After stop cancelled the producers a record is put on the wire at most once
\* more: every chunk gets one attempt and any failure abandons the rest.
OneLateAttempt ==
    [][EmitStart /\ cancelled => {pending[i] : i \in 1..n'} \cap late = {}]_vars

\* The drop reason is honest: ship_failed is a shutdown, and
\* ship_failed_permanent an exhausted elapsed or attempt budget.
DropReasons ==
    [][/\ failed' # failed => cancelled
       /\ permanent' # permanent =>
             ~cancelled /\ (expired \/ (MaxAttempts > 0 /\ attempt + 1 >= MaxAttempts))]_vars

\* A nil error from stop means the queue is empty, the emitter has exited,
\* no producer is left and nothing is in flight.
CleanStop ==
    spc = "ok" => /\ epc = "exit" /\ closed /\ InHand = {}
                  /\ \A p \in Producers : prod[p] = "done"

\* stop returns, even when a source never does.
StopReturns == spc # "idle" ~> spc \in {"ok", "err"}

\* "The emitter goroutine still exits shortly after" a drain timeout: once the
\* queue is closed the emitter exits, whatever the endpoint does.
EmitterExits == closed ~> epc = "exit"

\* One batch never wedges the emitter: it is settled within its own deadline.
BatchEnds == epc = "top" ~> epc = "drain"

\* The pipeline keeps the promise of the delivery ledger.
Ledgered == INSTANCE DeliveryLedger WITH
    count <- admitted, held <- InHand, landed <- shipped, lost <- Lost, stopped <- (spc = "ok")

KeepsLedger == Ledgered!LedgerSpec
=============================================================================
