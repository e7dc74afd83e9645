------------------------------ MODULE OTLPSink ------------------------------
(***************************************************************************)
(* The OTLP log sink of internal/logship/sink_otlp.go.  Emit groups a      *)
(* batch by effective resource key, buffers each partition in its          *)
(* provider, leases an exporter to a worker that flushes it, classifies    *)
(* what the transport observed, and merges the partitions' results.        *)
(* Shutdown stops the providers and then closes the exporters; after a     *)
(* drain timeout it runs while the emitter may still be inside Emit.       *)
(*                                                                         *)
(* Records are numbered in batch order.  A provider is <<key, generation>> *)
(* because Shutdown empties the provider map and a later Emit builds anew. *)
(* LoggerProvider and Exporter are the pinned OpenTelemetry SDK's.         *)
(***************************************************************************)
EXTENDS Integers, FiniteSets

CONSTANTS Records,         \* records to ship, natural numbers
          KeyOf(_),        \* the resource key of a record, a positive natural
          Concurrency,     \* --logs.ship-concurrency
          MaxLogResources, \* maxLogResources
          MaxEmits,        \* bound: calls of Emit
          BuildMayFail,    \* resource.New may fail
          DrainMayTimeOut  \* stop may reach sink.Shutdown on a drain timeout

BaseKey == 0
Keys == {BaseKey} \cup {KeyOf(r) : r \in Records}
Providers == Keys \X {0, 1}
Exporters == 0..(IF Concurrency < 1 THEN 0 ELSE Concurrency - 1)
NoExporter == -1
Outcomes == {"unknown", "accepted", "partial", "permanent", "retryable", "rateLimited"}

ASSUME SinkConstants ==
    /\ Records \subseteq Nat /\ IsFiniteSet(Records)
    /\ \A r \in Records : KeyOf(r) \in Nat \ {0}
    /\ Concurrency \in Int /\ MaxLogResources \in Nat \ {0} /\ MaxEmits \in Nat
    /\ BuildMayFail \in BOOLEAN /\ DrainMayTimeOut \in BOOLEAN

VARIABLES
    providers,  \* the keys of s.providers
    gen,        \* its generation: 1 once Shutdown has emptied it
    buf,        \* per provider: records in its syncBatchProcessor
    stopped,    \* providers whose Shutdown began
    closed,     \* exporters shut down
    epc,        \* where the emitter is: "idle", "group", "buffer", "token", "wait", "exit"
    open,       \* records neither acknowledged nor rejected yet
    batch,      \* the batch of the current Emit
    grouped,    \* its records already assigned to a partition
    unbuilt,    \* its records whose resource could not be built
    parts, rl,  \* per effective key: the partition's records and its provider
    todo,       \* effective keys not yet handed to a worker
    tokens,     \* free exporters of the pool
    st,         \* per key: the worker's progress: "none", "lease", "wire", "back", "done"
    lease,      \* per key: the exporter leased to its worker
    sent,       \* per key: the records its export carries
    obs, nrej,  \* per key: the deliveryObservation
    err,        \* per key: ForceFlush returned an error
    results,    \* per key: the partition's SinkResult
    last,       \* the SinkResult Emit returned last, with its batch
    emits,      \* calls of Emit so far
    acked,      \* history: records ever returned in Acked
    confirmed,  \* history: records the destination accepted
    blurred,    \* history: records of which it only said how many it refused
    mode,       \* "run", or Shutdown began after a "clean" drain or a "timeout"
    left        \* providers Shutdown has still to stop

provVars == <<providers, gen, buf, stopped, closed>>
emitVars == <<epc, open, batch, grouped, unbuilt, parts, rl, todo, tokens, last, emits, acked>>
flushVars == <<st, lease, sent, obs, nrej, err, results, confirmed, blurred>>
shutVars == <<mode, left>>
vars == <<provVars, emitVars, flushVars, shutVars>>

EmptyResult == [acked |-> {}, rejected |-> {}, retry |-> {}, limited |-> FALSE]
Least(S) == CHOOSE x \in S : \A y \in S : x <= y
\* The n largest of S, or all of it.
LastOf(S, n) == {x \in S : Cardinality({y \in S : y > x}) < n}

Init ==
    /\ providers = {} /\ gen = 0 /\ stopped = {} /\ closed = {}
    /\ buf = [p \in Providers |-> {}]
    /\ epc = "idle" /\ open = Records /\ emits = 0 /\ acked = {}
    /\ confirmed = {} /\ blurred = {}
    /\ batch = {} /\ grouped = {} /\ unbuilt = {} /\ todo = {} /\ tokens = {}
    /\ parts = [k \in Keys |-> {}]
    /\ rl = [k \in Keys |-> <<k, 0>>]
    /\ st = [k \in Keys |-> "none"]
    /\ lease = [k \in Keys |-> NoExporter]
    /\ sent = [k \in Keys |-> {}]
    /\ obs = [k \in Keys |-> "unknown"]
    /\ nrej = [k \in Keys |-> 0]
    /\ err = [k \in Keys |-> FALSE]
    /\ results = [k \in Keys |-> EmptyResult]
    /\ last = [batch |-> {}, unbuilt |-> {}, res |-> EmptyResult]
    /\ mode = "run" /\ left = {}

-----------------------------------------------------------------------------
(* Emit                                                                    *)

\* The pipeline hands over a batch of records it still owes.
EmitCall ==
    /\ epc = "idle" /\ emits < MaxEmits
    /\ \E b \in SUBSET open : b # {} /\ batch' = b
    /\ epc' = "group"
    /\ emits' = emits + 1
    /\ UNCHANGED <<provVars, open, grouped, unbuilt, parts, rl, todo, tokens, last, acked,
                   flushVars, shutVars>>

\* loggerFor: the key a record ships under.  At the cap a new key collapses
\* onto the base resource.
effectiveKey(r) ==
    IF KeyOf(r) \in providers \/ Cardinality(providers) + 1 < MaxLogResources
    THEN KeyOf(r) ELSE BaseKey

\* The partition an entry joins: that of its effective key.
partitionKey_Requested(r) == KeyOf(r)
partitionKey(r) == effectiveKey(r)

\* Emit groups one entry; a resource that cannot be built sends it to Retry.
loggerFor ==
    /\ epc = "group" /\ batch # grouped
    /\ LET r == Least(batch \ grouped)
           k == effectiveKey(r)
           g == partitionKey(r)
       IN  /\ grouped' = grouped \cup {r}
           /\ \/ /\ BuildMayFail /\ k \notin providers
                 /\ unbuilt' = unbuilt \cup {r}
                 /\ UNCHANGED <<providers, parts, rl>>
              \/ /\ providers' = providers \cup {k}
                 /\ parts' = [parts EXCEPT ![g] = @ \cup {r}]
                 /\ rl' = IF parts[g] = {} THEN [rl EXCEPT ![g] = <<k, gen>>] ELSE rl
                 /\ UNCHANGED unbuilt
    /\ UNCHANGED <<gen, buf, stopped, closed, epc, open, batch, todo, tokens, last, emits,
                   acked, flushVars, shutVars>>

\* The size of the worker pool for ks partitions.
poolSize(ks) ==
    LET c == IF Concurrency < 1 THEN 1 ELSE Concurrency
    IN  IF c > ks THEN ks ELSE c

\* All entries are grouped: fill the token channel.
StartPool ==
    /\ epc = "group" /\ batch = grouped
    /\ todo' = {k \in Keys : parts[k] # {}}
    /\ tokens' = 0..(poolSize(Cardinality(todo')) - 1)
    /\ epc' = IF todo' = {} THEN "wait" ELSE "buffer"
    /\ UNCHANGED <<provVars, open, batch, grouped, unbuilt, parts, rl, last, emits, acked,
                   flushVars, shutVars>>

\* logger.Emit for every entry of the next partition, in key order; a stopped
\* provider ignores it.
BufferPartition ==
    /\ epc = "buffer"
    /\ LET k == Least(todo)
       IN  buf' = IF rl[k] \in stopped THEN buf
                  ELSE [buf EXCEPT ![rl[k]] = @ \cup parts[k]]
    /\ epc' = "token"
    /\ UNCHANGED <<providers, gen, stopped, closed, open, batch, grouped, unbuilt, parts, rl,
                   todo, tokens, last, emits, acked, flushVars, shutVars>>

\* A token is free: the partition goes to a worker with that exporter.
Dispatch_NoEnd ==
    /\ epc = "token"
    /\ LET k == Least(todo)
       IN  /\ \E x \in tokens :
                 /\ tokens' = tokens \ {x}
                 /\ lease' = [lease EXCEPT ![k] = x]
           /\ st' = [st EXCEPT ![k] = "lease"]
           /\ todo' = todo \ {k}
    /\ epc' = "buffer"
    /\ UNCHANGED <<provVars, open, batch, grouped, unbuilt, parts, rl, last, emits, acked,
                   sent, obs, nrej, err, results, confirmed, blurred, shutVars>>
Dispatch ==
    /\ epc = "token"
    /\ LET k == Least(todo)
       IN  /\ \E x \in tokens :
                 /\ tokens' = tokens \ {x}
                 /\ lease' = [lease EXCEPT ![k] = x]
           /\ st' = [st EXCEPT ![k] = "lease"]
           /\ todo' = todo \ {k}
    /\ epc' = IF todo' = {} THEN "wait" ELSE "buffer"
    /\ UNCHANGED <<provVars, open, batch, grouped, unbuilt, parts, rl, last, emits, acked,
                   sent, obs, nrej, err, results, confirmed, blurred, shutVars>>

-----------------------------------------------------------------------------
(* The workers                                                             *)

\* ForceFlush of the partition's provider: nothing on a stopped provider;
\* otherwise syncBatchProcessor.export takes the whole buffer to the leased
\* exporter, which refuses once it is shut down.
ForceFlush(k) ==
    /\ st[k] = "lease"
    /\ LET p == rl[k]
           b == IF p \in stopped THEN {} ELSE buf[p]
       IN  /\ buf' = IF p \in stopped THEN buf ELSE [buf EXCEPT ![p] = {}]
           /\ sent' = [sent EXCEPT ![k] = b]
           /\ err' = [err EXCEPT ![k] = b # {} /\ lease[k] \in closed]
           /\ st' = [st EXCEPT ![k] = IF b = {} \/ lease[k] \in closed THEN "back" ELSE "wire"]
    /\ UNCHANGED <<providers, gen, stopped, closed, emitVars, lease, obs, nrej, results,
                   confirmed, blurred, shutVars>>

\* observingTransport.RoundTrip and observingUnaryInterceptor record an answer;
\* the last one recorded stands.
record(k, o, n) ==
    /\ obs' = [obs EXCEPT ![k] = o]
    /\ nrej' = [nrej EXCEPT ![k] = n]

\* A transient answer, or none: the SDK tries the same request again.
RoundTripAgain(k) ==
    /\ st[k] = "wire"
    /\ \E o \in {"retryable", "rateLimited"} : record(k, o, 0)
    /\ UNCHANGED <<provVars, emitVars, st, lease, sent, err, results, confirmed, blurred, shutVars>>

\* The records the destination refuses: with a partial success any n of those
\* sent, since the answer says how many and never which; a server may claim more
\* rejections than the request had records.
RefusalsOf(S, n) ==
    IF n >= Cardinality(S) THEN {S} ELSE {R \in SUBSET S : Cardinality(R) = n}

\* The answer the export ends with.  "unknown": the SDK refused to send.
RoundTrip(k) ==
    /\ st[k] = "wire"
    /\ \E o \in Outcomes, n \in 0..(Cardinality(sent[k]) + 1) :
          /\ o # "partial" => n = 0
          /\ IF o = "unknown" THEN UNCHANGED <<obs, nrej>> ELSE record(k, o, n)
          /\ err' = [err EXCEPT ![k] = o # "accepted"]
          /\ IF o \in {"accepted", "partial"}
             THEN \E refused \in RefusalsOf(sent[k], n) :
                    confirmed' = confirmed \cup (sent[k] \ refused)
             ELSE UNCHANGED confirmed
          /\ blurred' = IF o = "partial" THEN blurred \cup sent[k] ELSE blurred
    /\ st' = [st EXCEPT ![k] = "back"]
    /\ UNCHANGED <<provVars, emitVars, lease, sent, results, shutVars>>

\* classifyPartition, from the observation; the error only matters when
\* nothing was observed.
classifyPartition_PartialRetried(k) ==
    CASE obs[k] = "permanent"   -> [EmptyResult EXCEPT !.rejected = parts[k]]
      [] obs[k] = "rateLimited" -> [EmptyResult EXCEPT !.retry = parts[k], !.limited = TRUE]
      [] obs[k] = "accepted" \/ (obs[k] = "unknown" /\ ~err[k])
                                -> [EmptyResult EXCEPT !.acked = parts[k]]
      [] OTHER                  -> [EmptyResult EXCEPT !.retry = parts[k]]
classifyPartition_ErrIgnored(k) ==
    IF obs[k] = "unknown" THEN [EmptyResult EXCEPT !.acked = parts[k]]
    ELSE classifyPartition_PartialRetried(k)
classifyPartition_FromHead(k) ==
    IF obs[k] = "partial"
    THEN [EmptyResult EXCEPT !.rejected = parts[k] \ LastOf(parts[k], Cardinality(parts[k]) - nrej[k]),
                             !.acked = LastOf(parts[k], Cardinality(parts[k]) - nrej[k])]
    ELSE classifyPartition_PartialRetried(k)
classifyPartition(k) ==
    CASE obs[k] = "partial"     -> [EmptyResult EXCEPT !.acked = parts[k] \ LastOf(parts[k], nrej[k]),
                                                       !.rejected = LastOf(parts[k], nrej[k])]
      [] obs[k] = "permanent"   -> [EmptyResult EXCEPT !.rejected = parts[k]]
      [] obs[k] = "rateLimited" -> [EmptyResult EXCEPT !.retry = parts[k], !.limited = TRUE]
      [] obs[k] = "accepted" \/ (obs[k] = "unknown" /\ ~err[k])
                                -> [EmptyResult EXCEPT !.acked = parts[k]]
      [] OTHER                  -> [EmptyResult EXCEPT !.retry = parts[k]]

\* The worker classifies its partition, and its deferred send returns the token.
WorkerDone_KeepsToken(k) ==
    /\ st[k] = "back"
    /\ results' = [results EXCEPT ![k] = classifyPartition(k)]
    /\ tokens' = IF err[k] THEN tokens ELSE tokens \cup {lease[k]}
    /\ lease' = [lease EXCEPT ![k] = NoExporter]
    /\ st' = [st EXCEPT ![k] = "done"]
    /\ UNCHANGED <<provVars, epc, open, batch, grouped, unbuilt, parts, rl, todo, last, emits,
                   acked, sent, obs, nrej, err, confirmed, blurred, shutVars>>
WorkerDone(k) ==
    /\ st[k] = "back"
    /\ results' = [results EXCEPT ![k] = classifyPartition(k)]
    /\ tokens' = tokens \cup {lease[k]}
    /\ lease' = [lease EXCEPT ![k] = NoExporter]
    /\ st' = [st EXCEPT ![k] = "done"]
    /\ UNCHANGED <<provVars, epc, open, batch, grouped, unbuilt, parts, rl, todo, last, emits,
                   acked, sent, obs, nrej, err, confirmed, blurred, shutVars>>

Merged(f) == UNION {results[k][f] : k \in Keys}
\* Entries whose resource could not be built come back to be retried.
mergedRetry_BuiltOnly == Merged("retry")
mergedRetry == unbuilt \cup Merged("retry")

\* wg.Wait is over: Emit merges the results and returns; its locals die.
EmitReturn ==
    /\ epc = "wait"
    /\ \A k \in Keys : parts[k] # {} => st[k] = "done"
    /\ last' = [batch |-> batch, unbuilt |-> unbuilt,
                res |-> [acked |-> Merged("acked"), rejected |-> Merged("rejected"),
                         retry |-> mergedRetry,
                         limited |-> \E k \in Keys : results[k].limited]]
    /\ open' = open \ (last'.res.acked \cup last'.res.rejected)
    /\ acked' = acked \cup last'.res.acked
    /\ epc' = "idle"
    /\ batch' = {} /\ grouped' = {} /\ unbuilt' = {} /\ todo' = {} /\ tokens' = {}
    /\ parts' = [k \in Keys |-> {}]
    /\ st' = [k \in Keys |-> "none"]
    /\ sent' = [k \in Keys |-> {}]
    /\ obs' = [k \in Keys |-> "unknown"]
    /\ nrej' = [k \in Keys |-> 0]
    /\ err' = [k \in Keys |-> FALSE]
    /\ results' = [k \in Keys |-> EmptyResult]
    /\ UNCHANGED <<provVars, rl, emits, lease, confirmed, blurred, shutVars>>

-----------------------------------------------------------------------------
(* Shutdown                                                                *)

\* stop reaches sink.Shutdown, after the emitter exited or because the drain
\* timed out; Shutdown takes the provider map.
StopModes == IF DrainMayTimeOut THEN {"clean", "timeout"} ELSE {"clean"}
ShutdownBegin ==
    /\ mode = "run"
    /\ mode' \in StopModes
    /\ mode' = "clean" => epc = "idle"
    /\ epc' = IF mode' = "clean" THEN "exit" ELSE epc
    /\ left' = {<<k, gen>> : k \in providers}
    /\ providers' = {} /\ gen' = 1
    /\ UNCHANGED <<buf, stopped, closed, open, batch, grouped, unbuilt, parts, rl, todo,
                   tokens, last, emits, acked, flushVars>>

\* provider.Shutdown: once stopped it ignores Emit and ForceFlush.  With the
\* context already done it returns there; otherwise the processor's Shutdown
\* ships what is still buffered.
ShutdownProvider(p) ==
    /\ p \in left
    /\ stopped' = stopped \cup {p}
    /\ left' = left \ {p}
    /\ buf' = IF mode = "timeout" THEN buf ELSE [buf EXCEPT ![p] = {}]
    /\ UNCHANGED <<providers, gen, closed, emitVars, flushVars, mode>>

\* The exporters are closed after every provider.
ShutdownExporter(x) ==
    /\ mode # "run" /\ left = {} /\ x \notin closed
    /\ closed' = closed \cup {x}
    /\ UNCHANGED <<providers, gen, buf, stopped, emitVars, flushVars, shutVars>>

-----------------------------------------------------------------------------
Emitter == EmitCall \/ loggerFor \/ StartPool \/ BufferPartition \/ Dispatch \/ EmitReturn
Worker(k) == ForceFlush(k) \/ RoundTrip(k) \/ WorkerDone(k)
Shutdown == \/ ShutdownBegin
            \/ \E p \in Providers : ShutdownProvider(p)
            \/ \E x \in Exporters : ShutdownExporter(x)

Next ==
    \/ Emitter
    \/ \E k \in Keys : Worker(k) \/ RoundTripAgain(k)
    \/ Shutdown

Spec == Init /\ [][Next]_vars

-----------------------------------------------------------------------------
TypeOK ==
    /\ providers \subseteq Keys /\ gen \in {0, 1}
    /\ buf \in [Providers -> SUBSET Records]
    /\ stopped \subseteq Providers /\ left \subseteq Providers /\ closed \subseteq Exporters
    /\ epc \in {"idle", "group", "buffer", "token", "wait", "exit"}
    /\ open \subseteq Records /\ batch \subseteq open /\ grouped \subseteq batch
    /\ unbuilt \subseteq grouped
    /\ parts \in [Keys -> SUBSET Records] /\ rl \in [Keys -> Providers]
    /\ todo \subseteq Keys /\ tokens \subseteq Exporters
    /\ epc \in {"buffer", "token"} => todo # {}
    /\ st \in [Keys -> {"none", "lease", "wire", "back", "done"}]
    /\ lease \in [Keys -> Exporters \cup {NoExporter}]
    /\ sent \in [Keys -> SUBSET Records]
    /\ obs \in [Keys -> Outcomes] /\ nrej \in [Keys -> Nat] /\ err \in [Keys -> BOOLEAN]
    /\ emits \in 0..MaxEmits
    /\ acked \subseteq Records /\ confirmed \subseteq Records /\ blurred \subseteq Records
    /\ mode \in {"run", "clean", "timeout"}

\* "The three entry lists PARTITION the batch handed to Emit": whatever the
\* partitions' fates, every entry comes back in exactly one list.
ResultPartitions ==
    LET r == last.res
    IN  /\ r.acked \cup r.rejected \cup r.retry = last.batch
        /\ r.acked \cap r.rejected = {}
        /\ r.retry \cap (r.acked \cup r.rejected) = {}

\* Acked are the entries the destination confirmed it accepted.  After a partial
\* success only their number is known: whichever records the destination kept,
\* no more are ever returned as Acked than it accepted, and exactly as many once
\* Emit has returned, so the shipped and rejected counters are exact.
AckedConfirmed ==
    /\ acked \ blurred \subseteq confirmed
    /\ Cardinality(acked) <= Cardinality(confirmed)
    /\ epc = "idle" => Cardinality(acked) = Cardinality(confirmed)

\* The answer LogPipeline assumes: a resource is retried whole, or settled
\* with the accepted records ahead of the rejected ones; only an entry whose
\* resource could not be built is retried on its own.
ResultShape ==
    \A i, j \in last.batch \ last.unbuilt : KeyOf(i) = KeyOf(j) =>
        /\ i \in last.res.retry => j \in last.res.retry
        /\ i < j /\ j \in last.res.acked => i \in last.res.acked

\* What the destination accepted is never put on the wire again, even when a
\* sibling partition of the same batch has to be retried (#392).
NoResend ==
    [][\A k \in Keys : st[k] # "wire" /\ st'[k] = "wire" => sent'[k] \cap confirmed = {}]_vars

\* "No two of them share an exporter", which is not re-entrant; and no exporter
\* of the pool is ever lost, whatever an export came to, so Emit can always
\* hand the next partition to a worker.
PoolConserved ==
    LET busy == {k \in Keys : st[k] \in {"lease", "wire", "back"}}
    IN  /\ \A k \in busy : lease[k] \notin tokens /\ \A l \in busy : lease[k] = lease[l] => k = l
        /\ epc \in {"buffer", "token", "wait"} =>
             tokens \cup {lease[k] : k \in busy} =
               0..(poolSize(Cardinality({k \in Keys : parts[k] # {}})) - 1)

\* An export carries exactly its own partition: one provider is never flushed
\* for two partitions, and nothing is left over from an earlier batch.
ExportIsPartition ==
    \A k \in Keys : st[k] = "wire" => sent[k] = parts[k]
=============================================================================
