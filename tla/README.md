# TLA+ verification of opnsense2otel

opnsense2otel polls an OPNsense firewall's API, exports the results as metrics,
receives the firewall's logs and NetFlow, and ships them as OTLP logs. This
directory holds TLA+ models of the parts of it where goroutines meet, TLC
configurations that check them on small instances, and TLAPS proofs of their
main properties for every instance. Paths below are relative to the repository.

- [The system](#the-system)
- [What is modelled](#what-is-modelled)
- [The runs](#the-runs)
- [Fairness](#fairness)
- [The proofs](#the-proofs)
- [Where code and comments disagree](#where-code-and-comments-disagree)
- [Not modelled](#not-modelled)
- [Plan](#plan)

## The system

```
 OPNsense API ──poll──> collectors ──> snapshot store ──> /metrics, OTLP metrics
                          ^   |              |
              admission, circuit      status tracker ──> operator console
                                                              
 API log sources ──poll──┐
 syslog, Zenarmor ─push──┤
 own slog records ───────┼─> bounded queue ─> emitter ─> OTLP sink ─> collector
 flow-log bridge ────────┘         (shipBatch: retry, split, pace)
        ^
 NetFlow ─> decoders ─> repair / hold ─> correlator <─ Zenarmor conn documents
                               └──────> rollup ─> flow metrics
```

| part | source | what is concurrent in it |
|---|---|---|
| bounded log queue | `internal/logship/queue.go` | producers and one emitter on a mutex and a condition variable |
| log pipeline | `internal/logship/pipeline.go`, `push.go`, `selflog.go` | pollers, receivers, own logger, flow lane, emitter, state flusher, `stop` |
| OTLP sink | `internal/logship/sink_otlp.go` | a worker per resource partition, `Shutdown` |
| poll scheduler, snapshot store, status tracker | `internal/collector/scheduler.go`, `snapshot.go`, `status_tracker.go` | a goroutine per collector, the health goroutine, `StopPolling` |
| poll deadline | `internal/collector/scheduler.go` | a ticker against the poll it drives |
| flow correlator and bridge | `internal/flow/correlate.go`, `internal/logship/flowlog/flowlog.go`, `main.go` | decoders, handlers, expiry ticker, shutdown owner |
| flow rollup | `internal/flow/rollup.go` | decoders and scrapes |

`main.go` stops the HTTP server, then polling, the CPU stream, the log pipeline
(which stops the flow lane on its way, through `AfterSourcesStopped`), and the
telemetry providers. `PROJECT.json` lists every part of the repository, the ones
that have no model included, the lines each definition stands for, and the
hazards each property is meant to catch.

## What is modelled

| module | models | granularity |
|---|---|---|
| `DropOldestQueue` | what the queue promises, without record sizes | one step per critical section of `q.mu` |
| `LogQueue` | the queue with sizes, both caps and the byte-capped drain; refines `DropOldestQueue` | the same |
| `LogPipeline` | producers, emitter, `shipBatch`, `stop`; uses `DropOldestQueue` as its queue | between two blocking points of a goroutine |
| `DeliveryLedger` | what the pipeline promises about each admitted record; refined by `LogPipeline` | abstract |
| `OTLPSink` | `Emit`, its workers, `classifyPartition`, `Shutdown` | one step per critical section, flush or answer |
| `PollScheduler` | pollers, admission, circuit, store, tracker, stop | one step per channel operation or critical section |
| `PollDeadline` | ticker, anchor, `advanceDeadline`, publication | one step per statement that reads the clock or writes |
| `FlowCorrelator` | entries, eviction, expiry, orientation, bridge, shutdown | one step per critical section, one per emitted record |
| `FlowRollup` | `Observe`, `SetBounds`, `Snapshot` | one step per method, each under `r.mu` |

**Log queue and pipeline.** Records are numbered in admission order, so `buf` and
`pending` are sequences of numbers and "shipped", "rejected", "failed",
"permanent" and "overflow" are sets of them: the counters of the code become
sets, which makes double counting visible. The emitter's `epc` follows
`shipBatch`: `top` (deadline check), `pace`, `send`, `emit`, `backoff`. Time is
abstract: the batch's deadline, the stop caller's deadline and the ends of waits
are steps. `bind` is the state of `bindDeliveryToShutdown`, whose two
`context.AfterFunc`s are the actions `BindToStop` and `AbortDelivery`. The sink's
answer is any that `SinkVerdict` and `RetryOrder` allow; `OTLPSink` has
`ResultPartitions` and `ResultShape` to show that the real sink answers so.
`ChunkFailed` takes the look at the contexts and the attempt cap below it as one
step, although a stop can fall between them: neither branch looks again, so it has
the outcome of a stop that comes just after. The
one difference is a record whose resource cannot be built, which the sink hands
back on its own: `resource.New` over plain attributes does not fail in practice,
so `LogPipeline` assumes built records.

**OTLP sink.** A partition is a set of record numbers. A provider is a key with a
generation, because `Shutdown` empties the provider map and a late `Emit` builds
new ones. `RoundTrip` lets the destination answer anything, a claim of more
rejections than records included, and `RoundTripAgain` the SDK's own retries. A
partial success refuses **any** subset of the records of the size it reports
(`RefusalsOf`), while `classifyPartition` puts the tail of the partition in
`Rejected`: OTLP says how many were refused and never which, and the caveat on
`SinkResult.Rejected` in `sink.go` says that its members are arbitrary.
`AckedConfirmed` is stated accordingly. A record whose answer was not a partial
success is in `Acked` only if the destination accepted that very record; over all
records, `Acked` never has more than were accepted, and exactly as many when
`Emit` has returned. That a given record of a partial success was accepted is
neither claimed nor true. A
provider that was shut down ignores `Emit` and `ForceFlush`, and returns from
`Shutdown` without flushing when its context is already done: both as in the
pinned SDK.

**Poll scheduler.** The buffered channels `pollSem` and `general` are the sets of
collectors whose token they hold. Clock readings are poll numbers and a metric
buffer is the number of the poll that emitted it, so "newest" and "dated by" are
exact. A poll's result is a pair: did `Update` succeed, did it emit anything. The
second look at the circuit (`RecheckCircuit`) and the start of the request
(`StartUpdate`) are two steps, because the health goroutine may open the circuit
between them: `pollCollector` says "A tiny race remains between this check and the
request itself". So doomed dials do happen. `NoNewDials` says how far that goes:
while the circuit stays open nobody new passes the second look, and the pollers
past it when it opened are at most as many as there are slots.

**Poll deadline.** Integer time that may pass between any two steps; the ticker
has its one-slot channel and drops fires that find it full. Time may also pass
between `NewTicker` and `time.Now()`, and `lag` records how much. The deadlines
then lie that much off the ticker's cadence for the poller's life
(`DeadlineTracksTicker`); only with no lag is the deadline the ticker's next fire
(`DeadlineIsNextFire`).

**Flow.** A fragment's volume is the fragment itself, so an accumulator is the set
of fragments summed into it and "counted once" is set disjointness. The rollup
keeps numbers, since its point is arithmetic with watermarks.

## The runs

`tlc -config <cfg> <module>` in this directory. All finish within a minute or two.

| run | module, config | asks | bounds |
|---|---|---|---|
| `log_queue` | `MCLogQueue` | do both caps, the byte total, admission order and the promise hold, and does the emitter always drain and exit after `close`? | 5 pushes of sizes 1, 2 and 5 (more than the whole budget), cap 3, budget 4, batches of 2 |
| `ship_batch` | `MCLogPipeline`, `MCShipBatch` | does every record end in one place under an honest reason, in partition order, and with one attempt after stop? | one receiver, 4 records of two partitions in batches of up to 4, 3 attempts, floor 2: splits to 2 and 1 and a batch with tail, retry and rejection all occur |
| `pipeline_stop` | `MCLogPipeline`, `MCLogPipeline` | can any producer reach the closed queue, what does a nil error mean, and does everything end? | one producer of each kind, 2 records, no attempt cap |
| `sink` | `MCOTLPSink`, `MCSink` | is the verdict a partition in the shape the pipeline needs, is acknowledged confirmed (after a partial success, in number), are exporters conserved? | 4 records, 3 keys of which two collapse under a cap of 2, 2 workers, 2 calls |
| `poll` | `MCPollScheduler`, `MCPoll` | tokens, reservation, circuit, store and tracker | two general collectors on 2 slots (one reserved), 2 polls each, every result |
| `poll_live` | `MCPollScheduler`, `MCPollLive` | does `StopPolling` return and readiness come? | two general collectors at the gate of one free slot, 2 polls each |
| `poll_deadline` | `MCPollDeadline` | does the deadline keep the ticker's cadence up to the anchor's lag, in both copies? | interval 3, 13 instants, any lag: a poll can overrun two fires |
| `flow_log` | `MCFlowCorrelator`, `MCFlow` | is every fragment reported once and in its direction, and does shutdown leave nothing? | 4 fragments and 2 documents of 3 conversations, 2 entries, budget 1, 5 goroutines |
| `flow_rollup` | `MCFlowRollup` | does a scrape sum to what was observed and does no series fall? | 4 records over 4 combinations of 2 sources, three settings of the bounds |
| `sink_late_stop`, `deadline_lag`, `flow_orientation` | | [disagreements](#where-code-and-comments-disagree): TLC finds a violation | |

The bounds are the smallest at which each action fires and each property's
counterexample under its mutant appears: two collectors suffice for a leaked
token, three fragments for a half with two of them, five pushes for an eviction
after a drain. Deadlock checking is off where the bound on records, polls or time
ends the behaviour or the system may stop; it stays on for the flow lane, which
ends in `Done`, and for the rollup.

What the properties say is in the comment above each definition. Those that carry
most weight: `Ledger` and `PartitionOrder` (nothing lost, doubled or reordered by
`shipBatch`), `NoPushSwallowed` (the shutdown order), `AckedConfirmed` and
`NoResend` (the sink), `SlotsAccounted` and `NoNewDials` (admission and
circuit), `SnapshotIsNewestData` (last-good retention), `DeadlineTracksTicker`,
`FragmentsOnce`, `SnapshotExact`.

## Fairness

- `LogQueue`, `LogPipeline`: weak fairness of the emitter, of the timers and of
  `stop` (a runnable goroutine runs, a timer fires). An export is fair only once
  its context is done, since the HTTP client honours the context and nothing else
  bounds an endpoint. Sources are **not** fair: `StopReturns` holds although a
  source never returns. The self-logger and the flow lane are assumed to finish
  the enqueue they are in, which never blocks. That `afterSourcesStopped` returns
  follows from it in the model; in the code it has no deadline of its own.
- `PollScheduler`: weak fairness of each goroutine's own steps, a poll ending
  included (`pollTimeout` bounds it). Strong fairness of the channel sends,
  because Go serves blocked senders in arrival order, and of the cancellation
  case of each `select`, because `select` picks among ready cases at random.
  `BecomesWarm` excuses a box that keeps becoming unreachable.

## The proofs

Theorems hold for every value of the constants that the named `ASSUME` of the
module allows (positive capacities, disjoint kinds of producers and the like).

| module | theorems | argument |
|---|---|---|
| `DropOldestQueueProofs` | `QueueKeepsNewest`, `QueueOverflowIsGone`, `QueueNeverSleepsOnWork` | `QueueInv`: `buf` is the run of numbers that ends at `admitted`, overflow lies below it, and the emitter sleeps only on an empty open queue |
| `LogPipelineProofs` | `PipelineKeepsNewest`, `PipelineNoPushSwallowed`, `PipelineCleanStop`, `PipelineChunkPositive`, `PipelineLedger` | every pipeline step is a queue step, so `QueueInv` carries over; `StopInv` says which producers are done at each stage of `stop`; `ShapeInv` bounds chunk and batch; `BookInv` splits the admitted numbers among queue, batch and outcomes |
| `LogPipelineOrderProofs` | `PipelinePartitionOrder` | `OrderInv`: within a partition `pending` ascends and lies above what was shipped; the queue lies above the batch |
| `LogPipelineStepProofs` | `PipelineTypeOK`, `PipelineOneLateAttempt`, `PipelineDropReasons`, `PipelineChunkShrinks`, `PipelineKeepsLedger` | `LateInv`: what was sent after the cancellation is no longer in the untried part; the refinement of `DeliveryLedger` maps each step to `Admit`, `Settle`, `StopClean` or a stutter |
| `PollSchedulerProofs` | `PollTypeOK`, `PollSlotsAccounted`, `PollFastSlotReserved`, `PollNoNewDials`, `PollTrackerMirrorsStore` | `SlotInv`: each token set is the set of goroutines at the locations that hold one, and its size is within its capacity, so at most `PollCap` pollers are past the second look; `MirrorInv` relates tracker and store per location |
| `PollDeadlineProofs` | `DeadlineFollowsTicker`, `DeadlineExactWithoutLag`, `DeadlineCopiesAgree` | `CadenceInv`: before the anchor is read, the fire ahead is a whole number of intervals after the ticker's start; after it, `next` lies the lag, modulo the interval, off that cadence. `AdvanceSteps` bounds what `advanceDeadline` returns. No assumption on the lag |
| `FlowCorrelatorProofs` | `FlowStopLeavesNothing`, `FlowVolumeByDirection` | `DrainInv`: which goroutines still owe records at each stage of shutdown; `DirectionInv`: each entry keeps its sample's half apart from the mirror's |

The properties alone are not inductive. `NoPushSwallowed`, for one, needs to know
at each stage of `stop` which producers can still hold a record, and `Ledger`
that the queue is a contiguous run of numbers, so that a new number is in no set.

Only model-checked: all liveness properties (TLAPS does not handle fairness);
`LogQueue`'s byte arithmetic and its refinement, and the rollup (sums over
sequences and sets need induction over data); `OTLPSink`; `FragmentsOnce` and
`SnapshotIsNewestData`.

## Where code and comments disagree

Three are runs that TLC refutes (the comment is quoted in `PROJECT.json`):

- `sink_late_stop`: after a drain timeout `stop` shuts the sink down under a
  running `Emit`. The stopped provider's flush returns no error and no outcome is
  observed, so the partition is returned in `Acked` and counted as shipped though
  no request was made; `sink.go` says `Acked` is what the destination confirmed.
- `deadline_lag`: when the goroutine is descheduled between `NewTicker` and
  `time.Now()`, a tick received within that lag of its fire finds the deadline
  still ahead, `advanceDeadline` does not step, and what is published is the fire
  just consumed plus the lag: with interval 3 and a lag of 2, the tick of instant 3
  publishes 5 while the ticker fires next at 6. The property is about consumed
  ticks only, at the moment their deadline is computed.
- `flow_orientation`: rule 2 of `orientation` compares the starts of the
  first-arrived fragment of each half, so arrival order still decides when a half
  has several fragments; the comment says it is independent of it.

Noticed while reading, without a run:

- `stop` waits for the sources only until its context is done
  (`internal/logship/pipeline.go:809-814`), and `StopReturns` holds although a
  source never returns. Four comments still describe an unbounded wait:
  `internal/logship/push.go:15-17` and `internal/logship/zenarmor/source.go:429-431`
  ("hangs the exporter forever"), `internal/logship/zenarmor/source_test.go:27-28`,
  and `internal/logship/syslog/listener.go:423-426` (`pollerWG.Wait()` "has no
  timeout" and "blocks forever"). What such a source costs is the drain: `stop`
  returns an error and leaves queue and sink open.
- The race between the second look at the circuit and the request, above, is the
  one `pollCollector` documents; the comment on `pollCollector` itself, which
  promises to skip "rather than adding to a burst of doomed dials", holds for the
  pollers that had not passed that look.
- `docs/architecture.md:223` says a failed poll's previous snapshot entry "is
  replaced with the (empty or partial) result"; `snapshotStore.put` keeps the old
  data after a failure that emitted nothing (`SnapshotIsNewestData`).
- `pollHealth` says "an unreachable box must not hold the warm-up signal open". It
  does when the box is unreachable from the start: paused collectors never
  complete a first poll, and `SnapshotWarm` asks for one of each.
- The comment on `devicesCache.run` (`internal/webui/devices.go`) says only
  successes are cached; failures are too, for a shorter time.

## Not modelled

The restart from the state file and the cursors of the poll sources; the repair
and hold stage of NetFlow (the correlator sees that it releases each record
once); `--flow.correlate=false`; parsers, decoders and the per-subsystem
collectors, which are functions from one text or answer to records; caches and
bounded counters with one mutex each; the response cache of the API client; the
console; everything that is I/O around a library call. `components` in
`PROJECT.json` has each of them with its reason.

## Plan

1. `Restart`: cursors, state file, crash and restart beside `LogPipeline`'s
   delivery, at-least-once against at-most-once per source.
2. `Repair`: the NetFlow sampling decision, the hold buffer and its release, in
   front of `FlowCorrelator`; the listener's queue and join.
3. `LogEventStore`: the actor, its bounded command queue and `Close`.
4. The syslog listener's admission, queue and close order; the enrichment
   refresher with the shared fetch store; the response cache and the devices
   route's single flight; the CPU stream; the annotations watcher.
5. A composition of `OTLPSink` with `LogPipeline` in place of the contract.
6. Proofs: `FragmentsOnce`, `SnapshotIsNewestData`, the sink's `PoolConserved`,
   `ResultPartitions` and `AckedConfirmed` under a clean stop.
