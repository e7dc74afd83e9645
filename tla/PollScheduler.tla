---------------------------- MODULE PollScheduler ----------------------------
(***************************************************************************)
(* The poll scheduler of internal/collector/scheduler.go with the snapshot *)
(* store it fills and the status tracker it mirrors the store into.  One   *)
(* goroutine per collector polls on a ticker under a two-level admission   *)
(* gate; one health goroutine trips the circuit that pauses them; and      *)
(* StopPolling cancels and joins them all.                                 *)
(*                                                                         *)
(* The two buffered channels are the sets of the collectors whose token    *)
(* they hold.  A clock reading is the number of the collector's completed  *)
(* poll (0 for the zero time), and a metric buffer is the number of the    *)
(* poll that emitted it (0 for an empty buffer).  A poll's result says     *)
(* whether Update succeeded and whether it emitted anything; a panic is a  *)
(* failure after whatever was emitted before it.  The schedule itself, the *)
(* ticker and the published deadline, is module PollDeadline.              *)
(***************************************************************************)
EXTENDS Integers, Sequences, FiniteSets

CONSTANTS Collectors,   \* the enabled collectors
          Fast,         \* those declared at IntervalFast or below
          PollCap,      \* cap(c.pollSem): pollConcurrency()
          Results,      \* what a poll may come to
          MaxPolls      \* bound: completed polls per collector

ASSUME SchedulerConstants ==
    /\ IsFiniteSet(Collectors) /\ Fast \subseteq Collectors
    /\ PollCap \in Nat \ {0} /\ MaxPolls \in Nat
    /\ Results \subseteq [ok : BOOLEAN, some : BOOLEAN]

VARIABLES
    pc,           \* per collector: where its goroutine is
    hpc,          \* the health goroutine: "jitter", "idle", "call", "exit"
    sem, gate,    \* tokens in c.pollSem and in the general-poll reservation
    unreachable, healthPolled,
    store,        \* the snapshotStore
    tracker,      \* the StatusTracker
    outcomes,     \* history: per collector, the result of every completed poll
    stop          \* "run", "cancelled", "stopped"

pollVars == <<pc, sem, gate>>
healthVars == <<hpc, unreachable, healthPolled>>
dataVars == <<store, tracker, outcomes>>
vars == <<pollVars, healthVars, dataVars, stop>>

Locations == {"jitter", "idle", "check", "gate", "sem", "recheck", "dial", "update",
              "record", "clocks", "release", "ungate", "exit"}
Cancelled == stop # "run"

EmptySnapshot == [metrics |-> 0, lastPoll |-> 0, snapshotAt |-> 0, lastSuccess |-> 0,
                  lastOK |-> FALSE, polled |-> FALSE]
EmptyStat == [runs |-> 0, failures |-> 0, fails |-> 0, lastOK |-> FALSE,
              snapshotAt |-> 0, lastSuccessAt |-> 0]

Init ==
    /\ pc = [c \in Collectors |-> "jitter"] /\ hpc = "jitter"
    /\ sem = {} /\ gate = {}
    /\ unreachable = FALSE /\ healthPolled = FALSE
    /\ store = [c \in Collectors |-> EmptySnapshot]
    /\ tracker = [c \in Collectors |-> EmptyStat]
    /\ outcomes = [c \in Collectors |-> <<>>]
    /\ stop = "run"

Goto(c, l) == pc' = [pc EXCEPT ![c] = l]

-----------------------------------------------------------------------------
(* runCollectorPoller                                                      *)

\* sleepJitter ends: the first poll follows at once, or ctx was cancelled.
sleepJitter(c) ==
    /\ pc[c] = "jitter"
    /\ \/ Goto(c, "check")
       \/ Cancelled /\ Goto(c, "exit")
    /\ UNCHANGED <<sem, gate, healthVars, dataVars, stop>>

\* The select of the poll loop: the ticker fired, or ctx is done.
TickerFired(c) ==
    /\ pc[c] = "idle" /\ store[c].lastPoll < MaxPolls
    /\ Goto(c, "check")
    /\ UNCHANGED <<sem, gate, healthVars, dataVars, stop>>
PollerDone(c) ==
    /\ pc[c] = "idle" /\ Cancelled
    /\ Goto(c, "exit")
    /\ UNCHANGED <<sem, gate, healthVars, dataVars, stop>>

\* acquirePollSlot: must this collector pass the smaller gate first?
general(c) == PollCap > 1 /\ c \notin Fast

\* pollCollector's first look at the circuit.
CheckCircuit(c) ==
    /\ pc[c] = "check"
    /\ Goto(c, IF unreachable THEN "idle" ELSE IF general(c) THEN "gate" ELSE "sem")
    /\ UNCHANGED <<sem, gate, healthVars, dataVars, stop>>

\* acquirePollSlot: the general gate, capacity PollCap - 1, or ctx is done.
gateCapacity_Full == PollCap
gateCapacity == PollCap - 1
AcquireGate(c) ==
    /\ pc[c] = "gate"
    /\ \/ /\ Cardinality(gate) < gateCapacity
          /\ gate' = gate \cup {c}
          /\ Goto(c, "sem")
       \/ /\ Cancelled
          /\ Goto(c, "idle")
          /\ UNCHANGED gate
    /\ UNCHANGED <<sem, healthVars, dataVars, stop>>

\* acquirePollSlot: the global cap.  A cancelled general poll gives its gate
\* token back.
AcquireSem_GateKept(c) ==
    /\ pc[c] = "sem"
    /\ \/ /\ Cardinality(sem) < PollCap
          /\ sem' = sem \cup {c}
          /\ Goto(c, "recheck")
       \/ /\ Cancelled
          /\ Goto(c, "idle")
          /\ UNCHANGED sem
    /\ UNCHANGED <<gate, healthVars, dataVars, stop>>
AcquireSem(c) ==
    /\ pc[c] = "sem"
    /\ \/ /\ Cardinality(sem) < PollCap
          /\ sem' = sem \cup {c}
          /\ Goto(c, "recheck")
          /\ UNCHANGED gate
       \/ /\ Cancelled
          /\ gate' = gate \ {c}
          /\ Goto(c, "idle")
          /\ UNCHANGED sem
    /\ UNCHANGED <<healthVars, dataVars, stop>>

\* The second look, after admission: an open circuit releases the slot unused.
\* The circuit may still open between this look and the request it admits.
RecheckCircuit_Trusting(c) ==
    /\ pc[c] = "recheck"
    /\ Goto(c, "dial")
    /\ UNCHANGED <<sem, gate, healthVars, dataVars, stop>>
RecheckCircuit_NoRelease(c) ==
    /\ pc[c] = "recheck"
    /\ Goto(c, IF unreachable THEN "idle" ELSE "dial")
    /\ UNCHANGED <<sem, gate, healthVars, dataVars, stop>>
RecheckCircuit(c) ==
    /\ pc[c] = "recheck"
    /\ Goto(c, IF unreachable THEN "release" ELSE "dial")
    /\ UNCHANGED <<sem, gate, healthVars, dataVars, stop>>

\* The poll's context starts, pollOnce prepares its buffer, and Update begins.
StartUpdate(c) ==
    /\ pc[c] = "dial"
    /\ Goto(c, "update")
    /\ UNCHANGED <<sem, gate, healthVars, dataVars, stop>>

-----------------------------------------------------------------------------
(* pollOnce                                                                *)

\* snapshotStore.put of result r, the n-th of its collector.
put_Blanking(e, n, r) ==
    [metrics     |-> IF r.some THEN n ELSE 0,
     lastPoll    |-> n,
     snapshotAt  |-> n,
     lastSuccess |-> IF r.ok THEN n ELSE e.lastSuccess,
     lastOK      |-> r.ok,
     polled      |-> TRUE]
put(e, n, r) ==
    LET replaced == r.ok \/ r.some
    IN  [metrics     |-> IF replaced THEN (IF r.some THEN n ELSE 0) ELSE e.metrics,
         lastPoll    |-> n,
         snapshotAt  |-> IF replaced THEN n ELSE e.snapshotAt,
         lastSuccess |-> IF r.ok THEN n ELSE e.lastSuccess,
         lastOK      |-> r.ok,
         polled      |-> TRUE]

\* Update returned (its context bounds it) and the result is stored.
UpdateReturns(c) ==
    /\ pc[c] = "update"
    /\ \E r \in Results :
          /\ store' = [store EXCEPT ![c] = put(@, @.lastPoll + 1, r)]
          /\ outcomes' = [outcomes EXCEPT ![c] = Append(@, r)]
    /\ Goto(c, "record")
    /\ UNCHANGED <<sem, gate, tracker, healthVars, stop>>

\* StatusTracker.Record, with the success flag pollOnce still holds.
recorded(e, ok) ==
    [runs |-> e.runs + 1,
     failures |-> IF ok THEN e.failures ELSE e.failures + 1,
     fails |-> IF ok THEN 0 ELSE e.fails + 1,
     lastOK |-> ok,
     snapshotAt |-> e.snapshotAt, lastSuccessAt |-> e.lastSuccessAt]
Record_NegativeRun(c) ==
    /\ pc[c] = "record"
    /\ tracker' = [tracker EXCEPT ![c].fails = IF store[c].lastOK THEN @ - 1 ELSE @ + 1]
    /\ Goto(c, "clocks")
    /\ UNCHANGED <<sem, gate, store, outcomes, healthVars, stop>>
Record(c) ==
    /\ pc[c] = "record"
    /\ tracker' = [tracker EXCEPT ![c] = recorded(@, store[c].lastOK)]
    /\ Goto(c, "clocks")
    /\ UNCHANGED <<sem, gate, store, outcomes, healthVars, stop>>

\* The clocks are read back from the store and mirrored into the tracker.
clocked_FromPoll(e, s) ==
    [e EXCEPT !.snapshotAt = s.lastPoll, !.lastSuccessAt = s.lastSuccess]
clocked(e, s) ==
    [e EXCEPT !.snapshotAt = s.snapshotAt, !.lastSuccessAt = s.lastSuccess]
RecordClocks(c) ==
    /\ pc[c] = "clocks"
    /\ tracker' = [tracker EXCEPT ![c] = clocked(@, store[c])]
    /\ Goto(c, "release")
    /\ UNCHANGED <<sem, gate, store, outcomes, healthVars, stop>>

\* The deferred release: the semaphore's token first, then the gate's.
ReleaseSem(c) ==
    /\ pc[c] = "release"
    /\ sem' = sem \ {c}
    /\ Goto(c, IF general(c) THEN "ungate" ELSE "idle")
    /\ UNCHANGED <<gate, healthVars, dataVars, stop>>

ReleaseGate(c) ==
    /\ pc[c] = "ungate"
    /\ gate' = gate \ {c}
    /\ Goto(c, "idle")
    /\ UNCHANGED <<sem, healthVars, dataVars, stop>>

-----------------------------------------------------------------------------
(* runHealthPoller and StopPolling                                         *)

HealthDue ==
    /\ hpc \in {"jitter", "idle"}
    /\ hpc' = "call"
    /\ UNCHANGED <<pollVars, unreachable, healthPolled, dataVars, stop>>
HealthDone_JitterOnly ==
    /\ hpc = "jitter" /\ Cancelled
    /\ hpc' = "exit"
    /\ UNCHANGED <<pollVars, unreachable, healthPolled, dataVars, stop>>
HealthDone ==
    /\ hpc \in {"jitter", "idle"} /\ Cancelled
    /\ hpc' = "exit"
    /\ UNCHANGED <<pollVars, unreachable, healthPolled, dataVars, stop>>

\* pollHealth after HealthCheck returned: an answer, an answered error, or a
\* transport-level failure.
pollHealth ==
    /\ hpc = "call"
    /\ \E answer \in {"ok", "error", "transport"} : unreachable' = (answer = "transport")
    /\ healthPolled' = TRUE
    /\ hpc' = "idle"
    /\ UNCHANGED <<pollVars, dataVars, stop>>

StopPolling ==
    /\ stop = "run"
    /\ stop' = "cancelled"
    /\ UNCHANGED <<pollVars, healthVars, dataVars>>

\* pollWG.Wait returns once every goroutine is gone.
StopReturns ==
    /\ stop = "cancelled"
    /\ hpc = "exit" /\ \A c \in Collectors : pc[c] = "exit"
    /\ stop' = "stopped"
    /\ UNCHANGED <<pollVars, healthVars, dataVars>>

Poller(c) ==
    \/ sleepJitter(c) \/ TickerFired(c) \/ PollerDone(c) \/ CheckCircuit(c)
    \/ AcquireGate(c) \/ AcquireSem(c) \/ RecheckCircuit(c) \/ StartUpdate(c)
    \/ UpdateReturns(c) \/ Record(c) \/ RecordClocks(c) \/ ReleaseSem(c) \/ ReleaseGate(c)

Next ==
    \/ \E c \in Collectors : Poller(c)
    \/ HealthDue \/ HealthDone \/ pollHealth \/ StopPolling \/ StopReturns

Spec == Init /\ [][Next]_vars

\* Goroutines run, tickers fire, and a poll ends within pollTimeout.  Go serves
\* the waiters of a channel in arrival order, so one that keeps finding room is
\* admitted, and select picks among its ready cases at random, so a cancelled
\* loop ends.
FairPoller(c) ==
    /\ WF_vars(sleepJitter(c) \/ TickerFired(c) \/ CheckCircuit(c)
               \/ RecheckCircuit(c) \/ StartUpdate(c) \/ UpdateReturns(c) \/ Record(c)
               \/ RecordClocks(c) \/ ReleaseSem(c) \/ ReleaseGate(c))
    /\ SF_vars(AcquireGate(c)) /\ SF_vars(AcquireSem(c)) /\ SF_vars(PollerDone(c))
FairHealth == WF_vars(HealthDue \/ pollHealth) /\ SF_vars(HealthDone)

FairSpec ==
    /\ Spec /\ FairHealth /\ WF_vars(StopReturns)
    /\ \A c \in Collectors : FairPoller(c)

-----------------------------------------------------------------------------
(* Properties                                                              *)

Holding == {"recheck", "dial", "update", "record", "clocks", "release"}

TypeOK ==
    /\ pc \in [Collectors -> Locations]
    /\ hpc \in {"jitter", "idle", "call", "exit"}
    /\ sem \subseteq Collectors /\ gate \subseteq Collectors
    /\ unreachable \in BOOLEAN /\ healthPolled \in BOOLEAN
    /\ store \in [Collectors -> [metrics : Nat, lastPoll : Nat, snapshotAt : Nat,
                                 lastSuccess : Nat, lastOK : BOOLEAN, polled : BOOLEAN]]
    /\ tracker \in [Collectors -> [runs : Nat, failures : Nat, fails : Nat,
                                   lastOK : BOOLEAN, snapshotAt : Nat, lastSuccessAt : Nat]]
    /\ stop \in {"run", "cancelled", "stopped"}

\* No slot leaks and none is taken twice: the semaphore's tokens are exactly
\* the pollers between admission and release, the gate's exactly the general
\* ones between the gate and its release, cancelled waits included; and the
\* fan-out never exceeds the cap.
SlotsAccounted ==
    /\ sem = {c \in Collectors : pc[c] \in Holding}
    /\ gate = {c \in Collectors : general(c) /\ pc[c] \in Holding \cup {"sem", "ungate"}}
    /\ Cardinality(sem) <= PollCap

\* The reservation: whenever there is a slot to spare, general polls leave one
\* to the fast collectors, whatever order the two channels were taken in.
FastSlotReserved ==
    PollCap > 1 => Cardinality({c \in sem : c \notin Fast}) <= PollCap - 1

\* The pollers that have passed the second look and not yet ended their request.
Committed == {c \in Collectors : pc[c] \in {"dial", "update"}}

\* The dial storm of #127 and #383: while the circuit stays open nobody new
\* passes the second look, however many were queued at the cap.  The requests
\* that still start are those of pollers past it when the circuit opened (the
\* race pollCollector's comment leaves open), at most one per slot.
NoNewDials ==
    [][unreachable /\ unreachable' =>
         Committed' \subseteq Committed /\ Cardinality(Committed) <= PollCap]_vars

\* The newest poll of c in outcomes that satisfies a condition, or 0.
NewestPoll(c, P(_)) ==
    LET hits == {i \in 1..Len(outcomes[c]) : P(outcomes[c][i])}
    IN  IF hits = {} THEN 0 ELSE CHOOSE i \in hits : \A j \in hits : j <= i

\* What a scrape replays is the newest data any poll produced, dated by that
\* poll; a run of failing, empty polls neither blanks it nor makes it look
\* younger, and lastSuccess is the newest clean poll (D8, #382).
SnapshotIsNewestData ==
    \A c \in Collectors :
      LET data == NewestPoll(c, LAMBDA r : r.ok \/ r.some)
      IN  /\ store[c].snapshotAt = data
          /\ store[c].metrics = IF data # 0 /\ outcomes[c][data].some THEN data ELSE 0
          /\ store[c].lastSuccess = NewestPoll(c, LAMBDA r : r.ok)
          /\ store[c].lastPoll = Len(outcomes[c])

\* The console and the exported clocks cannot drift apart (RecordClocks): they
\* agree whenever no poll of the collector is between the store and the
\* tracker, and meanwhile the tracker is behind, never ahead.  Its run of
\* consecutive failures reaches back exactly to the last clean poll.
TrackerMirrorsStore ==
    \A c \in Collectors :
      /\ tracker[c].snapshotAt <= store[c].snapshotAt
      /\ tracker[c].lastSuccessAt <= store[c].lastSuccess
      /\ pc[c] \notin {"record", "clocks"} =>
           /\ tracker[c].snapshotAt = store[c].snapshotAt
           /\ tracker[c].lastSuccessAt = store[c].lastSuccess
           /\ tracker[c].lastOK = store[c].lastOK
           /\ tracker[c].fails = store[c].lastPoll - store[c].lastSuccess

\* SnapshotWarm
Warm == healthPolled /\ \A c \in Collectors : store[c].polled

\* StopPolling returns: every goroutine, waiting or polling, notices the
\* cancellation.
StopPollingReturns == stop = "cancelled" ~> stop = "stopped"

\* Readiness is reached once the box stays reachable: every collector gets its
\* first poll, failed or not, however scarce the slots.
BecomesWarm == <>(Cancelled \/ Warm) \/ []<>unreachable
=============================================================================
