------------------------------ MODULE LogQueue ------------------------------
(***************************************************************************)
(* boundedQueue of internal/logship/queue.go: the drop-oldest buffer that  *)
(* every log record crosses between the producers (pollers, receivers, the *)
(* exporter's own logger) and the single emitter goroutine.  It is bounded *)
(* by a record count and by a byte budget at once.                         *)
(*                                                                         *)
(* q.mu makes push, drainUpTo and close atomic; the emitter sleeping in    *)
(* q.cond.Wait is the variable asleep, so a wake-up that never comes shows *)
(* as a behaviour in which the emitter sleeps forever.                     *)
(***************************************************************************)
EXTENDS Integers, Sequences, SequencesExt

CONSTANTS Sizes,        \* the values recordBytes takes
          Cap,          \* --logs.buffer-size
          MaxBytes,     \* --logs.buffer-max-bytes, 0 disables the byte budget
          BatchMax,     \* --logs.batch-max
          ExportBytes,  \* exportByteBound(), the byte cap of one drained batch
          MaxPushes     \* bound: how many pushes a behaviour has

ASSUME LogQueueConstants ==
    /\ Sizes \subseteq Nat \ {0}
    /\ Cap \in Nat \ {0}
    /\ MaxBytes \in Nat
    /\ BatchMax \in Nat \ {0}
    /\ ExportBytes \in Nat
    /\ MaxPushes \in Nat

VARIABLES buf,       \* q.buf, oldest first: queuedEntry with its memoised size
          bytes,     \* q.bytes
          closed,    \* q.closed
          asleep,    \* the emitter is parked in q.cond.Wait()
          admitted,  \* history: how many records were appended so far
          overflow,  \* the records reported through onDrop (noteOverflow)
          ignored,   \* how many pushes a closed queue swallowed uncounted
          taken,     \* history: the batches the emitter drained
          exited     \* runEmitter returned

vars == <<buf, bytes, closed, asleep, admitted, overflow, ignored, taken, exited>>

\* The sum of the memoised sizes of the entries of s.
SizeOf(s) == FoldLeft(LAMBDA acc, e : acc + e.size, 0, s)

\* Subtraction floored at zero, as q.bytes is.
Monus(a, b) == IF b > a THEN 0 ELSE a - b

DropOldest(s, k) == SubSeq(s, k + 1, Len(s))

Ids(s) == {s[i].id : i \in DOMAIN s}

Init ==
    /\ buf = <<>> /\ bytes = 0
    /\ closed = FALSE /\ asleep = FALSE
    /\ admitted = 0 /\ overflow = {} /\ ignored = 0
    /\ taken = <<>> /\ exited = FALSE

\* The entry push appends, with its size memoised.
queuedEntry_Unsized(size) == [id |-> admitted + 1, size |-> 0]
queuedEntry(size) == [id |-> admitted + 1, size |-> size]

\* How many entries the first loop of push evicts to make room for one more.
CountEvictions_OffByOne == IF Len(buf) > Cap THEN Len(buf) - Cap ELSE 0
CountEvictions == IF Len(buf) >= Cap THEN Len(buf) - Cap + 1 ELSE 0

\* The second loop evicts while the total is over the budget.
ByteEvictions_One(s, total) ==
    IF MaxBytes > 0 /\ total > MaxBytes THEN 1 ELSE 0
ByteEvictions(s, total) ==
    IF MaxBytes = 0
    THEN 0
    ELSE Min({k \in 0..Len(s) : \/ Monus(total, SizeOf(SubSeq(s, 1, k))) <= MaxBytes
                                \/ k = Len(s)})

push(size) ==
    IF closed
    THEN /\ ignored' = ignored + 1
         /\ UNCHANGED <<buf, bytes, closed, asleep, admitted, overflow>>
    ELSE LET c     == CountEvictions
             s     == Append(DropOldest(buf, c), queuedEntry(size))
             total == Monus(bytes, SizeOf(SubSeq(buf, 1, c))) + size
             k     == ByteEvictions(s, total)
         IN  /\ buf' = DropOldest(s, k)
             /\ bytes' = Monus(total, SizeOf(SubSeq(s, 1, k)))
             /\ overflow' = overflow \cup Ids(SubSeq(buf, 1, c)) \cup Ids(SubSeq(s, 1, k))
             /\ admitted' = admitted + 1
             /\ asleep' = FALSE
             /\ UNCHANGED <<closed, ignored>>

close_NoBroadcast ==
    /\ closed' = TRUE
    /\ UNCHANGED <<buf, bytes, asleep, admitted, overflow, ignored>>
close ==
    /\ closed' = TRUE
    /\ asleep' = FALSE
    /\ UNCHANGED <<buf, bytes, admitted, overflow, ignored>>

\* How many entries drainUpTo takes: the count cap, then the byte cap, which
\* never applies to the first entry.
DrainCount_CapFirst ==
    IF ExportBytes = 0
    THEN Min({Len(buf), BatchMax})
    ELSE Max({1} \cup {i \in 1..Len(buf) : SizeOf(SubSeq(buf, 1, i)) <= ExportBytes + 1})
DrainCount ==
    LET n == Min({Len(buf), BatchMax})
    IN  IF ExportBytes = 0
        THEN n
        ELSE Max({1} \cup {i \in 1..n : SizeOf(SubSeq(buf, 1, i)) <= ExportBytes})

-----------------------------------------------------------------------------
Push(size) ==
    /\ admitted + ignored < MaxPushes
    /\ push(size)
    /\ UNCHANGED <<taken, exited>>

Close == ~closed /\ close /\ UNCHANGED <<taken, exited>>

\* runEmitter's call of drainUpTo finds nothing and parks in q.cond.Wait.
Wait ==
    /\ ~exited /\ ~asleep /\ buf = <<>> /\ ~closed
    /\ asleep' = TRUE
    /\ UNCHANGED <<buf, bytes, closed, admitted, overflow, ignored, taken, exited>>

\* drainUpTo returns a batch with ok = TRUE.
Drain_Newest ==
    /\ ~exited /\ ~asleep /\ buf # <<>>
    /\ LET batch == DropOldest(buf, Len(buf) - DrainCount)
       IN  /\ taken' = Append(taken, batch)
           /\ buf' = SubSeq(buf, 1, Len(buf) - DrainCount)
           /\ bytes' = Monus(bytes, SizeOf(batch))
    /\ UNCHANGED <<closed, asleep, admitted, overflow, ignored, exited>>
Drain ==
    /\ ~exited /\ ~asleep /\ buf # <<>>
    /\ LET batch == SubSeq(buf, 1, DrainCount)
       IN  /\ taken' = Append(taken, batch)
           /\ buf' = DropOldest(buf, DrainCount)
           /\ bytes' = Monus(bytes, SizeOf(batch))
    /\ UNCHANGED <<closed, asleep, admitted, overflow, ignored, exited>>

\* drainUpTo returns ok = FALSE and runEmitter returns.
Exit ==
    /\ ~exited /\ ~asleep /\ buf = <<>> /\ closed
    /\ exited' = TRUE
    /\ UNCHANGED <<buf, bytes, closed, asleep, admitted, overflow, ignored, taken>>

Emitter == Wait \/ Drain \/ Exit

Next == (\E size \in Sizes : Push(size)) \/ Close \/ Emitter

\* The Go scheduler runs the emitter goroutine whenever it is runnable.
Spec == Init /\ [][Next]_vars /\ WF_vars(Emitter)

-----------------------------------------------------------------------------
TypeOK ==
    /\ buf \in Seq([id : 1..MaxPushes, size : Sizes])
    /\ bytes \in Nat
    /\ closed \in BOOLEAN
    /\ asleep \in BOOLEAN
    /\ admitted \in 0..MaxPushes
    /\ overflow \subseteq 1..admitted
    /\ ignored \in Nat
    /\ taken \in Seq(Seq([id : 1..MaxPushes, size : Sizes]))
    /\ exited \in BOOLEAN

\* The byte budget holds whenever q.mu is free, and the running total behind
\* the queue_bytes gauge never drifts from the sizes of what is queued.
BytesBounded == bytes = SizeOf(buf) /\ (MaxBytes > 0 => bytes <= MaxBytes)

\* Every admitted record is in one place (queued, in one drained batch, or
\* counted once as overflow) and the batches leave in admission order.
Accounted ==
    LET out == [i \in DOMAIN (FlattenSeq(taken) \o buf) |->
                   (FlattenSeq(taken) \o buf)[i].id]
    IN  out = SelectSeq([i \in 1..admitted |-> i], LAMBDA r : r \notin overflow)

\* A drained batch respects BatchMax, and exceeds the export byte bound only
\* when it is a single record (drainUpTo's at-least-one rule).
BatchesWithinBounds ==
    \A i \in DOMAIN taken :
        /\ Len(taken[i]) \in 1..BatchMax
        /\ (ExportBytes > 0 /\ SizeOf(taken[i]) > ExportBytes) => Len(taken[i]) = 1

\* After close the emitter flushes what is buffered and terminates.
DrainsAfterClose == closed ~> (exited /\ buf = <<>>)

\* The queue keeps the promise of DropOldestQueue: the byte budget and the
\* byte-capped drain only decide how much is evicted or taken.
Promise == INSTANCE DropOldestQueue WITH buf <- [i \in DOMAIN buf |-> buf[i].id]
KeepsPromise == Promise!QueueSpec
=============================================================================
