-------------------------- MODULE DropOldestQueue ---------------------------
(***************************************************************************)
(* What boundedQueue (internal/logship/queue.go) promises its users,       *)
(* without its byte arithmetic: a FIFO of at most Cap records whose push   *)
(* never blocks and gives up the oldest records instead, and whose drain   *)
(* hands over a non-empty run of at most BatchMax records from the front.  *)
(*                                                                         *)
(* Records are numbered 1, 2, ... in the order in which push appends them, *)
(* so an entry of buf is its admission number.  How many records one push  *)
(* evicts or one drain takes depends on record sizes in the code; here it  *)
(* is any number the promise allows.  LogQueue has the sizes and refines   *)
(* this module.                                                            *)
(***************************************************************************)
EXTENDS Integers, Sequences

CONSTANTS Cap,      \* --logs.buffer-size
          BatchMax  \* --logs.batch-max

ASSUME QueueConstants == Cap \in Nat \ {0} /\ BatchMax \in Nat \ {0}

VARIABLES buf,       \* q.buf, oldest first
          closed,    \* q.closed
          asleep,    \* the emitter is parked in q.cond.Wait()
          admitted,  \* history: how many records were appended so far
          overflow,  \* the records reported through onDrop (noteOverflow)
          ignored    \* how many pushes a closed queue swallowed uncounted

queueVars == <<buf, closed, asleep, admitted, overflow, ignored>>

\* s without its k oldest entries.
DropOldest(s, k) == SubSeq(s, k + 1, Len(s))

\* The k oldest entries of s, as a set.
Oldest(s, k) == {s[i] : i \in 1..k}

QueueInit ==
    /\ buf = <<>>
    /\ closed = FALSE
    /\ asleep = FALSE
    /\ admitted = 0
    /\ overflow = {}
    /\ ignored = 0

\* A push at an open queue: the new record goes to the back, and as many of
\* the oldest go as the caps require; a parked emitter is signalled.
pushOpen ==
    LET s == Append(buf, admitted + 1)
    IN  /\ ~closed
        /\ \E k \in 0..Len(s) :
              /\ Len(s) - k <= Cap
              /\ buf' = DropOldest(s, k)
              /\ overflow' = overflow \cup Oldest(s, k)
        /\ admitted' = admitted + 1
        /\ asleep' = FALSE
        /\ UNCHANGED <<closed, ignored>>

\* A push at a closed queue is a silent no-op.
pushClosed ==
    /\ closed
    /\ ignored' = ignored + 1
    /\ UNCHANGED <<buf, closed, asleep, admitted, overflow>>

push == pushOpen \/ pushClosed

close_NoBroadcast ==
    /\ closed' = TRUE
    /\ UNCHANGED <<buf, asleep, admitted, overflow, ignored>>

\* close wakes the emitter and leaves the buffered entries drainable.
close ==
    /\ closed' = TRUE
    /\ asleep' = FALSE
    /\ UNCHANGED <<buf, admitted, overflow, ignored>>

\* drainUpTo finds nothing and parks.
drainWait ==
    /\ ~asleep /\ buf = <<>> /\ ~closed
    /\ asleep' = TRUE
    /\ UNCHANGED <<buf, closed, admitted, overflow, ignored>>

\* drainUpTo returns the first n entries with ok = TRUE.
drainUpTo(n) ==
    /\ ~asleep /\ n \in 1..Len(buf) /\ n <= BatchMax
    /\ buf' = DropOldest(buf, n)
    /\ UNCHANGED <<closed, asleep, admitted, overflow, ignored>>

\* drainUpTo returns ok = FALSE.
drainEnd == ~asleep /\ buf = <<>> /\ closed /\ UNCHANGED queueVars

QueueNext == push \/ close \/ drainWait \/ \E n \in 1..BatchMax : drainUpTo(n)

QueueSpec == QueueInit /\ [][QueueNext]_queueVars

-----------------------------------------------------------------------------
QueueTypeOK ==
    /\ buf \in Seq(Nat)
    /\ closed \in BOOLEAN
    /\ asleep \in BOOLEAN
    /\ admitted \in Nat
    /\ overflow \subseteq 1..admitted
    /\ ignored \in Nat

\* The queue is exactly the newest run of what was admitted: overflow and
\* draining both take from the old end, in order, never from the middle.
NewestKept ==
    /\ Len(buf) <= Cap
    /\ Len(buf) <= admitted
    /\ buf = [i \in 1..Len(buf) |-> admitted - Len(buf) + i]

\* Nothing still queued was reported dropped: eviction removes what it counts.
OverflowIsGone == overflow \cap {buf[i] : i \in 1..Len(buf)} = {}

\* No lost wake-up: the emitter is never parked while it has work to do.
NeverSleepsOnWork == asleep => buf = <<>> /\ ~closed
=============================================================================
