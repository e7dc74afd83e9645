---------------------------- MODULE PollDeadline ----------------------------
(***************************************************************************)
(* The schedule of one collector's poller (internal/collector/scheduler.go,*)
(* runCollectorPoller): a time.Ticker drives it, and the deadline it       *)
(* publishes to the snapshot store and to the status tracker is meant to   *)
(* be the ticker's next fire (#385).                                       *)
(*                                                                         *)
(* Time is discrete and passes between any two steps, so a poll may take   *)
(* any time at all, and the goroutine may be descheduled between the       *)
(* NewTicker that fixes the cadence and the time.Now() that anchors the    *)
(* deadline.  A ticker fires every Interval into a one-slot channel and    *)
(* drops the fires that find the slot full.                                *)
(***************************************************************************)
EXTENDS Integers

CONSTANTS Interval,       \* the effective poll interval
          MaxTime         \* bound: the last instant considered

NoDeadline == -1          \* the zero time

ASSUME DeadlineConstants == Interval \in Nat \ {0} /\ MaxTime \in Nat

VARIABLES
    now,        \* the wall clock
    pc,         \* where the poller is
    fire,       \* when the ticker fires next
    tick,       \* a fire waits in the ticker's channel
    next,       \* the poller's local variable
    nextDeadline,   \* in the snapshot store
    mirrored,       \* in the status tracker
    publishedAt,    \* history: when next was last computed
    lag,            \* history: instants from NewTicker to time.Now()
    cancelled

vars == <<now, pc, fire, tick, next, nextDeadline, mirrored, publishedAt, lag, cancelled>>
schedule == <<next, nextDeadline, mirrored, publishedAt>>

Init ==
    /\ now = 0 /\ pc = "jitter" /\ fire = 0 /\ tick = FALSE
    /\ next = 0 /\ nextDeadline = NoDeadline /\ mirrored = NoDeadline /\ publishedAt = 0
    /\ lag = 0 /\ cancelled = FALSE

TickerRuns == pc \in {"anchor", "publish", "mirror", "poll", "wait"}

\* One instant passes; the ticker fires when its time has come.
Elapse ==
    /\ now < MaxTime /\ pc # "exit"
    /\ now' = now + 1
    /\ lag' = IF pc = "anchor" THEN lag + 1 ELSE lag
    /\ IF TickerRuns /\ fire = now + 1
       THEN fire' = fire + Interval /\ tick' = TRUE
       ELSE UNCHANGED <<fire, tick>>
    /\ UNCHANGED <<pc, schedule, cancelled>>

\* sleepJitter ends and NewTicker starts the cadence, or ctx is done.
sleepJitter ==
    /\ pc = "jitter"
    /\ \/ pc' = "anchor" /\ fire' = now + Interval
       \/ cancelled /\ pc' = "exit" /\ UNCHANGED fire
    /\ UNCHANGED <<now, tick, schedule, lag, cancelled>>

\* next := time.Now().Add(interval)
Anchor ==
    /\ pc = "anchor"
    /\ next' = now + Interval /\ publishedAt' = now
    /\ pc' = "publish"
    /\ UNCHANGED <<now, fire, tick, nextDeadline, mirrored, lag, cancelled>>

\* advanceDeadline: step on the fixed cadence until strictly in the future.
advanceDeadline_Once(d, t) == IF d > t THEN d ELSE d + Interval
advanceDeadline(d, t) ==
    IF d > t THEN d ELSE d + ((t - d) \div Interval + 1) * Interval

\* publishDeadline: the store first, the tracker second.
publishDeadline ==
    /\ pc = "publish"
    /\ nextDeadline' = next
    /\ pc' = "mirror"
    /\ UNCHANGED <<now, fire, tick, next, mirrored, publishedAt, lag, cancelled>>
SetNextDeadline ==
    /\ pc = "mirror"
    /\ mirrored' = next
    /\ pc' = "poll"
    /\ UNCHANGED <<now, fire, tick, next, nextDeadline, publishedAt, lag, cancelled>>

\* pollCollector returns, after any delay.
PollReturns ==
    /\ pc = "poll"
    /\ pc' = "wait"
    /\ UNCHANGED <<now, fire, tick, schedule, lag, cancelled>>

\* The select: a fire is waiting, or ctx is done.
TickReceived ==
    /\ pc = "wait" /\ tick
    /\ tick' = FALSE
    /\ next' = advanceDeadline(next, now) /\ publishedAt' = now
    /\ pc' = "publish"
    /\ UNCHANGED <<now, fire, nextDeadline, mirrored, lag, cancelled>>

\* Return: the ticker stops, and the deferred publishDeadline clears both.
ContextDone ==
    /\ pc = "wait" /\ cancelled
    /\ pc' = "clear"
    /\ UNCHANGED <<now, fire, tick, schedule, lag, cancelled>>
ClearStore ==
    /\ pc = "clear"
    /\ nextDeadline' = NoDeadline
    /\ pc' = "unmirror"
    /\ UNCHANGED <<now, fire, tick, next, mirrored, publishedAt, lag, cancelled>>
ClearTracker_Kept ==
    /\ pc = "unmirror"
    /\ pc' = "exit"
    /\ UNCHANGED <<now, fire, tick, schedule, lag, cancelled>>
ClearTracker ==
    /\ pc = "unmirror"
    /\ mirrored' = NoDeadline
    /\ pc' = "exit"
    /\ UNCHANGED <<now, fire, tick, next, nextDeadline, publishedAt, lag, cancelled>>

StopPolling ==
    /\ ~cancelled /\ cancelled' = TRUE
    /\ UNCHANGED <<now, pc, fire, tick, schedule, lag>>

Next ==
    \/ Elapse \/ sleepJitter \/ Anchor \/ publishDeadline \/ SetNextDeadline \/ PollReturns
    \/ TickReceived \/ ContextDone \/ ClearStore \/ ClearTracker \/ StopPolling

Spec == Init /\ [][Next]_vars

-----------------------------------------------------------------------------
(* Properties                                                              *)

Locations == {"jitter", "anchor", "publish", "mirror", "poll", "wait", "clear",
              "unmirror", "exit"}
Scheduled == {"publish", "mirror", "poll", "wait"}

TypeOK ==
    /\ now \in Nat /\ pc \in Locations /\ fire \in Nat /\ tick \in BOOLEAN
    /\ next \in Nat /\ publishedAt \in Nat /\ lag \in Nat /\ cancelled \in BOOLEAN
    /\ nextDeadline \in Nat \cup {NoDeadline} /\ mirrored \in Nat \cup {NoDeadline}

\* How far past a fire the deadlines lie.
Offset == lag % Interval

\* Deadlines keep the ticker's cadence, late by the time that passed between
\* NewTicker and time.Now(), whatever polls overran.  One that lies ahead, or
\* for which no fire waits yet, is less than an interval before the next fire
\* and at most the offset after it, so none is overdue for a whole interval with
\* nothing coming; and no poll starts further ahead of its deadline than the
\* lag.  Without lag the deadline is the ticker's actual next fire (#385).
DeadlineTracksTicker ==
    pc \in Scheduled =>
      /\ (next - fire - lag) % Interval = 0
      /\ next > now \/ ~tick => fire - Interval < next /\ next <= fire + Offset
      /\ tick => next <= now + lag

\* The promise itself: the deadline is the ticker's actual next fire for as long
\* as it lies ahead, and once it has passed a fire waits to be received.
DeadlineIsNextFire ==
    pc \in Scheduled =>
      /\ next > now => fire = next
      /\ tick <=> next <= now

\* The exported metric and the console report the same deadline except between
\* the two writes of one publication, and a poller that has exited leaves no
\* deadline in either.
DeadlinesAgree ==
    /\ pc \notin {"mirror", "unmirror"} => nextDeadline = mirrored
    /\ pc = "exit" => nextDeadline = NoDeadline /\ mirrored = NoDeadline

\* advanceDeadline's contract: what a consumed tick leaves to be published is
\* the fire the ticker will deliver next, so never an instant before it.  (A
\* deadline is in the store already, so this is not the first publication, and
\* no time has passed since it was computed.)
NotBeforeNextFire ==
    pc = "publish" /\ nextDeadline # NoDeadline /\ publishedAt = now => next >= fire
=============================================================================
