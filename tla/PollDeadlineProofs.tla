------------------------- MODULE PollDeadlineProofs -------------------------
(***************************************************************************)
(* The published deadline keeps the ticker's cadence, for every interval,  *)
(* every history of overruns and every lag between NewTicker and the       *)
(* time.Now() that anchors it; without lag it is the ticker's next fire.   *)
(***************************************************************************)
EXTENDS PollDeadline, TLAPS

USE DEF vars, schedule

-----------------------------------------------------------------------------
(* Arithmetic of the cadence *)

\* Quotient and remainder.
LEMMA Division ==
  ASSUME NEW a \in Int, NEW b \in Nat \ {0}
  PROVE  /\ a \div b \in Int /\ a % b \in Nat /\ a % b < b
         /\ a = (a \div b) * b + (a % b)
  OBVIOUS

\* A multiple leaves no remainder.
LEMMA MultipleLeavesNothing ==
  ASSUME NEW j \in Int, NEW b \in Nat \ {0}
  PROVE  (j * b) % b = 0
  <1> DEFINE a == j * b
  <1>1. a \in Int
    OBVIOUS
  <1> HIDE DEF a
  <1>2. PICK q \in Int, m \in Nat : q = a \div b /\ m = a % b /\ m < b /\ a = q * b + m
    BY <1>1, Division
  <1>3. (j - q) * b = m
    BY <1>2 DEF a
  <1>4. j - q < 1
    BY <1>2, <1>3
  <1>5. j - q > -1
    BY <1>2, <1>3
  <1>6. j - q = 0
    BY <1>2, <1>4, <1>5
  <1>7. m = 0
    BY <1>2, <1>3, <1>6
  <1> QED  BY <1>2, <1>7 DEF a

\* The remainder of a natural number does not exceed it.
LEMMA OffsetFacts ==
  ASSUME NEW a \in Nat, NEW b \in Nat \ {0}
  PROVE  /\ a % b \in Nat /\ a % b < b /\ a % b <= a
         /\ \E q \in Int : a = q * b + (a % b)
  <1>1. PICK q \in Int, m \in Nat : q = a \div b /\ m = a % b /\ m < b /\ a = q * b + m
    BY Division
  <1>2. q > -1
    BY <1>1
  <1>3. q * b >= 0
    BY <1>1, <1>2
  <1>4. m <= a
    BY <1>1, <1>3
  <1> QED  BY Zenon, <1>1, <1>4

\* Less than an interval after a fire, a deadline is at most the offset after it.
LEMMA AtMostOffset ==
  ASSUME NEW k \in Int, NEW o \in Nat, NEW b \in Nat \ {0}, o + k * b < b
  PROVE  o + k * b <= o
  <1>1. k < 1
    OBVIOUS
  <1>2. k * b <= 0
    BY <1>1
  <1>3. k * b \in Int
    OBVIOUS
  <1> QED  BY <1>2, <1>3

\* advanceDeadline steps on the cadence to an instant strictly ahead, and by no
\* more intervals than that takes.
LEMMA AdvanceSteps ==
  ASSUME NEW d \in Nat, NEW t \in Nat
  PROVE  LET r == advanceDeadline(d, t)
         IN  /\ r \in Nat /\ r > t
             /\ \E j \in Nat : r = d + j * Interval
             /\ r = d \/ r <= t + Interval
  <1>i. Interval \in Nat \ {0}
    BY DeadlineConstants
  <1>1. CASE d > t
    <2>1. advanceDeadline(d, t) = d
      BY <1>1 DEF advanceDeadline
    <2>2. d = d + 0 * Interval
      BY <1>i
    <2> QED  BY <1>1, <2>1, <2>2
  <1>2. CASE d <= t
    <2>1. PICK q \in Int, m \in Nat :
              q = (t - d) \div Interval /\ m < Interval /\ t - d = q * Interval + m
      <3>1. t - d \in Int
        OBVIOUS
      <3> QED  BY <1>i, <3>1, Division
    <2>2. (q + 1) * Interval = q * Interval + Interval /\ q * Interval \in Int
      BY <1>i, <2>1
    <2>3. advanceDeadline(d, t) = d + (q + 1) * Interval
      BY <1>2, <2>1 DEF advanceDeadline
    <2>4. q > -1
      BY <1>i, <1>2, <2>1
    <2>5. q + 1 \in Nat
      BY <2>1, <2>4
    <2>6. d + (q + 1) * Interval > t /\ d + (q + 1) * Interval <= t + Interval
      BY <1>i, <2>1, <2>2
    <2>7. d + (q + 1) * Interval \in Nat
      BY <1>i, <2>2, <2>6
    <2> QED  BY <2>3, <2>5, <2>6, <2>7
  <1> QED  BY <1>1, <1>2

-----------------------------------------------------------------------------
(* The deadline and the ticker *)

\* The fire ahead is at most an interval away.
FireAhead == fire > now /\ fire - Interval <= now

\* The deadline lies the offset away from a point of the ticker's cadence, and
\* on the side of the next fire that DeadlineTracksTicker says.
OnCadence ==
    /\ \E k \in Int : next = fire + Offset + k * Interval
    /\ next <= fire + Offset
    /\ ~tick => fire - Interval < next
    /\ tick => next <= now + lag

\* Inductive form of DeadlineTracksTicker.  While the anchor has not been read,
\* the fire ahead is a whole number of intervals after the ticker's start, which
\* was lag ago, and a fire has come only if that was an interval or more.
CadenceInv ==
    /\ TypeOK
    /\ pc = "jitter" => ~tick /\ lag = 0
    /\ pc \in {"anchor"} \cup Scheduled => FireAhead
    /\ pc = "anchor" =>
         /\ \E m \in Nat : fire = now - lag + Interval + m * Interval
         /\ tick => Interval <= lag
    /\ pc \in Scheduled => OnCadence

LEMMA DeadlineTypes == TypeOK /\ [Next]_vars => TypeOK'
  <1> SUFFICES ASSUME TypeOK, [Next]_vars PROVE TypeOK'
    OBVIOUS
  <1>i. Interval \in Nat \ {0}
    BY DeadlineConstants
  <1> USE DEF TypeOK, Locations
  <1>1. CASE Elapse
    <2>1. now' \in Nat /\ fire' \in Nat /\ lag' \in Nat
      BY <1>i, <1>1 DEF Elapse
    <2>2. tick' \in BOOLEAN
      BY Zenon, <1>1 DEF Elapse
    <2> QED  BY <1>1, <2>1, <2>2 DEF Elapse
  <1>2. CASE sleepJitter  BY <1>i, <1>2 DEF sleepJitter
  <1>3. CASE Anchor  BY <1>i, <1>3 DEF Anchor
  <1>4. CASE publishDeadline  BY <1>4 DEF publishDeadline
  <1>5. CASE SetNextDeadline  BY <1>5 DEF SetNextDeadline
  <1>6. CASE PollReturns  BY <1>6 DEF PollReturns
  <1>7. CASE TickReceived
    <2>1. next' \in Nat
      BY <1>7, AdvanceSteps DEF TickReceived
    <2> QED  BY Zenon, <1>7, <2>1 DEF TickReceived
  <1>8. CASE ContextDone  BY <1>8 DEF ContextDone
  <1>9. CASE ClearStore  BY <1>9 DEF ClearStore
  <1>10. CASE ClearTracker  BY <1>10 DEF ClearTracker
  <1>11. CASE StopPolling  BY <1>11 DEF StopPolling
  <1>12. CASE UNCHANGED vars  BY <1>12
  <1> QED
    BY <1>1, <1>2, <1>3, <1>4, <1>5, <1>6, <1>7, <1>8, <1>9, <1>10, <1>11, <1>12 DEF Next

LEMMA CadenceStep == CadenceInv /\ [Next]_vars => CadenceInv'
  <1> SUFFICES ASSUME CadenceInv, [Next]_vars PROVE CadenceInv'
    OBVIOUS
  <1>i. /\ Interval \in Nat \ {0} /\ now \in Nat /\ fire \in Nat /\ next \in Nat /\ lag \in Nat
        /\ tick \in BOOLEAN
    BY DeadlineConstants DEF CadenceInv, TypeOK
  <1>o. Offset \in Nat /\ Offset < Interval /\ Offset <= lag
    BY <1>i, OffsetFacts DEF Offset
  <1>t. TypeOK'
    BY DeadlineTypes DEF CadenceInv
  <1>1. CASE Elapse
    <2>1. pc' = pc /\ next' = next /\ now' = now + 1
          /\ lag' = IF pc = "anchor" THEN lag + 1 ELSE lag
      BY <1>1 DEF Elapse
    <2>2. CASE pc \notin {"anchor"} \cup Scheduled
      <3>1. ~TickerRuns
        BY <2>2 DEF TickerRuns, Scheduled
      <3>2. tick' = tick
        BY Zenon, <1>1, <3>1 DEF Elapse
      <3> QED  BY Zenon, <1>t, <2>1, <2>2, <3>2 DEF CadenceInv
    <2>3. CASE pc \in {"anchor"} \cup Scheduled
      <3>r. TickerRuns /\ FireAhead
        BY <2>3 DEF CadenceInv, TickerRuns, Scheduled
      <3>f. \/ fire = now + 1 /\ fire' = fire + Interval /\ tick'
            \/ fire # now + 1 /\ fire' = fire /\ (tick' <=> tick)
        BY Zenon, <1>1, <3>r DEF Elapse
      <3>a. FireAhead'
        BY <1>i, <2>1, <3>r, <3>f DEF FireAhead
      <3>1. CASE pc = "anchor"
        <4>1. PICK m \in Nat : fire = now - lag + Interval + m * Interval
          BY <3>1 DEF CadenceInv
        <4>2. m * Interval \in Nat /\ (m + 1) * Interval = m * Interval + Interval
          BY <1>i, <4>1
        <4>3. fire' = now' - lag' + Interval + m * Interval
              \/ fire' = now' - lag' + Interval + (m + 1) * Interval
          BY <1>i, <2>1, <3>1, <3>f, <4>1, <4>2
        <4>4. \E n \in Nat : fire' = now' - lag' + Interval + n * Interval
          BY <4>1, <4>3
        <4>5. ASSUME tick' PROVE Interval <= lag'
          <5>1. CASE fire = now + 1
            BY <1>i, <2>1, <3>1, <4>1, <4>2, <5>1
          <5>2. CASE fire # now + 1
            <6>1. tick
              BY Zenon, <3>f, <4>5, <5>2
            <6>2. Interval <= lag
              BY Zenon, <3>1, <6>1 DEF CadenceInv
            <6> QED  BY <1>i, <2>1, <3>1, <6>2
          <5> QED  BY <5>1, <5>2
        <4> QED  BY Zenon, <1>t, <2>1, <3>1, <3>a, <4>4, <4>5 DEF CadenceInv, Scheduled
      <3>2. CASE pc \in Scheduled
        <4>1. OnCadence /\ lag' = lag /\ pc # "anchor" /\ pc # "jitter"
          BY <2>1, <3>2 DEF CadenceInv, Scheduled
        <4>o. Offset' = Offset
          BY <4>1 DEF Offset
        <4>2. PICK k \in Int : next = fire + Offset + k * Interval
          BY <4>1 DEF OnCadence
        <4>3. k * Interval \in Int /\ (k - 1) * Interval = k * Interval - Interval
          BY <1>i, <4>2
        <4>4. next' = fire' + Offset' + k * Interval
              \/ next' = fire' + Offset' + (k - 1) * Interval
          BY <1>i, <1>o, <2>1, <3>f, <4>o, <4>2, <4>3
        <4>5. \E j \in Int : next' = fire' + Offset' + j * Interval
          <5>1. k - 1 \in Int
            OBVIOUS
          <5> QED  BY <4>4, <5>1
        <4>6. next' <= fire' + Offset'
          BY <1>i, <1>o, <2>1, <3>f, <4>1, <4>o DEF OnCadence
        <4>7. ASSUME ~tick' PROVE fire' - Interval < next'
          <5>1. fire' = fire /\ ~tick
            BY Zenon, <3>f, <4>7
          <5> QED  BY <2>1, <4>1, <5>1 DEF OnCadence
        <4>8. ASSUME tick' PROVE next' <= now' + lag'
          <5>1. CASE fire = now + 1
            BY <1>i, <1>o, <2>1, <4>1, <5>1 DEF OnCadence
          <5>2. CASE fire # now + 1
            <6>1. tick
              BY Zenon, <3>f, <4>8, <5>2
            <6>2. next <= now + lag
              BY Zenon, <4>1, <6>1 DEF OnCadence
            <6> QED  BY <1>i, <2>1, <4>1, <6>2
          <5> QED  BY <5>1, <5>2
        <4>9. OnCadence'
          BY Zenon, <4>5, <4>6, <4>7, <4>8 DEF OnCadence
        <4> QED  BY Zenon, <1>t, <2>1, <3>a, <4>1, <4>9 DEF CadenceInv
      <3> QED  BY <2>3, <3>1, <3>2
    <2> QED  BY <2>2, <2>3
  <1>2. CASE sleepJitter
    <2>1. pc = "jitter" /\ ~tick /\ lag = 0 /\ tick' = tick /\ lag' = lag /\ now' = now
      BY <1>2 DEF sleepJitter, CadenceInv
    <2>2. CASE pc' = "anchor" /\ fire' = now + Interval
      <3>1. fire' = now' - lag' + Interval + 0 * Interval /\ FireAhead'
        BY <1>i, <2>1, <2>2 DEF FireAhead
      <3> QED  BY <1>t, <2>1, <2>2, <3>1 DEF CadenceInv, Scheduled
    <2>3. CASE pc' = "exit"
      BY <1>t, <2>3 DEF CadenceInv, Scheduled
    <2> QED  BY <1>2, <2>2, <2>3 DEF sleepJitter
  <1>3. CASE Anchor
    <2>1. /\ next' = now + Interval /\ pc = "anchor" /\ pc' = "publish"
          /\ UNCHANGED <<now, fire, tick, lag>>
      BY <1>3 DEF Anchor
    <2>a. FireAhead /\ FireAhead'
      BY <2>1 DEF CadenceInv, FireAhead
    <2>2. PICK m \in Nat : fire = now - lag + Interval + m * Interval
      BY <2>1 DEF CadenceInv
    <2>3. PICK q \in Int : lag = q * Interval + Offset
      BY Zenon, <1>i, OffsetFacts DEF Offset
    <2> DEFINE k == q - m
    <2>4. k \in Int /\ k * Interval = q * Interval - m * Interval
          /\ q * Interval \in Int /\ m * Interval \in Int
      BY <1>i, <2>2, <2>3
    <2> HIDE DEF k
    <2>5. next' = fire + Offset + k * Interval
      BY <1>i, <1>o, <2>1, <2>2, <2>3, <2>4
    <2>6. Offset + k * Interval < Interval
      <3>1. k * Interval \in Int
        BY <1>i, <2>4
      <3> QED  BY <1>i, <1>o, <2>1, <2>a, <2>5, <3>1 DEF FireAhead
    <2>7. Offset + k * Interval <= Offset
      BY <1>i, <1>o, <2>4, <2>6, AtMostOffset
    <2>8. next' <= fire + Offset
      <3>1. k * Interval \in Int
        BY <1>i, <2>4
      <3> QED  BY <1>i, <1>o, <2>5, <2>7, <3>1
    <2>9. fire - Interval < next'
      BY <1>i, <2>1, <2>a DEF FireAhead
    <2>10. tick => next' <= now + lag
      <3>1. tick => Interval <= lag
        BY Zenon, <2>1 DEF CadenceInv
      <3> QED  BY <1>i, <2>1, <3>1
    <2>11. OnCadence'
      <3>1. Offset' = Offset
        BY <2>1 DEF Offset
      <3> QED  BY Zenon, <2>1, <2>4, <2>5, <2>8, <2>9, <2>10, <3>1 DEF OnCadence
    <2> QED  BY <1>t, <2>1, <2>a, <2>11 DEF CadenceInv
  <1>4. CASE TickReceived
    <2>1. /\ OnCadence /\ FireAhead /\ pc' = "publish" /\ ~tick'
          /\ next' = advanceDeadline(next, now) /\ UNCHANGED <<now, fire, lag>>
      BY <1>4 DEF TickReceived, CadenceInv, Scheduled
    <2>2. PICK k \in Int : next = fire + Offset + k * Interval
      BY <2>1 DEF OnCadence
    <2>3. /\ next' \in Nat /\ next' > now
          /\ next' = next \/ next' <= now + Interval
      BY <1>i, <2>1, AdvanceSteps
    <2>4. PICK j \in Nat : next' = next + j * Interval
      BY Zenon, <1>i, <2>1, AdvanceSteps
    <2> DEFINE n == k + j
    <2>5. n \in Int /\ n * Interval = k * Interval + j * Interval
          /\ k * Interval \in Int /\ j * Interval \in Int /\ n * Interval \in Int
      BY <1>i, <2>2, <2>4
    <2> HIDE DEF n
    <2>6. next' = fire + Offset + n * Interval
      BY <1>i, <1>o, <2>2, <2>4, <2>5
    <2>7. next' <= fire + Offset
      <3>1. CASE next' = next
        BY <2>1, <3>1 DEF OnCadence
      <3>2. CASE next' <= now + Interval
        <4>1. Offset + n * Interval < Interval
          BY <1>i, <1>o, <2>1, <2>3, <2>5, <2>6, <3>2 DEF FireAhead
        <4>2. Offset + n * Interval <= Offset
          BY <1>i, <1>o, <2>5, <4>1, AtMostOffset
        <4> QED  BY <1>i, <1>o, <2>5, <2>6, <4>2
      <3> QED  BY <2>3, <3>1, <3>2
    <2>8. fire - Interval < next'
      BY <1>i, <2>1, <2>3 DEF FireAhead
    <2>9. OnCadence'
      <3>1. Offset' = Offset
        BY <2>1 DEF Offset
      <3> QED  BY Zenon, <2>1, <2>5, <2>6, <2>7, <2>8, <3>1 DEF OnCadence
    <2> QED  BY <1>t, <2>1, <2>9 DEF CadenceInv, FireAhead
  <1>5. CASE publishDeadline \/ SetNextDeadline \/ PollReturns
    <2>1. UNCHANGED <<now, fire, tick, next, lag>> /\ pc \in Scheduled /\ pc' \in Scheduled
      BY <1>5 DEF publishDeadline, SetNextDeadline, PollReturns, Scheduled
    <2>2. OnCadence' /\ FireAhead'
      BY <2>1 DEF CadenceInv, OnCadence, FireAhead, Offset
    <2> QED  BY <1>t, <2>1, <2>2 DEF CadenceInv, Scheduled
  <1>6. CASE ContextDone \/ ClearStore \/ ClearTracker
    BY <1>6, <1>t DEF ContextDone, ClearStore, ClearTracker, CadenceInv, Scheduled
  <1>7. CASE UNCHANGED <<now, pc, fire, tick, next, lag>>
    BY <1>7, <1>t DEF CadenceInv, OnCadence, FireAhead, Offset
  <1> QED
    BY <1>1, <1>2, <1>3, <1>4, <1>5, <1>6, <1>7 DEF Next, StopPolling

LEMMA CadenceAlways == Spec => []CadenceInv
  <1>1. Init => CadenceInv
    <2>1. Init => pc = "jitter" /\ ~tick /\ tick \in BOOLEAN /\ cancelled \in BOOLEAN
      BY Zenon DEF Init
    <2>2. Init => now \in Nat /\ fire \in Nat /\ next \in Nat /\ publishedAt \in Nat /\ lag = 0
                  /\ nextDeadline \in Nat \cup {NoDeadline} /\ mirrored \in Nat \cup {NoDeadline}
      BY DEF Init
    <2> QED  BY <2>1, <2>2 DEF CadenceInv, TypeOK, Locations, Scheduled
  <1> QED  BY <1>1, CadenceStep, PTL DEF Spec

\* For every interval, overrun and lag, a deadline keeps the ticker's cadence,
\* late by the lag of its anchor; one with no fire waiting is less than an
\* interval before the next fire and at most the offset after it, and no poll
\* starts earlier than the lag before its deadline (runCollectorPoller,
\* advanceDeadline).
THEOREM DeadlineFollowsTicker == Spec => []DeadlineTracksTicker
  <1>1. CadenceInv => DeadlineTracksTicker
    <2> SUFFICES ASSUME CadenceInv, pc \in Scheduled
                 PROVE  /\ (next - fire - lag) % Interval = 0
                        /\ next > now \/ ~tick => fire - Interval < next /\ next <= fire + Offset
                        /\ tick => next <= now + lag
      BY DEF DeadlineTracksTicker
    <2>1. Interval \in Nat \ {0} /\ now \in Nat /\ fire \in Nat /\ next \in Nat /\ lag \in Nat
      BY DeadlineConstants DEF CadenceInv, TypeOK
    <2>2. OnCadence /\ FireAhead
      BY DEF CadenceInv
    <2>3. PICK k \in Int : next = fire + Offset + k * Interval
      BY <2>2 DEF OnCadence
    <2>4. PICK q \in Int : lag = q * Interval + Offset /\ Offset \in Nat
      BY Zenon, <2>1, OffsetFacts DEF Offset
    <2>5. next - fire - lag = (k - q) * Interval
      BY <2>1, <2>3, <2>4
    <2>6. k - q \in Int
      BY <2>3, <2>4
    <2>7. (next - fire - lag) % Interval = 0
      BY <2>1, <2>5, <2>6, MultipleLeavesNothing
    <2>8. next > now => fire - Interval < next
      BY <2>1, <2>2 DEF FireAhead
    <2> QED  BY Zenon, <2>2, <2>7, <2>8 DEF OnCadence
  <1> QED  BY <1>1, CadenceAlways, PTL

\* When no time passes between NewTicker and time.Now(), the published deadline
\* is the ticker's actual next fire while it lies ahead, and a fire waits once it
\* has passed (#385).
THEOREM DeadlineExactWithoutLag == Spec => [](lag = 0 => DeadlineIsNextFire)
  <1>1. CadenceInv => (lag = 0 => DeadlineIsNextFire)
    <2> SUFFICES ASSUME CadenceInv, lag = 0, pc \in Scheduled
                 PROVE  (next > now => fire = next) /\ (tick <=> next <= now)
      BY DEF DeadlineIsNextFire
    <2>1. Interval \in Nat \ {0} /\ now \in Nat /\ fire \in Nat /\ next \in Nat /\ tick \in BOOLEAN
      BY DeadlineConstants DEF CadenceInv, TypeOK
    <2>2. OnCadence /\ FireAhead
      BY DEF CadenceInv
    <2>3. Offset = 0
      <3>1. Offset \in Nat /\ Offset <= 0
        BY <2>1, OffsetFacts DEF Offset
      <3> QED  BY <3>1
    <2>4. PICK k \in Int : next = fire + k * Interval
      BY <2>1, <2>2, <2>3 DEF OnCadence
    <2>5. ASSUME fire - Interval < next PROVE next = fire
      <3>1. k > -1
        BY <2>1, <2>4, <2>5
      <3>2. next <= fire
        BY <2>1, <2>2, <2>3 DEF OnCadence
      <3>3. k * Interval >= 0
        BY <2>1, <2>4, <3>1
      <3> QED  BY <2>1, <2>4, <3>2, <3>3
    <2>6. next > now => fire = next
      BY <2>1, <2>2, <2>5 DEF FireAhead
    <2>7. ~tick => next > now
      <3>1. ~tick => fire - Interval < next
        BY Zenon, <2>2 DEF OnCadence
      <3> QED  BY <2>1, <2>2, <2>5, <3>1 DEF FireAhead
    <2>8. tick => next <= now
      <3>1. tick => next <= now + lag
        BY Zenon, <2>2 DEF OnCadence
      <3> QED  BY <2>1, <3>1
    <2> QED  BY <2>1, <2>6, <2>7, <2>8
  <1> QED  BY <1>1, CadenceAlways, PTL

-----------------------------------------------------------------------------
(* The two copies of the deadline *)

\* Inductive form of DeadlinesAgree: what the store holds between the two
\* writes of a publication, and that a poller in its jitter has published none.
AgreeInv ==
    /\ pc \notin {"mirror", "unmirror"} => nextDeadline = mirrored
    /\ pc = "mirror" => nextDeadline = next
    /\ pc \in {"jitter", "unmirror", "exit"} => nextDeadline = NoDeadline
    /\ pc \in {"jitter", "exit"} => mirrored = NoDeadline

\* The exported deadline and the console's agree except between the two writes
\* of one publication, and an exited poller leaves none (publishDeadline).
THEOREM DeadlineCopiesAgree == Spec => []DeadlinesAgree
  <1>1. Init => AgreeInv
    BY DEF Init, AgreeInv
  <1>2. AgreeInv /\ [Next]_vars => AgreeInv'
    <2> SUFFICES ASSUME AgreeInv, [Next]_vars PROVE AgreeInv'
      OBVIOUS
    <2> USE DEF AgreeInv
    <2>1. CASE Elapse  BY <2>1 DEF Elapse
    <2>2. CASE sleepJitter  BY <2>2 DEF sleepJitter
    <2>3. CASE Anchor  BY <2>3 DEF Anchor
    <2>4. CASE publishDeadline  BY <2>4 DEF publishDeadline
    <2>5. CASE SetNextDeadline  BY <2>5 DEF SetNextDeadline
    <2>6. CASE PollReturns  BY <2>6 DEF PollReturns
    <2>7. CASE TickReceived  BY <2>7 DEF TickReceived
    <2>8. CASE ContextDone  BY <2>8 DEF ContextDone
    <2>9. CASE ClearStore  BY <2>9 DEF ClearStore
    <2>10. CASE ClearTracker  BY <2>10 DEF ClearTracker
    <2>11. CASE StopPolling  BY <2>11 DEF StopPolling
    <2>12. CASE UNCHANGED vars  BY <2>12
    <2> QED
      BY <2>1, <2>2, <2>3, <2>4, <2>5, <2>6, <2>7, <2>8, <2>9, <2>10, <2>11, <2>12 DEF Next
  <1>3. AgreeInv => DeadlinesAgree
    BY DEF AgreeInv, DeadlinesAgree
  <1> QED  BY <1>1, <1>2, <1>3, PTL DEF Spec
=============================================================================
