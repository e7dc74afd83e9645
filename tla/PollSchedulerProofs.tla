------------------------ MODULE PollSchedulerProofs ------------------------
(***************************************************************************)
(* Proofs about PollScheduler for every set of collectors, every split     *)
(* into fast and general ones and every poll concurrency.                  *)
(***************************************************************************)
EXTENDS PollScheduler, FiniteSetTheorems, TLAPS

USE DEF pollVars, healthVars, dataVars, vars, Goto

-----------------------------------------------------------------------------
(* Types *)

Stats == [runs : Nat, failures : Nat, fails : Nat,
          lastOK : BOOLEAN, snapshotAt : Nat, lastSuccessAt : Nat]

Snapshots == [metrics : Nat, lastPoll : Nat, snapshotAt : Nat,
              lastSuccess : Nat, lastOK : BOOLEAN, polled : BOOLEAN]

\* The fields of a store entry and of a tracker entry.
LEMMA SnapshotFields ==
  ASSUME NEW s \in Snapshots
  PROVE  /\ s.metrics \in Nat /\ s.lastPoll \in Nat /\ s.snapshotAt \in Nat
         /\ s.lastSuccess \in Nat /\ s.lastOK \in BOOLEAN
  BY DEF Snapshots

LEMMA StatFields ==
  ASSUME NEW t \in Stats
  PROVE  /\ t.runs \in Nat /\ t.failures \in Nat /\ t.fails \in Nat
         /\ t.snapshotAt \in Nat /\ t.lastSuccessAt \in Nat
  BY DEF Stats

\* put, recorded and clocked build entries of the right shape.
LEMMA PutType ==
  ASSUME NEW s \in Snapshots, NEW r \in [ok : BOOLEAN, some : BOOLEAN]
  PROVE  put(s, s.lastPoll + 1, r) \in Snapshots
  <1>1. s.lastPoll + 1 \in Nat /\ r.ok \in BOOLEAN /\ 0 \in Nat
    BY SnapshotFields
  <1> QED
    BY <1>1, SnapshotFields DEF put, Snapshots

LEMMA StatTypes ==
  ASSUME NEW t \in Stats, NEW s \in Snapshots
  PROVE  recorded(t, s.lastOK) \in Stats /\ clocked(t, s) \in Stats
  <1>1. t.runs + 1 \in Nat /\ t.failures + 1 \in Nat /\ t.fails + 1 \in Nat /\ 0 \in Nat
    BY StatFields
  <1>2. recorded(t, s.lastOK) \in Stats
    BY <1>1, SnapshotFields, StatFields DEF recorded, Stats
  <1>3. clocked(t, s) \in Stats
    BY Zenon, SnapshotFields DEF clocked, Stats
  <1> QED
    BY <1>2, <1>3

\* Every variable keeps its type through every poll, health check and stop.
THEOREM PollTypeOK == Spec => []TypeOK
  <1>1. Init => TypeOK
    <2>1. EmptySnapshot \in [metrics : Nat, lastPoll : Nat, snapshotAt : Nat,
                             lastSuccess : Nat, lastOK : BOOLEAN, polled : BOOLEAN]
      BY DEF EmptySnapshot
    <2>2. EmptyStat \in [runs : Nat, failures : Nat, fails : Nat,
                         lastOK : BOOLEAN, snapshotAt : Nat, lastSuccessAt : Nat]
      BY DEF EmptyStat
    <2>3. Init => store \in [Collectors -> [metrics : Nat, lastPoll : Nat, snapshotAt : Nat,
                                            lastSuccess : Nat, lastOK : BOOLEAN, polled : BOOLEAN]]
      BY <2>1 DEF Init
    <2>4. Init => tracker \in [Collectors -> [runs : Nat, failures : Nat, fails : Nat,
                                     lastOK : BOOLEAN, snapshotAt : Nat, lastSuccessAt : Nat]]
      BY <2>2 DEF Init
    <2>5. Init => pc \in [Collectors -> Locations] /\ sem \subseteq Collectors
                  /\ gate \subseteq Collectors
      BY DEF Init, Locations
    <2>6. Init => unreachable \in BOOLEAN /\ healthPolled \in BOOLEAN
      BY Zenon DEF Init
    <2> QED  BY <2>3, <2>4, <2>5, <2>6 DEF Init, TypeOK
  <1>2. TypeOK /\ [Next]_vars => TypeOK'
    <2> SUFFICES ASSUME TypeOK, [Next]_vars PROVE TypeOK'
      OBVIOUS
    <2> USE DEF TypeOK
    <2>1. ASSUME NEW c \in Collectors, Poller(c) PROVE TypeOK'
      <3>1. CASE sleepJitter(c)  BY <3>1 DEF sleepJitter, Locations
      <3>2. CASE TickerFired(c)  BY <3>2 DEF TickerFired, Locations
      <3>3. CASE PollerDone(c)  BY <3>3 DEF PollerDone, Locations
      <3>4. CASE CheckCircuit(c)  BY <3>4 DEF CheckCircuit, Locations
      <3>5. CASE AcquireGate(c)  BY <3>5 DEF AcquireGate, Locations
      <3>6. CASE AcquireSem(c)  BY Zenon, <3>6 DEF AcquireSem, Locations
      <3>7. CASE RecheckCircuit(c)  BY <3>7 DEF RecheckCircuit, Locations
      <3>13. CASE StartUpdate(c)  BY <3>13 DEF StartUpdate, Locations
      <3>a. tracker[c] \in Stats /\ store[c] \in Snapshots
        BY DEF Stats, Snapshots
      <3>8. CASE UpdateReturns(c)
        <4>1. PICK r \in Results : store' = [store EXCEPT ![c] = put(@, @.lastPoll + 1, r)]
          BY Zenon, <3>8 DEF UpdateReturns
        <4>2. r \in [ok : BOOLEAN, some : BOOLEAN]
          BY Zenon, SchedulerConstants
        <4>3. put(store[c], store[c].lastPoll + 1, r) \in Snapshots
          BY Zenon, <3>a, <4>2, PutType
        <4> QED  BY Zenon, <3>8, <4>1, <4>3 DEF UpdateReturns, Locations, Snapshots
      <3>9. CASE Record(c)
        <4>1. recorded(tracker[c], store[c].lastOK) \in Stats
          BY Zenon, <3>a, StatTypes
        <4> QED  BY Zenon, <3>9, <4>1 DEF Record, Locations, Stats
      <3>10. CASE RecordClocks(c)
        <4>1. clocked(tracker[c], store[c]) \in Stats
          BY Zenon, <3>a, StatTypes
        <4> QED  BY Zenon, <3>10, <4>1 DEF RecordClocks, Locations, Stats
      <3>11. CASE ReleaseSem(c)  BY <3>11 DEF ReleaseSem, Locations
      <3>12. CASE ReleaseGate(c)  BY <3>12 DEF ReleaseGate, Locations
      <3> QED
        BY Zenon, <2>1, <3>1, <3>2, <3>3, <3>4, <3>5, <3>6, <3>7, <3>8, <3>9, <3>10, <3>11, <3>12,
           <3>13 DEF Poller
    <2>2. CASE HealthDue  BY <2>2 DEF HealthDue
    <2>3. CASE HealthDone  BY <2>3 DEF HealthDone
    <2>4. CASE pollHealth  BY <2>4 DEF pollHealth
    <2>5. CASE StopPolling  BY <2>5 DEF StopPolling
    <2>6. CASE StopReturns  BY <2>6 DEF StopReturns
    <2>7. CASE UNCHANGED vars  BY <2>7
    <2> QED  BY <2>1, <2>2, <2>3, <2>4, <2>5, <2>6, <2>7 DEF Next
  <1> QED  BY <1>1, <1>2, PTL DEF Spec

-----------------------------------------------------------------------------
(* The slots *)

\* Inductive form of SlotsAccounted: the gate's capacity holds as well, and only
\* general pollers wait at it.
SlotInv ==
    /\ sem = {c \in Collectors : pc[c] \in Holding}
    /\ gate = {c \in Collectors : general(c) /\ pc[c] \in Holding \cup {"sem", "ungate"}}
    /\ Cardinality(sem) <= PollCap
    /\ PollCap > 1 => Cardinality(gate) <= gateCapacity
    /\ \A c \in Collectors : pc[c] = "gate" => general(c)

LEMMA TokenTaken ==
  ASSUME NEW S, S \subseteq Collectors, NEW c \in Collectors, NEW n \in Int, Cardinality(S) < n
  PROVE  Cardinality(S \cup {c}) <= n
  <1>1. IsFiniteSet(S)
    BY SchedulerConstants, FS_Subset
  <1>2. Cardinality(S) \in Nat
    BY <1>1, FS_CardinalityType
  <1> QED  BY <1>1, <1>2, FS_AddElement

LEMMA TokenReturned ==
  ASSUME NEW S, S \subseteq Collectors, NEW c \in Collectors, NEW n \in Int, Cardinality(S) <= n
  PROVE  Cardinality(S \ {c}) <= n
  <1>1. IsFiniteSet(S)
    BY SchedulerConstants, FS_Subset
  <1>2. Cardinality(S) \in Nat
    BY <1>1, FS_CardinalityType
  <1> QED  BY <1>1, <1>2, FS_RemoveElement

LEMMA SlotStep == TypeOK /\ SlotInv /\ [Next]_vars => SlotInv'
  <1> SUFFICES ASSUME TypeOK, SlotInv, [Next]_vars PROVE SlotInv'
    OBVIOUS
  <1>t. pc \in [Collectors -> Locations] /\ sem \subseteq Collectors /\ gate \subseteq Collectors
        /\ PollCap \in Nat /\ gateCapacity \in Int
    BY SchedulerConstants DEF TypeOK, gateCapacity
  <1>1. ASSUME NEW c \in Collectors, Poller(c) PROVE SlotInv'
    \* A move between two locations on the same side of every boundary.
    <2>1. ASSUME NEW l, Goto(c, l), UNCHANGED <<sem, gate>>,
                 pc[c] \in Holding <=> l \in Holding,
                 l = "gate" => general(c),
                 general(c) => (pc[c] \in Holding \cup {"sem", "ungate"}
                                  <=> l \in Holding \cup {"sem", "ungate"})
          PROVE  SlotInv'
      BY <1>t, <2>1 DEF SlotInv, general, gateCapacity
    <2>2. CASE sleepJitter(c)  BY <2>1, <2>2 DEF sleepJitter, Holding
    <2>3. CASE TickerFired(c)  BY Zenon, <2>1, <2>3 DEF TickerFired, Holding
    <2>4. CASE PollerDone(c)  BY Zenon, <2>1, <2>4 DEF PollerDone, Holding
    <2>5. CASE CheckCircuit(c)
      <3>1. CASE unreachable  BY Zenon, <2>1, <2>5, <3>1 DEF CheckCircuit, Holding
      <3>2. CASE ~unreachable /\ general(c)  BY Zenon, <2>1, <2>5, <3>2 DEF CheckCircuit, Holding
      <3>3. CASE ~unreachable /\ ~general(c)  BY Zenon, <2>1, <2>5, <3>3 DEF CheckCircuit, Holding
      <3> QED  BY <3>1, <3>2, <3>3
    <2>6. CASE AcquireGate(c)
      <3>1. CASE Cardinality(gate) < gateCapacity /\ gate' = gate \cup {c} /\ Goto(c, "sem")
        <4>1. Cardinality(gate') <= gateCapacity
          BY <1>t, <3>1, TokenTaken
        <4>2. general(c)
          BY <2>6 DEF AcquireGate, SlotInv
        <4>3. sem' = sem /\ pc[c] = "gate"
          BY <2>6 DEF AcquireGate
        <4> QED  BY <1>t, <3>1, <4>1, <4>2, <4>3 DEF SlotInv, general, gateCapacity, Holding
      <3>2. CASE Goto(c, "idle") /\ UNCHANGED gate
        BY Zenon, <2>1, <2>6, <3>2 DEF AcquireGate, Holding
      <3> QED  BY <2>6, <3>1, <3>2 DEF AcquireGate
    <2>7. CASE AcquireSem(c)
      <3>1. pc[c] = "sem"
        BY <2>7 DEF AcquireSem
      <3>2. CASE Cardinality(sem) < PollCap /\ sem' = sem \cup {c} /\ Goto(c, "recheck")
                 /\ UNCHANGED gate
        <4>1. Cardinality(sem') <= PollCap
          BY <1>t, <3>2, TokenTaken
        <4> QED  BY <1>t, <3>1, <3>2, <4>1 DEF SlotInv, general, gateCapacity, Holding
      <3>3. CASE gate' = gate \ {c} /\ Goto(c, "idle") /\ UNCHANGED sem
        <4>1. PollCap > 1 => Cardinality(gate') <= gateCapacity
          BY <1>t, <3>3, TokenReturned DEF SlotInv
        <4> QED  BY <1>t, <3>1, <3>3, <4>1 DEF SlotInv, general, gateCapacity, Holding
      <3> QED  BY <2>7, <3>2, <3>3 DEF AcquireSem
    <2>8. CASE RecheckCircuit(c)
      <3>1. CASE unreachable  BY Zenon, <2>1, <2>8, <3>1 DEF RecheckCircuit, Holding
      <3>2. CASE ~unreachable  BY Zenon, <2>1, <2>8, <3>2 DEF RecheckCircuit, Holding
      <3> QED  BY <3>1, <3>2
    <2>14. CASE StartUpdate(c)  BY Zenon, <2>1, <2>14 DEF StartUpdate, Holding
    <2>9. CASE UpdateReturns(c)  BY Zenon, <2>1, <2>9 DEF UpdateReturns, Holding
    <2>10. CASE Record(c)  BY Zenon, <2>1, <2>10 DEF Record, Holding
    <2>11. CASE RecordClocks(c)  BY Zenon, <2>1, <2>11 DEF RecordClocks, Holding
    <2>12. CASE ReleaseSem(c)
      <3>1. pc[c] = "release" /\ sem' = sem \ {c} /\ gate' = gate
            /\ Goto(c, IF general(c) THEN "ungate" ELSE "idle")
        BY <2>12 DEF ReleaseSem
      <3>2. Cardinality(sem') <= PollCap
        BY <1>t, <3>1, TokenReturned DEF SlotInv
      <3> QED  BY <1>t, <3>1, <3>2 DEF SlotInv, general, gateCapacity, Holding
    <2>13. CASE ReleaseGate(c)
      <3>1. pc[c] = "ungate" /\ gate' = gate \ {c} /\ sem' = sem /\ Goto(c, "idle")
        BY <2>13 DEF ReleaseGate
      <3>2. PollCap > 1 => Cardinality(gate') <= gateCapacity
        BY <1>t, <3>1, TokenReturned DEF SlotInv
      <3> QED  BY <1>t, <3>1, <3>2 DEF SlotInv, general, gateCapacity, Holding
    <2> QED
      BY <1>1, <2>2, <2>3, <2>4, <2>5, <2>6, <2>7, <2>8, <2>9, <2>10, <2>11, <2>12, <2>13,
         <2>14 DEF Poller
  <1>2. CASE UNCHANGED pollVars  BY <1>2 DEF SlotInv
  <1> QED
    BY <1>1, <1>2 DEF Next, HealthDue, HealthDone, pollHealth, StopPolling, StopReturns

LEMMA SlotsAlways == Spec => []SlotInv
  <1>1. Init => SlotInv
    <2> SUFFICES ASSUME Init PROVE SlotInv
      OBVIOUS
    <2>1. Cardinality(sem) = 0 /\ Cardinality(gate) = 0
      BY FS_EmptySet DEF Init
    <2> QED  BY <2>1, SchedulerConstants DEF Init, SlotInv, Holding, gateCapacity
  <1> QED  BY <1>1, SlotStep, PollTypeOK, PTL DEF Spec

\* No admission token leaks or is taken twice, cancelled waits included, for
\* every number of collectors and slots (acquirePollSlot and its release).
THEOREM PollSlotsAccounted == Spec => []SlotsAccounted
  <1>1. SlotInv => SlotsAccounted
    BY DEF SlotInv, SlotsAccounted
  <1> QED  BY <1>1, SlotsAlways, PTL

\* General polls never hold the last slot when there are at least two
\* (initPollReservation): each holds a gate token while it holds a slot.
THEOREM PollFastSlotReserved == Spec => []FastSlotReserved
  <1>1. TypeOK /\ SlotInv => FastSlotReserved
    <2> SUFFICES ASSUME TypeOK, SlotInv, PollCap > 1
                 PROVE  Cardinality({c \in sem : c \notin Fast}) <= PollCap - 1
      BY DEF FastSlotReserved
    <2> DEFINE G == {c \in sem : c \notin Fast}
    <2>1. G \subseteq gate
      BY DEF SlotInv, general
    <2>2. IsFiniteSet(gate)
      BY SchedulerConstants, FS_Subset DEF TypeOK
    <2>3. Cardinality(G) <= Cardinality(gate) /\ IsFiniteSet(G)
      BY <2>1, <2>2, FS_Subset
    <2>4. Cardinality(G) \in Nat /\ Cardinality(gate) \in Nat
      BY <2>2, <2>3, FS_CardinalityType
    <2> HIDE DEF G
    <2>5. Cardinality(G) <= PollCap - 1
      BY <2>3, <2>4, SchedulerConstants DEF SlotInv, gateCapacity
    <2> QED  BY <2>5 DEF G
  <1> QED  BY <1>1, SlotsAlways, PollTypeOK, PTL

\* While the circuit stays open nobody new passes the second look at it, after
\* admission (pollCollector), so the requests that still start are those of the
\* pollers past it when it opened, never more than there are slots.
THEOREM PollNoNewDials == Spec => NoNewDials
  <1>1. TypeOK /\ SlotInv => Cardinality(Committed) <= PollCap
    <2> SUFFICES ASSUME TypeOK, SlotInv PROVE Cardinality(Committed) <= PollCap
      OBVIOUS
    <2>1. Committed \subseteq sem
      BY DEF Committed, SlotInv, Holding
    <2>2. IsFiniteSet(sem)
      BY SchedulerConstants, FS_Subset DEF TypeOK
    <2>3. Cardinality(Committed) <= Cardinality(sem) /\ IsFiniteSet(Committed)
      BY <2>1, <2>2, FS_Subset
    <2>4. Cardinality(Committed) \in Nat /\ Cardinality(sem) \in Nat
      BY <2>2, <2>3, FS_CardinalityType
    <2> QED  BY <2>3, <2>4, SchedulerConstants DEF SlotInv
  <1>2. TypeOK /\ [Next]_vars /\ unreachable /\ unreachable' => Committed' \subseteq Committed
    <2> SUFFICES ASSUME TypeOK, [Next]_vars, unreachable, unreachable',
                        NEW d \in Collectors, pc'[d] \in {"dial", "update"}
                 PROVE  pc[d] \in {"dial", "update"}
      BY DEF Committed
    <2>1. pc \in [Collectors -> Locations]
      BY DEF TypeOK
    <2>2. ASSUME NEW c \in Collectors, Poller(c) PROVE pc[d] \in {"dial", "update"}
      <3>1. CASE StartUpdate(c)
        BY <2>1, <3>1 DEF StartUpdate
      <3>2. CASE ~StartUpdate(c)
        <4>1. \E l \in Locations : Goto(c, l) /\ l # "dial" /\ l # "update"
          BY Zenon, <2>2, <3>2 DEF Poller, sleepJitter, TickerFired, PollerDone, CheckCircuit,
               AcquireGate, AcquireSem, RecheckCircuit, UpdateReturns, Record, RecordClocks,
               ReleaseSem, ReleaseGate, Locations
        <4> QED  BY <2>1, <4>1
      <3> QED  BY <3>1, <3>2
    <2>3. CASE UNCHANGED pc  BY <2>3
    <2> QED
      BY Zenon, <2>2, <2>3 DEF Next, HealthDue, HealthDone, pollHealth, StopPolling, StopReturns
  <1>3. TypeOK /\ SlotInv /\ [Next]_vars =>
          [unreachable /\ unreachable' =>
             Committed' \subseteq Committed /\ Cardinality(Committed) <= PollCap]_vars
    BY <1>1, <1>2
  <1> QED  BY <1>3, SlotsAlways, PollTypeOK, PTL DEF Spec, NoNewDials

-----------------------------------------------------------------------------
(* The tracker and the store *)

\* One collector's share of the inductive form of TrackerMirrorsStore: t lags s
\* only while its poller is at "record" or "clocks", by exactly that poll.
Mirrors(t, s, at) ==
    /\ t.snapshotAt <= s.snapshotAt /\ s.snapshotAt <= s.lastPoll
    /\ t.lastSuccessAt <= s.lastSuccess /\ s.lastSuccess <= s.lastPoll
    /\ at = "record" =>
         IF s.lastOK THEN s.lastSuccess = s.lastPoll
                     ELSE t.fails + 1 = s.lastPoll - s.lastSuccess
    /\ at # "record" => t.lastOK = s.lastOK /\ t.fails = s.lastPoll - s.lastSuccess
    /\ at \notin {"record", "clocks"} =>
         t.snapshotAt = s.snapshotAt /\ t.lastSuccessAt = s.lastSuccess

MirrorInv == \A c \in Collectors : Mirrors(tracker[c], store[c], pc[c])

\* A result put in the store leaves the tracker one Record behind.
LEMMA PutMirrors ==
  ASSUME NEW t \in Stats, NEW s \in Snapshots, NEW r \in [ok : BOOLEAN, some : BOOLEAN],
         NEW at, at \notin {"record", "clocks"}, Mirrors(t, s, at)
  PROVE  Mirrors(t, put(s, s.lastPoll + 1, r), "record")
  <1> DEFINE p == put(s, s.lastPoll + 1, r)
  <1>1. /\ p.lastPoll = s.lastPoll + 1 /\ p.lastOK = r.ok
        /\ p.snapshotAt \in {s.snapshotAt, s.lastPoll + 1}
        /\ p.lastSuccess = IF r.ok THEN s.lastPoll + 1 ELSE s.lastSuccess
    BY DEF put
  <1>2. /\ t.fails \in Nat /\ t.snapshotAt \in Nat /\ t.lastSuccessAt \in Nat
        /\ s.lastPoll \in Nat /\ s.snapshotAt \in Nat /\ s.lastSuccess \in Nat
    BY StatFields, SnapshotFields
  <1>3. /\ t.snapshotAt = s.snapshotAt /\ s.snapshotAt <= s.lastPoll
        /\ t.lastSuccessAt = s.lastSuccess /\ s.lastSuccess <= s.lastPoll
        /\ t.fails = s.lastPoll - s.lastSuccess
    BY Zenon DEF Mirrors
  <1> HIDE DEF p
  <1>4. /\ t.snapshotAt <= p.snapshotAt /\ p.snapshotAt <= p.lastPoll
        /\ t.lastSuccessAt <= p.lastSuccess /\ p.lastSuccess <= p.lastPoll
    BY <1>1, <1>2, <1>3
  <1>5. IF p.lastOK THEN p.lastSuccess = p.lastPoll
                    ELSE t.fails + 1 = p.lastPoll - p.lastSuccess
    BY <1>1, <1>2, <1>3
  <1> QED
    BY Zenon, <1>4, <1>5 DEF Mirrors, p

\* Record catches up with the success flag and the run of failures.
LEMMA RecordMirrors ==
  ASSUME NEW t \in Stats, NEW s \in Snapshots, Mirrors(t, s, "record")
  PROVE  Mirrors(recorded(t, s.lastOK), s, "clocks")
  <1> DEFINE u == recorded(t, s.lastOK)
  <1>1. /\ u.snapshotAt = t.snapshotAt /\ u.lastSuccessAt = t.lastSuccessAt
        /\ u.lastOK = s.lastOK /\ u.fails = IF s.lastOK THEN 0 ELSE t.fails + 1
    BY DEF recorded
  <1>2. /\ t.snapshotAt <= s.snapshotAt /\ s.snapshotAt <= s.lastPoll
        /\ t.lastSuccessAt <= s.lastSuccess /\ s.lastSuccess <= s.lastPoll
        /\ IF s.lastOK THEN s.lastSuccess = s.lastPoll
                       ELSE t.fails + 1 = s.lastPoll - s.lastSuccess
    BY Zenon DEF Mirrors
  <1>3. s.lastPoll \in Nat /\ s.lastSuccess \in Nat
    BY SnapshotFields
  <1> HIDE DEF u
  <1>4. u.fails = s.lastPoll - s.lastSuccess
    BY <1>1, <1>2, <1>3
  <1>5. "clocks" # "record"
    OBVIOUS
  <1> QED
    BY Zenon, <1>1, <1>2, <1>4, <1>5 DEF Mirrors, u

\* RecordClocks catches up with the clocks.
LEMMA ClocksMirror ==
  ASSUME NEW t \in Stats, NEW s \in Snapshots, Mirrors(t, s, "clocks")
  PROVE  Mirrors(clocked(t, s), s, "release")
  <1> DEFINE u == clocked(t, s)
  <1>1. /\ u.snapshotAt = s.snapshotAt /\ u.lastSuccessAt = s.lastSuccess
        /\ u.lastOK = t.lastOK /\ u.fails = t.fails
    BY DEF clocked, Stats
  <1>2. /\ s.snapshotAt <= s.lastPoll /\ s.lastSuccess <= s.lastPoll
        /\ t.lastOK = s.lastOK /\ t.fails = s.lastPoll - s.lastSuccess
    <2>1. "clocks" # "record"
      OBVIOUS
    <2> QED
      BY Zenon, <2>1 DEF Mirrors
  <1>3. s.snapshotAt <= s.snapshotAt /\ s.lastSuccess <= s.lastSuccess /\ "release" # "record"
    BY SnapshotFields
  <1> HIDE DEF u
  <1> QED
    BY Zenon, <1>1, <1>2, <1>3 DEF Mirrors, u

LEMMA MirrorStep == TypeOK /\ MirrorInv /\ [Next]_vars => MirrorInv'
  <1> SUFFICES ASSUME TypeOK, MirrorInv, [Next]_vars, NEW d \in Collectors
               PROVE  Mirrors(tracker'[d], store'[d], pc'[d])
    BY Zenon DEF MirrorInv
  <1>t. /\ pc \in [Collectors -> Locations]
        /\ tracker \in [Collectors -> Stats] /\ store \in [Collectors -> Snapshots]
    BY DEF TypeOK, Stats, Snapshots
  <1>d. Mirrors(tracker[d], store[d], pc[d])
    BY DEF MirrorInv
  <1>1. ASSUME NEW c \in Collectors, Poller(c), c # d
        PROVE  tracker'[d] = tracker[d] /\ store'[d] = store[d] /\ pc'[d] = pc[d]
    BY Zenon, <1>t, <1>1 DEF Poller, sleepJitter, TickerFired, PollerDone, CheckCircuit, AcquireGate,
         AcquireSem, RecheckCircuit, StartUpdate, UpdateReturns, Record, RecordClocks, ReleaseSem,
         ReleaseGate
  <1>2. ASSUME Poller(d) PROVE Mirrors(tracker'[d], store'[d], pc'[d])
    <2>1. CASE UNCHANGED <<tracker, store>> /\ pc[d] \notin {"record", "clocks"}
               /\ pc'[d] \notin {"record", "clocks"}
      BY Zenon, <1>d, <2>1 DEF Mirrors
    <2>2. CASE UpdateReturns(d)
      <3>1. PICK r \in Results : store' = [store EXCEPT ![d] = put(@, @.lastPoll + 1, r)]
        BY Zenon, <2>2 DEF UpdateReturns
      <3>2. r \in [ok : BOOLEAN, some : BOOLEAN]
        BY SchedulerConstants
      <3>3. tracker' = tracker /\ pc[d] = "update" /\ pc'[d] = "record"
            /\ store'[d] = put(store[d], store[d].lastPoll + 1, r)
        BY Zenon, <1>t, <2>2, <3>1 DEF UpdateReturns
      <3>4. tracker[d] \in Stats /\ store[d] \in Snapshots
        BY <1>t
      <3> QED  BY Zenon, <1>d, <3>2, <3>3, <3>4, PutMirrors
    <2>3. CASE Record(d)
      <3>1. store' = store /\ pc[d] = "record" /\ pc'[d] = "clocks"
            /\ tracker'[d] = recorded(tracker[d], store[d].lastOK)
        BY <1>t, <2>3 DEF Record
      <3>2. tracker[d] \in Stats /\ store[d] \in Snapshots
        BY <1>t
      <3> QED  BY Zenon, <1>d, <3>1, <3>2, RecordMirrors
    <2>4. CASE RecordClocks(d)
      <3>1. store' = store /\ pc[d] = "clocks" /\ pc'[d] = "release"
            /\ tracker'[d] = clocked(tracker[d], store[d])
        BY <1>t, <2>4 DEF RecordClocks
      <3>2. tracker[d] \in Stats /\ store[d] \in Snapshots
        BY <1>t
      <3> QED  BY Zenon, <1>d, <3>1, <3>2, ClocksMirror
    <2> QED
      BY Zenon, <1>t, <1>2, <2>1, <2>2, <2>3, <2>4 DEF Poller, sleepJitter, TickerFired, PollerDone,
         CheckCircuit, AcquireGate, AcquireSem, RecheckCircuit, StartUpdate, ReleaseSem, ReleaseGate
  <1>3. CASE UNCHANGED <<tracker, store, pc>>  BY <1>d, <1>3
  <1> QED
    BY Zenon, <1>d, <1>1, <1>2, <1>3 DEF Next, HealthDue, HealthDone, pollHealth, StopPolling, StopReturns

\* The console's view of a collector never runs ahead of the store and agrees
\* with it whenever no poll is between the two (pollOnce, RecordClocks).
THEOREM PollTrackerMirrorsStore == Spec => []TrackerMirrorsStore
  <1>1. Init => MirrorInv
    <2> SUFFICES ASSUME Init, NEW c \in Collectors PROVE Mirrors(tracker[c], store[c], pc[c])
      BY DEF MirrorInv
    <2>1. tracker[c] = EmptyStat /\ store[c] = EmptySnapshot /\ pc[c] = "jitter"
      BY DEF Init
    <2>2. Mirrors(EmptyStat, EmptySnapshot, "jitter")
      BY DEF Mirrors, EmptySnapshot, EmptyStat
    <2> QED  BY <2>1, <2>2
  <1>2. MirrorInv => TrackerMirrorsStore
    BY Zenon DEF MirrorInv, Mirrors, TrackerMirrorsStore
  <1> QED  BY <1>1, <1>2, MirrorStep, PollTypeOK, PTL DEF Spec
=============================================================================
