----------------------- MODULE DropOldestQueueProofs ------------------------
(***************************************************************************)
(* Proofs about DropOldestQueue, for every capacity and batch size.        *)
(***************************************************************************)
EXTENDS DropOldestQueue, TLAPS

\* Positions and record numbers that differ by a constant offset.
LEMMA ShiftDown ==
    ASSUME NEW b \in Nat, NEW k \in Nat, NEW r \in (b + 1)..(b + k)
    PROVE  r - b \in 1..k /\ b + (r - b) = r
  OBVIOUS

LEMMA ShiftUp ==
    ASSUME NEW b \in Nat, NEW k \in Nat, NEW i \in 1..k
    PROVE  b + i \in (b + 1)..(b + k)
  OBVIOUS

\* A position of a prefix is a position of the whole.
LEMMA PrefixPosition ==
    ASSUME NEW len \in Nat, NEW k \in 0..len, NEW i \in 1..k
    PROVE  i \in 1..len
  OBVIOUS

\* A position behind a prefix of c.
LEMMA AfterPrefix ==
    ASSUME NEW c \in Nat, NEW len \in Nat, c <= len, NEW i \in 1..(len - c)
    PROVE  c + i \in 1..len /\ \A j \in 1..c : c + i # j
  OBVIOUS

\* Record numbers are in the order of their positions.
LEMMA ShiftOrder ==
    ASSUME NEW b \in Nat, NEW k \in Nat
    PROVE  /\ \A i, j \in 1..k : i < j => b + i < b + j
           /\ \A r \in 1..b, i \in 1..k : b + i > r
  OBVIOUS

\* Two adjacent ranges of record numbers.
LEMMA AdjacentRanges ==
    ASSUME NEW b \in Nat, NEW k \in Nat
    PROVE  /\ (1..b) \cup ((b + 1)..(b + k)) = 1..(b + k)
           /\ (1..b) \cap ((b + 1)..(b + k)) = {}
  OBVIOUS

\* The first k entries of a sequence (the batch drainUpTo takes).
LEMMA FirstFacts ==
    ASSUME NEW S, NEW s \in Seq(S), NEW k \in 0..Len(s)
    PROVE  /\ SubSeq(s, 1, k) \in Seq(S)
           /\ Len(SubSeq(s, 1, k)) = k
           /\ \A i \in 1..k : SubSeq(s, 1, k)[i] = s[i]
  OBVIOUS

\* What is left of a sequence after its k oldest entries are dropped, and
\* which entries those are (evictOldestLocked, and the end of drainUpTo).
LEMMA DropOldestFacts ==
    ASSUME NEW S, NEW s \in Seq(S), NEW k \in 0..Len(s)
    PROVE  /\ DropOldest(s, k) \in Seq(S)
           /\ Len(DropOldest(s, k)) = Len(s) - k
           /\ \A i \in 1..(Len(s) - k) : DropOldest(s, k)[i] = s[k + i]
  BY DEF DropOldest

LEMMA EntryIsNat ==
    ASSUME NEW s \in Seq(Nat), NEW i \in 1..Len(s)
    PROVE  s[i] \in Nat
  OBVIOUS

\* Appending one entry.
LEMMA AppendFacts ==
    ASSUME NEW S, NEW s \in Seq(S), NEW e \in S
    PROVE  /\ Append(s, e) \in Seq(S)
           /\ Len(Append(s, e)) = Len(s) + 1
           /\ \A i \in 1..Len(s) : Append(s, e)[i] = s[i]
           /\ Append(s, e)[Len(s) + 1] = e
  OBVIOUS

\* A sequence is the function of its entries.
LEMMA SeqIsFunction ==
    ASSUME NEW S, NEW s \in Seq(S)
    PROVE  s = [i \in 1..Len(s) |-> s[i]]
  OBVIOUS

\* Inductive form of NewestKept and OverflowIsGone: entry i of the queue is
\* record admitted - Len(buf) + i, and only older records have overflowed.
QueueInv ==
    /\ QueueTypeOK
    /\ Len(buf) <= Cap /\ Len(buf) <= admitted
    /\ \A i \in 1..Len(buf) : buf[i] = admitted - Len(buf) + i
    /\ overflow \subseteq 1..(admitted - Len(buf))
    /\ NeverSleepsOnWork

LEMMA QueueInvInit == QueueInit => QueueInv
  <1> SUFFICES ASSUME QueueInit PROVE QueueInv
    OBVIOUS
  <1>1. buf = <<>> /\ buf \in Seq(Nat) /\ Len(buf) = 0
    BY DEF QueueInit
  <1>2. overflow \subseteq 1..(admitted - Len(buf))
    BY <1>1 DEF QueueInit
  <1>3. QueueTypeOK
    BY Zenon, <1>1 DEF QueueInit, QueueTypeOK
  <1>4. NeverSleepsOnWork
    BY DEF QueueInit, NeverSleepsOnWork
  <1>5. Len(buf) <= Cap /\ Len(buf) <= admitted /\ 1..Len(buf) = {}
    BY <1>1, QueueConstants DEF QueueInit
  <1> QED
    BY <1>2, <1>3, <1>4, <1>5 DEF QueueInv

LEMMA QueueInvPushOpen ==
    ASSUME QueueInv, pushOpen PROVE QueueInv'
  <1> DEFINE s == Append(buf, admitted + 1)
  <1>0. buf \in Seq(Nat) /\ admitted \in Nat
    BY DEF QueueInv, QueueTypeOK
  <1>1. PICK k \in 0..Len(s) : /\ Len(s) - k <= Cap
                               /\ buf' = DropOldest(s, k)
                               /\ overflow' = overflow \cup Oldest(s, k)
    BY DEF pushOpen
  <1>2. s \in Seq(Nat) /\ Len(s) = Len(buf) + 1
    BY <1>0
  <1>3. \A i \in 1..Len(s) : s[i] = admitted + 1 - Len(s) + i
    BY <1>0, <1>2 DEF QueueInv
  <1> HIDE DEF s
  <1>4. /\ buf' \in Seq(Nat)
        /\ Len(buf') = Len(s) - k
        /\ \A i \in 1..(Len(s) - k) : buf'[i] = s[k + i]
    BY Zenon, <1>1, <1>2, DropOldestFacts
  <1>5. admitted' = admitted + 1 /\ asleep' = FALSE /\ closed' = closed /\ ignored' = ignored
    BY DEF pushOpen
  <1>6. Len(buf') <= Cap /\ Len(buf') <= admitted'
    BY <1>0, <1>1, <1>2, <1>4, <1>5 DEF QueueInv
  <1>7. ASSUME NEW i \in 1..Len(buf') PROVE buf'[i] = admitted' - Len(buf') + i
    <2>0. Len(buf) \in Nat /\ Len(s) \in Nat /\ k \in Nat /\ k <= Len(s)
      BY <1>0, <1>2
    <2>1. /\ Len(buf) \in Nat /\ Len(s) \in Nat
          /\ i \in 1..(Len(s) - k) /\ k + i \in 1..Len(s)
      BY Zenon, <1>4, <2>0, AfterPrefix
    <2>2. buf'[i] = s[k + i] /\ s[k + i] = admitted + 1 - Len(s) + (k + i)
      BY Zenon, <2>1, <1>3, <1>4
    <2> QED
      BY <2>1, <2>2, <1>0, <1>4, <1>5
  <1>8. ASSUME NEW r \in overflow' PROVE r \in 1..(admitted' - Len(buf'))
    <2>1. CASE r \in overflow
      BY <2>1, <1>0, <1>2, <1>4, <1>5 DEF QueueInv
    <2>2. CASE r \in Oldest(s, k)
      <3>1. PICK i \in 1..k : r = s[i]
        BY <2>2 DEF Oldest
      <3>2. r = admitted + 1 - Len(s) + i
        BY <3>1, <1>2, <1>3
      <3> QED
        BY <3>1, <3>2, <1>0, <1>2, <1>4, <1>5 DEF QueueInv
    <2> QED
      BY <2>1, <2>2, <1>1
  <1>10. overflow' \subseteq 1..admitted'
    BY <1>0, <1>2, <1>4, <1>5, <1>8
  <1>11. overflow' \subseteq 1..(admitted' - Len(buf'))
    BY <1>8
  <1>12. NeverSleepsOnWork'
    BY <1>5 DEF NeverSleepsOnWork
  <1>9. QueueTypeOK'
    <2>1. closed' \in BOOLEAN /\ asleep' \in BOOLEAN
      BY Zenon, <1>5 DEF QueueInv, QueueTypeOK
    <2>2. admitted' \in Nat /\ ignored' \in Nat
      BY <1>0, <1>5 DEF QueueInv, QueueTypeOK
    <2> QED
      BY <2>1, <2>2, <1>4, <1>10 DEF QueueTypeOK
  <1> QED
    BY <1>6, <1>7, <1>9, <1>11, <1>12 DEF QueueInv

LEMMA QueueInvDrain ==
    ASSUME QueueInv, NEW n \in Nat, drainUpTo(n) PROVE QueueInv'
  <1>0. buf \in Seq(Nat) /\ admitted \in Nat /\ n \in 0..Len(buf)
    BY DEF QueueInv, QueueTypeOK, drainUpTo
  <1>1. /\ buf' \in Seq(Nat)
        /\ Len(buf') = Len(buf) - n
        /\ \A i \in 1..(Len(buf) - n) : buf'[i] = buf[n + i]
    BY Zenon, <1>0, DropOldestFacts DEF drainUpTo
  <1>2. \A i \in 1..Len(buf') : buf'[i] = admitted - Len(buf') + i
    BY <1>0, <1>1 DEF QueueInv
  <1> QED
    BY <1>0, <1>1, <1>2, QueueConstants DEF drainUpTo, QueueInv, QueueTypeOK, NeverSleepsOnWork

\* Every queue operation preserves the invariant.
LEMMA QueueInvStep == QueueInv /\ [QueueNext]_queueVars => QueueInv'
  <1> SUFFICES ASSUME QueueInv, [QueueNext]_queueVars PROVE QueueInv'
    OBVIOUS
  <1>1. CASE pushOpen
    BY <1>1, QueueInvPushOpen
  <1>2. CASE pushClosed
    BY <1>2 DEF pushClosed, QueueInv, QueueTypeOK, NeverSleepsOnWork
  <1>3. CASE close
    BY Zenon, <1>3 DEF close, QueueInv, QueueTypeOK, NeverSleepsOnWork
  <1>4. CASE drainWait
    BY <1>4 DEF drainWait, QueueInv, QueueTypeOK, NeverSleepsOnWork
  <1>5. CASE \E n \in 1..BatchMax : drainUpTo(n)
    BY <1>5, QueueInvDrain, QueueConstants
  <1>6. CASE UNCHANGED queueVars
    BY <1>6 DEF queueVars, QueueInv, QueueTypeOK, NeverSleepsOnWork
  <1> QED
    BY <1>1, <1>2, <1>3, <1>4, <1>5, <1>6 DEF QueueNext, push

LEMMA QueueInvImplies ==
    QueueInv => QueueTypeOK /\ NewestKept /\ OverflowIsGone /\ NeverSleepsOnWork
  <1> SUFFICES ASSUME QueueInv
               PROVE  QueueTypeOK /\ NewestKept /\ OverflowIsGone /\ NeverSleepsOnWork
    OBVIOUS
  <1>0. buf \in Seq(Nat) /\ admitted \in Nat
    BY DEF QueueInv, QueueTypeOK
  <1>1. buf = [i \in 1..Len(buf) |-> admitted - Len(buf) + i]
    BY <1>0, SeqIsFunction DEF QueueInv
  <1>2. OverflowIsGone
    BY <1>0 DEF QueueInv, OverflowIsGone
  <1> QED
    BY <1>1, <1>2 DEF QueueInv, NewestKept

\* The queue always holds exactly the newest run of what push admitted, at
\* most Cap records, whatever the byte budget evicts and the emitter drains.
THEOREM QueueKeepsNewest == QueueSpec => []NewestKept
  BY QueueInvInit, QueueInvStep, QueueInvImplies, PTL DEF QueueSpec

\* No record is both queued and counted as overflow (onDrop).
THEOREM QueueOverflowIsGone == QueueSpec => []OverflowIsGone
  BY QueueInvInit, QueueInvStep, QueueInvImplies, PTL DEF QueueSpec

\* q.cond.Signal and Broadcast leave no lost wake-up: the emitter is never
\* parked while the queue holds a record or is closed.
THEOREM QueueNeverSleepsOnWork == QueueSpec => []NeverSleepsOnWork
  BY QueueInvInit, QueueInvStep, QueueInvImplies, PTL DEF QueueSpec
=============================================================================
