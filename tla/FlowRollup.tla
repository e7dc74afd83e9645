----------------------------- MODULE FlowRollup -----------------------------
(***************************************************************************)
(* The flow-metric accumulator, internal/flow/rollup.go: cumulative volume *)
(* per label combination, at most maxKeys of them live, the topN largest   *)
(* by bytes exported at each scrape and the rest folded into one remainder *)
(* series per source.  Every method is one critical section of r.mu, hence *)
(* one step.  Of the three counters of an entry two are kept: bytes, which *)
(* rank the keys, and flows, which (like packets) ride along.              *)
(***************************************************************************)
EXTENDS Naturals, FiniteSets, FiniteSetsExt

CONSTANTS
    Keys,          \* label combinations, numbered in lessKey's order
    Source(_),     \* the source label of a combination
    Sizes,         \* the bytes a record can carry
    Bounds,        \* the pairs <<topN, maxKeys>> SetBounds may install; 0 is unbounded
    MaxRecords     \* bound on the records observed

VARIABLES
    cells,     \* key -> [cum, folded], for the live keys
    other,     \* source -> remainder, once something was folded
    bounds,    \* <<topN, maxKeys>>
    observed,  \* every record so far, per source: what the sum must equal
    snap,      \* the series the last Snapshot returned
    current    \* nothing was observed since

vars == <<cells, other, bounds, observed, snap, current>>

Sources == {Source(k) : k \in Keys}

topN == bounds[1]

maxKeys == bounds[2]

----------------------------------------------------------------------------
(* Volumes *)

Zero == [bytes |-> 0, flows |-> 0]

add(v, w) == [bytes |-> v.bytes + w.bytes, flows |-> v.flows + w.flows]

minus(v, w) == [bytes |-> v.bytes - w.bytes, flows |-> v.flows - w.flows]

AtMost(v, w) == v.bytes <= w.bytes /\ v.flows <= w.flows

Total(f, S) ==
    [bytes |-> MapThenSumSet(LAMBDA x : f[x].bytes, S),
     flows |-> MapThenSumSet(LAMBDA x : f[x].flows, S)]

----------------------------------------------------------------------------
(* The remainder *)

\* otherFor(s).add(...): the remainder of a source exists from its first fold.
fold(f, s, v) ==
    [t \in DOMAIN f \cup {s} |->
        LET old == IF t \in DOMAIN f THEN f[t] ELSE Zero
        IN  IF t = s THEN add(old, v) ELSE old]

----------------------------------------------------------------------------
(* The operations *)

Init ==
    /\ cells = << >>
    /\ other = << >>
    /\ bounds \in Bounds
    /\ observed = [s \in Sources |-> Zero]
    /\ snap = << >>
    /\ current = TRUE

SetBounds ==
    /\ bounds' \in Bounds \ {bounds}
    /\ UNCHANGED <<cells, other, observed, snap, current>>

\* Adds a record of key k to its cell; a novel key at the cap goes straight to
\* its source's remainder.
observe_CapDrops(k, v) ==
    LET full == k \notin DOMAIN cells /\ maxKeys > 0 /\ Cardinality(DOMAIN cells) >= maxKeys
        cell == IF k \in DOMAIN cells THEN cells[k] ELSE [cum |-> Zero, folded |-> Zero]
    IN  /\ UNCHANGED other
        /\ cells' = IF full THEN cells
                    ELSE [l \in DOMAIN cells \cup {k} |->
                             IF l = k THEN [cell EXCEPT !.cum = add(@, v)] ELSE cells[l]]

observe(k, v) ==
    LET full == k \notin DOMAIN cells /\ maxKeys > 0 /\ Cardinality(DOMAIN cells) >= maxKeys
        cell == IF k \in DOMAIN cells THEN cells[k] ELSE [cum |-> Zero, folded |-> Zero]
    IN  /\ other' = IF full THEN fold(other, Source(k), v) ELSE other
        /\ cells' = IF full THEN cells
                    ELSE [l \in DOMAIN cells \cup {k} |->
                             IF l = k THEN [cell EXCEPT !.cum = add(@, v)] ELSE cells[l]]

Observe == \E k \in Keys, b \in Sizes :
    LET v == [bytes |-> b, flows |-> 1]
    IN  /\ MapThenSumSet(LAMBDA s : observed[s].flows, Sources) < MaxRecords
        /\ observe(k, v)
        /\ observed' = [observed EXCEPT ![Source(k)] = add(@, v)]
        /\ current' = FALSE
        /\ UNCHANGED <<bounds, snap>>

\* The keys Snapshot ranks before k: more bytes, ties by lessKey.
Ahead(k) ==
    {l \in DOMAIN cells :
        \/ cells[l].cum.bytes > cells[k].cum.bytes
        \/ cells[l].cum.bytes = cells[k].cum.bytes /\ l < k}

\* The keys beyond the cut.
Tail == {k \in DOMAIN cells : topN > 0 /\ Cardinality(Ahead(k)) >= topN}

Unfolded(k) == minus(cells[k].cum, cells[k].folded)

\* The remainders once the tail's deltas are folded in.
FoldedOther ==
    LET sources == DOMAIN other \cup {Source(k) : k \in Tail}
    IN  [s \in sources |->
            add(IF s \in DOMAIN other THEN other[s] ELSE Zero,
                Total([k \in DOMAIN cells |-> Unfolded(k)], {k \in Tail : Source(k) = s}))]

\* Series names: <<"key", k>> and <<"other", source>>.
Series(top, rest) ==
    [n \in ({"key"} \X top) \cup ({"other"} \X DOMAIN rest) |->
        IF n[1] = "key" THEN Unfolded(n[2]) ELSE rest[n[2]]]

\* The obvious implementation: the remainder is the tail's cumulative total,
\* computed afresh, and a key in the top N emits its own.
Snapshot_FoldsCumulative ==
    LET sources == DOMAIN other \cup {Source(k) : k \in Tail}
        tail(s) == {k \in Tail : Source(k) = s}
        rest    == [s \in sources |->
                       add(IF s \in DOMAIN other THEN other[s] ELSE Zero,
                           Total([k \in DOMAIN cells |-> cells[k].cum], tail(s)))]
    IN  /\ snap' = Series(DOMAIN cells \ Tail, rest)
        /\ current' = TRUE
        /\ UNCHANGED <<cells, other, bounds, observed>>

\* Snapshot: a key outside the top N has its delta moved to the remainder and
\* its watermark advanced; a key inside emits what was not moved there.
Snapshot ==
    /\ other' = FoldedOther
    /\ cells' = [k \in DOMAIN cells |->
                    IF k \in Tail THEN [cells[k] EXCEPT !.folded = cells[k].cum] ELSE cells[k]]
    /\ snap' = Series(DOMAIN cells \ Tail, FoldedOther)
    /\ current' = TRUE
    /\ UNCHANGED <<bounds, observed>>

Next == SetBounds \/ Observe \/ Snapshot

Spec == Init /\ [][Next]_vars

----------------------------------------------------------------------------
(* Properties *)

TypeOK ==
    /\ DOMAIN cells \subseteq Keys
    /\ DOMAIN other \subseteq Sources
    /\ \A k \in DOMAIN cells : AtMost(cells[k].folded, cells[k].cum)
    /\ bounds \in Bounds

SeriesOf(s) ==
    {n \in DOMAIN snap : (n[1] = "key" /\ Source(n[2]) = s) \/ n = <<"other", s>>}

\* What Snapshot returned sums, for each source and each counter, to exactly
\* what was observed of that source, whatever the caps folded and however often
\* a key crossed the cut (comment on Rollup.Snapshot).
SnapshotExact ==
    current => \A s \in Sources : Total(snap, SeriesOf(s)) = observed[s]

\* From one Snapshot to the next a series that both return never falls, and a
\* remainder once returned is returned again: the watermark keeps all counters
\* monotone under churn of the top N, not the ranked one alone (rollupCell).
SeriesMonotone ==
    [][/\ \A n \in DOMAIN snap \cap DOMAIN snap' : AtMost(snap[n], snap'[n])
       /\ \A n \in DOMAIN snap : n[1] = "other" => n \in DOMAIN snap']_vars
=============================================================================
