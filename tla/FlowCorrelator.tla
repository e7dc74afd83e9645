--------------------------- MODULE FlowCorrelator ---------------------------
(***************************************************************************)
(* The flow-log lane: internal/flow/correlate.go (fragments of one         *)
(* conversation-window folded into one record), the bridge that ships the  *)
(* record into the log pipeline (internal/logship/flowlog/flowlog.go), and *)
(* the shutdown order that drains it (main.go, stopFlowProducers).         *)
(*                                                                         *)
(* Decoder workers, Zenarmor handlers, the expiry ticker and the shutdown  *)
(* owner share the correlator.  A critical section of its mutex is one     *)
(* step; the records it forces out are emitted afterwards, one step each,  *)
(* outside the lock, so they interleave with everything else.              *)
(*                                                                         *)
(* A fragment's volume is the fragment itself: an accumulator is the set   *)
(* of the fragments summed into it.  The half of a conversation called     *)
(* "fwd" is the one the static evidence prefers (local to remote, then     *)
(* canonical endpoint order); "rev" is its mirror.                         *)
(***************************************************************************)
EXTENDS Naturals, FiniteSets, FiniteSetsExt

CONSTANTS
    Fragments,     \* NetFlow records: [id, key, half, dir, start, seen]
    ConnDocs,      \* Zenarmor conn documents: [id, key, dir, seen]
    Decoders,      \* the goroutines that observe NetFlow records
    Handlers,      \* the goroutines that observe conn documents
    Expirer,       \* the expiry ticker's goroutine
    Stopper,       \* the goroutine that runs AfterSourcesStopped
    MaxEntries,    \* --flow.correlate-max-entries; 0 is unbounded
    MaxPerWindow,  \* the bridge's budget per window; 0 is unlimited
    None

ASSUME FlowConstants ==
    /\ None \notin Fragments \cup ConnDocs
    /\ Fragments \cap ConnDocs = {}
    /\ \A f \in Fragments : f.half \in {"fwd", "rev"}
    /\ Decoders \cap Handlers = {}
    /\ {Expirer, Stopper} \cap (Decoders \cup Handlers) = {}
    /\ Expirer # Stopper
    /\ MaxEntries \in Nat /\ MaxPerWindow \in Nat

VARIABLES
    todo,      \* records not observed yet (in flight, or in the hold buffer)
    cells,     \* corrKey -> entry, for the keys that have one
    pending,   \* goroutine -> records it still has to emit
    bridge,    \* the bridge's callback: "early", "bound", "cleared"
    count,     \* records the budget let through in its current window
    shipped,   \* records handed to the pipeline
    truncated, \* records over the budget
    dropped,   \* records that met no callback, with the bridge's state then
    phase      \* how far shutdown has come

vars == <<todo, cells, pending, bridge, count, shipped, truncated, dropped, phase>>

Goroutines == Decoders \cup Handlers \cup {Expirer, Stopper}

Keys == {r.key : r \in Fragments \cup ConnDocs}

----------------------------------------------------------------------------
(* One entry *)

Entry(seen) ==
    [seen |-> seen, nf |-> {}, nfMirror |-> {}, sample |-> None, mirror |-> None, zen |-> None]

hasNF(e) == e.sample # None

isMirrorOf(sample, r) == sample.half # r.half

\* The first fragment is the sample, the first of the opposite half the mirror.
\* Each fragment's volume goes to the accumulator of its own half.
addFragment(e, r) ==
    LET reverse == hasNF(e) /\ isMirrorOf(e.sample, r)
    IN  [seen     |-> e.seen,
         nf       |-> IF reverse THEN e.nf ELSE e.nf \cup {r},
         nfMirror |-> IF reverse THEN e.nfMirror \cup {r} ELSE e.nfMirror,
         sample   |-> IF hasNF(e) THEN e.sample ELSE r,
         mirror   |-> IF reverse /\ e.mirror = None THEN r ELSE e.mirror,
         zen      |-> e.zen]

\* A conn document replaces the one before it.
addConn(e, r) ==
    [seen |-> e.seen, nf |-> e.nf, nfMirror |-> e.nfMirror,
     sample |-> e.sample, mirror |-> e.mirror, zen |-> r]

\* Does the evidence choose half b's fragment over half a's?  A conn document's
\* direction first, if it tells the halves apart; then the earlier Start; then
\* the static preference.
Prefers(b, a, zen) ==
    IF zen # None /\ zen.dir # "unknown" /\ (a.dir = zen.dir) # (b.dir = zen.dir)
    THEN b.dir = zen.dir
    ELSE IF a.start # b.start THEN b.start < a.start
    ELSE b.half = "fwd"

\* orientation(): is the mirror the half that describes the record?
orientation(e) == e.mirror # None /\ Prefers(e.mirror, e.sample, e.zen)

\* Takes the sample's volume for Tx even when the mirror describes the record.
finalize_SampleIsTx(e) ==
    [half |-> IF orientation(e) THEN e.mirror.half ELSE e.sample.half,
     tx   |-> e.nf,
     rx   |-> e.nfMirror,
     zen  |-> e.zen]

\* The record an entry with NetFlow emits: the chosen half's volume is Tx, the
\* other's Rx; a conn document makes it a merged record.
finalize(e) ==
    [half |-> IF orientation(e) THEN e.mirror.half ELSE e.sample.half,
     tx   |-> IF orientation(e) THEN e.nfMirror ELSE e.nf,
     rx   |-> IF orientation(e) THEN e.nf ELSE e.nfMirror,
     zen  |-> e.zen]

\* What a set of entries emits: nothing for a Zenarmor-only one.
Finals(entries) == {finalize(e) : e \in {x \in entries : hasNF(x)}}

----------------------------------------------------------------------------
(* The accumulator *)

\* evictOldestLocked's victim, none when there is no entry: the top of the heap
\* ordered by firstSeen, ties by key.
Oldest ==
    {k \in DOMAIN cells :
        \A l \in DOMAIN cells : \/ cells[k].seen < cells[l].seen
                                \/ cells[k].seen = cells[l].seen /\ k <= l}

\* Lets one entry too many in.
Victims_OffByOne(k) ==
    IF k \notin DOMAIN cells /\ MaxEntries > 0 /\ Cardinality(DOMAIN cells) > MaxEntries
    THEN Oldest
    ELSE {}

\* The keys a new key's entry pushes out.
Victims(k) ==
    IF k \notin DOMAIN cells /\ MaxEntries > 0 /\ Cardinality(DOMAIN cells) >= MaxEntries
    THEN Oldest
    ELSE {}

Without(keys) == [k \in DOMAIN cells \ keys |-> cells[k]]

With(f, k, e) == [l \in DOMAIN f \cup {k} |-> IF l = k THEN e ELSE f[l]]

----------------------------------------------------------------------------
(* The operations *)

Init ==
    /\ todo = Fragments \cup ConnDocs
    /\ cells = << >>
    /\ pending = [g \in Goroutines |-> {}]
    /\ bridge = "early"
    /\ count = 0
    /\ shipped = {}
    /\ truncated = {}
    /\ dropped = {}
    /\ phase = "running"

\* Forgets to hand the evicted record back for emission.
fold_EvictsSilently(g, r) ==
    LET e   == IF r.key \in DOMAIN cells THEN cells[r.key] ELSE Entry(r.seen)
        new == IF r \in Fragments THEN addFragment(e, r) ELSE addConn(e, r)
    IN  /\ todo' = todo \ {r}
        /\ cells' = With(Without(Victims(r.key)), r.key, new)
        /\ UNCHANGED pending

\* A fold of one record under the lock: find or create the entry (evicting the
\* oldest at the cap), then fold.
fold(g, r) ==
    LET gone == Victims(r.key)
        e    == IF r.key \in DOMAIN cells THEN cells[r.key] ELSE Entry(r.seen)
        new  == IF r \in Fragments THEN addFragment(e, r) ELSE addConn(e, r)
    IN  /\ todo' = todo \ {r}
        /\ cells' = With(Without(gone), r.key, new)
        /\ pending' = [pending EXCEPT ![g] = Finals({cells[k] : k \in gone})]

\* Observe, by a goroutine that has emitted what its previous call forced out.
Observe(g, r) ==
    /\ r \in todo
    /\ pending[g] = {}
    /\ fold(g, r)
    /\ UNCHANGED <<bridge, count, shipped, truncated, dropped, phase>>

\* A decoder worker, until stopNetflow has joined it.
ObserveNetflow == phase \in {"running", "sources"}
    /\ \E g \in Decoders, r \in Fragments : Observe(g, r)

\* A Zenarmor handler, until the Zenarmor source has returned.
ObserveZenarmor == phase = "running"
    /\ \E g \in Handlers, r \in ConnDocs : Observe(g, r)

\* proc.Flush: once the decoders are joined, the stopper itself observes the
\* NetFlow records the hold buffer still has.
FlushHeld == phase = "netflow"
    /\ \E r \in Fragments : Observe(Stopper, r)

\* The entries with an elapsed window are those whose firstSeen is at most some
\* cutoff.  All of them leave; the ones with NetFlow are emitted.
expire(keys) ==
    /\ cells' = Without(keys)
    /\ pending' = [pending EXCEPT ![Expirer] = Finals({cells[k] : k \in keys})]

\* A tick of the expiry ticker, until stopFlowLog has joined its goroutine.
Expire ==
    /\ phase \in {"running", "sources", "netflow"}
    /\ pending[Expirer] = {}
    /\ \E cutoff \in {cells[k].seen : k \in DOMAIN cells} :
           expire({k \in DOMAIN cells : cells[k].seen <= cutoff})
    /\ UNCHANGED <<todo, bridge, count, shipped, truncated, dropped, phase>>

\* Bridge.Run: the pipeline starts the bridge and it keeps the callback.
Bind ==
    /\ bridge = "early"
    /\ bridge' = "bound"
    /\ UNCHANGED <<todo, cells, pending, count, shipped, truncated, dropped, phase>>

\* Bridge.Emit of one record, outside the correlator's lock.  A record that
\* meets no callback is dropped before it can spend the budget.
emit(rec, opens) ==
    LET used == IF opens THEN 0 ELSE count
    IN  IF bridge # "bound" THEN
            /\ dropped' = dropped \cup {[rec |-> rec, bridge |-> bridge]}
            /\ UNCHANGED <<count, shipped, truncated>>
        ELSE IF MaxPerWindow > 0 /\ used >= MaxPerWindow THEN
            /\ count' = used
            /\ truncated' = truncated \cup {rec}
            /\ UNCHANGED <<shipped, dropped>>
        ELSE
            /\ count' = IF MaxPerWindow > 0 THEN used + 1 ELSE count
            /\ shipped' = shipped \cup {rec}
            /\ UNCHANGED <<truncated, dropped>>

\* The budget's clock may have entered a new window (opens) since the last call.
Emit == \E g \in Goroutines : \E rec \in pending[g], opens \in BOOLEAN :
    /\ emit(rec, opens)
    /\ pending' = [pending EXCEPT ![g] = @ \ {rec}]
    /\ UNCHANGED <<todo, cells, bridge, phase>>

----------------------------------------------------------------------------
(* Shutdown *)

\* The pipeline has cancelled and joined its push sources: the bridge's Run
\* (which has stored the callback) and the Zenarmor server's handlers.
SourcesStopped ==
    /\ phase = "running"
    /\ bridge = "bound"
    /\ \A g \in Handlers : pending[g] = {}
    /\ phase' = "sources"
    /\ UNCHANGED <<todo, cells, pending, bridge, count, shipped, truncated, dropped>>

\* Closes the listener without waiting for its workers.
stopNetflow_NoJoin ==
    /\ phase = "sources"
    /\ phase' = "netflow"
    /\ UNCHANGED <<todo, cells, pending, bridge, count, shipped, truncated, dropped>>

\* stopNetflow: the listener is closed, its workers and the release ticker joined.
stopNetflow ==
    /\ phase = "sources"
    /\ \A g \in Decoders : pending[g] = {}
    /\ phase' = "netflow"
    /\ UNCHANGED <<todo, cells, pending, bridge, count, shipped, truncated, dropped>>

\* stopFlowLog: the ticker's goroutine is joined, then Flush empties the
\* accumulator; the stopper emits what it held.
Flush ==
    /\ phase = "netflow"
    /\ pending[Stopper] = {}
    /\ pending[Expirer] = {}
    /\ phase' = "flush"
    /\ cells' = << >>
    /\ pending' = [pending EXCEPT ![Stopper] = Finals({cells[k] : k \in DOMAIN cells})]
    /\ UNCHANGED <<todo, bridge, count, shipped, truncated, dropped>>

\* stopFlowLog's last step: the bridge's callback goes.
Unbind ==
    /\ phase = "flush"
    /\ pending[Stopper] = {}
    /\ phase' = "done"
    /\ bridge' = "cleared"
    /\ UNCHANGED <<todo, cells, pending, count, shipped, truncated, dropped>>

\* Nothing is left to do; not a step of the code, it tells the end of a shutdown
\* from a deadlock.
Done == phase = "done" /\ UNCHANGED vars

Next ==
    \/ ObserveNetflow \/ ObserveZenarmor \/ FlushHeld
    \/ Expire \/ Bind \/ Emit
    \/ SourcesStopped \/ stopNetflow \/ Flush \/ Unbind \/ Done

Spec == Init /\ [][Next]_vars

----------------------------------------------------------------------------
(* Properties *)

TypeOK ==
    /\ todo \subseteq Fragments \cup ConnDocs
    /\ DOMAIN cells \subseteq Keys
    /\ MaxEntries > 0 => Cardinality(DOMAIN cells) <= MaxEntries
    /\ MaxPerWindow > 0 => count <= MaxPerWindow
    /\ DOMAIN pending = Goroutines
    /\ bridge \in {"early", "bound", "cleared"}
    /\ phase \in {"running", "sources", "netflow", "flush", "done"}

Emitted == shipped \cup truncated \cup {d.rec : d \in dropped}

Volume(rec) == rec.tx \cup rec.rx

\* Every place a fragment's volume can be, each tagged with what it is.
Held == {<<"cell", k, cells[k].nf \cup cells[k].nfMirror>> : k \in DOMAIN cells}
Owed == UNION {{<<"pending", g, Volume(rec)>> : rec \in pending[g]} : g \in Goroutines}
Told ==
    {<<"shipped", rec.half, Volume(rec)>> : rec \in shipped}
        \cup {<<"truncated", rec.half, Volume(rec)>> : rec \in truncated}
        \cup {<<"dropped", d.bridge, Volume(d.rec)>> : d \in dropped}

\* Every NetFlow fragment the correlator has folded is in exactly one entry, one
\* record on its way out of the lock or one emitted record, and in one half of
\* it: whatever eviction, expiry, flush and concurrent emission do, its bytes
\* are neither lost nor reported twice (Observe, Expire, Flush, finalize).
FragmentsOnce ==
    /\ \A f \in Fragments \ todo :
           Cardinality({p \in Held \cup Owed \cup Told : f \in p[3]}) = 1
    /\ \A rec \in Emitted : rec.tx \cap rec.rx = {}

\* In every record that leaves, Tx is exactly the volume the half it describes
\* reported and Rx the other half's, in whatever order the halves and a conn
\* document arrived (finalize and the comment on corrEntry.nf).
VolumeByDirection ==
    \A rec \in Emitted : \A f \in Volume(rec) : f \in rec.tx <=> f.half = rec.half

\* When the shutdown owner has finished, the accumulator is empty, no goroutine
\* still owes a record, and no record met a cleared callback: each was flushed
\* into the pipeline while its queue was open (stopFlowProducers, stopFlowLog).
FlowStopClean ==
    phase = "done" =>
        /\ DOMAIN cells = {}
        /\ \A g \in Goroutines : pending[g] = {}
        /\ \A d \in dropped : d.bridge = "early"

\* The half the firewall's clock shows to have started first, over every
\* fragment of the record.
StartedFirst(rec, half) ==
    LET starts(h) == {f.start : f \in {x \in Volume(rec) : x.half = h}}
        other     == IF half = "fwd" THEN "rev" ELSE "fwd"
    IN  /\ starts(half) # {}
        /\ starts(other) # {} => Min(starts(half)) < Min(starts(other))

\* Without a conn document, a record describes the half that started first on
\* the firewall's clock: "the firewall clock is independent of the order
\* datagrams reached us" (comment on corrEntry.orientation).
FirstStarterDescribes ==
    \A rec \in Emitted : \A h \in {"fwd", "rev"} :
        rec.zen = None /\ StartedFirst(rec, h) => rec.half = h
====
