------------------------ MODULE FlowCorrelatorProofs ------------------------
(***************************************************************************)
(* Proofs about FlowCorrelator for every stream of fragments and conn      *)
(* documents, every number of goroutines and every cap.                    *)
(***************************************************************************)
EXTENDS FlowCorrelator, TLAPS

USE DEF vars, Goroutines

-----------------------------------------------------------------------------
(* Shutdown *)

\* Inductive form of FlowStopClean: who has finished at each phase, and that
\* the callback is there from the first phase to the last.
DrainInv ==
    /\ DOMAIN pending = Goroutines
    /\ pending = [g \in Goroutines |-> pending[g]]
    /\ phase \in {"running", "sources", "netflow", "flush", "done"}
    /\ bridge \in {"early", "bound", "cleared"}
    /\ bridge = "early" => phase = "running"
    /\ bridge = "cleared" <=> phase = "done"
    /\ phase # "running" => \A g \in Handlers : pending[g] = {}
    /\ phase \in {"netflow", "flush", "done"} => \A g \in Decoders : pending[g] = {}
    /\ phase \in {"flush", "done"} => pending[Expirer] = {} /\ DOMAIN cells = {}
    /\ phase = "done" => pending[Stopper] = {}
    /\ \A d \in dropped : d.bridge = "early"

\* A fold changes the pending records of its own goroutine only.
LEMMA FoldTouchesOne ==
  ASSUME DrainInv, NEW g \in Goroutines, NEW r, fold(g, r)
  PROVE  /\ DOMAIN pending' = Goroutines
         /\ pending' = [h \in Goroutines |-> pending'[h]]
         /\ \A h \in Goroutines \ {g} : pending'[h] = pending[h]
  BY Zenon DEF fold, DrainInv

LEMMA DrainStep == DrainInv /\ [Next]_vars => DrainInv'
  <1> SUFFICES ASSUME DrainInv, [Next]_vars PROVE DrainInv'
    OBVIOUS
  <1>1. CASE ObserveNetflow
    <2>1. PICK g \in Decoders, r \in Fragments : Observe(g, r)
      BY <1>1 DEF ObserveNetflow
    <2>2. fold(g, r) /\ UNCHANGED <<bridge, dropped, phase>> /\ phase \in {"running", "sources"}
      BY <1>1, <2>1 DEF Observe, ObserveNetflow
    <2>3. \A h \in Goroutines \ {g} : pending'[h] = pending[h]
      BY <2>2, FoldTouchesOne
    <2>4. DOMAIN pending' = Goroutines /\ pending' = [h \in Goroutines |-> pending'[h]]
      BY <2>2, FoldTouchesOne
    <2> QED  BY Zenon, <2>2, <2>3, <2>4, FlowConstants DEF DrainInv
  <1>2. CASE ObserveZenarmor
    <2>1. PICK g \in Handlers, r \in ConnDocs : Observe(g, r)
      BY <1>2 DEF ObserveZenarmor
    <2>2. fold(g, r) /\ UNCHANGED <<bridge, dropped, phase>> /\ phase = "running"
      BY <1>2, <2>1 DEF Observe, ObserveZenarmor
    <2>3. DOMAIN pending' = Goroutines /\ pending' = [h \in Goroutines |-> pending'[h]]
      BY <2>2, FoldTouchesOne
    <2> QED  BY <2>2, <2>3 DEF DrainInv
  <1>3. CASE FlushHeld
    <2>1. PICK r \in Fragments : Observe(Stopper, r)
      BY <1>3 DEF FlushHeld
    <2>2. fold(Stopper, r) /\ UNCHANGED <<bridge, dropped, phase>> /\ phase = "netflow"
      BY <1>3, <2>1 DEF Observe, FlushHeld
    <2>3. \A h \in Goroutines \ {Stopper} : pending'[h] = pending[h]
      BY <2>2, FoldTouchesOne
    <2>4. DOMAIN pending' = Goroutines /\ pending' = [h \in Goroutines |-> pending'[h]]
      BY <2>2, FoldTouchesOne
    <2> QED  BY Zenon, <2>2, <2>3, <2>4, FlowConstants DEF DrainInv
  <1>4. CASE Expire
    <2>1. PICK keys : expire(keys)
      BY <1>4 DEF Expire
    <2>2. UNCHANGED <<bridge, dropped, phase>> /\ phase \in {"running", "sources", "netflow"}
      BY <1>4 DEF Expire
    <2>3. \A h \in Goroutines \ {Expirer} : pending'[h] = pending[h]
      BY <2>1 DEF expire, DrainInv
    <2>4. DOMAIN pending' = Goroutines /\ pending' = [h \in Goroutines |-> pending'[h]]
      BY Zenon, <2>1 DEF expire, DrainInv
    <2> QED  BY Zenon, <2>2, <2>3, <2>4, FlowConstants DEF DrainInv
  <1>5. CASE Bind  BY <1>5 DEF Bind, DrainInv
  <1>6. CASE Emit
    <2>1. PICK g \in Goroutines : \E rec \in pending[g], opens \in BOOLEAN :
            /\ emit(rec, opens)
            /\ pending' = [pending EXCEPT ![g] = @ \ {rec}]
            /\ UNCHANGED <<todo, cells, bridge, phase>>
      BY Zenon, <1>6 DEF Emit
    <2>2. PICK rec \in pending[g], opens \in BOOLEAN :
            /\ emit(rec, opens)
            /\ pending' = [pending EXCEPT ![g] = @ \ {rec}]
            /\ UNCHANGED <<todo, cells, bridge, phase>>
      BY Zenon, <2>1
    <2>3. DOMAIN pending' = Goroutines /\ pending' = [h \in Goroutines |-> pending'[h]]
          /\ \A h \in Goroutines : pending'[h] \subseteq pending[h]
      BY Zenon, <2>2 DEF DrainInv
    <2>4. bridge # "cleared"
      BY <2>2, FlowConstants DEF DrainInv
    <2>5. \A d \in dropped' : d.bridge = "early"
      BY <2>2, <2>4 DEF emit, DrainInv
    <2> QED  BY <2>2, <2>3, <2>5 DEF DrainInv
  <1>7. CASE SourcesStopped  BY <1>7 DEF SourcesStopped, DrainInv
  <1>8. CASE stopNetflow  BY <1>8 DEF stopNetflow, DrainInv
  <1>9. CASE Flush
    <2>1. \A h \in Goroutines \ {Stopper} : pending'[h] = pending[h]
      BY <1>9 DEF Flush, DrainInv
    <2>2. DOMAIN pending' = Goroutines /\ pending' = [h \in Goroutines |-> pending'[h]]
      BY Zenon, <1>9 DEF Flush, DrainInv
    <2>3. DOMAIN cells' = {}
      BY <1>9 DEF Flush
    <2> QED  BY <1>9, <2>1, <2>2, <2>3, FlowConstants DEF Flush, DrainInv
  <1>10. CASE Unbind  BY <1>10 DEF Unbind, DrainInv
  <1>11. CASE UNCHANGED vars  BY <1>11 DEF DrainInv
  <1> QED
    BY <1>1, <1>2, <1>3, <1>4, <1>5, <1>6, <1>7, <1>8, <1>9, <1>10, <1>11 DEF Next, Done

\* A finished shutdown leaves no entry, no goroutine owing a record and no
\* record that met a cleared callback (stopFlowProducers, stopFlowLog).
THEOREM FlowStopLeavesNothing == Spec => []FlowStopClean
  <1>1. Init => DrainInv
    BY DEF Init, DrainInv
  <1>2. DrainInv => FlowStopClean
    BY DEF DrainInv, FlowStopClean
  <1> QED  BY <1>1, <1>2, DrainStep, PTL DEF Spec

-----------------------------------------------------------------------------
(* Direction of the volume *)

\* An entry keeps its sample's half in nf and the mirror's half in nfMirror.
Sorted(e) ==
    /\ e.nf \subseteq Fragments /\ e.nfMirror \subseteq Fragments
    /\ e.sample # None => e.sample \in Fragments
    /\ e.sample = None => e.nf = {}
    /\ e.mirror # None => e.sample # None /\ e.mirror \in Fragments /\ e.mirror.half # e.sample.half
    /\ e.mirror = None => e.nfMirror = {}
    /\ \A f \in e.nf : f.half = e.sample.half
    /\ \A f \in e.nfMirror : f.half # e.sample.half

\* A record's Tx is of its own half and its Rx of the other.
Directed(rec) ==
    /\ \A f \in rec.tx : f.half = rec.half
    /\ \A f \in rec.rx : f.half # rec.half

\* Inductive form of VolumeByDirection.
DirectionInv ==
    /\ \A k \in DOMAIN cells : Sorted(cells[k])
    /\ DOMAIN pending = Goroutines
    /\ \A g \in Goroutines : \A rec \in pending[g] : Directed(rec)
    /\ \A rec \in Emitted : Directed(rec)

LEMMA FragmentSorts ==
  ASSUME NEW e, Sorted(e), NEW r \in Fragments
  PROVE  Sorted(addFragment(e, r))
  <1>1. None \notin Fragments
    BY FlowConstants
  <1>2. CASE hasNF(e) /\ isMirrorOf(e.sample, r)
    BY Zenon, <1>1, <1>2 DEF Sorted, addFragment, hasNF, isMirrorOf
  <1>3. CASE hasNF(e) /\ ~isMirrorOf(e.sample, r)
    BY Zenon, <1>1, <1>3 DEF Sorted, addFragment, hasNF, isMirrorOf
  <1>4. CASE ~hasNF(e)
    BY Zenon, <1>1, <1>4 DEF Sorted, addFragment, hasNF
  <1> QED  BY <1>2, <1>3, <1>4

LEMMA ConnSorts ==
  ASSUME NEW e, Sorted(e), NEW r
  PROVE  Sorted(addConn(e, r))
  BY Zenon DEF Sorted, addConn

LEMMA NewSorts ==
  ASSUME NEW seen
  PROVE  Sorted(Entry(seen))
  BY Zenon DEF Sorted, Entry

LEMMA FinalDirected ==
  ASSUME NEW e, Sorted(e), hasNF(e)
  PROVE  Directed(finalize(e))
  <1>1. \A f \in Fragments : f.half = "fwd" \/ f.half = "rev"
    BY FlowConstants
  <1>2. CASE orientation(e)
    <2>1. e.mirror # None
      BY <1>2 DEF orientation
    <2> QED  BY <1>1, <1>2, <2>1 DEF Sorted, Directed, finalize, hasNF
  <1>3. CASE ~orientation(e)
    BY <1>3 DEF Sorted, Directed, finalize, hasNF
  <1> QED  BY <1>2, <1>3

LEMMA FinalsDirected ==
  ASSUME NEW entries, \A e \in entries : Sorted(e)
  PROVE  \A rec \in Finals(entries) : Directed(rec)
  BY FinalDirected DEF Finals

\* A fold keeps the entries sorted and hands back a directed record.
LEMMA FoldDirects ==
  ASSUME DirectionInv, NEW g \in Goroutines, NEW r \in Fragments \cup ConnDocs, fold(g, r)
  PROVE  /\ \A k \in DOMAIN cells' : Sorted(cells'[k])
         /\ DOMAIN pending' = Goroutines
         /\ \A h \in Goroutines : \A rec \in pending'[h] : Directed(rec)
  <1> DEFINE gone == Victims(r.key)
             old  == IF r.key \in DOMAIN cells THEN cells[r.key] ELSE Entry(r.seen)
             new  == IF r \in Fragments THEN addFragment(old, r) ELSE addConn(old, r)
  <1>1. Sorted(old)
    BY NewSorts DEF DirectionInv
  <1>2. Sorted(new)
    BY <1>1, FragmentSorts, ConnSorts
  <1>3. cells' = With(Without(gone), r.key, new)
    BY DEF fold
  <1>4. gone \subseteq DOMAIN cells
    BY DEF Victims, Oldest
  <1>5. pending' = [pending EXCEPT ![g] = Finals({cells[k] : k \in gone})]
    BY DEF fold
  <1>6. \A rec \in Finals({cells[k] : k \in gone}) : Directed(rec)
    BY <1>4, FinalsDirected DEF DirectionInv
  <1> HIDE DEF gone, new
  <1>7. \A k \in DOMAIN cells' : Sorted(cells'[k])
    BY <1>2, <1>3, <1>4 DEF With, Without, DirectionInv
  <1>8. DOMAIN pending' = Goroutines
    BY <1>5 DEF DirectionInv
  <1>9. ASSUME NEW h \in Goroutines, NEW rec \in pending'[h] PROVE Directed(rec)
    BY <1>5, <1>6, <1>9 DEF DirectionInv
  <1> QED  BY <1>7, <1>8, <1>9

LEMMA DirectionStep == DirectionInv /\ [Next]_vars => DirectionInv'
  <1> SUFFICES ASSUME DirectionInv, [Next]_vars PROVE DirectionInv'
    OBVIOUS
  <1>1. ASSUME NEW g \in Goroutines, NEW r \in Fragments \cup ConnDocs, Observe(g, r)
        PROVE  DirectionInv'
    <2>1. fold(g, r) /\ UNCHANGED <<shipped, truncated, dropped>>
      BY <1>1 DEF Observe
    <2>2. Emitted' = Emitted
      BY <2>1 DEF Emitted
    <2>3. \A k \in DOMAIN cells' : Sorted(cells'[k])
      BY <2>1, FoldDirects
    <2>4. DOMAIN pending' = Goroutines /\ \A h \in Goroutines : \A rec \in pending'[h] : Directed(rec)
      BY <2>1, FoldDirects
    <2> QED  BY Zenon, <2>2, <2>3, <2>4 DEF DirectionInv
  <1>2. CASE ObserveNetflow \/ ObserveZenarmor \/ FlushHeld
    BY <1>1, <1>2 DEF ObserveNetflow, ObserveZenarmor, FlushHeld
  <1>3. CASE Expire
    <2>1. PICK keys \in SUBSET DOMAIN cells : expire(keys)
      BY <1>3 DEF Expire
    <2>2. \A rec \in Finals({cells[k] : k \in keys}) : Directed(rec)
      BY FinalsDirected DEF DirectionInv
    <2>3. Emitted' = Emitted
      BY <1>3 DEF Expire, Emitted
    <2>4. \A k \in DOMAIN cells' : Sorted(cells'[k])
      BY <2>1 DEF expire, Without, DirectionInv
    <2>5. DOMAIN pending' = Goroutines /\ \A h \in Goroutines : \A rec \in pending'[h] : Directed(rec)
      BY <2>1, <2>2 DEF expire, DirectionInv
    <2> QED  BY Zenon, <2>3, <2>4, <2>5 DEF DirectionInv
  <1>4. CASE Emit
    <2>0. PICK g \in Goroutines : \E rec \in pending[g], opens \in BOOLEAN :
            /\ emit(rec, opens)
            /\ pending' = [pending EXCEPT ![g] = @ \ {rec}]
            /\ UNCHANGED <<todo, cells, bridge, phase>>
      BY Zenon, <1>4 DEF Emit
    <2>1. PICK rec \in pending[g], opens \in BOOLEAN :
            /\ emit(rec, opens)
            /\ pending' = [pending EXCEPT ![g] = @ \ {rec}]
            /\ UNCHANGED <<todo, cells, bridge, phase>>
      BY Zenon, <2>0
    <2>2. Emitted' \subseteq Emitted \cup {rec}
      BY <2>1 DEF emit, Emitted
    <2>3. Directed(rec)
      BY DEF DirectionInv
    <2>4. DOMAIN pending' = Goroutines /\ \A h \in Goroutines : pending'[h] \subseteq pending[h]
      BY <2>1 DEF DirectionInv
    <2> QED  BY <2>1, <2>2, <2>3, <2>4 DEF DirectionInv
  <1>5. CASE Flush
    <2>1. \A rec \in Finals({cells[k] : k \in DOMAIN cells}) : Directed(rec)
      BY FinalsDirected DEF DirectionInv
    <2>2. Emitted' = Emitted /\ DOMAIN cells' = {}
      BY <1>5 DEF Flush, Emitted
    <2>3. DOMAIN pending' = Goroutines /\ \A h \in Goroutines : \A rec \in pending'[h] : Directed(rec)
      BY <1>5, <2>1 DEF Flush, DirectionInv
    <2> QED  BY <2>2, <2>3 DEF DirectionInv
  <1>6. CASE UNCHANGED <<cells, pending, shipped, truncated, dropped>>
    BY <1>6 DEF DirectionInv, Emitted
  <1> QED
    BY <1>2, <1>3, <1>4, <1>5, <1>6 DEF Next, Bind, SourcesStopped, stopNetflow, Unbind, Done

\* Every record that leaves the correlator has the volume of the half it
\* describes in Tx and the other half's in Rx (finalize, orientation).
THEOREM FlowVolumeByDirection == Spec => []VolumeByDirection
  <1>1. Init => DirectionInv
    BY DEF Init, DirectionInv, Emitted
  <1>2. DirectionInv => VolumeByDirection
    BY DEF DirectionInv, Directed, VolumeByDirection, Volume
  <1> QED  BY <1>1, <1>2, DirectionStep, PTL DEF Spec
=============================================================================
