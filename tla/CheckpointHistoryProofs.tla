----------------------- MODULE CheckpointHistoryProofs -----------------------
(***************************************************************************)
(* Theorems about CheckpointHistory: type correctness, and that neither a  *)
(* failed invocation nor a verification pass leaves entries behind.        *)
(***************************************************************************)
EXTENDS CheckpointHistory, TLAPS

USE HistoryAssumption

\* Initialising the history yields what was kept, nothing, or the checkpoint.
LEMMA InitOutcomes ==
    ASSUME TypeOK, NEW c \in Confs, NEW kept \in Stores, ~InitFails(c)
    PROVE  /\ HistoryInit(c, kept) \in Stores
           /\ HistoryInit(c, kept) \in {kept, Empty, file}
           /\ HistoryInit(c, kept) = file => file \in Stores
           /\ c.reset /\ ~c.skip => HistoryInit(c, kept) = Empty
           /\ c.skip => HistoryInit(c, kept) = kept
  <1>1. Empty \in Stores
    BY DEF Empty, Stores
  <1>2. file # Torn \/ SparesMemory(c) \/ c.skip
    BY DEF InitFails
  <1> QED
    BY <1>1, <1>2 DEF HistoryInit, Restore, TypeOK

\* Every variable keeps its type.
THEOREM HistoryTyped == Spec => []TypeOK
  <1>1. Init => TypeOK
    BY DEF Init, TypeOK, Empty, Stores, Passes, Invs
  <1>2. TypeOK /\ [Next]_vars => TypeOK'
    <2> SUFFICES ASSUME TypeOK, [Next]_vars PROVE TypeOK'
      OBVIOUS
    <2> USE DEF TypeOK, Passes, Invs
    <2>1. CASE Invoke
      <3>1. inv + 1 \in 1..MaxInv
        BY <2>1 DEF Invoke
      <3>2. store' \in Stores
        <4>1. CASE InitFails(conf')
          BY <2>1, <4>1 DEF Invoke
        <4>2. CASE ~InitFails(conf')
          <5>1. Empty \in Stores
            BY DEF Empty, Stores
          <5> QED
            BY <2>1, <4>2, <5>1, InitOutcomes DEF Invoke
        <4> QED
          BY <4>1, <4>2
      <3> QED
        BY <2>1, <3>1, <3>2 DEF Invoke, Announce
    <2>2. ASSUME NEW k \in Keys, Capture(k) PROVE TypeOK'
      <3>1. [inv |-> inv, pass |-> phase] \in Stamps
        BY <2>2 DEF Capture, Stamps
      <3> QED
        BY <2>2, <3>1 DEF Capture, Stores
    <2>3. CASE BeginRun
      <3>1. store' \in Stores
        BY <2>3, InitOutcomes DEF BeginRun
      <3> QED
        BY <2>3, <3>1 DEF BeginRun, Announce
    <2>4. CASE BeginSave
      BY <2>4 DEF BeginSave
    <2>5. CASE EndSave
      BY <2>5 DEF EndSave
    <2>6. CASE EndUnsaved
      BY <2>6 DEF EndUnsaved
    <2>7. CASE Abort
      BY <2>7 DEF Abort, LeftByAbort
    <2>8. CASE UNCHANGED vars
      BY <2>8 DEF vars
    <2> QED
      BY <2>1, <2>2, <2>3, <2>4, <2>5, <2>6, <2>7, <2>8 DEF Next
  <1> QED
    BY <1>1, <1>2, PTL DEF Spec

-----------------------------------------------------------------------------
(***************************************************************************)
(* The inductive invariant: who captured what is in a store, key by key.   *)
(***************************************************************************)
Trusted(s, by) ==
    \A k \in Keys : s[k] # None =>
        /\ s[k].inv \in by
        /\ k \in RunOnly => s[k].pass = "run"

Provenance ==
    /\ Whole => Trusted(file, completed)
    /\ Alive => Trusted(store, completed \cup {inv})
    /\ Alive /\ conf.reset => Trusted(store, {inv})

\* The invariant speaks of entries key by key; the properties follow.
LEMMA ProvenanceShows ==
    ASSUME TypeOK, Provenance
    PROVE  FromCompleted /\ VerificationLeavesNoLock /\ ResetForgets
  BY DEF Provenance, Trusted, FromCompleted, VerificationLeavesNoLock,
         ResetForgets, Entries, Whole, Alive

\* More invocations to trust never hurt.
LEMMA TrustGrows ==
    ASSUME NEW s, NEW X, NEW Y, X \subseteq Y, Trusted(s, X)
    PROVE  Trusted(s, Y)
  BY DEF Trusted

LEMMA EmptyTrusted == \A X : Trusted(Empty, X)
  BY DEF Trusted, Empty

\* No step brings in an entry of an invocation that did not complete, or a
\* lock of a verification pass.
LEMMA ProvenanceStep == TypeOK /\ TypeOK' /\ Provenance /\ [Next]_vars => Provenance'
  <1> SUFFICES ASSUME TypeOK, TypeOK', Provenance, [Next]_vars PROVE Provenance'
    OBVIOUS
  <1>a. None \notin Stores /\ Torn \notin Stores
    OBVIOUS
  <1>1. CASE Invoke
    <2>1. file' = file /\ completed' = completed
      BY <1>1 DEF Invoke
    <2>2. (Whole => Trusted(file, completed))'
      BY <2>1 DEF Provenance, Whole, Trusted
    <2>3. CASE InitFails(conf')
      BY <1>1, <2>2, <2>3 DEF Invoke, Provenance, Alive
    <2>4. CASE ~InitFails(conf')
      <3>1. store' = HistoryInit(conf', Empty) /\ phase' = "verify"
        BY <1>1, <2>4 DEF Invoke
      <3>2. conf' \in Confs /\ Empty \in Stores
        BY <1>1 DEF Invoke, Empty, Stores
      <3>3. /\ store' \in {Empty, file}
            /\ store' = file => file \in Stores
            /\ conf'.reset => store' = Empty
        BY <3>1, <3>2, <2>4, InitOutcomes
      <3>4. Trusted(store', completed \cup {inv'})
        <4>1. CASE store' = Empty
          BY <4>1, EmptyTrusted
        <4>2. CASE store' = file
          <5>1. Whole
            BY <3>3, <4>2, <1>a DEF Whole
          <5>2. Trusted(file, completed)
            BY <5>1 DEF Provenance
          <5> QED
            BY <5>2, <4>2, TrustGrows
        <4> QED
          BY <3>3, <4>1, <4>2
      <3>5. conf'.reset => Trusted(store', {inv'})
        BY <3>3, EmptyTrusted
      <3> QED
        BY <3>1, <3>4, <3>5, <2>1, <2>2 DEF Provenance, Alive
    <2> QED
      BY <2>3, <2>4
  <1>2. ASSUME NEW k \in Keys, Capture(k) PROVE Provenance'
    <2>1. /\ store' = [store EXCEPT ![k] = [inv |-> inv, pass |-> phase]]
          /\ phase \in Passes /\ (k \in RunOnly => phase = "run")
          /\ UNCHANGED <<phase, inv, conf, file, completed>>
      BY <1>2 DEF Capture, Captured
    <2>2. Alive
      BY <2>1 DEF Alive, Passes
    <2>3. ASSUME NEW X, inv \in X, Trusted(store, X) PROVE Trusted(store', X)
      BY <2>1, <2>3 DEF Trusted, TypeOK, Stores
    <2>4. Trusted(store', completed \cup {inv})
      BY <2>2, <2>3 DEF Provenance
    <2>5. conf.reset => Trusted(store', {inv})
      BY <2>2, <2>3 DEF Provenance
    <2>6. (Whole => Trusted(file, completed))'
      BY <2>1 DEF Provenance, Whole, Trusted
    <2> QED
      BY <2>1, <2>2, <2>4, <2>5, <2>6 DEF Provenance, Alive
  <1>3. CASE BeginRun
    <2>1. UNCHANGED <<inv, conf, file, completed>> /\ Alive
      BY <1>3 DEF BeginRun, Alive
    <2>2. (Whole => Trusted(file, completed))'
      BY <2>1 DEF Provenance, Whole, Trusted
    <2>3. CASE InitFails(conf)
      BY <1>3, <2>2, <2>3 DEF BeginRun, Provenance, Alive
    <2>4. CASE ~InitFails(conf)
      <3>1. store' = HistoryInit(conf, store) /\ phase' = "run"
        BY <1>3, <2>4 DEF BeginRun
      <3>2. /\ store' \in {store, Empty, file}
            /\ store' = file => file \in Stores
            /\ conf.reset /\ ~conf.skip => store' = Empty
            /\ conf.skip => store' = store
        BY <3>1, <2>4, InitOutcomes DEF TypeOK
      <3>3. Trusted(store', completed \cup {inv})
        <4>1. CASE store' = store
          BY <4>1, <2>1 DEF Provenance
        <4>2. CASE store' = Empty
          BY <4>2, EmptyTrusted
        <4>3. CASE store' = file
          <5>1. Whole
            BY <3>2, <4>3, <1>a DEF Whole
          <5>2. Trusted(file, completed)
            BY <5>1 DEF Provenance
          <5> QED
            BY <5>2, <4>3, TrustGrows
        <4> QED
          BY <3>2, <4>1, <4>2, <4>3
      <3>4. conf.reset => Trusted(store', {inv})
        BY <3>2, <2>1, EmptyTrusted DEF Provenance
      <3> QED
        BY <3>1, <3>3, <3>4, <2>1, <2>2 DEF Provenance, Alive
    <2> QED
      BY <2>3, <2>4
  <1>4. CASE BeginSave
    BY <1>4 DEF BeginSave, Provenance, Alive, Whole, Trusted
  <1>5. CASE EndSave
    <2>1. /\ file' = store /\ completed' = completed \cup {inv}
          /\ phase = "saving" /\ phase' = "idle"
      BY <1>5 DEF EndSave
    <2>2. Trusted(store, completed \cup {inv})
      BY <2>1 DEF Provenance, Alive
    <2> QED
      BY <2>1, <2>2 DEF Provenance, Alive, Whole
  <1>6. CASE EndUnsaved
    BY <1>6 DEF EndUnsaved, Provenance, Alive, Whole, Trusted
  <1>7. CASE Abort
    BY <1>7 DEF Abort, LeftByAbort, Provenance, Alive, Whole, Trusted
  <1>8. CASE UNCHANGED vars
    BY <1>8 DEF vars, Provenance, Alive, Whole, Trusted
  <1> QED
    BY <1>1, <1>2, <1>3, <1>4, <1>5, <1>6, <1>7, <1>8 DEF Next

\* An invocation that fails or dies leaves nothing in the checkpoint, a
\* verification pass leaves no lock and no TAP write, and reset_history hides
\* everything older, whatever the command lines and however many invocations.
THEOREM HistoryClean ==
    Spec => []FromCompleted /\ []VerificationLeavesNoLock /\ []ResetForgets
  <1>1. Init => Provenance
    BY DEF Init, Provenance, Whole, Alive
  <1>2. TypeOK /\ TypeOK' /\ Provenance /\ [Next]_vars => Provenance'
    BY ProvenanceStep
  <1>3. TypeOK /\ Provenance
          => FromCompleted /\ VerificationLeavesNoLock /\ ResetForgets
    BY ProvenanceShows
  <1> QED
    BY <1>1, <1>2, <1>3, HistoryTyped, PTL DEF Spec

-----------------------------------------------------------------------------
(***************************************************************************)
(* What the checkpoint means to the passes.  Both facts are inductive.     *)
(***************************************************************************)
InForce == CheckpointInForce /\ TornBlocks

\* An initialisation that does not fail, does not reset and does not skip
\* either spares the history or yields the checkpoint.
LEMMA InForceStep == TypeOK /\ InForce /\ [Next]_vars => InForce'
  <1> SUFFICES ASSUME TypeOK, InForce, [Next]_vars PROVE InForce'
    OBVIOUS
  <1> USE DEF InForce, CheckpointInForce, TornBlocks, Whole, Passes
  <1>1. CASE Invoke
    BY <1>1 DEF Invoke, InitFails, HistoryInit, Restore, SparesMemory
  <1>2. ASSUME NEW k \in Keys, Capture(k) PROVE InForce'
    <2>1. /\ store' = [store EXCEPT ![k] = [inv |-> inv, pass |-> phase]]
          /\ UNCHANGED <<phase, conf, file>> /\ phase \in Passes
      BY <1>2 DEF Capture
    <2>2. [inv |-> inv, pass |-> phase] \in Stamps
      BY <2>1 DEF Stamps, TypeOK, Invs
    <2>3. \A j \in Keys : store[j] # None => store'[j] # None
      BY <2>1, <2>2 DEF TypeOK, Stores
    <2> QED
      BY <2>1, <2>3 DEF SparesMemory
  <1>3. CASE BeginRun
    BY <1>3 DEF BeginRun, InitFails, HistoryInit, Restore, SparesMemory
  <1>4. CASE BeginSave
    BY <1>4 DEF BeginSave
  <1>5. CASE EndSave
    BY <1>5 DEF EndSave
  <1>6. CASE EndUnsaved
    BY <1>6 DEF EndUnsaved
  <1>7. CASE Abort
    BY <1>7 DEF Abort
  <1>8. CASE UNCHANGED vars
    BY <1>8 DEF vars, SparesMemory
  <1> QED
    BY <1>1, <1>2, <1>3, <1>4, <1>5, <1>6, <1>7, <1>8 DEF Next

LEMMA InForceAlways == Spec => []InForce
  <1>1. Init => InForce
    BY DEF Init, InForce, CheckpointInForce, TornBlocks, Passes
  <1> QED
    BY <1>1, InForceStep, HistoryTyped, PTL DEF Spec

\* No step of a pass drops what the checkpoint holds: where it was restored,
\* HistoryInit, every capture and every second initialisation keep its keys.
THEOREM HistoryInForce == Spec => []CheckpointInForce
  <1>1. InForce => CheckpointInForce
    BY DEF InForce
  <1> QED
    BY <1>1, InForceAlways, PTL

\* A torn checkpoint blocks every pass but those of flow 1 and those that keep
\* no history, however many invocations came between: restoring it fails.
THEOREM TornCheckpointBlocks == Spec => []TornBlocks
  <1>1. InForce => TornBlocks
    BY DEF InForce
  <1> QED
    BY <1>1, InForceAlways, PTL
=============================================================================
